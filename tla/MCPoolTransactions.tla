------------------------ MODULE MCPoolTransactions ------------------------
(* An instance of PoolTransactions for TLC: a pool with the credential b or  *)
(* empty, the credential o a transaction adds, and u, which only others use. *)
EXTENDS PoolTransactions

CONSTANTS b, o, u, good, dead, p1

MCName == {b, o, u}
MCContent == {good, dead}
MCDead == {dead}
MCNone == {}
MCPools == {[n \in {b, o, u} |-> IF n = b THEN f ELSE Absent] : f \in {good, dead, Absent}}
MCOwn == [n \in {o} |-> good]
MCHealth == {p1}
MCModes == [p \in {p1} |-> {"sweep"}]

\* Acceptances and promotions start from a pool that serves.
MCInit == TxnInit /\ (auth[b] = dead => t.kind = "active")
MCSpec == MCInit /\ [][TxnNext]_allVars

\* Bound: one write by others or one death; an import of two credentials only
\* where no transaction and no health run is under way; an incident only for
\* the acceptance, which waits for one.
Disturbances ==
    /\ \/ writes + crashes + Cardinality(imp.plan \ imp.done) <= 1
       \/ /\ Cardinality(imp.plan) = 2 /\ writes + crashes <= 1
          /\ t.kind = "active" /\ t.pc = "ready" /\ \A p \in Health : h[p].pc = "idle"
    /\ t.kind # "accept" => emitted = 0
=============================================================================
