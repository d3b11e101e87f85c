---------------------------- MODULE MCCpaHealth ----------------------------
(* An instance of CpaHealth for TLC: one credential, a consumer of the sweep *)
(* trigger and a second process for the other modes.                         *)
EXTENDS CpaHealth

CONSTANTS n1, good, dead, bad, p1, p2

MCName == {n1}
MCContent == {good, dead, bad}
MCStaticBad == {bad}
MCDead == {dead}

\* The credential is rejected by the provider, or unusable on its face.
MCPools == {[n \in {n1} |-> c] : c \in {dead, bad}}

MCHealth == {p1, p2}
MCModes == [p \in {p1, p2} |-> IF p = p1 THEN {"sweep"} ELSE {"sweep", "full", "runtime", "check"}]

OnlySweeps == \A p \in Health : h[p].pc = "idle" \/ h[p].mode = "sweep"

\* Bound: a process dies only where every run is a sweep, and so does a second
\* trigger come, where nobody died. Neither a death, a trigger nor the start of
\* another mode is an action Fairness is about. Others write the pool only where
\* no trigger ever comes, which the properties are silent about, and one process
\* makes full runs, or none while an import is under way.
Deaths ==
    /\ crashes = 0 \/ OnlySweeps
    /\ emitted < 2 \/ (crashes = 0 /\ OnlySweeps)
    /\ \/ writes = 0 /\ imp.pc = "idle"
       \/ /\ emitted = 0 /\ h[p1].pc = "idle"
          /\ h[p2].pc = "idle" \/ (h[p2].mode = "full" /\ imp.pc = "idle")
          /\ crashes = 0 \/ h[p2].pc = "idle"
=============================================================================
