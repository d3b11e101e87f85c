-------------------------- MODULE PoolTransactions --------------------------
(***************************************************************************)
(* The operator transactions on the live cloud credential pool, run beside *)
(* everything CpaHealth models:                                            *)
(*   accept   cloud_cpa_failure_policy_transaction.py: hold the one active *)
(*            credential, put quota-limited canaries in its place, watch   *)
(*            the sweep leave them alone, put everything back;             *)
(*   promote  promote_cloud_agent_identity_batch.py: import a batch, hold  *)
(*            the baseline while the batch is tried alone, put it back;    *)
(*   active   import_active_cloud_cpa_credential.py: import the first      *)
(*            credential of an empty pool, contain it if its canary fails. *)
(* A transaction keeps a private directory (held files, copies, files moved *)
(* aside) and a manifest whose phase survives the death of the script; the *)
(* scripts recover from the files they find. One transaction per behaviour. *)
(***************************************************************************)
EXTENDS CpaHealth
LOCAL INSTANCE Functions

CONSTANTS
    Kinds,      \* the scripts of this instance
    Earlier,    \* manifest entries from before, which no process selects
    Own         \* the names a transaction adds, with their contents

ASSUME TransactionConstants ==
    /\ Kinds \subseteq {"accept", "promote", "active"}
    /\ Earlier \in Nat
    /\ DOMAIN Own \subseteq Name /\ DOMAIN Own # {}
    /\ \A n \in DOMAIN Own : Own[n] \in Content

VARIABLES
    t,          \* the script: its position and what its manifest records
    hold,       \* files held in the transaction directory
    backup,     \* copies of the baseline in the transaction directory
    aside       \* names moved into the rollback directory

txn == <<t, hold, backup, aside>>
allVars == <<vars, t, hold, backup, aside>>
pool == <<archive, manifest, signals, saved, locks, h, res, imp, writes, crashes>>

OwnName == DOMAIN Own
Empty == [n \in Name |-> Absent]

\* _file_map: the names of a directory.
PresentIn(files) == {n \in Name : files[n] # Absent}

\* The number of manifest entries, which the scripts compare with the count
\* they found.
Entries(m) == FoldFunction(LAMBDA x, y : x + y, Earlier, m)

TxnInit ==
    /\ Init
    /\ t \in {[kind |-> k, pc |-> "ready", phase |-> "none", base |-> Empty,
               listed |-> [a \in ArchName |-> 0], batch |-> {}, names |-> {},
               left |-> {}, ok |-> FALSE, manual |-> FALSE] : k \in Kinds}
    /\ hold = Empty /\ backup = Empty /\ aside = {}

\* Every transaction starts from quiet watchers.
Quiet == receipts = {} /\ trigger = 0

Goto(pc) == t' = [t EXCEPT !.pc = pc]

\* The baseline of a transaction: what the pool and the archive hold now.
Baseline(pc, phase) ==
    t' = [t EXCEPT !.pc = pc, !.phase = phase, !.base = auth, !.listed = manifest]

\* live_canary: models, then one real request under the expected policy. It is
\* answered or not, whatever the pool holds.
LiveCanary == BOOLEAN

\* The script dies, or its operator's connection is given up and the host
\* restarts: only files remain.
Dies ==
    /\ t.pc \notin {"ready", "done", "dead"} /\ crashes < MaxCrashes
    /\ crashes' = crashes + 1
    /\ Goto("dead")
    /\ UNCHANGED <<dirs, signals, saved, locks, h, res, imp, writes, raced, hold, backup, aside>>

-----------------------------------------------------------------------------
(***************************************************************************)
(* accept                                                                  *)
(***************************************************************************)

\* Both locks are taken first, so no import is under way; one credential, quiet
\* watchers, and a canary that leaves them quiet. The transaction directory
\* with its manifest and recover.py is prepared before anything is moved.
AcceptPreflight ==
    /\ t.kind = "accept" /\ t.pc = "ready"
    /\ imp.pc = "idle" /\ Cardinality(Present) = 1 /\ Quiet
    /\ Present \cap OwnName = {}
    /\ Baseline("prepared", "prepared")
    /\ UNCHANGED <<vars, hold, backup, aside>>

\* _isolated_sweep, five times, in directories of its own: the same sweep keeps
\* a limited and a refreshable credential and archives and restores a dead one.
IsolatedSweeps ==
    /\ t.kind = "accept" /\ t.pc = "prepared"
    /\ Goto("swept")
    /\ UNCHANGED <<vars, hold, backup, aside>>

\* _activate_limited: the active credential, still with its digest, is renamed
\* into the transaction ...
HoldActive ==
    /\ t.kind = "accept" /\ t.pc = "swept"
    /\ \E n \in PresentIn(t.base) :
         /\ auth[n] = t.base[n] /\ trigger = 0
         /\ hold' = [hold EXCEPT ![n] = auth[n]]
         /\ Write(n, Absent)
    /\ t' = [t EXCEPT !.pc = "stage", !.left = OwnName]
    /\ UNCHANGED <<pool, backup, aside>>

\* ... and the canaries are written, after which the phase is recorded.
StageCanary(n) ==
    /\ t.kind = "accept" /\ t.pc = "stage" /\ n \in t.left
    /\ Write(n, Own[n])
    /\ t' = [t EXCEPT !.left = @ \ {n},
                      !.pc = IF t.left = {n} THEN "limited" ELSE "stage",
                      !.phase = IF t.left = {n} THEN "limited" ELSE @]
    /\ UNCHANGED <<pool, hold, backup, aside>>

\* _natural_aggregate: the sweep has consumed the incident and archived nothing.
\* (That state.json is not the one of the preflight is left out.)
Aggregate ==
    /\ t.kind = "accept" /\ t.pc = "limited"
    /\ saved = "consumed" /\ Entries(manifest) = Entries(t.listed) /\ receipts = {}
    /\ t' = [t EXCEPT !.pc = "unarchive", !.names = OwnName, !.ok = TRUE]
    /\ UNCHANGED <<vars, hold, backup, aside>>

\* Any exception before the recovery: _remote_apply recovers.
AcceptFails ==
    /\ t.kind = "accept" /\ t.pc \in {"prepared", "swept", "stage", "limited"}
    /\ t' = [t EXCEPT !.pc = "unarchive", !.names = OwnName, !.ok = FALSE]
    /\ UNCHANGED <<vars, hold, backup, aside>>

\* --recover: the operator runs recover.py of a transaction that did not end
\* recovered. It takes no lock.
RecoverAcceptance ==
    /\ t.kind = "accept" /\ t.pc = "dead"
    /\ t' = [t EXCEPT !.pc = "unarchive", !.names = OwnName, !.ok = FALSE, !.manual = TRUE]
    /\ UNCHANGED <<vars, hold, backup, aside>>

-----------------------------------------------------------------------------
(***************************************************************************)
(* promote                                                                 *)
(***************************************************************************)

\* _preflight: the confirmed number of credentials, quiet watchers.
PromotePreflight ==
    /\ t.kind = "promote" /\ t.pc = "ready"
    /\ Present # {} /\ Quiet
    /\ Baseline("found", "none")
    /\ UNCHANGED <<vars, hold, backup, aside>>

\* _prepare_transaction copies the baseline as it is by now; a file that has
\* gone ends the script before there is a manifest.
CopyBaseline ==
    /\ t.kind = "promote" /\ t.pc = "found"
    /\ IF PresentIn(t.base) \subseteq Present
       THEN /\ backup' = [n \in Name |-> IF n \in PresentIn(t.base) THEN auth[n] ELSE Absent]
            /\ t' = [t EXCEPT !.pc = "prepared", !.phase = "prepared"]
       ELSE Goto("done") /\ UNCHANGED backup
    /\ UNCHANGED <<vars, hold, aside>>

\* _signed_import: previewed, then applied; the preview wants every target to be
\* new. The importer's own steps are CpaHealth's; here it is one step.
ImportBatch ==
    /\ t.kind \in {"promote", "active"} /\ t.pc = "prepared"
    /\ imp.pc = "idle" /\ Present \cap OwnName = {}
    /\ auth' = [n \in Name |-> IF n \in OwnName THEN Own[n] ELSE auth[n]]
    /\ raced' = raced \cup {n \in OwnName : InFlight(n)}
    /\ Goto("imported")
    /\ UNCHANGED <<pool, hold, backup, aside>>

Created == Present \ PresentIn(t.base)

\* _validate_promoted: the confirmed number of new files, all of them valid and
\* distinct; the manifest now names them.
Validate ==
    /\ t.kind = "promote" /\ t.pc = "imported"
    /\ Created # {} /\ Cardinality(Created) = Cardinality(OwnName)
    /\ t' = [t EXCEPT !.pc = "hold", !.phase = "imported", !.batch = Created,
                      !.left = PresentIn(t.base)]
    /\ UNCHANGED <<vars, hold, backup, aside>>

\* _hold_baseline: each baseline file is renamed away by name.
HoldBaseline(n) ==
    /\ t.kind = "promote" /\ t.pc = "hold" /\ n \in t.left
    /\ auth[n] # Absent /\ hold[n] = Absent
    /\ hold' = [hold EXCEPT ![n] = auth[n]]
    /\ Write(n, Absent)
    /\ t' = [t EXCEPT !.left = @ \ {n}, !.pc = IF t.left = {n} THEN "cohort" ELSE "hold"]
    /\ UNCHANGED <<pool, backup, aside>>

\* The cohort canaries pass or fail; in both cases the baseline comes back.
Cohort ==
    /\ t.pc = "cohort"
    /\ \E ok \in LiveCanary :
         t' = [t EXCEPT !.pc = "unhold", !.left = PresentIn(t.base), !.ok = ok]
    /\ UNCHANGED <<vars, hold, backup, aside>>

\* _restore_baseline for one name: a file in place is left alone; otherwise the
\* held file, or failing that the copy, is used if it has the recorded digest.
Source(n) == IF hold[n] # Absent THEN hold[n] ELSE backup[n]

PutBack(n) ==
    /\ \/ auth[n] # Absent /\ UNCHANGED <<auth, raced, hold>>
       \/ /\ auth[n] = Absent /\ Source(n) = t.base[n]
          /\ Write(n, Source(n))
          /\ hold' = [hold EXCEPT ![n] = Absent]
    /\ t' = [t EXCEPT !.left = @ \ {n}]

PutBackFails(n) == auth[n] = Absent /\ Source(n) # t.base[n]

\* Mutant: whatever is new is taken for the batch.
PromotedNew == Present \ PresentIn(t.base)

\* What a rollback takes out again: the named batch or, when the manifest names
\* none yet, whatever is new in the pool or in the archive.
Archived == {a[1] : a \in {b \in ArchName : manifest[b] > t.listed[b]}}
Promoted == IF t.batch # {} THEN t.batch ELSE (Present \cup Archived) \ PresentIn(t.base)

BeginRollback(ok, manual) ==
    t' = [t EXCEPT !.pc = "rebase", !.names = Promoted, !.left = PresentIn(t.base),
                   !.ok = ok, !.manual = manual]

Unhold(n) ==
    /\ t.pc = "unhold" /\ n \in t.left
    /\ \/ PutBack(n)
       \/ PutBackFails(n) /\ BeginRollback(FALSE, t.manual) /\ UNCHANGED <<auth, raced, hold>>
    /\ UNCHANGED <<pool, backup, aside>>

Unheld ==
    /\ t.pc = "unhold" /\ t.left = {}
    /\ IF t.ok THEN Goto("final") ELSE BeginRollback(FALSE, t.manual)
    /\ UNCHANGED <<vars, hold, backup, aside>>

\* The acceptance of a promotion: importing again would write nothing, the
\* counts are the expected ones and the watchers are quiet.
AcceptPromotion ==
    /\ t.kind = "promote" /\ t.pc = "final"
    /\ \A n \in OwnName : auth[n] = Own[n]
    /\ Cardinality(Present) = Cardinality(PresentIn(t.base)) + Cardinality(OwnName)
    /\ Entries(manifest) = Entries(t.listed) /\ Quiet
    /\ t' = [t EXCEPT !.pc = "done", !.phase = "accepted"]
    /\ UNCHANGED <<vars, hold, backup, aside>>

\* Any other exception after the manifest was written.
PromoteFails ==
    /\ t.kind = "promote" /\ t.pc \in {"prepared", "imported", "hold", "final"}
    /\ BeginRollback(FALSE, FALSE)
    /\ UNCHANGED <<vars, hold, backup, aside>>

\* --recover rolls any transaction back that has a manifest: one that died or
\* could not recover, an accepted one, and one that has been rolled back before.
RecoverPromotion ==
    /\ t.kind = "promote" /\ t.phase # "none" /\ t.pc \in {"dead", "done"}
    /\ BeginRollback(FALSE, TRUE)
    /\ UNCHANGED <<vars, hold, backup, aside>>

-----------------------------------------------------------------------------
(***************************************************************************)
(* active                                                                  *)
(***************************************************************************)

\* The pool and the watchers' inputs are empty, the preview plans one write.
ActivePreflight ==
    /\ t.kind = "active" /\ t.pc = "ready"
    /\ Present = {} /\ Quiet
    /\ Baseline("prepared", "prepared")
    /\ UNCHANGED <<vars, hold, backup, aside>>

\* Exactly one file is new, which makes it the target ...
Identify ==
    /\ t.kind = "active" /\ t.pc = "imported" /\ Cardinality(Created) = 1
    /\ t' = [t EXCEPT !.pc = "canary", !.left = Created]
    /\ UNCHANGED <<vars, hold, backup, aside>>

\* ... and is accepted when its canary passed and nothing else has changed.
AcceptActive ==
    /\ t.kind = "active" /\ t.pc = "canary"
    /\ Cardinality(Present) = 1 /\ Entries(manifest) = Entries(t.listed) /\ Quiet
    /\ t' = [t EXCEPT !.pc = "done", !.phase = "accepted"]
    /\ UNCHANGED <<vars, hold, backup, aside>>

ActiveFails ==
    /\ t.kind = "active" /\ t.pc \in {"prepared", "imported", "canary"}
    /\ Goto("contain")
    /\ UNCHANGED <<vars, hold, backup, aside>>

\* apply's except branch: the target, or the only new file if none was
\* identified, is moved aside with every watcher input.
Contain ==
    LET target == IF t.left # {} THEN t.left
                  ELSE IF Cardinality(Created) = 1 THEN Created ELSE {}
        gone == target \cap Present
    IN /\ t.kind = "active" /\ t.pc = "contain"
       /\ auth' = [n \in Name |-> IF n \in gone THEN Absent ELSE auth[n]]
       /\ raced' = raced \cup {n \in gone : InFlight(n)}
       /\ aside' = gone
       /\ receipts' = {} /\ trigger' = 0 /\ fresh' = FALSE
       /\ t' = [t EXCEPT !.pc = "done", !.phase = "contained"]
       /\ UNCHANGED <<archive, manifest, emitted, saved, locks, h, res, imp, writes, crashes,
                      hold, backup>>

-----------------------------------------------------------------------------
(***************************************************************************)
(* Recovery: _recover of an acceptance and _rollback of a promotion. A step *)
(* that raises leaves the transaction "dead", for the operator's command.  *)
(***************************************************************************)

\* _rollback first puts the baseline back.
Rebase(n) ==
    /\ t.pc = "rebase" /\ n \in t.left
    /\ \/ PutBack(n)
       \/ PutBackFails(n) /\ Goto("dead") /\ UNCHANGED <<auth, raced, hold>>
    /\ UNCHANGED <<pool, backup, aside>>

Rebased ==
    /\ t.pc = "rebase" /\ t.left = {}
    /\ Goto("unarchive")
    /\ UNCHANGED <<vars, hold, backup, aside>>

\* cpa-health-restore, run by the script for a named archived credential.
RestoresArchived(a) ==
    /\ t.pc = "unarchive" /\ a[1] \in t.names /\ manifest[a] > 0 /\ qlock = Nil
    /\ IF manifest[a] = 1 /\ archive[a] # Absent /\ auth[a[1]] = Absent
       THEN /\ Write(a[1], archive[a])
            /\ archive' = [archive EXCEPT ![a] = Absent]
            /\ manifest' = [manifest EXCEPT ![a] = 0]
            /\ UNCHANGED t
       ELSE Goto("dead") /\ UNCHANGED <<auth, archive, manifest, raced>>
    /\ UNCHANGED <<signals, saved, locks, h, res, imp, writes, crashes, hold, backup, aside>>

RestoreCanary(a) == t.kind = "accept" /\ RestoresArchived(a)
RestorePromoted(a) == t.kind = "promote" /\ RestoresArchived(a)

NoneArchived == \A a \in ArchName : manifest[a] > 0 => a[1] \notin t.names

\* The named credentials leave the pool: canaries are unlinked ...
TakeOut ==
    /\ auth' = [n \in Name |-> IF n \in t.names THEN Absent ELSE auth[n]]
    /\ raced' = raced \cup {n \in t.names \cap Present : InFlight(n)}
    /\ Goto("signals")

\* Mutant: every active credential is unlinked.
RemoveCanariesAll ==
    /\ t.kind = "accept" /\ t.pc = "unarchive" /\ NoneArchived
    /\ auth' = Empty /\ Goto("signals")
    /\ UNCHANGED <<pool, raced, hold, backup, aside>>

RemoveCanaries ==
    /\ t.kind = "accept" /\ t.pc = "unarchive" /\ NoneArchived
    /\ TakeOut
    /\ UNCHANGED <<pool, hold, backup, aside>>

\* ... promoted ones moved aside, once per transaction directory.
RemovePromoted ==
    /\ t.kind = "promote" /\ t.pc = "unarchive" /\ NoneArchived
    /\ IF aside \cap t.names \cap Present # {}
       THEN Goto("dead") /\ UNCHANGED <<auth, raced, aside>>
       ELSE TakeOut /\ aside' = aside \cup (t.names \cap Present)
    /\ UNCHANGED <<pool, hold, backup>>

\* Receipts about them and the trigger go to the evidence directory.
ClearSignals ==
    /\ receipts' = {r \in receipts : r.name \notin t.names}
    /\ trigger' = 0 /\ fresh' = FALSE
    /\ UNCHANGED <<dirs, emitted, saved, locks, h, others, hold, backup, aside>>

ClearCanarySignals ==
    t.kind = "accept" /\ t.pc = "signals" /\ Goto("reactivate") /\ ClearSignals
ClearPromotedSignals ==
    t.kind = "promote" /\ t.pc = "signals" /\ Goto("behaviour") /\ ClearSignals

\* _recover's last move: the active credential with its digest is in place, and
\* a held copy is dropped; or the held one goes back to a free target.
Reactivate(n) ==
    /\ t.pc = "reactivate" /\ n \in PresentIn(t.base)
    /\ \/ /\ auth[n] = t.base[n]
          /\ hold' = [hold EXCEPT ![n] = Absent]
          /\ Goto("behaviour") /\ UNCHANGED <<auth, raced>>
       \/ /\ auth[n] = Absent /\ hold[n] = t.base[n]
          /\ Write(n, hold[n])
          /\ hold' = [hold EXCEPT ![n] = Absent]
          /\ Goto("behaviour")
       \/ /\ auth[n] # t.base[n] /\ ~(auth[n] = Absent /\ hold[n] = t.base[n])
          /\ Goto("dead") /\ UNCHANGED <<auth, raced, hold>>
    /\ UNCHANGED <<pool, backup, aside>>

Asks ==
    /\ t.pc = "behaviour"
    /\ \E ok \in LiveCanary : Goto(IF ok THEN "verify" ELSE "dead")
    /\ UNCHANGED <<vars, hold, backup, aside>>

\* The credential that is active again has to answer ...
ActiveAnswers == t.kind = "accept" /\ Asks

\* ... and a baseline to answer, or to be unavailable, as it was; otherwise the
\* recovery is incomplete (verify_baseline_behavior).
BaselineBehaves == t.kind = "promote" /\ Asks

\* The baseline is there again.
Restored == /\ Present = PresentIn(t.base)
            /\ Entries(manifest) = Entries(t.listed)
            /\ receipts = {}

\* _recover's closing comparison. A successful acceptance goes on to the idle
\* check.
VerifyAcceptance ==
    /\ t.kind = "accept" /\ t.pc = "verify"
    /\ t' = IF Restored
            THEN [t EXCEPT !.pc = IF t.ok THEN "idle" ELSE "done", !.phase = "recovered"]
            ELSE [t EXCEPT !.pc = "dead"]
    /\ UNCHANGED <<vars, hold, backup, aside>>

\* A rollback compares with int(archiveCount or -1): a recorded count of zero is
\* never met.
Counted == Entries(t.listed) # 0

VerifyRollback ==
    /\ t.kind = "promote" /\ t.pc = "verify"
    /\ t' = IF Restored /\ Counted
            THEN [t EXCEPT !.pc = "done", !.phase = "recovered"]
            ELSE [t EXCEPT !.pc = "dead"]
    /\ UNCHANGED <<vars, hold, backup, aside>>

\* _idle_acceptance: a health run without a trigger probes nothing. The pool is
\* back already; a failure only changes the receipt.
IdleAcceptance ==
    /\ t.kind = "accept" /\ t.pc = "idle"
    /\ \/ saved = "passive" /\ Goto("done")
       \/ t' = [t EXCEPT !.pc = "done", !.ok = FALSE]
    /\ UNCHANGED <<vars, hold, backup, aside>>

Accept ==
    \/ AcceptPreflight \/ IsolatedSweeps \/ HoldActive \/ Aggregate \/ AcceptFails
    \/ RecoverAcceptance \/ RemoveCanaries \/ ClearCanarySignals
    \/ ActiveAnswers \/ VerifyAcceptance \/ IdleAcceptance
    \/ \E n \in Name : StageCanary(n) \/ Reactivate(n)
    \/ \E a \in ArchName : RestoreCanary(a)

Promote ==
    \/ PromotePreflight \/ CopyBaseline \/ Validate \/ Cohort \/ Unheld
    \/ AcceptPromotion \/ PromoteFails \/ RecoverPromotion
    \/ Rebased \/ RemovePromoted \/ ClearPromotedSignals \/ BaselineBehaves \/ VerifyRollback
    \/ \E n \in Name : HoldBaseline(n) \/ Unhold(n) \/ Rebase(n)
    \/ \E a \in ArchName : RestorePromoted(a)

Active == ActivePreflight \/ Identify \/ AcceptActive \/ ActiveFails \/ Contain

Transaction == Accept \/ Promote \/ Active \/ ImportBatch \/ Dies

\* The acceptance script holds the import lock from its preflight to its end;
\* the recovery command takes no lock.
ImportLocked == t.kind = "accept" /\ ~t.manual /\ t.pc \notin {"ready", "done", "dead"}

TxnNext ==
    \/ Transaction
    \/ Next /\ (ImportLocked => imp' = imp) /\ UNCHANGED txn

TxnSpec == TxnInit /\ [][TxnNext]_allVars

-----------------------------------------------------------------------------
Kept(n) == \/ auth[n] # Absent \/ hold[n] # Absent
           \/ \E k \in Copy : archive[<<n, k>>] # Absent

\* The acceptance never loses the credential it holds: at every step it is in
\* the pool, in the transaction or in the archive, whichever health runs,
\* restores and writers come between and whatever dies, while the script holds
\* the import lock. Once it has ended or died the lock is gone: then the
\* credential is kept as long as nobody else writes the pool, for an importer
\* may undo its write by the plan it made before (ImportUndo), and the recovery
\* command takes no lock (_activate_limited, _recover).
OriginalKept ==
    t.kind = "accept" /\ ~t.manual /\ (ImportLocked \/ writes = 0) =>
        \A n \in PresentIn(t.base) : Kept(n)

\* Rolling a promotion back takes nothing but its own batch out of the pool
\* once the manifest names the batch, whoever else imports or restores meanwhile
\* and however often it is repeated (_rollback).
RollbackTakesOwn ==
    [][t.kind = "promote" /\ t.batch = OwnName => aside' \ aside \subseteq OwnName]_allVars

\* The plan promises "automaticRollback": a rollback that has put the baseline
\* back says so, and does not ask for a manual recovery (_rollback).
RollbackReported ==
    [][t.pc = "verify" /\ t'.pc = "dead" => ~Restored]_allVars
=============================================================================
