-------------------------- MODULE CloudHostProofs --------------------------
(***************************************************************************)
(* Proofs about the operator scripts of the cloud host: the ones that      *)
(* stop, quarantine, activate and watch (CloudEndpoint), for any number of *)
(* kills, and the ones that rotate and revoke the gateway's API keys       *)
(* (GatewayKeys), for any number of keys and kills.                        *)
(***************************************************************************)
EXTENDS CloudEndpoint, GatewayKeys, TLAPS

\* Where a cloud script can be and what it can have reported.
OpPlace == {"idle", "disable", "canaries", "restore", "audit", "decided", "move", "verify",
            "move back", "audit failed", "write", "restart", "probe", "undo", "enable",
            "check", "done", "dead"}
OpReport == {"nothing", "stopped", "incomplete", "restored", "refused", "quarantined",
             "active", "unverified", "rolled back"}

\* Places and reports have their types.
CloudTypes == op \in [Op -> OpPlace] /\ told \in [Op -> OpReport]

\* The quarantine has its recover.py before the tree moves and as long as it is away.
QuarantineInv ==
    /\ op["quarantine"] \in {"move", "verify", "move back", "audit", "audit failed"} => quarantine
    /\ op["quarantine"] \in {"idle", "decided"} => runtime = "live"
    /\ RuntimeKept /\ ImporterHasRuntime

\* Drop-in, systemd and the running gateway are the candidate.
ProducerUp == dropin = "cand" /\ selected = "cand" /\ gateway.runs = "cand"

\* What the activation knows of drop-in, systemd and gateway at each place, and
\* that a watcher was only ever started beside the candidate.
ActivationInv ==
    /\ op["activate"] \in {"idle", "write", "restart", "probe", "undo", "done", "dead"}
    /\ op["activate"] = "idle" =>
          /\ selected = dropin /\ gateway.runs = dropin
          /\ units.active \/ op["watch"] # "idle" => dropin = "cand"
    /\ op["activate"] \in {"restart", "probe"} => dropin = "cand"
    /\ op["activate"] = "done" =>
          told["activate"] \in {"rolled back", "unverified"} \/ ProducerUp

\* The inductive invariant of the scripts on the cloud host.
CloudInv == CloudTypes /\ QuarantineInv /\ ActivationInv

\* One script takes a step, and says something only at its end.
Moves(o, pc, what) ==
    /\ op' = [op EXCEPT ![o] = pc] /\ told' = [told EXCEPT ![o] = what]

\* The three ways a script moves.
LEMMA StepMoves ==
    ASSUME CloudTypes, NEW o \in Op, NEW pc \in OpPlace
    PROVE  /\ Step(o, pc) => Moves(o, pc, told[o])
           /\ \A what : Finds(o, pc, what) => Moves(o, pc, told[o])
           /\ \A what : Tells(o, what) => Moves(o, "done", what)
  BY DEF CloudTypes, Step, Finds, Tells, Moves

\* What the other scripts see of it.
LEMMA MovesFacts ==
    ASSUME CloudTypes, NEW o \in Op, NEW pc \in OpPlace, NEW what \in OpReport, Moves(o, pc, what)
    PROVE  /\ CloudTypes' /\ op'[o] = pc /\ told'[o] = what
           /\ \A q \in Op : q # o => op'[q] = op[q] /\ told'[q] = told[q]
  BY DEF CloudTypes, Moves

\* It holds before any script has run.
LEMMA CloudInitInv == CloudInit => CloudInv
  BY DEF CloudInit, CloudInv, CloudTypes, QuarantineInv, ActivationInv, RuntimeKept,
         ImporterHasRuntime, ProducerUp, Op, OpPlace, OpReport

\* What leaves the quarantine, and what leaves the gateway alone.
LEMMA QuarantineStays ==
    ASSUME QuarantineInv, op'["quarantine"] = op["quarantine"],
           told'["quarantine"] = told["quarantine"], UNCHANGED <<runtime, quarantine>>,
           importer' = "up" => importer = "up" \/ runtime = "live"
    PROVE  QuarantineInv'
  BY DEF QuarantineInv, RuntimeKept, ImporterHasRuntime, Busy

\* What leaves the gateway and the units alone keeps what the activation knows.
LEMMA ActivationStays ==
    ASSUME ActivationInv, op'["activate"] = op["activate"], op'["watch"] = op["watch"],
           told'["activate"] = told["activate"], UNCHANGED <<gateway_vars, units>>
    PROVE  ActivationInv'
  BY DEF ActivationInv, ProducerUp, gateway_vars

\* The four scripts.
LEMMA Ops == "stop" \in Op /\ "quarantine" \in Op /\ "activate" \in Op /\ "watch" \in Op
  BY DEF Op

\* stop_http_importer.py starts the importer again only with its runtime.
LEMMA StopImporterInv == ASSUME CloudInv, StopImporter PROVE CloudInv'
  <1>1. /\ CloudTypes /\ told["stop"] \in OpReport
        /\ \A pc \in {"disable", "canaries", "restore", "audit", "done"} : pc \in OpPlace
        /\ \A what \in {"stopped", "incomplete", "restored"} : what \in OpReport
    BY Ops DEF CloudInv, CloudTypes, OpPlace, OpReport
  <1>2. PICK pc \in OpPlace, what \in OpReport : Moves("stop", pc, what)
    <2>1. CASE StopGate
      <3>1. Moves("stop", "disable", told["stop"])
        BY <1>1, <2>1, Ops, StepMoves DEF StopGate
      <3> QED
        BY <1>1, <3>1
    <2>2. CASE DisableImporter
      <3>1. Moves("stop", "canaries", told["stop"]) \/ Moves("stop", "restore", told["stop"])
        BY <1>1, <2>2, Ops, StepMoves DEF DisableImporter
      <3> QED
        BY <1>1, <3>1
    <2>3. CASE StopCanaries
      <3>1. Moves("stop", "done", "stopped") \/ Moves("stop", "restore", told["stop"])
        BY <1>1, <2>3, Ops, StepMoves DEF StopCanaries
      <3> QED
        BY <1>1, <3>1
    <2>4. CASE RestoreImporter
      <3>1. Moves("stop", "audit", told["stop"]) \/ Moves("stop", "done", "incomplete")
        BY <1>1, <2>4, Ops, StepMoves DEF RestoreImporter
      <3> QED
        BY <1>1, <3>1
    <2>5. CASE StopAudit
      <3>1. Moves("stop", "done", "restored") \/ Moves("stop", "done", "incomplete")
        BY <1>1, <2>5, Ops, StepMoves DEF StopAudit
      <3> QED
        BY <1>1, <3>1
    <2> QED
      BY <2>1, <2>2, <2>3, <2>4, <2>5 DEF StopImporter
  <1>3. /\ CloudTypes' /\ \A q \in Op : q # "stop" => op'[q] = op[q] /\ told'[q] = told[q]
    BY <1>2, Ops, MovesFacts DEF CloudInv
  <1>4. /\ UNCHANGED <<runtime, quarantine, gateway_vars, units>>
        /\ importer' = "up" => importer = "up" \/ runtime = "live"
    BY DEF StopImporter, StopGate, DisableImporter, StopCanaries, RestoreImporter, StopAudit,
       importer_vars, ImporterStarts
  <1>5. QuarantineInv' /\ ActivationInv'
    BY <1>3, <1>4, Ops, QuarantineStays, ActivationStays DEF CloudInv
  <1> QED
    BY <1>3, <1>5 DEF CloudInv

\* quarantine_cloud_legacy_runtime.py and its recover.py.
LEMMA QuarantineRuntimeInv == ASSUME CloudInv, QuarantineRuntime PROVE CloudInv'
  <1>0. CloudTypes /\ QuarantineInv /\ ActivationInv
    BY DEF CloudInv
  <1>1. CASE RecoverRuntime
    <2>1. CloudTypes' /\ QuarantineInv'
      BY <1>0, <1>1 DEF RecoverRuntime, CloudTypes, QuarantineInv, RuntimeKept, ImporterHasRuntime, Busy
    <2>2. ActivationInv'
      BY <1>0, <1>1, ActivationStays DEF RecoverRuntime
    <2> QED
      BY <2>1, <2>2 DEF CloudInv
  <1>2. ASSUME NEW pc \in OpPlace, NEW what \in OpReport, Moves("quarantine", pc, what),
               UNCHANGED <<gateway_vars, units, importer>>,
               pc \in {"move", "verify", "move back", "audit", "audit failed"} => quarantine',
               pc \in {"idle", "decided"} => runtime' = "live",
               runtime' = "live" \/ (runtime' = "held" /\ quarantine'),
               runtime' = "live" \/ importer = "down" \/ pc \notin {"idle", "decided", "done"} \/ what = "incomplete"
        PROVE  CloudInv'
    <2>1. /\ CloudTypes' /\ op'["quarantine"] = pc /\ told'["quarantine"] = what
          /\ \A q \in Op : q # "quarantine" => op'[q] = op[q] /\ told'[q] = told[q]
      BY <1>0, <1>2, Ops, MovesFacts
    <2>2. QuarantineInv'
      BY <1>2, <2>1 DEF QuarantineInv, RuntimeKept, ImporterHasRuntime, Busy
    <2>3. ActivationInv'
      BY <1>0, <1>2, <2>1, Ops, ActivationStays
    <2> QED
      BY <2>1, <2>2, <2>3 DEF CloudInv
  <1>3. \A pc \in {"decided", "move", "verify", "move back", "audit", "audit failed", "done"} : pc \in OpPlace
    BY DEF OpPlace
  <1>4. told["quarantine"] \in OpReport /\
        \A what \in {"refused", "quarantined", "restored", "incomplete"} : what \in OpReport
    BY <1>0, Ops DEF CloudTypes, OpReport
  <1>5. RuntimeKept
    BY <1>0 DEF QuarantineInv
  <1>6. CASE QuarantineDecides
    BY <1>2, <1>3, <1>4, <1>5, <1>6, <1>0, Ops, StepMoves
       DEF QuarantineDecides, RuntimeContract, Dormant, importer_vars, RuntimeKept
  <1>7. CASE QuarantineBegins
    BY <1>2, <1>3, <1>4, <1>5, <1>7, <1>0, Ops, StepMoves
       DEF QuarantineBegins, RuntimeContract, Dormant, RuntimeKept, QuarantineInv, ImporterHasRuntime, Busy
  <1>8. CASE MoveRuntime
    BY <1>2, <1>3, <1>4, <1>5, <1>8, <1>0, Ops, StepMoves DEF MoveRuntime, RuntimeKept, QuarantineInv
  <1>9. CASE VerifyQuarantine
    BY <1>2, <1>3, <1>4, <1>5, <1>9, <1>0, Ops, StepMoves
       DEF VerifyQuarantine, Dormant, importer_vars, RuntimeKept, QuarantineInv
  <1>10. CASE MoveRuntimeBack
    BY <1>2, <1>3, <1>4, <1>5, <1>10, <1>0, Ops, StepMoves DEF MoveRuntimeBack, RuntimeKept, QuarantineInv
  <1>11. CASE AuditQuarantine
    BY <1>2, <1>3, <1>4, <1>5, <1>11, <1>0, Ops, StepMoves
       DEF AuditQuarantine, RuntimeContract, Dormant, RuntimeKept, QuarantineInv
  <1> QED
    BY <1>1, <1>6, <1>7, <1>8, <1>9, <1>10, <1>11 DEF QuarantineRuntime

\* install_cpa_policy_candidate.py: what it reports is what runs.
LEMMA ActivateCandidateInv == ASSUME CloudInv, ActivateCandidate PROVE CloudInv'
  <1>0. CloudTypes /\ QuarantineInv /\ ActivationInv
    BY DEF CloudInv
  <1>2. ASSUME NEW pc \in OpPlace, NEW what \in OpReport, Moves("activate", pc, what),
               pc \in {"write", "restart", "probe", "undo", "done"},
               UNCHANGED <<importer_vars, units>>,
               pc \in {"restart", "probe"} => dropin' = "cand",
               pc = "done" => what \in {"rolled back", "unverified"} \/ ProducerUp'
        PROVE  CloudInv'
    <2>1. /\ CloudTypes' /\ op'["activate"] = pc /\ told'["activate"] = what
          /\ \A q \in Op : q # "activate" => op'[q] = op[q] /\ told'[q] = told[q]
      BY <1>0, <1>2, Ops, MovesFacts
    <2>2. QuarantineInv'
      BY <1>0, <1>2, <2>1, Ops, QuarantineStays DEF importer_vars
    <2>3. ActivationInv'
      BY <1>2, <2>1 DEF ActivationInv
    <2> QED
      BY <2>1, <2>2, <2>3 DEF CloudInv
  <1>3. \A pc \in {"write", "restart", "probe", "undo", "done"} : pc \in OpPlace
    BY DEF OpPlace
  <1>4. told["activate"] \in OpReport /\
        \A what \in {"active", "rolled back", "unverified"} : what \in OpReport
    BY <1>0, Ops DEF CloudTypes, OpReport
  <1>6. CASE ActivateChecks
    <2>1. CASE dropin = "cand" /\ attested = "cand"
      <3>1. Moves("activate", "done", "active") /\ UNCHANGED <<importer_vars, gateway_vars, units>>
        BY <1>0, <1>3, <1>6, <2>1, Ops, StepMoves DEF ActivateChecks
      <3>2. ProducerUp'
        BY <1>0, <1>6, <2>1, <3>1 DEF ActivateChecks, ActivationInv, ProducerUp, gateway_vars
      <3> QED
        BY <1>2, <1>3, <1>4, <3>1, <3>2
    <2>2. CASE ~(dropin = "cand" /\ attested = "cand")
      <3>1. Moves("activate", "write", told["activate"]) /\ UNCHANGED <<importer_vars, gateway_vars, units>>
        BY <1>0, <1>3, <1>6, <2>2, Ops, StepMoves DEF ActivateChecks
      <3> QED
        BY <1>2, <1>3, <1>4, <3>1
    <2> QED
      BY <2>1, <2>2
  <1>7. CASE WriteDropIns
    <2>1. Moves("activate", "restart", told["activate"])
      BY <1>0, <1>3, <1>7, Ops, StepMoves DEF WriteDropIns
    <2> QED
      BY <1>2, <1>3, <1>4, <1>7, <2>1 DEF WriteDropIns
  <1>8. CASE RestartGateway
    <2>1. Moves("activate", "probe", told["activate"])
      BY <1>0, <1>3, <1>8, Ops, StepMoves DEF RestartGateway
    <2> QED
      BY <1>0, <1>2, <1>3, <1>4, <1>8, <2>1 DEF RestartGateway, ActivationInv
  <1>9. CASE ProbeGateway
    <2>1. Moves("activate", "done", "active")
      BY <1>0, <1>3, <1>9, Ops, StepMoves DEF ProbeGateway
    <2>2. ProducerUp'
      BY <1>0, <1>9 DEF ProbeGateway, ActivationInv, ProducerUp
    <2> QED
      BY <1>2, <1>3, <1>4, <1>9, <2>1, <2>2 DEF ProbeGateway
  <1>10. CASE ActivateFails
    <2>1. Moves("activate", "undo", told["activate"]) \/ Moves("activate", "done", "unverified")
      BY <1>0, <1>3, <1>10, Ops, StepMoves DEF ActivateFails
    <2> QED
      BY <1>2, <1>3, <1>4, <1>10, <2>1 DEF ActivateFails
  <1>11. CASE RollBackGateway
    <2>1. \E what \in {"rolled back", "unverified"} : Moves("activate", "done", what)
      BY <1>0, <1>3, <1>11, Ops, StepMoves DEF RollBackGateway
    <2> QED
      BY <1>2, <1>3, <1>4, <1>11, <2>1 DEF RollBackGateway
  <1> QED
    BY <1>6, <1>7, <1>8, <1>9, <1>10, <1>11 DEF ActivateCandidate

\* install_cpa_failure_watcher.py: it begins only beside the candidate, and its
\* daemon-reload loads what the drop-in says.
LEMMA InstallWatcherInv == ASSUME CloudInv, InstallWatcher PROVE CloudInv'
  <1>0. CloudTypes /\ QuarantineInv /\ ActivationInv
    BY DEF CloudInv
  <1>1. /\ told["watch"] \in OpReport
        /\ \A pc \in {"write", "enable", "check", "done"} : pc \in OpPlace
        /\ \A what \in {"active", "rolled back", "incomplete"} : what \in OpReport
    BY <1>0, Ops DEF CloudTypes, OpPlace, OpReport
  <1>2. PICK pc \in OpPlace, what \in OpReport : Moves("watch", pc, what)
    <2>1. CASE RequireCloudProducer
      <3>1. Moves("watch", "done", "active") \/ Moves("watch", "write", told["watch"])
        BY <1>0, <1>1, <2>1, Ops, StepMoves DEF RequireCloudProducer
      <3> QED
        BY <1>1, <3>1
    <2>2. CASE WriteUnits \/ EnablePaths
      <3>1. Moves("watch", "enable", told["watch"]) \/ Moves("watch", "check", told["watch"])
        BY <1>0, <1>1, <2>2, Ops, StepMoves DEF WriteUnits, EnablePaths
      <3> QED
        BY <1>1, <3>1
    <2>3. CASE CheckPaths
      <3>1. Moves("watch", "done", "active")
        BY <1>0, <1>1, <2>3, Ops, StepMoves DEF CheckPaths
      <3> QED
        BY <1>1, <3>1
    <2>4. CASE WatchFails
      <3>1. Moves("watch", "done", "rolled back") \/ Moves("watch", "done", "incomplete")
        BY <1>0, <1>1, <2>4, Ops, StepMoves DEF WatchFails
      <3> QED
        BY <1>1, <3>1
    <2> QED
      BY <2>1, <2>2, <2>3, <2>4 DEF InstallWatcher
  <1>3. /\ CloudTypes' /\ \A q \in Op : q # "watch" => op'[q] = op[q] /\ told'[q] = told[q]
    BY <1>0, <1>2, Ops, MovesFacts
  <1>4. /\ UNCHANGED <<importer_vars, dropin, gateway>> /\ selected' \in {selected, dropin}
        /\ op["watch"] = "idle" => dropin = "cand"
    BY DEF InstallWatcher, RequireCloudProducer, WriteUnits, EnablePaths, CheckPaths, WatchFails,
       DaemonReload, CloudProducer, gateway_vars
  <1>5. QuarantineInv'
    BY <1>0, <1>3, <1>4, Ops, QuarantineStays DEF importer_vars
  <1>6. ActivationInv'
    BY <1>0, <1>3, <1>4, Ops DEF ActivationInv, ProducerUp
  <1> QED
    BY <1>3, <1>5, <1>6 DEF CloudInv

\* A script killed at any place leaves what the others rely on.
LEMMA CloudScriptDiesInv == ASSUME CloudInv, NEW o \in Op, CloudScriptDies(o) PROVE CloudInv'
  <1>0. CloudTypes /\ QuarantineInv /\ ActivationInv /\ "dead" \in OpPlace /\ told[o] \in OpReport
    BY DEF CloudInv, CloudTypes, OpPlace
  <1>1. Moves(o, "dead", told[o]) /\ op[o] # "idle" /\ op[o] # "done" /\ op[o] # "decided"
        /\ UNCHANGED <<importer_vars, gateway_vars, units>>
    BY <1>0, StepMoves DEF CloudScriptDies
  <1>2. /\ CloudTypes' /\ op'[o] = "dead" /\ told'[o] = told[o]
        /\ \A q \in Op : q # o => op'[q] = op[q] /\ told'[q] = told[q]
    BY <1>0, <1>1, MovesFacts
  <1>3. QuarantineInv'
    BY <1>0, <1>1, <1>2, Ops DEF QuarantineInv, RuntimeKept, ImporterHasRuntime, Busy, importer_vars
  <1>4. ActivationInv'
    BY <1>0, <1>1, <1>2, Ops DEF ActivationInv, ProducerUp, gateway_vars
  <1> QED
    BY <1>2, <1>3, <1>4 DEF CloudInv

\* Every step of CloudNext preserves the invariant, one lemma per script.
LEMMA CloudNextInv == CloudInv /\ [CloudNext]_cloud_vars => CloudInv'
  <1> SUFFICES ASSUME CloudInv, [CloudNext]_cloud_vars PROVE CloudInv'
    OBVIOUS
  <1>1. CASE UNCHANGED cloud_vars
    BY <1>1 DEF cloud_vars, CloudInv, CloudTypes, QuarantineInv, RuntimeKept, ImporterHasRuntime, Busy,
       ActivationInv, ProducerUp
  <1> QED
    BY <1>1, StopImporterInv, QuarantineRuntimeInv, ActivateCandidateInv, InstallWatcherInv,
       CloudScriptDiesInv DEF CloudNext

\* The invariant says what CloudScriptsAgree asks.
LEMMA CloudInvEnough == CloudInv => CloudScriptsAgree
  BY DEF CloudInv, QuarantineInv, ActivationInv, ProducerUp, CloudScriptsAgree, WatcherHasProducer, Busy

\* The inductive invariant of the cloud host's scripts holds in every behaviour:
\* recover.py is written before the importer's runtime moves, and the producer's
\* drop-in, selection and gateway agree where activate_cloud relies on it.
THEOREM CloudInvariance == CloudSpec => []CloudInv
  BY CloudInitInv, CloudNextInv, PTL DEF CloudSpec

\* However stop_http_importer.py, quarantine_cloud_legacy_runtime.py and the two
\* activate_cloud interleave, and wherever any of them is killed, the legacy
\* runtime is in place or can be recovered, no importer stays up without it
\* unless a quarantine said so, and the watcher is active beside its producer.
THEOREM CloudReportsAgree == CloudSpec => []CloudScriptsAgree
  BY CloudInvariance, CloudInvEnough, PTL

-----------------------------------------------------------------------------
(***************************************************************************)
(* The gateway's keys.                                                     *)
(***************************************************************************)
\* Where a key script can be, and the records it keeps.
KeyPlace == {"idle", "config", "credential", "environment", "restart", "probe",
             "restore config", "restore credential", "restore environment",
             "restart restored", "audit"}
Status == {"none", "prepared", "rotated", "revoked"}
ManifestRec == [status : Status, old : Nat, after : SUBSET Nat, artifacts : BOOLEAN]
WorkRec == [pc : KeyPlace, config : SUBSET Nat, credential : Nat, phi : Nat,
            environment : Nat, key : Nat]

\* Files, manifests and the scripts' records have their types.
KeyTypes ==
    /\ config \subseteq Nat /\ accepted \subseteq Nat
    /\ credential \in Nat /\ phi \in Nat /\ environment \in Nat /\ minted \in Nat
    /\ manifests \in [Key -> ManifestRec]
    /\ work \in [KeyScript -> WorkRec]

\* The lock: one script at most is at work.
OneScript ==
    \A s, t \in KeyScript : work[s].pc # "idle" /\ work[t].pc # "idle" => s = t

\* No key is newer than the newest one, and Phi's is nobody else's.
Numbers ==
    /\ minted \in Key
    /\ \A k \in config \cup accepted \cup {credential, phi} : k <= minted
    /\ \A k \in Key : manifests[k].old <= minted
    /\ phi # 0 => phi # credential /\ \A k \in Key : manifests[k].old # phi

\* The key a script has made is newer than all it found.
FreshKey(s) ==
    /\ work[s].key <= minted
    /\ work[s].credential < work[s].key /\ work[s].phi < work[s].key
    /\ \A c \in work[s].config : c < work[s].key
    /\ \A k \in Key : manifests[k].old < work[s].key

\* A rollback restores what names no revoked key.
Snapshot(s) ==
    /\ torn \/ (work[s].credential \in work[s].config /\ work[s].phi \in work[s].config \cup {0})
    /\ \A c \in work[s].config \cup {work[s].credential, work[s].phi} : c <= minted
    /\ work[s].phi # 0 =>
          work[s].phi # work[s].credential /\ \A k \in Key : manifests[k].old # work[s].phi
    /\ \A k \in Key : manifests[k].status = "revoked" => manifests[k].old \notin work[s].config

\* The config holds at least what the script found or wrote, and so does the
\* gateway once it was restarted.
ConfigAt(s, pc) ==
    /\ pc \in {"config", "restore credential", "restore environment", "restart restored", "audit"} =>
          work[s].config \subseteq config
    /\ pc \in {"credential", "environment", "restart", "probe"} => Written(s) \subseteq config
    /\ pc = "restore config" => work[s].config \subseteq config \/ Written(s) \subseteq config
    /\ pc = "probe" => Written(s) \subseteq accepted
    /\ pc = "audit" => work[s].config \subseteq accepted

\* A credential is the one the script found, or its new key where that is in
\* the config.
ClientAt(s, pc) ==
    /\ \/ credential = work[s].credential
       \/ /\ s = "install" /\ credential = work[s].key
          /\ \/ pc \in {"environment", "restart", "probe", "restore credential"}
             \/ pc = "restore config" /\ Written(s) \subseteq config
    /\ \/ phi = work[s].phi
       \/ /\ s = "phi" /\ phi = work[s].key
          /\ \/ pc \in {"restart", "probe", "restore credential"}
             \/ pc = "restore config" /\ Written(s) \subseteq config

\* All that holds of a script at work.
ScriptInv(s) ==
    work[s].pc # "idle" =>
        /\ work[s].key \in Key
        /\ IF s = "revoke" THEN manifests[work[s].key].old # work[s].credential ELSE FreshKey(s)
        /\ Snapshot(s) /\ ConfigAt(s, work[s].pc) /\ ClientAt(s, work[s].pc)

\* The inductive invariant of the key scripts.
KeysInv == KeyTypes /\ OneScript /\ Numbers /\ (\A s \in KeyScript : ScriptInv(s)) /\ KeysServed

-----------------------------------------------------------------------------
\* No number is below zero.
LEMMA ZeroLeast == \A n \in Nat : 0 <= n
  OBVIOUS

\* A record at rest is a record.
LEMMA RestTypes == AtRest \in WorkRec /\ AtRest.pc = "idle" /\ Absent \in ManifestRec
  BY DEF AtRest, WorkRec, KeyPlace, Absent, ManifestRec, Status

\* What a script writes, in its two forms.
LEMMA WrittenIs ==
    /\ Written("revoke") = work["revoke"].config \ {manifests[work["revoke"].key].old}
    /\ \A s \in KeyScript : s # "revoke" => Written(s) = work[s].config \cup {work[s].key}
  BY DEF Written, append_api_key, remove_api_key_by_digest

\* It holds of the first installation.
LEMMA KeysInitInv == KeysInit => KeysInv
  <1> SUFFICES ASSUME KeysInit PROVE KeysInv
    OBVIOUS
  <1>0. \A t \in KeyScript : work[t] = AtRest /\ work[t].pc = "idle"
    BY RestTypes DEF KeysInit
  <1>1. KeyTypes
    BY RestTypes, KeysAssumption DEF KeyTypes, KeysInit
  <1>2. OneScript /\ \A s \in KeyScript : ScriptInv(s)
    BY <1>0 DEF OneScript, ScriptInv
  <1>3. Numbers
    BY KeysAssumption DEF Numbers, KeysInit, Key, Absent
  <1>4. KeysServed
    BY DEF KeysInit, KeysServed, InConfig, Accepted, RevokedStaysOut, Absent
  <1> QED
    BY <1>1, <1>2, <1>3, <1>4 DEF KeysInv

\* Only the record of one script changes.
Only(s) == \A t \in KeyScript : t # s => work'[t] = work[t]

\* A script that moves on keeps what it read.
LEMMA GoesFacts ==
    ASSUME KeyTypes, NEW s \in KeyScript, NEW pc \in KeyPlace, Goes(s, pc)
    PROVE  /\ work' \in [KeyScript -> WorkRec] /\ Only(s)
           /\ work'[s].pc = pc /\ work'[s].key = work[s].key
           /\ work'[s].config = work[s].config /\ work'[s].credential = work[s].credential
           /\ work'[s].phi = work[s].phi
  BY DEF KeyTypes, Goes, Only, WorkRec

\* While a script is at work, what holds of it keeps the credentials in the
\* config, but for the place between its two files.
AtWorkServed ==
    \A s \in KeyScript :
        KeyTypes /\ ScriptInv(s) /\ work[s].pc # "idle" => InConfig

\* Snapshot, config and credential of the place give it.
LEMMA AtWorkInConfig == AtWorkServed
  <1> SUFFICES ASSUME NEW s \in KeyScript, KeyTypes, ScriptInv(s), work[s].pc # "idle",
                      ~torn, work[s].pc # "restore credential"
               PROVE  credential \in config /\ phi \in config \cup {0}
    BY DEF InConfig, AtWorkServed
  <1> DEFINE w == work[s]
  <1>1. w \in WorkRec /\ w.pc \in KeyPlace
    BY DEF KeyTypes, WorkRec
  <1>2. /\ w.credential \in w.config /\ w.phi \in w.config \cup {0}
        /\ ConfigAt(s, w.pc) /\ ClientAt(s, w.pc) /\ w.key \in Key
        /\ s = "revoke" => manifests[w.key].old # w.credential
        /\ s = "revoke" => w.phi = 0 \/ manifests[w.key].old # w.phi
    BY DEF ScriptInv, Snapshot
  <1>3. w.config \subseteq config \/ Written(s) \subseteq config
    BY <1>1, <1>2 DEF ConfigAt, KeyPlace
  <1>4. w.credential \in config /\ w.phi \in config \cup {0}
    BY <1>2, <1>3, WrittenIs DEF KeyScript
  <1>5. s # "revoke" /\ Written(s) \subseteq config => w.key \in config
    BY WrittenIs
  <1>6. w.pc \in {"environment", "restart", "probe"} => Written(s) \subseteq config
    BY <1>2 DEF ConfigAt
  <1> QED
    BY <1>2, <1>4, <1>5, <1>6 DEF ClientAt

\* The same of the next state.
LEMMA AtWorkInConfigNext == AtWorkServed'
  BY AtWorkInConfig, PTL

\* A script at work takes a step: it is enough to look at config and credentials.
LEMMA ScriptMoves ==
    ASSUME KeysInv, NEW s \in KeyScript, work[s].pc # "idle",
           NEW pc \in KeyPlace, pc # "idle", Goes(s, pc),
           UNCHANGED <<manifests, minted, torn>>,
           config' \subseteq config \cup work[s].config \cup Written(s),
           accepted' \subseteq accepted \cup config, environment' \in Nat,
           ConfigAt(s, pc)', ClientAt(s, pc)'
    PROVE  KeysInv'
  <1> DEFINE w == work[s]
  <1>0. KeyTypes /\ OneScript /\ Numbers /\ ScriptInv(s) /\ RevokedStaysOut
    BY DEF KeysInv, KeysServed
  <1>1. /\ work' \in [KeyScript -> WorkRec] /\ Only(s)
        /\ work'[s].pc = pc /\ work'[s].key = w.key
        /\ work'[s].config = w.config /\ work'[s].credential = w.credential
        /\ work'[s].phi = w.phi
    BY <1>0, GoesFacts
  <1>2. /\ w \in WorkRec /\ w.key \in Key /\ Snapshot(s)
        /\ s # "revoke" => FreshKey(s)
        /\ s = "revoke" => manifests[w.key].old # w.credential
    BY <1>0 DEF KeyTypes, ScriptInv
  <1>3. Written(s) \subseteq w.config \cup (IF s = "revoke" THEN {} ELSE {w.key})
    BY WrittenIs DEF KeyScript
  <1>4. \A c \in config' \cup accepted' : c \in Nat /\ c <= minted
    BY <1>0, <1>2, <1>3 DEF Numbers, KeyTypes, Snapshot, FreshKey, WorkRec
  <1>5. /\ credential' = w.credential \/ (s = "install" /\ credential' = w.key)
        /\ phi' = w.phi \/ (s = "phi" /\ phi' = w.key)
    BY <1>1 DEF ClientAt
  <1>6. KeyTypes'
    BY <1>0, <1>1, <1>2, <1>4, <1>5 DEF KeyTypes, WorkRec
  <1>7. OneScript'
    BY <1>0, <1>1 DEF OneScript, Only
  <1>8. Numbers'
    <2>1. credential' <= minted /\ phi' <= minted
      BY <1>2, <1>5 DEF Snapshot, FreshKey
    <2>2. phi' # 0 => phi' # credential' /\ \A k \in Key : manifests[k].old # phi'
      BY <1>0, <1>2, <1>5 DEF Snapshot, FreshKey, KeyTypes, ManifestRec, WorkRec
    <2> QED
      BY <1>0, <1>4, <2>1, <2>2 DEF Numbers
  <1>9. ScriptInv(s)'
    <2>1. Snapshot(s)'
      BY <1>1, <1>2 DEF Snapshot
    <2>2. s # "revoke" => FreshKey(s)'
      BY <1>1, <1>2 DEF FreshKey
    <2> QED
      BY <1>1, <1>2, <2>1, <2>2 DEF ScriptInv
  <1>10. \A t \in KeyScript : ScriptInv(t)'
    <2>1. \A t \in KeyScript : t # s => work'[t].pc = "idle"
      BY <1>0, <1>1 DEF OneScript, Only
    <2> QED
      BY <1>9, <2>1 DEF ScriptInv
  <1>11. RevokedStaysOut'
    <2> SUFFICES ASSUME NEW k \in Key, manifests[k].status = "revoked"
                 PROVE  manifests[k].old \notin config' \cup accepted'
      BY DEF RevokedStaysOut
    <2>1. manifests[k].old \notin config \cup accepted \cup w.config
      BY <1>0, <1>2 DEF RevokedStaysOut, Snapshot
    <2>2. s # "revoke" => manifests[k].old # w.key
      BY <1>0, <1>2 DEF FreshKey, KeyTypes, ManifestRec, WorkRec
    <2> QED
      BY <1>3, <2>1, <2>2
  <1>12. InConfig'
    BY <1>1, <1>6, <1>9, AtWorkInConfigNext DEF AtWorkServed
  <1>13. Accepted'
    BY <1>1 DEF Accepted, Quiet
  <1> QED
    BY <1>6, <1>7, <1>8, <1>10, <1>11, <1>12, <1>13 DEF KeysInv, KeysServed

\* A script ends: what it leaves has to be right.
LEMMA ScriptEnds ==
    ASSUME KeysInv, NEW s \in KeyScript, work[s].pc # "idle", NEW how, Ends(s, how),
           UNCHANGED <<files, minted>>, accepted' \subseteq accepted,
           torn => torn', work[s].pc = "restore credential" => torn',
           manifests' \in [Key -> ManifestRec],
           \A k \in Key : manifests'[k].old \in {manifests[k].old, 0},
           \A k \in Key : manifests'[k].status = "revoked" =>
               manifests'[k].old \notin config \cup accepted,
           \/ torn' \/ how \in {"incomplete", "killed"}
           \/ credential \in accepted' /\ phi \in accepted' \cup {0}
    PROVE  KeysInv'
  <1>0. KeyTypes /\ OneScript /\ Numbers /\ InConfig
    BY DEF KeysInv, KeysServed
  <1>1. work' = [work EXCEPT ![s] = AtRest] /\ outcome' = how
    BY DEF Ends
  <1>2. work' \in [KeyScript -> WorkRec] /\ \A t \in KeyScript : work'[t].pc = "idle"
    BY <1>0, <1>1, RestTypes DEF KeyTypes, OneScript
  <1>3. KeyTypes'
    BY <1>0, <1>2 DEF KeyTypes, files
  <1>4. OneScript' /\ \A t \in KeyScript : ScriptInv(t)'
    BY <1>2 DEF OneScript, ScriptInv
  <1>5. Numbers'
    <2>0. 0 <= minted
      BY <1>0, ZeroLeast, Zenon DEF KeyTypes
    <2>1. \A k \in Key : manifests'[k].old <= minted
      BY <1>0, <2>0 DEF Numbers
    <2>2. phi # 0 => \A k \in Key : manifests'[k].old # phi
      BY <1>0 DEF Numbers
    <2> QED
      BY <1>0, <2>1, <2>2 DEF Numbers, files
  <1>6. InConfig'
    BY <1>0 DEF InConfig, files, OneScript
  <1>7. Accepted'
    BY <1>1 DEF Accepted, files
  <1>8. RevokedStaysOut'
    BY DEF RevokedStaysOut, files
  <1> QED
    BY <1>3, <1>4, <1>5, <1>6, <1>7, <1>8 DEF KeysInv, KeysServed

\* A script begins: what it found is what there is.
LEMMA ScriptBegins ==
    ASSUME KeysInv, NEW s \in KeyScript, scoped_key_lock(s), NEW k \in Key, Takes(s, k),
           UNCHANGED <<files, accepted, outcome, torn>>,
           minted' \in Key, minted <= minted', manifests' \in [Key -> ManifestRec],
           s = "revoke" => manifests'[k].old # credential,
           s # "revoke" => k = minted' /\ minted < minted',
           \A j \in Key : manifests'[j].old <= minted,
           \A j \in Key : phi # 0 => manifests'[j].old # phi,
           \A j \in Key : manifests'[j].status = "revoked" =>
               manifests[j].status = "revoked" /\ manifests'[j].old = manifests[j].old
    PROVE  KeysInv'
  <1>0. /\ KeyTypes /\ OneScript /\ Numbers /\ InConfig /\ RevokedStaysOut
        /\ \A t \in KeyScript : work[t].pc = "idle"
    BY DEF KeysInv, KeysServed, scoped_key_lock
  <1> DEFINE r == [pc |-> "config", config |-> config, credential |-> credential, phi |-> phi,
                   environment |-> environment, key |-> k]
  <1>1. work' = [work EXCEPT ![s] = r]
    BY DEF Takes
  <1>2. r \in WorkRec
    <2>1. k \in Nat /\ "config" \in KeyPlace
      BY DEF Key, KeyPlace
    <2> QED
      BY <1>0, <2>1 DEF WorkRec, KeyTypes
  <1>3. /\ work' \in [KeyScript -> WorkRec] /\ work'[s] = r
        /\ \A t \in KeyScript : t # s => work'[t].pc = "idle"
    BY <1>0, <1>1, <1>2 DEF KeyTypes
  <1>4. KeyTypes'
    BY <1>0, <1>3 DEF KeyTypes, files, Key
  <1>5. OneScript'
    BY <1>3 DEF OneScript
  <1>6. Numbers'
    BY <1>0 DEF Numbers, files, KeyTypes, Key, ManifestRec
  <1>7. /\ work'[s].pc = "config" /\ work'[s].config = config /\ work'[s].credential = credential
        /\ work'[s].phi = phi /\ work'[s].key = k
    BY <1>3
  <1> HIDE DEF r
  <1>8. Snapshot(s)'
    <2>1. torn \/ (credential \in config /\ phi \in config \cup {0})
      BY <1>0 DEF InConfig
    <2>2. \A c \in config \cup {credential, phi} : c <= minted'
      BY <1>0 DEF Numbers, KeyTypes, Key
    <2>3. phi # 0 => phi # credential /\ \A j \in Key : manifests'[j].old # phi
      BY <1>0 DEF Numbers
    <2>4. \A j \in Key : manifests'[j].status = "revoked" => manifests'[j].old \notin config
      BY <1>0 DEF RevokedStaysOut
    <2> QED
      BY <1>7, <2>1, <2>2, <2>3, <2>4 DEF Snapshot, files
  <1>9. s # "revoke" => FreshKey(s)'
    <2> SUFFICES ASSUME s # "revoke" PROVE FreshKey(s)'
      OBVIOUS
    <2>1. credential < k /\ phi < k /\ \A c \in config : c < k
      BY <1>0 DEF Numbers, KeyTypes, Key
    <2>2. \A j \in Key : manifests'[j].old < k
      BY <1>0 DEF KeyTypes, ManifestRec, Key
    <2> QED
      BY <1>7, <2>1, <2>2 DEF FreshKey, Key
  <1>10. ConfigAt(s, "config")' /\ ClientAt(s, "config")'
    BY <1>7 DEF ConfigAt, ClientAt, files
  <1>11. \A t \in KeyScript : ScriptInv(t)'
    BY <1>3, <1>7, <1>8, <1>9, <1>10 DEF ScriptInv
  <1>12. InConfig'
    BY <1>3, <1>4, <1>7, <1>11, AtWorkInConfigNext DEF AtWorkServed
  <1>13. Accepted'
    BY <1>7 DEF Accepted, Quiet
  <1>14. RevokedStaysOut'
    BY <1>0 DEF RevokedStaysOut, files
  <1> QED
    BY <1>4, <1>5, <1>6, <1>11, <1>12, <1>13, <1>14 DEF KeysInv, KeysServed

\* Gateway and operator: the config only grows, by a new key.
LEMMA OthersMove ==
    ASSUME KeysInv, UNCHANGED <<credential, phi, environment, manifests, work, outcome, torn>>,
           minted' \in Key, minted <= minted', config \subseteq config',
           \A c \in config' : c \in config \/ (c = minted' /\ minted < minted'),
           accepted' = accepted \/ accepted' = config
    PROVE  KeysInv'
  <1>0. /\ KeyTypes /\ OneScript /\ Numbers /\ InConfig /\ RevokedStaysOut /\ Accepted
        /\ \A s \in KeyScript : ScriptInv(s)
    BY DEF KeysInv, KeysServed
  <1>1. KeyTypes'
    <2>1. minted' \in Nat
      BY DEF Key
    <2>2. config' \subseteq Nat /\ accepted' \subseteq Nat
      BY <1>0, <2>1 DEF KeyTypes
    <2> QED
      BY <1>0, <2>1, <2>2 DEF KeyTypes
  <1>2. OneScript'
    BY <1>0 DEF OneScript
  <1>3. Numbers'
    BY <1>0 DEF Numbers, KeyTypes, Key, ManifestRec
  <1>4. ASSUME NEW s \in KeyScript PROVE ScriptInv(s)'
    <2> SUFFICES ASSUME work[s].pc # "idle" PROVE ScriptInv(s)'
      BY DEF ScriptInv
    <2>1. work[s] \in WorkRec
      BY <1>0 DEF KeyTypes
    <2>2. FreshKey(s) => FreshKey(s)'
      BY <1>0, <2>1 DEF FreshKey, KeyTypes, WorkRec, Key
    <2>3. Snapshot(s) => Snapshot(s)'
      BY <1>0, <2>1 DEF Snapshot, KeyTypes, WorkRec, Key
    <2>4. Written(s)' = Written(s)
      BY DEF Written
    <2>5. ConfigAt(s, work[s].pc) => ConfigAt(s, work[s].pc)'
      BY <2>4 DEF ConfigAt
    <2>6. ClientAt(s, work[s].pc) => ClientAt(s, work[s].pc)'
      BY <2>4 DEF ClientAt
    <2> QED
      BY <1>0, <2>2, <2>3, <2>5, <2>6 DEF ScriptInv
  <1>5. InConfig'
    BY <1>0 DEF InConfig
  <1>6. Accepted'
    BY <1>0 DEF Accepted, Quiet, InConfig
  <1>7. RevokedStaysOut'
    <2>1. \A k \in Key : manifests[k].old \in Nat /\ manifests[k].old <= minted
      BY <1>0 DEF KeyTypes, ManifestRec, Numbers
    <2> QED
      BY <1>0, <2>1 DEF RevokedStaysOut, KeyTypes, Key
  <1> QED
    BY <1>1, <1>2, <1>3, <1>4, <1>5, <1>6, <1>7 DEF KeysInv, KeysServed

-----------------------------------------------------------------------------
\* The three beginnings.
LEMMA InstallBeginsInv == ASSUME KeysInv, InstallBegins PROVE KeysInv'
  <1> DEFINE m == [status |-> "prepared", old |-> credential,
                   after |-> append_api_key(config, minted + 1), artifacts |-> FALSE]
  <1>1. KeyTypes /\ Numbers
    BY DEF KeysInv
  <1>2. minted + 1 \in Key /\ minted + 1 \in Nat /\ minted < minted + 1 /\ minted <= minted + 1
    BY <1>1, KeysAssumption DEF InstallBegins, KeyTypes, Key, Numbers
  <1>3. m \in ManifestRec
    BY <1>1, <1>2 DEF ManifestRec, Status, KeyTypes, append_api_key
  <1>4. manifests' = [manifests EXCEPT ![minted + 1] = m] /\ m.old = credential /\ m.status = "prepared"
    BY DEF InstallBegins
  <1> HIDE DEF m
  <1>5. /\ manifests' \in [Key -> ManifestRec]
        /\ \A j \in Key : manifests'[j] = m \/ manifests'[j] = manifests[j]
    BY <1>1, <1>3, <1>4 DEF KeyTypes
  <1>6. /\ \A j \in Key : manifests'[j].old <= minted
        /\ \A j \in Key : phi # 0 => manifests'[j].old # phi
        /\ \A j \in Key : manifests'[j].status = "revoked" =>
               manifests[j].status = "revoked" /\ manifests'[j].old = manifests[j].old
    BY <1>1, <1>4, <1>5 DEF Numbers
  <1>7. "install" \in KeyScript
    BY DEF KeyScript
  <1> QED
    BY <1>2, <1>5, <1>6, <1>7, ScriptBegins DEF InstallBegins

\* Revocation begins with a key no credential uses.
LEMMA RevokeBeginsInv == ASSUME KeysInv, NEW k \in Key, RevokeBegins(k) PROVE KeysInv'
  <1>1. KeyTypes /\ Numbers
    BY DEF KeysInv
  <1>2. manifests' = [manifests EXCEPT ![k].artifacts = TRUE]
    BY DEF RevokeBegins
  <1>3. /\ manifests' \in [Key -> ManifestRec]
        /\ \A j \in Key : manifests'[j].old = manifests[j].old /\ manifests'[j].status = manifests[j].status
    BY <1>1, <1>2 DEF KeyTypes, ManifestRec
  <1>4. "revoke" \in KeyScript /\ minted' = minted /\ minted \in Key /\ minted <= minted
    BY <1>1 DEF KeyScript, RevokeBegins, Numbers, KeyTypes
  <1>5. /\ \A j \in Key : manifests'[j].old <= minted
        /\ \A j \in Key : phi # 0 => manifests'[j].old # phi
    BY <1>1, <1>3 DEF Numbers
  <1> QED
    BY <1>3, <1>4, <1>5, ScriptBegins DEF RevokeBegins

\* Phi's installation begins with a key nobody has.
LEMMA PhiBeginsInv == ASSUME KeysInv, PhiBegins PROVE KeysInv'
  <1>1. KeyTypes /\ Numbers
    BY DEF KeysInv
  <1>2. minted + 1 \in Key /\ minted < minted + 1 /\ minted <= minted + 1
    BY <1>1, KeysAssumption DEF PhiBegins, KeyTypes, Key, Numbers
  <1>3. /\ manifests' \in [Key -> ManifestRec]
        /\ \A j \in Key : manifests'[j].old <= minted
        /\ \A j \in Key : phi # 0 => manifests'[j].old # phi
    BY <1>1 DEF Numbers, PhiBegins, KeyTypes
  <1>4. "phi" \in KeyScript
    BY DEF KeyScript
  <1> QED
    BY <1>2, <1>3, <1>4, ScriptBegins DEF PhiBegins

-----------------------------------------------------------------------------
\* What holds of a script at work, in one place.
LEMMA AtWorkFacts ==
    ASSUME KeysInv, NEW s \in KeyScript, work[s].pc # "idle"
    PROVE  /\ KeyTypes /\ work[s] \in WorkRec
           /\ ConfigAt(s, work[s].pc) /\ ClientAt(s, work[s].pc) /\ Snapshot(s)
           /\ work[s].key \in Key
           /\ s = "revoke" => manifests[work[s].key].old # work[s].credential
           /\ s = "revoke" => work[s].phi = 0 \/ manifests[work[s].key].old # work[s].phi
  BY DEF KeysInv, KeyTypes, ScriptInv, Snapshot

\* A step that keeps manifests keeps what the script writes.
LEMMA WrittenStays ==
    ASSUME KeysInv, NEW s \in KeyScript, NEW pc \in KeyPlace, Goes(s, pc), UNCHANGED manifests
    PROVE  /\ Written(s)' = Written(s) /\ work'[s].config = work[s].config
           /\ work'[s].credential = work[s].credential /\ work'[s].phi = work[s].phi
           /\ work'[s].key = work[s].key
  BY GoesFacts DEF Written, KeysInv

\* The config is written before any credential names the key.
LEMMA WriteConfigInv == ASSUME KeysInv, NEW s \in KeyScript, WriteConfig(s) PROVE KeysInv'
  <1> DEFINE pc == IF s = "revoke" THEN "restart" ELSE "credential"
  <1>0. pc \in {"restart", "credential"} /\ pc \in KeyPlace
    BY DEF KeyPlace
  <1>1. Goes(s, pc) /\ work[s].pc = "config" /\ config' = Written(s)
        /\ UNCHANGED <<credential, phi, environment, accepted, manifests, minted, torn>>
    BY DEF WriteConfig
  <1> HIDE DEF pc
  <1>2. ConfigAt(s, "config") /\ ClientAt(s, "config") /\ KeyTypes
    BY <1>1, AtWorkFacts
  <1>3. ConfigAt(s, pc)' /\ ClientAt(s, pc)'
    BY <1>0, <1>1, <1>2, WrittenStays DEF ConfigAt, ClientAt
  <1> QED
    BY <1>0, <1>1, <1>2, <1>3, ScriptMoves DEF KeyTypes

\* The client's credential, after the config.
LEMMA InstallCredentialInv == ASSUME KeysInv, InstallCredential PROVE KeysInv'
  <1>0. "install" \in KeyScript /\ "environment" \in KeyPlace
    BY DEF KeyScript, KeyPlace
  <1>1. Goes("install", "environment") /\ work["install"].pc = "credential"
        /\ credential' = work["install"].key
        /\ UNCHANGED <<config, phi, environment, accepted, manifests, minted, torn>>
    BY DEF InstallCredential
  <1>2. ConfigAt("install", "credential") /\ ClientAt("install", "credential") /\ KeyTypes
    BY <1>0, <1>1, AtWorkFacts
  <1>3. ConfigAt("install", "environment")' /\ ClientAt("install", "environment")'
    BY <1>0, <1>1, <1>2, WrittenStays DEF ConfigAt, ClientAt
  <1> QED
    BY <1>0, <1>1, <1>2, <1>3, ScriptMoves DEF KeyTypes

\* The environment file, after the credential.
LEMMA InstallEnvironmentInv == ASSUME KeysInv, InstallEnvironment PROVE KeysInv'
  <1>0. "install" \in KeyScript /\ "restart" \in KeyPlace
    BY DEF KeyScript, KeyPlace
  <1>1. Goes("install", "restart") /\ work["install"].pc = "environment"
        /\ environment' = work["install"].key
        /\ UNCHANGED <<config, credential, phi, accepted, manifests, minted, torn>>
    BY DEF InstallEnvironment
  <1>2. ConfigAt("install", "environment") /\ ClientAt("install", "environment") /\ KeyTypes
        /\ work["install"] \in WorkRec
    BY <1>0, <1>1, AtWorkFacts
  <1>3. ConfigAt("install", "restart")' /\ ClientAt("install", "restart")'
    BY <1>0, <1>1, <1>2, WrittenStays DEF ConfigAt, ClientAt
  <1> QED
    BY <1>0, <1>1, <1>2, <1>3, ScriptMoves DEF WorkRec

\* Phi's credential, after the config.
LEMMA PhiCredentialInv == ASSUME KeysInv, PhiCredential PROVE KeysInv'
  <1>0. "phi" \in KeyScript /\ "restart" \in KeyPlace
    BY DEF KeyScript, KeyPlace
  <1>1. Goes("phi", "restart") /\ work["phi"].pc = "credential"
        /\ phi' = work["phi"].key
        /\ UNCHANGED <<config, credential, environment, accepted, manifests, minted, torn>>
    BY DEF PhiCredential
  <1>2. ConfigAt("phi", "credential") /\ ClientAt("phi", "credential") /\ KeyTypes
    BY <1>0, <1>1, AtWorkFacts
  <1>3. ConfigAt("phi", "restart")' /\ ClientAt("phi", "restart")'
    BY <1>0, <1>1, <1>2, WrittenStays DEF ConfigAt, ClientAt
  <1> QED
    BY <1>0, <1>1, <1>2, <1>3, ScriptMoves DEF KeyTypes

\* The gateway reads the config that was written.
LEMMA RestartCliproxyInv == ASSUME KeysInv, NEW s \in KeyScript, RestartCliproxy(s) PROVE KeysInv'
  <1>0. "probe" \in KeyPlace
    BY DEF KeyPlace
  <1>1. Goes(s, "probe") /\ work[s].pc = "restart" /\ accepted' = config
        /\ UNCHANGED <<config, credential, phi, environment, manifests, minted, torn>>
    BY DEF RestartCliproxy, files
  <1>2. ConfigAt(s, "restart") /\ ClientAt(s, "restart") /\ KeyTypes
    BY <1>1, AtWorkFacts
  <1>3. ConfigAt(s, "probe")' /\ ClientAt(s, "probe")'
    BY <1>0, <1>1, <1>2, WrittenStays DEF ConfigAt, ClientAt
  <1> QED
    BY <1>0, <1>1, <1>2, <1>3, ScriptMoves DEF KeyTypes

\* Wherever the change stops, the rollback finds the config as the script found
\* it or as it wrote it.
LEMMA ChangeFailsInv == ASSUME KeysInv, NEW s \in KeyScript, ChangeFails(s) PROVE KeysInv'
  <1>0. "restore config" \in KeyPlace
    BY DEF KeyPlace
  <1>1. /\ Goes(s, "restore config")
        /\ work[s].pc \in {"config", "credential", "environment", "restart", "probe"}
        /\ accepted' \subseteq accepted
        /\ UNCHANGED <<config, credential, phi, environment, manifests, minted, torn>>
    BY DEF ChangeFails, files
  <1>2. ConfigAt(s, work[s].pc) /\ ClientAt(s, work[s].pc) /\ KeyTypes /\ work[s].pc # "idle"
    BY <1>1, AtWorkFacts
  <1>3. ConfigAt(s, "restore config")' /\ ClientAt(s, "restore config")'
    BY <1>0, <1>1, <1>2, WrittenStays DEF ConfigAt, ClientAt
  <1> QED
    BY <1>0, <1>1, <1>2, <1>3, ScriptMoves DEF KeyTypes

\* The rollback puts the config back first.
LEMMA RestoreConfigInv == ASSUME KeysInv, NEW s \in KeyScript, RestoreConfig(s) PROVE KeysInv'
  <1> DEFINE pc == IF s = "revoke" THEN "restart restored" ELSE "restore credential"
  <1>0. pc \in KeyPlace /\ pc \in {"restart restored", "restore credential"}
        /\ (s = "revoke" <=> pc = "restart restored")
    BY DEF KeyPlace
  <1>1. Goes(s, pc) /\ work[s].pc = "restore config" /\ config' = work[s].config
        /\ UNCHANGED <<credential, phi, environment, accepted, manifests, minted, torn>>
    BY DEF RestoreConfig
  <1> HIDE DEF pc
  <1>2. ConfigAt(s, "restore config") /\ ClientAt(s, "restore config") /\ KeyTypes
    BY <1>1, AtWorkFacts
  <1>3. ConfigAt(s, pc)' /\ ClientAt(s, pc)'
    BY <1>0, <1>1, <1>2, WrittenStays DEF ConfigAt, ClientAt
  <1> QED
    BY <1>0, <1>1, <1>2, <1>3, ScriptMoves DEF KeyTypes

\* Then the credential it found.
LEMMA RestoreCredentialInv == ASSUME KeysInv, RestoreCredential PROVE KeysInv'
  <1>0. "install" \in KeyScript /\ "restore environment" \in KeyPlace
    BY DEF KeyScript, KeyPlace
  <1>1. Goes("install", "restore environment") /\ work["install"].pc = "restore credential"
        /\ credential' = work["install"].credential
        /\ UNCHANGED <<config, phi, environment, accepted, manifests, minted, torn>>
    BY DEF RestoreCredential
  <1>2. ConfigAt("install", "restore credential") /\ ClientAt("install", "restore credential") /\ KeyTypes
    BY <1>0, <1>1, AtWorkFacts
  <1>3. ConfigAt("install", "restore environment")' /\ ClientAt("install", "restore environment")'
    BY <1>0, <1>1, <1>2, WrittenStays DEF ConfigAt, ClientAt
  <1> QED
    BY <1>0, <1>1, <1>2, <1>3, ScriptMoves DEF KeyTypes

\* Then the environment file.
LEMMA RestoreEnvironmentInv == ASSUME KeysInv, RestoreEnvironment PROVE KeysInv'
  <1>0. "install" \in KeyScript /\ "restart restored" \in KeyPlace
    BY DEF KeyScript, KeyPlace
  <1>1. Goes("install", "restart restored") /\ work["install"].pc = "restore environment"
        /\ environment' = work["install"].environment
        /\ UNCHANGED <<config, credential, phi, accepted, manifests, minted, torn>>
    BY DEF RestoreEnvironment
  <1>2. ConfigAt("install", "restore environment") /\ ClientAt("install", "restore environment")
        /\ work["install"] \in WorkRec
    BY <1>0, <1>1, AtWorkFacts
  <1>3. ConfigAt("install", "restart restored")' /\ ClientAt("install", "restart restored")'
    BY <1>0, <1>1, <1>2, WrittenStays DEF ConfigAt, ClientAt
  <1> QED
    BY <1>0, <1>1, <1>2, <1>3, ScriptMoves DEF WorkRec

\* Phi's rollback puts its credential back.
LEMMA RestorePhiInv == ASSUME KeysInv, RestorePhi PROVE KeysInv'
  <1>0. "phi" \in KeyScript /\ "restart restored" \in KeyPlace
    BY DEF KeyScript, KeyPlace
  <1>1. Goes("phi", "restart restored") /\ work["phi"].pc = "restore credential"
        /\ phi' = work["phi"].phi
        /\ UNCHANGED <<config, credential, environment, accepted, manifests, minted, torn>>
    BY DEF RestorePhi
  <1>2. ConfigAt("phi", "restore credential") /\ ClientAt("phi", "restore credential") /\ KeyTypes
    BY <1>0, <1>1, AtWorkFacts
  <1>3. ConfigAt("phi", "restart restored")' /\ ClientAt("phi", "restart restored")'
    BY <1>0, <1>1, <1>2, WrittenStays DEF ConfigAt, ClientAt
  <1> QED
    BY <1>0, <1>1, <1>2, <1>3, ScriptMoves DEF KeyTypes

\* The gateway reads the restored config.
LEMMA RestartRestoredInv == ASSUME KeysInv, NEW s \in KeyScript, RestartRestored(s) PROVE KeysInv'
  <1>0. "audit" \in KeyPlace
    BY DEF KeyPlace
  <1>1. Goes(s, "audit") /\ work[s].pc = "restart restored" /\ accepted' = config
        /\ UNCHANGED <<config, credential, phi, environment, manifests, minted, torn>>
    BY DEF RestartRestored, files
  <1>2. ConfigAt(s, "restart restored") /\ ClientAt(s, "restart restored") /\ KeyTypes
    BY <1>1, AtWorkFacts
  <1>3. ConfigAt(s, "audit")' /\ ClientAt(s, "audit")'
    BY <1>0, <1>1, <1>2, WrittenStays DEF ConfigAt, ClientAt
  <1> QED
    BY <1>0, <1>1, <1>2, <1>3, ScriptMoves DEF KeyTypes

-----------------------------------------------------------------------------
\* A change of one manifest that keeps its old key.
LEMMA ManifestFacts ==
    ASSUME KeyTypes, NEW k \in Key, NEW m \in ManifestRec, manifests' = [manifests EXCEPT ![k] = m],
           m.old \in {manifests[k].old, 0}
    PROVE  /\ manifests' \in [Key -> ManifestRec] /\ manifests'[k] = m
           /\ \A j \in Key : j # k => manifests'[j] = manifests[j]
           /\ \A j \in Key : manifests'[j].old \in {manifests[j].old, 0}
  BY DEF KeyTypes

\* Success writes the manifest of the rotation.
LEMMA InstallProbesInv == ASSUME KeysInv, InstallProbes PROVE KeysInv'
  <1> DEFINE w == work["install"]
             m == [manifests[w.key] EXCEPT !.status = "rotated"]
  <1>0. "install" \in KeyScript /\ w.pc = "probe" /\ Ends("install", "installed")
        /\ credential = w.key
        /\ UNCHANGED <<files, accepted, minted, torn>>
    BY DEF KeyScript, InstallProbes
  <1>1. /\ KeyTypes /\ ConfigAt("install", "probe") /\ ClientAt("install", "probe")
        /\ Snapshot("install") /\ w.key \in Key
    BY <1>0, AtWorkFacts
  <1>2. m \in ManifestRec /\ m.old = manifests[w.key].old /\ m.status # "revoked"
    BY <1>1 DEF KeyTypes, ManifestRec, Status
  <1>3. manifests' = [manifests EXCEPT ![w.key] = m]
    BY <1>1 DEF InstallProbes, KeyTypes
  <1> HIDE DEF m
  <1>4. /\ manifests' \in [Key -> ManifestRec] /\ manifests'[w.key] = m
        /\ \A j \in Key : j # w.key => manifests'[j] = manifests[j]
        /\ \A j \in Key : manifests'[j].old \in {manifests[j].old, 0}
    BY <1>1, <1>2, <1>3, ManifestFacts
  <1>5. \A j \in Key : manifests'[j].status = "revoked" => manifests'[j].old \notin config \cup accepted
    BY <1>2, <1>4 DEF KeysInv, KeysServed, RevokedStaysOut
  <1>6. torn \/ (credential \in accepted /\ phi \in accepted \cup {0})
    BY <1>0, <1>1, WrittenIs DEF ConfigAt, ClientAt, Snapshot
  <1> QED
    BY <1>0, <1>4, <1>5, <1>6, ScriptEnds

\* Success marks the old key revoked: it is out of config and gateway.
LEMMA RevokeProbesInv == ASSUME KeysInv, RevokeProbes PROVE KeysInv'
  <1> DEFINE w == work["revoke"]
             m == [manifests[w.key] EXCEPT !.status = "revoked"]
  <1>0. "revoke" \in KeyScript /\ w.pc = "probe" /\ Ends("revoke", "revoked")
        /\ credential = w.credential
        /\ UNCHANGED <<files, accepted, minted, torn>>
    BY DEF KeyScript, RevokeProbes
  <1>1. /\ KeyTypes /\ ConfigAt("revoke", "probe") /\ ClientAt("revoke", "probe")
        /\ Snapshot("revoke") /\ w.key \in Key
        /\ manifests[w.key].old # w.credential
        /\ w.phi = 0 \/ manifests[w.key].old # w.phi
    BY <1>0, AtWorkFacts
  <1>2. m \in ManifestRec /\ m.old = manifests[w.key].old
    BY <1>1 DEF KeyTypes, ManifestRec, Status
  <1>3. manifests' = [manifests EXCEPT ![w.key] = m]
    BY <1>1 DEF RevokeProbes, KeyTypes
  <1> HIDE DEF m
  <1>4. /\ manifests' \in [Key -> ManifestRec] /\ manifests'[w.key] = m
        /\ \A j \in Key : j # w.key => manifests'[j] = manifests[j]
        /\ \A j \in Key : manifests'[j].old \in {manifests[j].old, 0}
    BY <1>1, <1>2, <1>3, ManifestFacts
  <1>5. m.old \notin config \cup accepted
    BY <1>2, WrittenIs DEF RevokeProbes, Rejected
  <1>6. \A j \in Key : manifests'[j].status = "revoked" => manifests'[j].old \notin config \cup accepted
    BY <1>4, <1>5 DEF KeysInv, KeysServed, RevokedStaysOut
  <1>7. torn \/ (credential \in accepted /\ phi \in accepted \cup {0})
    BY <1>0, <1>1, WrittenIs DEF ConfigAt, ClientAt, Snapshot
  <1> QED
    BY <1>0, <1>4, <1>6, <1>7, ScriptEnds

\* Success of Phi's installation.
LEMMA PhiProbesInv == ASSUME KeysInv, PhiProbes PROVE KeysInv'
  <1> DEFINE w == work["phi"]
  <1>0. "phi" \in KeyScript /\ w.pc = "probe" /\ Ends("phi", "installed")
        /\ UNCHANGED <<files, accepted, manifests, minted, torn>>
    BY DEF KeyScript, PhiProbes
  <1>1. /\ KeyTypes /\ ConfigAt("phi", "probe") /\ ClientAt("phi", "probe")
        /\ Snapshot("phi")
    BY <1>0, AtWorkFacts
  <1>2. torn \/ (credential \in accepted /\ phi \in accepted \cup {0})
    BY <1>0, <1>1, WrittenIs DEF ConfigAt, ClientAt, Snapshot
  <1> QED
    BY <1>0, <1>1, <1>2, ScriptEnds DEF KeyTypes, KeysInv, KeysServed, RevokedStaysOut

\* What a cleanup leaves of the manifests.
LEMMA CleanedFacts ==
    ASSUME KeysInv, NEW s \in KeyScript, work[s].pc # "idle", Cleaned(s) \/ UNCHANGED manifests
    PROVE  /\ manifests' \in [Key -> ManifestRec]
           /\ \A j \in Key : manifests'[j].old \in {manifests[j].old, 0}
           /\ \A j \in Key : manifests'[j].status = "revoked" =>
                 manifests'[j].old \notin config \cup accepted
  <1> DEFINE k == work[s].key
  <1>0. KeyTypes /\ k \in Key /\ RevokedStaysOut
    BY AtWorkFacts DEF KeysInv, KeysServed
  <1>1. CASE UNCHANGED manifests
    BY <1>0, <1>1 DEF KeyTypes, RevokedStaysOut
  <1>2. CASE s = "install" /\ manifests' = [manifests EXCEPT ![k] = Absent]
    <2>1. Absent.old = 0 /\ Absent.status = "none" /\ Absent \in ManifestRec
      BY RestTypes DEF Absent
    <2> QED
      BY <1>0, <1>2, <2>1, ManifestFacts DEF RevokedStaysOut
  <1>3. CASE s = "revoke" /\ manifests' = [manifests EXCEPT ![k].artifacts = FALSE]
    BY ZenonT(60), <1>0, <1>3 DEF KeyTypes, ManifestRec, RevokedStaysOut
  <1> QED
    BY <1>1, <1>2, <1>3 DEF Cleaned, KeyScript

\* The rollback ends with everything as found.
LEMMA AuditRestoredInv == ASSUME KeysInv, NEW s \in KeyScript, AuditRestored(s) PROVE KeysInv'
  <1>0. work[s].pc = "audit" /\ Ends(s, "rolled back") /\ Cleaned(s)
        /\ UNCHANGED <<files, accepted, minted, torn>>
    BY DEF AuditRestored
  <1>1. ConfigAt(s, "audit") /\ ClientAt(s, "audit") /\ Snapshot(s)
    BY <1>0, AtWorkFacts
  <1>2. torn \/ (credential \in accepted /\ phi \in accepted \cup {0})
    BY <1>1 DEF ConfigAt, ClientAt, Snapshot
  <1> QED
    BY <1>0, <1>2, CleanedFacts, ScriptEnds

\* A rollback that fails between its two files is torn.
LEMMA RollbackFailsInv == ASSUME KeysInv, NEW s \in KeyScript, RollbackFails(s) PROVE KeysInv'
  <1>0. /\ work[s].pc # "idle" /\ Ends(s, "incomplete") /\ (Cleaned(s) \/ UNCHANGED manifests)
        /\ UNCHANGED <<files, minted>> /\ accepted' \subseteq accepted
        /\ (torn => torn') /\ (work[s].pc = "restore credential" => torn')
    BY DEF RollbackFails
  <1> QED
    BY <1>0, CleanedFacts, ScriptEnds

\* A script killed there is torn too; killed elsewhere it leaves the keys served.
LEMMA KeyScriptDiesInv == ASSUME KeysInv, NEW s \in KeyScript, KeyScriptDies(s) PROVE KeysInv'
  <1>0. /\ work[s].pc # "idle" /\ Ends(s, "killed") /\ UNCHANGED <<files, minted, manifests, accepted>>
        /\ (torn => torn') /\ (work[s].pc = "restore credential" => torn')
    BY DEF KeyScriptDies
  <1> QED
    BY <1>0, CleanedFacts, ScriptEnds

-----------------------------------------------------------------------------
\* Every step of KeysNext preserves the invariant, one lemma per action.
LEMMA KeysNextInv == KeysInv /\ [KeysNext]_key_vars => KeysInv'
  <1> SUFFICES ASSUME KeysInv, [KeysNext]_key_vars PROVE KeysInv'
    OBVIOUS
  <1>0. KeyTypes /\ Numbers
    BY DEF KeysInv
  <1>1. CASE Rotate
    BY <1>1, InstallBeginsInv, InstallCredentialInv, InstallEnvironmentInv, InstallProbesInv,
       RestoreCredentialInv, RestoreEnvironmentInv DEF Rotate
  <1>2. CASE Revoke
    BY <1>2, RevokeBeginsInv, RevokeProbesInv DEF Revoke
  <1>3. CASE GivePhi
    BY <1>3, PhiBeginsInv, PhiCredentialInv, PhiProbesInv, RestorePhiInv DEF GivePhi
  <1>4. ASSUME NEW s \in KeyScript,
               \/ WriteConfig(s) \/ RestartCliproxy(s) \/ ChangeFails(s)
               \/ RestoreConfig(s) \/ RestartRestored(s) \/ AuditRestored(s) \/ RollbackFails(s)
               \/ KeyScriptDies(s)
        PROVE  KeysInv'
    BY <1>4, WriteConfigInv, RestartCliproxyInv, ChangeFailsInv, RestoreConfigInv,
       RestartRestoredInv, AuditRestoredInv, RollbackFailsInv, KeyScriptDiesInv
  <1>5. CASE GatewayReloads
    BY <1>0, <1>5, OthersMove DEF GatewayReloads, files, Numbers, KeyTypes
  <1>6. CASE ConfigEdited
    <2>1. minted + 1 \in Key /\ minted < minted + 1 /\ minted <= minted + 1
      BY <1>0, <1>6, KeysAssumption DEF ConfigEdited, KeyTypes, Key, Numbers
    <2> QED
      BY <1>6, <2>1, OthersMove DEF ConfigEdited
  <1>7. CASE UNCHANGED key_vars
    BY <1>0, <1>7, OthersMove DEF key_vars, Numbers, KeyTypes
  <1> QED
    BY <1>1, <1>2, <1>3, <1>4, <1>5, <1>6, <1>7 DEF KeysNext

\* The inductive invariant of the gateway key scripts holds in every behaviour,
\* for any number of keys: each script's place says which of config, gateway and
\* credential already know its key (_apply of the three scripts).
THEOREM KeysInvariance == KeysSpec => []KeysInv
  BY KeysInitInv, KeysNextInv, PTL DEF KeysSpec

\* For any number of keys and kills: the credentials of client and Phi name keys
\* of the config through every rotation, revocation, failure and kill but one
\* between the two files of a rollback; the running gateway accepts them once the
\* last script ended with its result or its rollback; and a key reported as
\* revoked never comes back (install_scoped_gateway_key.py,
\* revoke_scoped_gateway_key.py, install_phi_consumer_gateway_key.py, _apply).
THEOREM KeysAlwaysServed == KeysSpec => []KeysServed
  <1>1. KeysInv => KeysServed
    BY DEF KeysInv
  <1> QED
    BY <1>1, KeysInvariance, PTL
=============================================================================
