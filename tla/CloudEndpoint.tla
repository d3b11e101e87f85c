--------------------------- MODULE CloudEndpoint ---------------------------
(***************************************************************************)
(* The operator scripts that change services on the cloud host:            *)
(* stop_http_importer.py disables the HTTP importer,                       *)
(* quarantine_cloud_legacy_runtime.py takes away the runtime it imported,  *)
(* install_cpa_policy_candidate.py (activate_cloud) makes the gateway run  *)
(* a candidate binary and install_cpa_failure_watcher.py (activate_cloud)  *)
(* installs the units that react to the candidate's receipts. They take    *)
(* different locks or none, and each compares, after its change, what it   *)
(* saw before: the gateway's PID, the dependent units, the drop-in.        *)
(* A canary or a probe may fail at any time.                               *)
(***************************************************************************)
EXTENDS Naturals

CONSTANT MaxLosses   \* bound: scripts that are killed

ASSUME LossesAssumption == MaxLosses \in Nat

VARIABLES
    importer,    \* the HTTP importer: "up" (enabled and active) or "down"
    runtime,     \* /opt/codex-gateway/codexx_app: "live", "held" or "lost"
    quarantine,  \* the quarantine has its manifest and its recover.py
    dropin,      \* the binary the gateway's drop-in names
    selected,    \* the ExecStart systemd has loaded
    gateway,     \* the running gateway: its binary and its PID
    attested,    \* the binary the capability manifest attests
    units,       \* the watcher's unit files and whether its paths are active
    op,          \* where each script is
    found,       \* what it found and has to compare or to restore
    told,        \* what it reported
    losses       \* scripts killed so far

importer_vars == <<importer, runtime, quarantine>>
gateway_vars == <<dropin, selected, gateway, attested>>
cloud_vars == <<importer, runtime, quarantine, dropin, selected, gateway, attested,
                units, op, found, told, losses>>

Op == {"stop", "quarantine", "activate", "watch"}

CloudInit ==
    /\ importer = "up" /\ runtime = "live" /\ quarantine = FALSE
    /\ dropin \in {"base", "cand"} /\ selected = dropin /\ attested = dropin
    /\ gateway = [runs |-> dropin, pid |-> 0]
    /\ \/ units = [files |-> "old", active |-> FALSE]
       \/ dropin = "cand" /\ units = [files |-> "new", active |-> TRUE]
    /\ op = [o \in Op |-> "idle"]
    /\ found = [o \in Op |-> <<>>]
    /\ told = [o \in Op |-> "nothing"]
    /\ losses = 0

Step(o, pc) == op' = [op EXCEPT ![o] = pc] /\ UNCHANGED <<told, found>>
Finds(o, pc, what) ==
    /\ op' = [op EXCEPT ![o] = pc] /\ found' = [found EXCEPT ![o] = what]
    /\ UNCHANGED told
Tells(o, what) ==
    /\ op' = [op EXCEPT ![o] = "done"] /\ told' = [told EXCEPT ![o] = what]
    /\ found' = [found EXCEPT ![o] = <<>>]

\* systemd (external): the importer starts only with its runtime; daemon-reload
\* reads every drop-in; restart runs what is loaded.
ImporterStarts == runtime = "live" /\ importer' = "up"
DaemonReload == selected' = dropin
RestartUnit == gateway' = [runs |-> selected', pid |-> gateway.pid + 1]

\* What a script compares before and after its change: selectors and gateway.
Continuity == <<gateway.pid>>

-----------------------------------------------------------------------------
(***************************************************************************)
(* stop_http_importer.py                                                   *)
(***************************************************************************)

\* A verified rollback snapshot, an enabled and active importer, no connection.
ActiveBaseline == importer = "up"

\* Fresh evidence and the same decision by the signed artifact; the gateway is
\* noted.
StopGate ==
    /\ op["stop"] = "idle" /\ ActiveBaseline
    /\ Finds("stop", "disable", Continuity)
    /\ UNCHANGED <<importer_vars, gateway_vars, units, losses>>

\* The call may fail with or without having had its effect.
DisableImporter ==
    /\ op["stop"] = "disable"
    /\ \/ importer' = "down" /\ Step("stop", "canaries")
       \/ importer' \in {"down", importer} /\ Step("stop", "restore")
    /\ UNCHANGED <<runtime, quarantine, gateway_vars, units, losses>>

\* Stopped, the SSH import and health canaries accepted, the gateway the same.
StopCanaries ==
    /\ op["stop"] = "canaries"
    /\ \/ importer = "down" /\ Continuity = found["stop"] /\ Tells("stop", "stopped")
       \/ Step("stop", "restore")
    /\ UNCHANGED <<importer_vars, gateway_vars, units, losses>>

RestoreImporter ==
    /\ op["stop"] = "restore"
    /\ \/ ImporterStarts /\ Step("stop", "audit")
       \/ UNCHANGED importer /\ Tells("stop", "incomplete")
    /\ UNCHANGED <<runtime, quarantine, gateway_vars, units, losses>>

StopAudit ==
    /\ op["stop"] = "audit"
    /\ \/ Continuity = found["stop"] /\ Tells("stop", "restored")
       \/ Tells("stop", "incomplete")
    /\ UNCHANGED <<importer_vars, gateway_vars, units, losses>>

-----------------------------------------------------------------------------
(***************************************************************************)
(* quarantine_cloud_legacy_runtime.py                                      *)
(***************************************************************************)

\* No scheduled job, and only the expected units, none of them active.
Dormant == importer = "down"

\* The tree, which no process references.
RuntimeContract == runtime = "live" /\ Dormant

QuarantineDecides ==
    /\ op["quarantine"] = "idle" /\ RuntimeContract
    /\ Finds("quarantine", "decided", Continuity)
    /\ UNCHANGED <<importer_vars, gateway_vars, units, losses>>

\* The same contract under the lock; manifest and recover.py before the move.
QuarantineBegins ==
    /\ op["quarantine"] = "decided"
    /\ \/ /\ RuntimeContract /\ Continuity = found["quarantine"]
          /\ quarantine' = TRUE /\ Step("quarantine", "move")
       \/ Tells("quarantine", "refused") /\ UNCHANGED quarantine
    /\ UNCHANGED <<importer, runtime, gateway_vars, units, losses>>

MoveRuntime ==
    /\ op["quarantine"] = "move"
    /\ \/ runtime = "live" /\ runtime' = "held" /\ Step("quarantine", "verify")
       \/ UNCHANGED runtime /\ Step("quarantine", "audit")
    /\ UNCHANGED <<importer, quarantine, gateway_vars, units, losses>>

\* Mutant: the importer is not looked at again.
VerifyQuarantineTree ==
    /\ op["quarantine"] = "verify"
    /\ \/ runtime = "held" /\ Tells("quarantine", "quarantined")
       \/ Step("quarantine", "move back")
    /\ UNCHANGED <<importer_vars, gateway_vars, units, losses>>

\* The tree is the same, no process references it, continuity holds.
VerifyQuarantine ==
    /\ op["quarantine"] = "verify"
    /\ \/ /\ runtime = "held" /\ Dormant /\ Continuity = found["quarantine"]
          /\ Tells("quarantine", "quarantined")
       \/ Step("quarantine", "move back")
    /\ UNCHANGED <<importer_vars, gateway_vars, units, losses>>

MoveRuntimeBack ==
    /\ op["quarantine"] = "move back"
    /\ \/ runtime = "held" /\ runtime' = "live" /\ Step("quarantine", "audit")
       \/ runtime = "held" /\ UNCHANGED runtime /\ Step("quarantine", "audit failed")
       \/ runtime # "held" /\ UNCHANGED runtime /\ Step("quarantine", "audit")
    /\ UNCHANGED <<importer, quarantine, gateway_vars, units, losses>>

\* Only a clean audit deletes the quarantine.
AuditQuarantine ==
    /\ op["quarantine"] \in {"audit", "audit failed"}
    /\ \/ /\ op["quarantine"] = "audit" /\ RuntimeContract /\ Continuity = found["quarantine"]
          /\ quarantine' = FALSE /\ Tells("quarantine", "restored")
       \/ UNCHANGED quarantine /\ Tells("quarantine", "incomplete")
    /\ UNCHANGED <<importer, runtime, gateway_vars, units, losses>>

\* recover.py: nothing live, the held tree as the manifest says.
RecoverRuntime ==
    /\ quarantine /\ runtime = "held"
    /\ runtime' = "live"
    /\ UNCHANGED <<importer, quarantine, gateway_vars, units, op, found, told, losses>>

-----------------------------------------------------------------------------
(***************************************************************************)
(* install_cpa_policy_candidate.py, activate_cloud                         *)
(***************************************************************************)

\* Drop-in and capability manifest as they are now will be restored; with the
\* candidate already selected and attested nothing is changed.
ActivateChecks ==
    /\ op["activate"] = "idle"
    /\ IF dropin = "cand" /\ attested = "cand"
       THEN Tells("activate", "active")
       ELSE Finds("activate", "write", <<dropin, attested>>)
    /\ UNCHANGED <<importer_vars, gateway_vars, units, losses>>

WriteDropIns ==
    /\ op["activate"] = "write"
    /\ dropin' = "cand"
    /\ Step("activate", "restart")
    /\ UNCHANGED <<importer_vars, selected, gateway, attested, units, losses>>

RestartGateway ==
    /\ op["activate"] = "restart"
    /\ DaemonReload /\ RestartUnit
    /\ Step("activate", "probe")
    /\ UNCHANGED <<importer_vars, dropin, attested, units, losses>>

\* ExecStart names the candidate and its policy answers: attested last.
ProbeGateway ==
    /\ op["activate"] = "probe" /\ selected = "cand" /\ gateway.runs = "cand"
    /\ attested' = "cand"
    /\ Tells("activate", "active")
    /\ UNCHANGED <<importer_vars, dropin, selected, gateway, units, losses>>

\* What was found is written back, unless that fails too.
ActivateFails ==
    /\ op["activate"] \in {"write", "restart", "probe"}
    /\ \/ /\ dropin' = found["activate"][1] /\ attested' = found["activate"][2]
          /\ Step("activate", "undo")
       \/ UNCHANGED <<dropin, attested>> /\ Tells("activate", "unverified")
    /\ UNCHANGED <<importer_vars, selected, gateway, units, losses>>

\* Reload, restart, health of the baseline.
RollBackGateway ==
    /\ op["activate"] = "undo"
    /\ DaemonReload /\ RestartUnit
    /\ \E what \in {"rolled back", "unverified"} : Tells("activate", what)
    /\ UNCHANGED <<importer_vars, dropin, attested, units, losses>>

-----------------------------------------------------------------------------
(***************************************************************************)
(* install_cpa_failure_watcher.py, activate_cloud                          *)
(***************************************************************************)

\* The drop-in and the loaded ExecStart name the candidate.
CloudProducer == dropin = "cand" /\ selected = "cand"

\* With the units already there and active nothing is changed.
RequireCloudProducer ==
    /\ op["watch"] = "idle" /\ CloudProducer
    /\ IF units = [files |-> "new", active |-> TRUE]
       THEN Tells("watch", "active")
       ELSE Finds("watch", "write", <<units>>)
    /\ UNCHANGED <<importer_vars, gateway_vars, units, losses>>

WriteUnits ==
    /\ op["watch"] = "write"
    /\ units' = [units EXCEPT !.files = "new"]
    /\ Step("watch", "enable")
    /\ UNCHANGED <<importer_vars, gateway_vars, losses>>

\* daemon-reload, then the two path units.
EnablePaths ==
    /\ op["watch"] = "enable"
    /\ DaemonReload /\ units' = [units EXCEPT !.active = TRUE]
    /\ Step("watch", "check")
    /\ UNCHANGED <<importer_vars, dropin, gateway, attested, losses>>

CheckPaths ==
    /\ op["watch"] = "check"
    /\ Tells("watch", "active")
    /\ UNCHANGED <<importer_vars, gateway_vars, units, losses>>

WatchFails ==
    /\ op["watch"] \in {"write", "enable", "check"}
    /\ \/ DaemonReload /\ units' = found["watch"][1] /\ Tells("watch", "rolled back")
       \/ /\ selected' \in {selected, dropin}
          /\ units' \in [files : {"old", "new"}, active : BOOLEAN]
          /\ Tells("watch", "incomplete")
    /\ UNCHANGED <<importer_vars, dropin, gateway, attested, losses>>

-----------------------------------------------------------------------------
CloudScriptDies(o) ==
    /\ op[o] \notin {"idle", "decided", "done", "dead"} /\ losses < MaxLosses
    /\ losses' = losses + 1
    /\ Step(o, "dead")
    /\ UNCHANGED <<importer_vars, gateway_vars, units>>

StopImporter == StopGate \/ DisableImporter \/ StopCanaries \/ RestoreImporter \/ StopAudit
QuarantineRuntime ==
    \/ QuarantineDecides \/ QuarantineBegins \/ MoveRuntime \/ VerifyQuarantine
    \/ MoveRuntimeBack \/ AuditQuarantine \/ RecoverRuntime
ActivateCandidate ==
    \/ ActivateChecks \/ WriteDropIns \/ RestartGateway \/ ProbeGateway
    \/ ActivateFails \/ RollBackGateway
InstallWatcher == RequireCloudProducer \/ WriteUnits \/ EnablePaths \/ CheckPaths \/ WatchFails

CloudNext ==
    \/ StopImporter \/ QuarantineRuntime \/ ActivateCandidate \/ InstallWatcher
    \/ \E o \in Op : CloudScriptDies(o)

CloudSpec == CloudInit /\ [][CloudNext]_cloud_vars
-----------------------------------------------------------------------------
Busy(o) == op[o] \notin {"idle", "decided", "done"}

\* An importer that is up has its runtime, once the quarantine is not at work:
\* the rollback of a stop and a quarantine that was decided while the importer
\* was down never both succeed.
ImporterHasRuntime ==
    importer = "up" /\ runtime # "live" => Busy("quarantine") \/ told["quarantine"] = "incomplete"

\* The legacy runtime is in place or in a quarantine that can be recovered.
RuntimeKept == runtime = "live" \/ (runtime = "held" /\ quarantine)

\* The watcher's paths are active only beside a gateway that writes the
\* receipts, unless the activation the watcher found under way was taken back.
WatcherHasProducer ==
    units.active /\ ~Busy("watch") /\ ~Busy("activate") =>
        \/ dropin = "cand" /\ selected = "cand" /\ gateway.runs = "cand"
        \/ told["activate"] \in {"rolled back", "unverified"}

\* The reports of the four scripts fit together, however they interleave
\* (stop_http_importer.py main, quarantine_cloud_legacy_runtime.py main, the
\* two activate_cloud).
CloudScriptsAgree == ImporterHasRuntime /\ RuntimeKept /\ WatcherHasProducer
=============================================================================
