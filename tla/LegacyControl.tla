--------------------------- MODULE LegacyControl ---------------------------
(***************************************************************************)
(* The retirement of the legacy codexx installation on the workstation.    *)
(* Three operator scripts change it: migrate_legacy_local_control.py makes *)
(* the control service run from the retained copy of the package,          *)
(* retire_legacy_local_control.py stops that service and takes its plist   *)
(* away, remove_legacy_local_package.py quarantines the package. Each      *)
(* prepares a recover.py before its first change, takes a lock of its own  *)
(* and undoes itself when a later check fails. backup_legacy_local.py      *)
(* makes the retained copy; retire_stale_local_codexx_exec.py ends legacy  *)
(* processes that block the removal. Nothing orders the scripts: a check   *)
(* of one may see the middle of another. Whatever a continuity check or a  *)
(* canary compares that is not a variable here may differ at any time.     *)
(***************************************************************************)
EXTENDS Naturals, Sequences

CONSTANT MaxDeaths   \* bound: scripts that are killed

ASSUME DeathsAssumption == MaxDeaths \in Nat

VARIABLES
    plist,      \* the plist the LaunchAgents directory holds, or "absent"
    held,       \* the plist in the retirement backup, or "none"
    control,    \* the runtime the listener on port 8765 runs from, or "down"
    loaded,     \* launchd has the control label
    boots,      \* starts of the control service (its PID)
    place,      \* where each package path is: "live", "held" or "lost"
    kept,       \* the backups that are complete (manifest and recover.py)
    stray,      \* a legacy exec process: "running", "stale" or "none"
    script,     \* where each script is
    seen,       \* the identity its decision digest names, or what it has moved
    said,       \* what it reported
    deaths      \* scripts killed so far

control_vars == <<plist, held, control, loaded, boots>>
package_vars == <<place, kept, stray>>
legacy_vars == <<plist, held, control, loaded, boots, place, kept, stray,
                 script, seen, said, deaths>>

TARGETS == <<"codexx_app", "codexx.py", "codexx-legacy">>
Path == {TARGETS[i] : i \in 1..3}
Change == {"migrate", "retire", "remove"}
Recovery == {"restart", "reinstate", "unpack"}

LegacyInit ==
    /\ plist = "original" /\ held = "none"
    /\ control = "live" /\ loaded = TRUE /\ boots = 0
    /\ place = [p \in Path |-> IF p = "codexx-legacy" THEN "none" ELSE "live"]
    /\ kept = {} /\ stray \in {"none", "stale"}
    /\ script = [s \in Change \cup Recovery |-> "idle"]
    /\ seen = [s \in Change \cup {"unpack"} |-> <<>>]
    /\ said = [s \in Change |-> "nothing"]
    /\ deaths = 0

\* What the program a plist starts needs on disk.
Available(r) ==
    \/ r = "live" /\ place["codexx.py"] = "live" /\ place["codexx_app"] = "live"
    \/ r = "retained" /\ "bundle" \in kept
Names(p) == IF p = "target" THEN "retained" ELSE "live"

\* What a decision digest names: the plist, the runtime and the PID.
Identity == <<plist, control, boots>>

Goto(s, pc) == script' = [script EXCEPT ![s] = pc] /\ UNCHANGED <<said, seen>>
\* (The words after "restored" only tell two paths to the same report apart.)
Says(s, what) ==
    /\ script' = [script EXCEPT ![s] = "done"]
    /\ said' = [said EXCEPT ![s] = what]
    /\ seen' = [seen EXCEPT ![s] = <<>>]

\* The digest of --check, and its last comparison under the script's lock.
Decides(s) ==
    /\ script[s] = "idle"
    /\ script' = [script EXCEPT ![s] = "decided"] /\ seen' = [seen EXCEPT ![s] = Identity]
    /\ UNCHANGED said
Confirms(s) ==
    /\ seen[s] = Identity
    /\ script' = [script EXCEPT ![s] = "bootout"] /\ seen' = [seen EXCEPT ![s] = <<>>]
    /\ UNCHANGED said

\* What the process inventory calls legacy.
LegacyProcesses == stray # "none" \/ control = "live"
-----------------------------------------------------------------------------
(***************************************************************************)
(* launchd and the listener (external).                                    *)
(***************************************************************************)

\* bootout succeeds, fails, or succeeds while the listener stays longer than
\* the 10 seconds the caller waits.
BootedOut == loaded /\ loaded' = FALSE /\ control' = "down" /\ UNCHANGED <<plist, held, boots>>
BootoutRefused == UNCHANGED control_vars
BootoutSlow == loaded /\ loaded' = FALSE /\ UNCHANGED <<plist, held, control, boots>>

\* bootstrap of the plist as it is, when no other listener is in the way.
Started ==
    /\ ~loaded /\ control = "down" /\ plist # "absent" /\ Available(Names(plist))
    /\ loaded' = TRUE /\ control' = Names(plist) /\ boots' = boots + 1
    /\ UNCHANGED <<plist, held>>

ListenerStops ==
    /\ ~loaded /\ control # "down"
    /\ control' = "down"
    /\ UNCHANGED <<plist, held, loaded, boots, package_vars, script, seen, said, deaths>>

\* The user runs the legacy program, and it ends.
LegacyExec ==
    /\ stray = "none" /\ Available("live") /\ stray' = "running"
    /\ script["remove"] \notin {"idle", "done"} \* bound: only where it matters
    /\ UNCHANGED <<control_vars, place, kept, script, seen, said, deaths>>
LegacyExecEnds ==
    /\ stray = "running" /\ stray' = "none"
    /\ UNCHANGED <<control_vars, place, kept, script, seen, said, deaths>>

-----------------------------------------------------------------------------
(***************************************************************************)
(* retire_stale_local_codexx_exec.py                                       *)
(***************************************************************************)

\* An orphan with one Codex child, for thirty days without terminal or network.
StaleTarget == stray = "stale"

\* Found twice under one digest, it is sent SIGTERM, which it may outlive.
RetireStale ==
    /\ StaleTarget
    /\ stray' = "none"
    /\ UNCHANGED <<control_vars, place, kept, script, seen, said, deaths>>

-----------------------------------------------------------------------------
(***************************************************************************)
(* backup_legacy_local.py: the private bundle, then the entrypoint that    *)
(* names it.                                                               *)
(***************************************************************************)
CreateBackup ==
    /\ Available("live") /\ "bundle" \notin kept
    /\ kept' = kept \cup {"bundle"}
    /\ UNCHANGED <<control_vars, place, stray, script, seen, said, deaths>>

ActivateRecoveryPaths ==
    /\ "bundle" \in kept /\ place["codexx-legacy"] = "none"
    /\ place' = [place EXCEPT !["codexx-legacy"] = "live"]
    /\ UNCHANGED <<control_vars, kept, stray, script, seen, said, deaths>>

-----------------------------------------------------------------------------
(***************************************************************************)
(* migrate_legacy_local_control.py                                         *)
(***************************************************************************)
\* The live files are those of the bundle the entrypoint names.
RecoveryVerified == "bundle" \in kept /\ \A p \in Path : place[p] = "live"

MigrateContract == loaded /\ plist # "absent" /\ control = "live" /\ RecoveryVerified

MigrateDecides ==
    /\ MigrateContract /\ Decides("migrate")
    /\ UNCHANGED <<control_vars, package_vars, deaths>>

\* Under the lock the same identity is found again; the backup with its
\* recover.py is written before the restart.
MigrateBegins ==
    /\ script["migrate"] = "decided"
    /\ \/ /\ MigrateContract /\ Confirms("migrate")
          /\ kept' = kept \cup {"migration"}
       \/ Says("migrate", "refused") /\ UNCHANGED kept
    /\ UNCHANGED <<control_vars, place, stray, deaths>>

MigrateStops ==
    /\ script["migrate"] = "bootout"
    /\ \/ BootedOut /\ Goto("migrate", "write")
       \/ BootoutRefused /\ Goto("migrate", "undo")
       \/ BootoutSlow /\ Goto("migrate", "undo")
    /\ UNCHANGED <<package_vars, deaths>>

MigrateWrites ==
    /\ script["migrate"] = "write"
    /\ plist' = "target"
    /\ Goto("migrate", "bootstrap")
    /\ UNCHANGED <<held, control, loaded, boots, package_vars, deaths>>

\* The new service has to run from the retained launcher.
MigrateStarts ==
    /\ script["migrate"] = "bootstrap"
    /\ \/ Started /\ Goto("migrate", IF Names(plist) = "retained" THEN "verify" ELSE "undo")
       \/ UNCHANGED control_vars /\ Goto("migrate", "undo")
    /\ UNCHANGED <<package_vars, deaths>>

\* Continuity and an idle listener of the new process.
MigrateVerifies ==
    /\ script["migrate"] = "verify"
    /\ \/ loaded /\ control = "retained" /\ Says("migrate", "migrated")
       \/ Goto("migrate", "undo")
    /\ UNCHANGED <<control_vars, package_vars, deaths>>

\* The except branch: a listener is booted out first.
MigrateUndoes ==
    /\ script["migrate"] = "undo"
    /\ \/ control = "down" /\ UNCHANGED control_vars /\ Goto("migrate", "fallback")
       \/ control # "down" /\ BootedOut /\ Goto("migrate", "fallback")
       \/ control # "down" /\ BootoutRefused /\ Says("migrate", "incomplete")
    /\ UNCHANGED <<package_vars, deaths>>

MigrateFallsBack ==
    /\ script["migrate"] = "fallback"
    /\ plist' = "fallback"
    /\ Goto("migrate", "restart")
    /\ UNCHANGED <<held, control, loaded, boots, package_vars, deaths>>

MigrateRestarts ==
    /\ script["migrate"] = "restart"
    /\ \/ Started /\ Names(plist) = "live" /\ Says("migrate", "restored")
       \/ UNCHANGED control_vars /\ Says("migrate", "incomplete")
    /\ UNCHANGED <<package_vars, deaths>>

-----------------------------------------------------------------------------
(***************************************************************************)
(* retire_legacy_local_control.py                                          *)
(***************************************************************************)

\* The service runs from the retained runtime under exactly the plist of the
\* migration backup.
RetireContract == loaded /\ plist = "target" /\ control = "retained" /\ "migration" \in kept

RetireDecides ==
    /\ RetireContract /\ Decides("retire")
    /\ UNCHANGED <<control_vars, package_vars, deaths>>

RetireBegins ==
    /\ script["retire"] = "decided"
    /\ \/ /\ RetireContract /\ Confirms("retire")
          /\ kept' = kept \cup {"retirement"}
       \/ Says("retire", "refused") /\ UNCHANGED kept
    /\ UNCHANGED <<control_vars, place, stray, deaths>>

\* The except branch starts the service again only when the bootout returned.
RetireStops ==
    /\ script["retire"] = "bootout"
    /\ \/ BootedOut /\ Goto("retire", "move")
       \/ BootoutRefused /\ Goto("retire", "audit")
       \/ BootoutSlow /\ Goto("retire", "audit slow")
    /\ UNCHANGED <<package_vars, deaths>>

\* Whatever plist is there by now is moved away.
RetireMoves ==
    /\ script["retire"] = "move"
    /\ \/ /\ plist # "absent"
          /\ held' = plist /\ plist' = "absent"
          /\ Goto("retire", "verify")
       \/ UNCHANGED <<plist, held>> /\ Goto("retire", "restart")
    /\ UNCHANGED <<control, loaded, boots, package_vars, deaths>>

RetireVerifies ==
    /\ script["retire"] = "verify"
    /\ \/ ~loaded /\ control = "down" /\ Says("retire", "retired")
       \/ Goto("retire", "put back")
    /\ UNCHANGED <<control_vars, package_vars, deaths>>

RetirePutsBack ==
    /\ script["retire"] = "put back"
    /\ IF plist = "absent" /\ held # "none"
       THEN plist' = held /\ held' = "none" ELSE UNCHANGED <<plist, held>>
    /\ Goto("retire", "restart")
    /\ UNCHANGED <<control, loaded, boots, package_vars, deaths>>

\* Mutant: the service is not started again.
RetireRestartsNever ==
    /\ script["retire"] = "restart"
    /\ Goto("retire", "audit")
    /\ UNCHANGED <<control_vars, package_vars, deaths>>

\* _bootstrap first writes the plist the contract was read from.
RetireRestarts ==
    /\ script["retire"] = "restart"
    /\ \/ /\ control = "down" /\ plist' = "target" /\ UNCHANGED <<held, control, loaded, boots>>
          /\ Goto("retire", "bootstrap")
       \/ control # "down" /\ UNCHANGED control_vars /\ Goto("retire", "audit")
    /\ UNCHANGED <<package_vars, deaths>>

RetireStarts ==
    /\ script["retire"] = "bootstrap"
    /\ \/ Started /\ Names(plist) = "retained" /\ Goto("retire", "audit")
       \/ UNCHANGED control_vars /\ Says("retire", "incomplete")
    /\ UNCHANGED <<package_vars, deaths>>

\* Only continuity is looked at again.
RetireAudits ==
    /\ script["retire"] \in {"audit", "audit slow"}
    /\ \E what \in {"restored", "incomplete"} :
          Says("retire", IF script["retire"] = "audit slow" /\ what = "restored"
                         THEN "restored after slow stop" ELSE what)
    /\ UNCHANGED <<control_vars, package_vars, deaths>>

-----------------------------------------------------------------------------
(***************************************************************************)
(* remove_legacy_local_package.py                                          *)
(***************************************************************************)
Place(p, where) == place' = [place EXCEPT ![p] = where]
MovedSoFar == {p \in Path : place[p] = "held"}
Last(S) == TARGETS[CHOOSE i \in 1..3 : TARGETS[i] \in S /\ \A k \in i + 1..3 : TARGETS[k] \notin S]
First(S) == TARGETS[CHOOSE i \in 1..3 : TARGETS[i] \in S /\ \A k \in 1..i - 1 : TARGETS[k] \notin S]

RemoveBegins ==
    /\ script["remove"] = "idle"
    /\ ~LegacyProcesses /\ RecoveryVerified
    /\ Goto("remove", "recheck")
    /\ UNCHANGED <<control_vars, package_vars, deaths>>

\* Mutant: the quarantine gets no manifest before the move.
RemoveRechecksOnly ==
    /\ script["remove"] = "recheck"
    /\ \/ ~LegacyProcesses /\ Goto("remove", "move")
       \/ Says("remove", "refused")
    /\ UNCHANGED <<control_vars, package_vars, deaths>>

\* The native import and a fresh shell took their time: processes are looked
\* at again, then the quarantine gets its manifest and its recover.py.
RemoveRechecks ==
    /\ script["remove"] = "recheck"
    /\ \/ /\ ~LegacyProcesses /\ kept' = kept \cup {"removal"}
          /\ Goto("remove", "move")
       \/ Says("remove", "refused") /\ UNCHANGED kept
    /\ UNCHANGED <<control_vars, place, stray, deaths>>

\* One rename per path; a rename that fails starts _move_targets' own rollback.
RemoveMoves ==
    LET next == First(Path \ MovedSoFar) IN
    /\ script["remove"] = "move"
    /\ \/ /\ Place(next, "held")
          /\ Goto("remove", IF MovedSoFar \cup {next} = Path THEN "verify" ELSE "move")
       \/ UNCHANGED place /\ Goto("remove", "unmove")
    /\ UNCHANGED <<control_vars, kept, stray, deaths>>

\* That rollback may itself fail; main has no list of what was moved then.
RemoveUnmoves ==
    /\ script["remove"] = "unmove"
    /\ \/ /\ MovedSoFar # {} /\ Place(Last(MovedSoFar), "live") /\ UNCHANGED <<script, seen, said>>
       \/ MovedSoFar = {} /\ UNCHANGED place /\ Goto("remove", "audit")
       \/ MovedSoFar # {} /\ UNCHANGED place /\ Goto("remove", "audit stuck")
    /\ UNCHANGED <<control_vars, kept, stray, deaths>>

\* A fresh shell, the native import, selectors, shell and CPA, and no process.
RemoveVerifies ==
    /\ script["remove"] = "verify"
    /\ \/ ~LegacyProcesses /\ Says("remove", "quarantined")
       \/ Goto("remove", "undo")
    /\ UNCHANGED <<control_vars, package_vars, deaths>>

\* _restore_targets goes on after an error.
RemoveUndoes ==
    /\ script["remove"] = "undo"
    /\ \/ /\ \A p \in Path : place[p] = "held"
          /\ place' = [p \in Path |-> "live"] /\ Goto("remove", "audit")
       \/ \E S \in SUBSET Path : /\ S # {}
                                 /\ place' = [p \in Path |-> IF p \in S THEN place[p] ELSE "live"]
                                 /\ Says("remove", "incomplete")
    /\ UNCHANGED <<control_vars, kept, stray, deaths>>

\* Selectors, shell and CPA are audited; without an error the quarantine
\* directory is deleted with whatever is in it.
RemoveAudits ==
    /\ script["remove"] \in {"audit", "audit stuck"}
    /\ \/ Says("remove", "incomplete") /\ UNCHANGED <<place, kept>>
       \/ /\ place' = [p \in Path |-> IF place[p] = "held" THEN "lost" ELSE place[p]]
          /\ kept' = kept \ {"removal"}
          /\ Says("remove", IF script["remove"] = "audit" THEN "restored" ELSE "restored after stuck rollback")
    /\ UNCHANGED <<control_vars, stray, deaths>>

-----------------------------------------------------------------------------
(***************************************************************************)
(* The three recover.py scripts, each run by hand.                         *)
(***************************************************************************)

\* The migration's: any listener is booted out, the chosen plist written. It
\* gives up when the listener does not stop.
Restart ==
    /\ script["restart"] = "idle" /\ "migration" \in kept
    /\ \E p \in {"target", "fallback"} :
          /\ Available(Names(p))
          /\ \/ /\ plist' = p /\ control' = "down" /\ loaded' = FALSE
                /\ UNCHANGED <<held, boots>> /\ Goto("restart", "bootstrap")
             \/ control # "down" /\ (BootoutRefused \/ BootoutSlow) /\ Goto("restart", "done")
    /\ UNCHANGED <<package_vars, deaths>>

RestartStarts ==
    /\ script["restart"] = "bootstrap"
    /\ \/ Started \/ UNCHANGED control_vars
    /\ Goto("restart", "done")
    /\ UNCHANGED <<package_vars, deaths>>

\* The retirement's: only when no plist is live and the held one is the one
\* the manifest names.
Reinstate ==
    /\ script["reinstate"] = "idle" /\ "retirement" \in kept
    /\ plist = "absent" /\ held = "target" /\ Available("retained")
    /\ plist' = held
    /\ Goto("reinstate", "bootstrap")
    /\ UNCHANGED <<held, control, loaded, boots, package_vars, deaths>>

\* Up: the held copy goes. Not started: the live one goes again. Started without
\* an answer: booted out, and the live one moved back, unless it does not stop.
ReinstateStarts ==
    /\ script["reinstate"] = "bootstrap"
    /\ \/ /\ ~loaded /\ control = "down" /\ plist # "absent" /\ Available(Names(plist))
          /\ loaded' = TRUE /\ control' = Names(plist) /\ boots' = boots + 1
          /\ held' = "none" /\ UNCHANGED plist
       \/ plist' = "absent" /\ UNCHANGED <<held, control, loaded, boots>>
       \/ /\ ~loaded /\ plist # "absent" /\ held' = plist /\ plist' = "absent"
          /\ control' = "down" /\ UNCHANGED <<loaded, boots>>
       \/ Started
    /\ Goto("reinstate", "done")
    /\ UNCHANGED <<package_vars, deaths>>

\* The removal's: all paths are held and none is live.
Unpack ==
    /\ script["unpack"] = "idle" /\ "removal" \in kept
    /\ \A p \in Path : place[p] = "held"
    /\ Goto("unpack", "move")
    /\ UNCHANGED <<control_vars, package_vars, deaths>>

Unpacked(moved) == seen' = [seen EXCEPT !["unpack"] = moved] /\ UNCHANGED <<script, said>>

UnpackMoves ==
    LET moved == seen["unpack"]
        next == TARGETS[Len(moved) + 1]
    IN /\ script["unpack"] = "move"
       /\ IF Len(moved) = Len(TARGETS)
          THEN Goto("unpack", "done") /\ UNCHANGED place
          ELSE \/ place[next] = "held" /\ Place(next, "live") /\ Unpacked(Append(moved, next))
               \/ UNCHANGED place /\ Goto("unpack", "undo")
       /\ UNCHANGED <<control_vars, kept, stray, deaths>>

\* A rename failed: what was moved goes back, unless that fails too.
UnpackUndoes ==
    LET moved == seen["unpack"] IN
    /\ script["unpack"] = "undo"
    /\ \/ /\ moved # <<>> /\ place[moved[Len(moved)]] = "live" /\ "removal" \in kept
          /\ Place(moved[Len(moved)], "held") /\ Unpacked(SubSeq(moved, 1, Len(moved) - 1))
       \/ UNCHANGED place /\ Goto("unpack", "done")
    /\ UNCHANGED <<control_vars, kept, stray, deaths>>

-----------------------------------------------------------------------------
\* A script is killed, wherever it is.
ScriptDies(s) ==
    /\ script[s] \notin {"idle", "done"} /\ deaths < MaxDeaths
    /\ deaths' = deaths + 1
    /\ Goto(s, "dead")
    /\ UNCHANGED <<control_vars, package_vars>>

Migrate ==
    \/ MigrateDecides \/ MigrateBegins \/ MigrateStops \/ MigrateWrites \/ MigrateStarts
    \/ MigrateVerifies \/ MigrateUndoes \/ MigrateFallsBack \/ MigrateRestarts
Retire ==
    \/ RetireDecides \/ RetireBegins \/ RetireStops \/ RetireMoves \/ RetireVerifies
    \/ RetirePutsBack \/ RetireRestarts \/ RetireStarts \/ RetireAudits
RemovePackage ==
    \/ RemoveBegins \/ RemoveRechecks \/ RemoveMoves \/ RemoveUnmoves
    \/ RemoveVerifies \/ RemoveUndoes \/ RemoveAudits
RecoverByHand ==
    \/ Restart \/ RestartStarts \/ Reinstate \/ ReinstateStarts \/ Unpack \/ UnpackMoves
    \/ UnpackUndoes

LegacyNext ==
    \/ ListenerStops \/ LegacyExec \/ LegacyExecEnds \/ RetireStale \/ CreateBackup \/ ActivateRecoveryPaths
    \/ Migrate \/ Retire \/ RemovePackage \/ RecoverByHand
    \/ \E s \in Change \cup Recovery : ScriptDies(s)

LegacySpec == LegacyInit /\ [][LegacyNext]_legacy_vars
-----------------------------------------------------------------------------
AtWork(s) == script[s] \notin {"idle", "decided", "done", "dead"}
Untouched(s) == script[s] \in {"idle", "decided"}

\* No package path is ever lost: at every moment, also when the removal or its
\* recover.py is killed half way or other scripts run, each path is live or in
\* a quarantine that has its manifest and its recover.py. The one exception is
\* a rename that fails inside _move_targets and whose own rollback fails too:
\* main knows of no move then, audits only selectors, shell and CPA, and
\* deletes the quarantine (remove_legacy_local_package.py main).
PackageKept ==
    \A p \in Path :
        /\ place[p] = "held" => "removal" \in kept
        /\ place[p] = "lost" => said["remove"] = "restored after stuck rollback"

\* A report that a failed change was restored is true once no script is at
\* work, unless a recovery was run, a script killed or another rollback reported
\* incomplete or was stuck (PackageKept): the control service is up again (live
\* control after a migration, unless a retirement went on with what it had seen
\* of it), and every path is live. It is not when the listener outlived the wait
\* of the retirement's bootout (RetireStops).
RestoredIsTrue ==
    /\ \A s \in Change \cup Recovery : ~AtWork(s)
    /\ \A s \in Recovery : Untouched(s)
    /\ \A s \in Change : said[s] \notin {"incomplete", "restored after stuck rollback"}
    /\ deaths = 0
    =>
        /\ said["migrate"] = "restored" /\ script["retire"] \in {"idle", "decided"} =>
               control = "live" /\ place["codexx.py"] = "live"
        /\ said["retire"] = "restored" => control # "down"
        /\ said["remove"] = "restored" => \A p \in Path : place[p] = "live"

\* A control service that was reported retired stays down until its recovery,
\* or the migration's, is run, or the rollback of a migration that was still
\* at work when the retirement was decided starts it again.
RetiredStays ==
    said["retire"] = "retired" /\ control # "down" =>
        \/ script["restart"] # "idle" \/ script["reinstate"] # "idle"
        \/ said["migrate"] \in {"restored", "nothing"}

\* What a finished script reported holds, however the scripts interleave
\* (the mains of migrate_legacy_local_control.py, retire_legacy_local_control.py
\* and remove_legacy_local_package.py).
ReportsHold == RestoredIsTrue /\ RetiredStays
=============================================================================
