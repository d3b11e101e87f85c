---------------------------- MODULE HealthBridge ----------------------------
(***************************************************************************)
(* The legacy health bridge: install_legacy_health_bridge_units.py writes  *)
(* its unit files, run_legacy_health_bridge_canary.py runs it once against *)
(* a private output, rehearse_legacy_health_bridge_cutover.py hands the    *)
(* contract file of the old exporter over to it, back, and over again, and *)
(* legacy_health_bridge.py is what it publishes. The installer has a lock  *)
(* of its own; canary and cutover share one. Timers fire between any two   *)
(* steps, and a service whose timer was just disabled may still publish.   *)
(* The unit files start whatever artifact the environment file names, so   *)
(* what systemd had loaded before a daemon-reload makes no difference.     *)
(***************************************************************************)
EXTENDS Naturals, Sequences

CONSTANTS
    Version,         \* the staged releases
    Attempts,        \* how often a publisher is started before it is given up
    MaxAccounts,     \* bound: accounts a formal health document counts
    MaxBridgeKills   \* bound: scripts that are killed

ASSUME BridgeAssumption ==
    /\ "none" \notin Version
    /\ Attempts \in Nat \ {0} /\ MaxAccounts \in Nat /\ MaxBridgeKills \in Nat

VARIABLES
    unit_files,     \* the release each installed file is from, "none" without it
    timers,         \* the publishers whose timer is enabled and active
    running,        \* the services that are running: publishers, the canary
    output,         \* who wrote the contract file last
    canary_output,  \* the canary's private output exists
    bridge,         \* where each script is
    bridge_kills    \* scripts killed so far

bridge_vars == <<unit_files, timers, running, output, canary_output, bridge, bridge_kills>>
systemd == <<timers, running, output>>

UnitFile == 1..3   \* the environment, the canary unit, the bridge's service and timer
Publisher == {"exporter", "bridge"}
BridgeScript == {"install", "canary", "cutover"}

\* What the installer holds before it has taken its snapshots.
NoFiles == <<>>

\* told: what the last run left undone or, of the cutover, accepted or restored;
\* saved: the files the installer restores; at: the file it writes next, or
\* the phase of the cutover; tries: failed starts; clean: no recovery error.
Resting == [pc |-> "idle", version |-> "none", saved |-> NoFiles, at |-> 1, tries |-> 0,
            clean |-> TRUE, told |-> "nothing"]

BridgeInit ==
    /\ \E v \in Version \cup {"none"} : unit_files = [i \in UnitFile |-> v]
    /\ timers = {"exporter"} /\ running = {} /\ output = "exporter"
    /\ canary_output = FALSE
    /\ bridge = [s \in BridgeScript |-> Resting]
    /\ bridge_kills = 0

At(s, pc) == bridge[s].pc = pc
Steps(s, pc) == bridge' = [bridge EXCEPT ![s].pc = pc]
Reports(s, how) == bridge' = [bridge EXCEPT ![s] = [Resting EXCEPT !.told = how]]

-----------------------------------------------------------------------------
(***************************************************************************)
(* legacy_health_bridge.py                                                 *)
(***************************************************************************)

Count == 0..MaxAccounts

\* The counts parse_formal_health accepts.
parse_formal_health(c) == c.available + c.limited + c.unavailable <= c.total

capacity_state(total, ready, blocked) ==
    IF total > 0 /\ ready = total THEN "ready"
    ELSE IF ready > 0 THEN "degraded"
    ELSE IF blocked > 0 THEN "unavailable" ELSE "unknown"

build_legacy_health(c) ==
    LET blocked == c.limited + c.unavailable IN
    [state |-> capacity_state(c.total, c.available, blocked),
     available |-> c.available > 0,
     total |-> c.total, ready |-> c.available, warning |-> 0, blocked |-> blocked,
     unknown |-> c.total - c.available - blocked,
     quota |-> c.limited, login |-> 0, cooldown |-> 0, other |-> c.unavailable]

validate_legacy_health(d) ==
    /\ d.total = d.ready + d.warning + d.blocked + d.unknown
    /\ d.blocked = d.quota + d.login + d.cooldown + d.other
    /\ d.available = (d.ready + d.warning > 0)
    /\ d.state = capacity_state(d.total, d.ready, d.blocked)

Formal == {c \in [total : Count, available : Count, limited : Count, unavailable : Count] :
             parse_formal_health(c)}

\* A formal document is read, or none that is acceptable is there.
bridge_file == \E c \in Formal : validate_legacy_health(build_legacy_health(c))

-----------------------------------------------------------------------------
(***************************************************************************)
(* systemd (external)                                                      *)
(***************************************************************************)

Installed(p) == p = "exporter" \/ unit_files[1] # "none"

TimerFires(p) ==
    /\ p \in timers \ running /\ Installed(p)
    /\ running' = running \cup {p}
    /\ UNCHANGED <<unit_files, timers, output, canary_output, bridge, bridge_kills>>

\* os.replace at the end of publish, or a refusal that leaves the file; the
\* canary cannot write but to its own directory.
ServicePublishes(p) ==
    /\ p \in running
    /\ running' = running \ {p}
    /\ \/ UNCHANGED <<output, canary_output>>
       \/ /\ p \in {"bridge", "canary"} => bridge_file
          /\ output' = IF p = "canary" THEN output ELSE p
          /\ canary_output' = (canary_output \/ p = "canary")
    /\ UNCHANGED <<unit_files, timers, bridge, bridge_kills>>

-----------------------------------------------------------------------------
(***************************************************************************)
(* What the scripts require of the units                                   *)
(***************************************************************************)

require_legacy_path == "exporter" \in timers
require_target_quiescent == "bridge" \notin timers \cup running

require_canary_quiescent == "canary" \notin running

require_runtime_boundaries ==
    require_legacy_path /\ require_target_quiescent /\ require_canary_quiescent

-----------------------------------------------------------------------------
(***************************************************************************)
(* install_legacy_health_bridge_units.py                                   *)
(***************************************************************************)

\* The files that differ from the templates of the signed artifact.
Changed(v) == {i \in UnitFile : unit_files[i] # v}

InstallChecks(v) ==
    /\ bridge["install"].pc = "idle"
    /\ require_runtime_boundaries
    /\ bridge' = [bridge EXCEPT !["install"] = [Resting EXCEPT
          !.pc = IF Changed(v) = {} THEN "reload" ELSE "write",
          !.version = v, !.saved = unit_files]]
    /\ UNCHANGED <<unit_files, systemd, canary_output, bridge_kills>>

WriteUnit ==
    /\ At("install", "write")
    /\ LET i == bridge["install"].at IN
       /\ unit_files' = [unit_files EXCEPT ![i] = bridge["install"].version]
       /\ bridge' = [bridge EXCEPT !["install"].at = i + 1,
                                   !["install"].pc = IF i = 3 THEN "reload" ELSE "write"]
    /\ UNCHANGED <<systemd, canary_output, bridge_kills>>

\* Verified and reloaded, everything still quiescent.
InstallVerified ==
    /\ At("install", "reload") /\ require_runtime_boundaries
    /\ Reports("install", "nothing")
    /\ UNCHANGED <<unit_files, systemd, canary_output, bridge_kills>>

\* Without a change there is nothing to take back.
InstallFails ==
    /\ bridge["install"].pc \in {"write", "reload"}
    /\ IF \A i \in UnitFile : bridge["install"].saved[i] = bridge["install"].version
       THEN Reports("install", "nothing")
       ELSE bridge' = [bridge EXCEPT !["install"].pc = "restore", !["install"].at = 1]
    /\ UNCHANGED <<unit_files, systemd, canary_output, bridge_kills>>

\* Every file, written or not; one that fails does not keep the others.
RestoreUnit ==
    /\ At("install", "restore")
    /\ LET i == bridge["install"].at IN
       \E fails \in BOOLEAN :
          /\ unit_files' = IF fails THEN unit_files
                           ELSE [unit_files EXCEPT ![i] = bridge["install"].saved[i]]
          /\ bridge' = [bridge EXCEPT !["install"].at = i + 1,
                                      !["install"].clean = @ /\ ~fails,
                                      !["install"].pc = IF i = 3 THEN "restored" ELSE "restore"]
    /\ UNCHANGED <<systemd, canary_output, bridge_kills>>

InstallRolledBack ==
    /\ At("install", "restored")
    /\ \/ /\ bridge["install"].clean /\ require_runtime_boundaries
          /\ Reports("install", "rolled back")
       \/ Reports("install", "incomplete")
    /\ UNCHANGED <<unit_files, systemd, canary_output, bridge_kills>>

-----------------------------------------------------------------------------
(***************************************************************************)
(* run_legacy_health_bridge_canary.py, and run_once inside the cutover     *)
(***************************************************************************)

canary_lock == \A s \in {"canary", "cutover"} : At(s, "idle")

\* The installed files are those of the release the operator named.
require_installed_files(v, which) == \A i \in which : unit_files[i] = v

CanaryBegins(v) ==
    /\ canary_lock
    /\ require_installed_files(v, {1, 2}) /\ require_runtime_boundaries
    /\ ~canary_output
    /\ bridge' = [bridge EXCEPT !["canary"] = [Resting EXCEPT !.pc = "canary", !.version = v]]
    /\ UNCHANGED <<unit_files, systemd, canary_output, bridge_kills>>

\* A start that times out leaves the unit running.
CanaryRuns(s) ==
    /\ At(s, "canary")
    /\ \/ /\ bridge_file /\ canary_output' = TRUE /\ UNCHANGED running
          /\ Steps(s, "canary output")
       \/ /\ UNCHANGED canary_output /\ running' \in {running, running \cup {"canary"}}
          /\ Steps(s, "canary failed")
    /\ UNCHANGED <<unit_files, timers, output, bridge_kills>>

\* Validated, removed, the boundaries as before. The cutover goes on unless its
\* backup fails.
CanaryAccepted(s) ==
    /\ At(s, "canary output") /\ canary_output /\ require_runtime_boundaries
    /\ canary_output' = FALSE
    /\ Reports(s, "nothing") \/ (s = "cutover" /\ Steps(s, "switch"))
    /\ UNCHANGED <<unit_files, systemd, bridge_kills>>

\* Stop and cleanup, each of which may fail, and the boundaries once more.
CanaryFails(s) ==
    /\ bridge[s].pc \in {"canary output", "canary failed"}
    /\ \/ /\ running' = running \ {"canary"} /\ canary_output' = FALSE
          /\ require_legacy_path /\ require_target_quiescent
          /\ Reports(s, "nothing")
       \/ /\ running' \in {running, running \ {"canary"}}
          /\ canary_output' \in {canary_output, FALSE}
          /\ Reports(s, "incomplete")
    /\ UNCHANGED <<unit_files, timers, output, bridge_kills>>

-----------------------------------------------------------------------------
(***************************************************************************)
(* rehearse_legacy_health_bridge_cutover.py                                *)
(***************************************************************************)

\* What each phase does to a timer, the timers it requires afterwards and the
\* publisher it starts.
Phase == <<
    [on |-> TRUE,  timer |-> "bridge",   after |-> Publisher,    shows |-> "bridge"],
    [on |-> FALSE, timer |-> "exporter", after |-> {"bridge"},   shows |-> "bridge"],
    [on |-> TRUE,  timer |-> "exporter", after |-> Publisher,    shows |-> "exporter"],
    [on |-> FALSE, timer |-> "bridge",   after |-> {"exporter"}, shows |-> "exporter"],
    [on |-> TRUE,  timer |-> "bridge",   after |-> Publisher,    shows |-> "bridge"],
    [on |-> FALSE, timer |-> "exporter", after |-> {"bridge"},   shows |-> "bridge"] >>

Switched(on, p) == IF on THEN timers \cup {p} ELSE timers \ {p}

\* All four files, only the old timer, and a contract file of the exporter.
CutoverBegins(v) ==
    /\ canary_lock
    /\ require_installed_files(v, UnitFile)
    /\ timers = {"exporter"} /\ require_runtime_boundaries
    /\ output = "exporter" /\ ~canary_output
    /\ bridge' = [bridge EXCEPT !["cutover"] = [Resting EXCEPT !.pc = "canary", !.version = v]]
    /\ UNCHANGED <<unit_files, systemd, canary_output, bridge_kills>>

\* enable --now or disable --now, whose failure may have had its effect, and
\* both timers as they should be.
SwitchTimer ==
    /\ At("cutover", "switch")
    /\ LET phase == Phase[bridge["cutover"].at] IN
       \/ /\ timers' = Switched(phase.on, phase.timer) /\ timers' = phase.after
          /\ Steps("cutover", "start")
       \/ timers' \in {timers, Switched(phase.on, phase.timer)} /\ Steps("cutover", "recover")
    /\ UNCHANGED <<unit_files, running, output, canary_output, bridge_kills>>

\* systemctl start waits for the service, unless it times out.
Published(p) ==
    /\ p = "bridge" => bridge_file
    /\ output' = p /\ running' = running \ {p}
NotPublished(p) == UNCHANGED output /\ running' \in {running, running \cup {p}}

\* One more failed attempt, or the end of them.
Again(start, otherwise) ==
    bridge' = [bridge EXCEPT !["cutover"].tries =
                                 IF @ + 1 < Attempts THEN @ + 1 ELSE 0,
                             !["cutover"].pc =
                                 IF bridge["cutover"].tries + 1 < Attempts THEN start ELSE otherwise]

StartPublisher ==
    /\ At("cutover", "start")
    /\ LET p == Phase[bridge["cutover"].at].shows IN
       \/ Published(p) /\ Steps("cutover", "validate")
       \/ NotPublished(p) /\ Again("start", "recover")
    /\ UNCHANGED <<unit_files, timers, canary_output, bridge_kills>>

\* The contract file is read after the start: the other publisher may have
\* written it since.
ValidateOutput ==
    /\ At("cutover", "validate")
    /\ LET at == bridge["cutover"].at IN
       IF output = Phase[at].shows
       THEN bridge' = [bridge EXCEPT !["cutover"].tries = 0,
                                     !["cutover"].at = IF at = 6 THEN at ELSE at + 1,
                                     !["cutover"].pc = IF at = 6 THEN "compare" ELSE "switch"]
       ELSE Again("start", "recover")
    /\ UNCHANGED <<unit_files, systemd, canary_output, bridge_kills>>

\* Selectors, gateway and importer as they were found: others may have changed
\* them, or they cannot be read.
CompareContinuity ==
    /\ At("cutover", "compare")
    /\ Reports("cutover", "accepted") \/ Steps("cutover", "recover")
    /\ UNCHANGED <<unit_files, systemd, canary_output, bridge_kills>>

\* Mutant: the bridge's timer is disabled although the old one is not ready.
RecoverTimerAnyway ==
    /\ At("cutover", "recover")
    /\ \/ timers' = timers \cup {"exporter"} /\ Steps("cutover", "recover output")
       \/ UNCHANGED timers /\ Steps("cutover", "recover bridge")
    /\ UNCHANGED <<unit_files, running, output, canary_output, bridge_kills>>

\* Only an enabled and active old timer lets the recovery go on.
RecoverTimer ==
    /\ At("cutover", "recover")
    /\ \/ timers' = timers \cup {"exporter"} /\ Steps("cutover", "recover output")
       \/ /\ timers' \in {timers, timers \cup {"exporter"}}
          /\ bridge' = [bridge EXCEPT !["cutover"].pc = "recovered", !["cutover"].clean = FALSE]
    /\ UNCHANGED <<unit_files, running, output, canary_output, bridge_kills>>

RecoverOutput ==
    /\ At("cutover", "recover output")
    /\ \/ Published("exporter") /\ Steps("cutover", "recover validate")
       \/ NotPublished("exporter") /\ Again("recover output", "recover saved")
    /\ UNCHANGED <<unit_files, timers, canary_output, bridge_kills>>

RecoverValidate ==
    /\ At("cutover", "recover validate")
    /\ IF output = "exporter" THEN Steps("cutover", "recover bridge")
       ELSE Again("recover output", "recover saved")
    /\ UNCHANGED <<unit_files, systemd, canary_output, bridge_kills>>

\* The contract file as it was found, in place of a fresh one.
RecoverSaved ==
    /\ At("cutover", "recover saved")
    /\ \E pc \in {"recover bridge", "recovered"} :
          /\ output' \in IF pc = "recover bridge" THEN {"exporter"} ELSE {output}
          /\ bridge' = [bridge EXCEPT !["cutover"].pc = pc, !["cutover"].clean = FALSE]
    /\ UNCHANGED <<unit_files, timers, running, canary_output, bridge_kills>>

RecoverBridge ==
    /\ At("cutover", "recover bridge")
    /\ \/ timers' = timers \ {"bridge"} /\ Steps("cutover", "recovered")
       \/ /\ timers' \in {timers, timers \ {"bridge"}}
          /\ bridge' = [bridge EXCEPT !["cutover"].pc = "recovered", !["cutover"].clean = FALSE]
    /\ UNCHANGED <<unit_files, running, output, canary_output, bridge_kills>>

CutoverRecovered ==
    /\ At("cutover", "recovered")
    /\ \/ bridge["cutover"].clean /\ Reports("cutover", "restored")
       \/ Reports("cutover", "incomplete")
    /\ UNCHANGED <<unit_files, systemd, canary_output, bridge_kills>>

-----------------------------------------------------------------------------
BridgeScriptDies(s) ==
    /\ ~At(s, "idle") /\ bridge_kills < MaxBridgeKills
    /\ bridge_kills' = bridge_kills + 1
    /\ Reports(s, "incomplete")
    /\ UNCHANGED <<unit_files, systemd, canary_output>>

InstallUnits ==
    \/ \E v \in Version : InstallChecks(v)
    \/ WriteUnit \/ InstallVerified \/ InstallFails \/ RestoreUnit \/ InstallRolledBack
RunCanary ==
    \/ \E v \in Version : CanaryBegins(v)
    \/ \E s \in {"canary", "cutover"} : CanaryRuns(s) \/ CanaryAccepted(s) \/ CanaryFails(s)
Cutover ==
    \/ \E v \in Version : CutoverBegins(v)
    \/ SwitchTimer \/ StartPublisher \/ ValidateOutput \/ CompareContinuity
    \/ RecoverTimer \/ RecoverOutput \/ RecoverValidate \/ RecoverSaved \/ RecoverBridge
    \/ CutoverRecovered

BridgeNext ==
    \/ InstallUnits \/ RunCanary \/ Cutover
    \/ \E p \in Publisher : TimerFires(p)
    \/ \E p \in Publisher \cup {"canary"} : ServicePublishes(p)
    \/ \E s \in BridgeScript : BridgeScriptDies(s)

BridgeSpec == BridgeInit /\ [][BridgeNext]_bridge_vars
-----------------------------------------------------------------------------
\* An installation that was killed or took its files back, under the cutover's
\* feet perhaps: the two scripts hold different locks.
InstallUndone ==
    ~At("install", "idle") \/ bridge["install"].told \in {"incomplete", "rolled back"}

\* "without a publisher gap": through cutover, rehearsal, failure, recovery and
\* kill a timer publishes the contract file, with files of one release to run.
NoGap ==
    /\ timers # {}
    /\ "bridge" \in timers /\ ~InstallUndone =>
          unit_files[1] # "none" /\ \A i, j \in UnitFile : unit_files[i] = unit_files[j]

\* A cutover's report names the one timer that is left.
CutoverReported ==
    /\ bridge["cutover"].told = "accepted" => timers = {"bridge"}
    /\ bridge["cutover"].told = "restored" => timers = {"exporter"}

\* No output of a canary is left behind but by a kill or a failed cleanup.
CanaryCleared ==
    canary_output =>
        \E s \in {"canary", "cutover"} :
            ~At(s, "idle") \/ bridge[s].told = "incomplete"

\* Whatever account counts a formal health document has, the counts derived
\* from them add up and pass the validation.
EveryHealthBridged == \A c \in Formal : validate_legacy_health(build_legacy_health(c))

\* What Phi reads stays published by one side or the other
\* (rehearse_legacy_health_bridge_cutover.py main and _recover_old_path,
\* install_legacy_health_bridge_units.py main, run_once, build_legacy_health).
PublisherKept ==
    NoGap /\ CutoverReported /\ CanaryCleared /\ EveryHealthBridged
=============================================================================
