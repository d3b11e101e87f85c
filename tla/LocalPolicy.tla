---------------------------- MODULE LocalPolicy ----------------------------
(***************************************************************************)
(* The deferred activation of a CPA policy candidate on the workstation.   *)
(* An activation job (schedule_local_cpa_policy_activation.py) is a        *)
(* detached worker that waits for its time and for a moment without        *)
(* connections, runs the installer (install_cpa_policy_candidate.py        *)
(* activate_local) and, when that fails or exceeds its 600 seconds, the    *)
(* recovery tool (recover_local_cpa_policy.py). The installer runs the     *)
(* same tool when it has to undo itself, and the operator may run it for   *)
(* any job. A follower (schedule_local_cpa_failure_watcher.py) waits for a *)
(* job's receipt and then installs the failure watcher.                    *)
(* All of them work on one launcher file, one launchd service, one         *)
(* capability manifest and one credential directory, with no lock among    *)
(* them. A probe may answer either way at any time.                        *)
(***************************************************************************)
EXTENDS Naturals, FiniteSets

CONSTANTS
    Job,        \* activation jobs
    Cold,       \* the jobs that also import a bootstrap Agent Identity
    Follower,   \* the jobs a failure-watcher follower is scheduled for
    Manual,     \* the jobs whose recovery the operator runs by hand
    MaxKills    \* bound: installers and recovery tools killed at a timeout

ASSUME PolicyConstants ==
    /\ Cold \subseteq Job /\ Follower \subseteq Job /\ Manual \subseteq Job
    /\ MaxKills \in Nat

VARIABLES
    launcher,   \* the binary the launcher plist names
    live,       \* the binary the launchd service runs, or "down"
    cap,        \* the binary the capability manifest attests
    ident,      \* the bootstrap identity is in the credential directory
    busy,       \* there are established connections
    job,        \* the workers with their installers
    rec,        \* the recovery tools
    fol,        \* the followers
    watch,      \* the maintenance launcher: its file and what launchd runs
    kills       \* processes killed so far

service == <<launcher, live, cap, ident, busy>>
vars == <<launcher, live, cap, ident, busy, job, rec, fol, watch, kills>>

Bin == {"base", "cand"}
Caller == {"installer", "worker", "operator"}
Tool == Job \X Caller

NoJob == [pc |-> "none", snap |-> "base", late |-> FALSE, inst |-> "idle",
          capBefore |-> "base", identBefore |-> TRUE, tries |-> 0,
          receipt |-> "none", available |-> FALSE]

Init ==
    /\ launcher = "base" /\ live = "base" /\ cap = "base" /\ ident = FALSE
    /\ busy \in BOOLEAN
    /\ job = [j \in Job |-> NoJob]
    /\ rec = [r \in Tool |-> [pc |-> "idle", result |-> "none", available |-> FALSE]]
    /\ fol = [j \in Job |-> "none"]
    /\ watch = [file |-> "old", live |-> "old"]
    /\ kills = 0

\* The service stops, and with it every connection; it starts with whatever the
\* launcher names. (launchd, external)
Stop == live' = "down" /\ busy' = FALSE
StartService == live = "down" /\ live' = launcher

Set(j, r) == job' = [job EXCEPT ![j] = r]
Install(j, step) == Set(j, [job[j] EXCEPT !.inst = step])

\* Other programs use the service.
Connect == /\ live # "down" /\ ~busy /\ busy' = TRUE
           /\ UNCHANGED <<launcher, live, cap, ident, job, rec, fol, watch, kills>>
Disconnect == /\ busy /\ busy' = FALSE
              /\ UNCHANGED <<launcher, live, cap, ident, job, rec, fol, watch, kills>>

-----------------------------------------------------------------------------
(***************************************************************************)
(* The scheduler and its worker.                                           *)
(***************************************************************************)

\* schedule: the job directory gets copies of the tools and of the launcher as
\* it is now; the worker is detached.
Schedule(j) ==
    /\ job[j].pc = "none"
    /\ Set(j, [job[j] EXCEPT !.pc = "delay", !.snap = launcher])
    /\ UNCHANGED <<service, rec, fol, watch, kills>>

Report(j, receipt, available) ==
    Set(j, [job[j] EXCEPT !.pc = "done", !.receipt = receipt, !.available = available])

\* The delay is over; a job file or the active release may have changed.
Delayed(j) ==
    /\ job[j].pc = "delay"
    /\ \/ Set(j, [job[j] EXCEPT !.pc = "quiet"])
       \/ Report(j, "failed", FALSE)
    /\ UNCHANGED <<service, rec, fol, watch, kills>>

\* The time of quiescenceDeadlineEpoch.
Deadline(j) ==
    /\ job[j].pc = "quiet" /\ ~job[j].late
    /\ Set(j, [job[j] EXCEPT !.late = TRUE])
    /\ UNCHANGED <<service, rec, fol, watch, kills>>

\* Mutant: a busy service is waited for without a deadline.
PollForever(j) ==
    /\ job[j].pc = "quiet" /\ ~busy
    /\ Set(j, [job[j] EXCEPT !.pc = "install", !.inst = "preflight"])
    /\ UNCHANGED <<service, rec, fol, watch, kills>>

\* wait_for_quiescence: quiet at any poll starts the installer; busy at a poll
\* after the deadline is reported without touching the service, and so is an
\* audit that fails.
Poll(j) ==
    /\ job[j].pc = "quiet"
    /\ \/ /\ ~busy
          /\ Set(j, [job[j] EXCEPT !.pc = "install", !.inst = "preflight"])
       \/ /\ busy /\ job[j].late
          /\ Report(j, "failed", TRUE)
       \/ Report(j, "failed", FALSE)
    /\ UNCHANGED <<service, rec, fol, watch, kills>>

StartTool(r) ==
    rec' = [rec EXCEPT ![r] = [pc |-> "look", result |-> "none", available |-> FALSE]]

\* Mutant: the recovery tool is run after every installer.
InstallerExitsRecovering(j) ==
    /\ job[j].pc = "install" /\ job[j].inst \in {"ok", "failed", "undone"}
    /\ StartTool(<<j, "worker">>)
    /\ IF job[j].inst = "ok" THEN Report(j, "accepted", TRUE)
       ELSE Set(j, [job[j] EXCEPT !.pc = "recover", !.tries = 1])
    /\ UNCHANGED <<service, fol, watch, kills>>

\* The installer has exited: an accepted activation is reported, anything else
\* is followed by the recovery tool.
InstallerExits(j) ==
    /\ job[j].pc = "install"
    /\ \/ /\ job[j].inst = "ok"
          /\ Report(j, "accepted", TRUE) /\ UNCHANGED rec
       \/ /\ job[j].inst \in {"failed", "undone"}
          /\ Set(j, [job[j] EXCEPT !.pc = "recover", !.tries = 1])
          /\ StartTool(<<j, "worker">>)
    /\ UNCHANGED <<service, fol, watch, kills>>

\* 600 seconds are over: the installer is killed wherever it is. A recovery
\* tool it was waiting for goes on alone. The worker's except branch runs its own.
InstallerKilled(j) ==
    /\ job[j].pc = "install" /\ job[j].inst \notin {"ok", "failed", "undone"}
    /\ kills < MaxKills
    /\ kills' = kills + 1
    /\ Set(j, [job[j] EXCEPT !.pc = "recover", !.inst = "killed", !.tries = 2])
    /\ StartTool(<<j, "worker">>)
    /\ UNCHANGED <<service, fol, watch>>

\* run_recovery has its answer.
Recovered(j) ==
    LET r == rec[<<j, "worker">>] IN
    /\ job[j].pc = "recover" /\ r.pc = "done"
    /\ Report(j, "failed", r.available)
    /\ UNCHANGED <<service, rec, fol, watch, kills>>

\* run_recovery exceeds 360 seconds: the tool is killed; the except branch runs
\* it once more, and reports failure the second time.
RecoveryKilled(j) ==
    /\ job[j].pc = "recover" /\ rec[<<j, "worker">>].pc \notin {"idle", "done"}
    /\ kills < MaxKills
    /\ kills' = kills + 1
    /\ IF job[j].tries = 1
       THEN Set(j, [job[j] EXCEPT !.tries = 2]) /\ StartTool(<<j, "worker">>)
       ELSE /\ Report(j, "failed", FALSE)
            /\ rec' = [rec EXCEPT ![<<j, "worker">>].pc = "killed"]
    /\ UNCHANGED <<service, fol, watch>>

-----------------------------------------------------------------------------
(***************************************************************************)
(* activate_local.                                                         *)
(***************************************************************************)

\* Nothing has been changed yet: the installer just exits.
Refuse(j) ==
    /\ job[j].inst \in {"preflight", "already", "check"}
    /\ Install(j, "failed")
    /\ UNCHANGED <<service, rec, fol, watch, kills>>

\* The service must run the baseline unless the launcher already names the
\* candidate; a real request must succeed.
Preflight(j) ==
    /\ job[j].inst = "preflight" /\ live # "down"
    /\ launcher = "cand" \/ live = "base"
    /\ Set(j, [job[j] EXCEPT !.inst = IF launcher = "cand" THEN "already" ELSE "check",
                             !.capBefore = cap])
    /\ UNCHANGED <<service, rec, fol, watch, kills>>

\* The already-active path only completes the capability manifest.
AlreadyActive(j) ==
    /\ job[j].inst = "already" /\ live = "cand"
    /\ cap' = "cand"
    /\ Install(j, "ok")
    /\ UNCHANGED <<launcher, live, ident, busy, rec, fol, watch, kills>>

\* The five-sample audit is repeated before the first change.
CheckQuiescent(j) ==
    /\ job[j].inst = "check" /\ ~busy
    /\ Install(j, "write")
    /\ UNCHANGED <<service, rec, fol, watch, kills>>

WriteLauncher(j) ==
    /\ job[j].inst = "write"
    /\ launcher' = "cand"
    /\ Install(j, "bootout")
    /\ UNCHANGED <<live, cap, ident, busy, rec, fol, watch, kills>>

\* bootout, then wait_launchd_unloaded.
Bootout(j) ==
    /\ job[j].inst = "bootout"
    /\ Stop
    /\ Install(j, "bootstrap")
    /\ UNCHANGED <<launcher, cap, ident, rec, fol, watch, kills>>

\* bootstrap loads the launcher as it is by now.
Bootstrap(j) ==
    /\ job[j].inst = "bootstrap"
    /\ StartService
    /\ Install(j, "probe")
    /\ UNCHANGED <<launcher, cap, ident, busy, rec, fol, watch, kills>>

\* The service runs the candidate, the policy and health probes answer.
ProbeCandidate(j) ==
    /\ job[j].inst = "probe" /\ live = "cand"
    /\ Install(j, IF j \in Cold THEN "attest" ELSE "canary")
    /\ UNCHANGED <<service, rec, fol, watch, kills>>

\* A cold bootstrap first snapshots the credentials and attests the candidate,
\* which the importer asks for, and then imports.
AttestFirst(j) ==
    /\ job[j].inst = "attest"
    /\ cap' = "cand"
    /\ Set(j, [job[j] EXCEPT !.inst = "import", !.identBefore = ident])
    /\ UNCHANGED <<launcher, live, ident, busy, rec, fol, watch, kills>>

ImportIdentity(j) ==
    /\ job[j].inst = "import"
    /\ ident' = TRUE
    /\ Install(j, "canary")
    /\ UNCHANGED <<launcher, live, cap, busy, rec, fol, watch, kills>>

\* A real request succeeds, and the capability manifest is written last.
Accept(j) ==
    /\ job[j].inst = "canary" /\ live # "down"
    /\ cap' = "cand"
    /\ Install(j, "ok")
    /\ UNCHANGED <<launcher, live, ident, busy, rec, fol, watch, kills>>

\* Mutant: the capability manifest is not put back.
UndoKeepingCap(j) ==
    /\ job[j].inst \in {"write", "bootout", "bootstrap", "probe", "attest", "import", "canary"}
    /\ ident' = (ident /\ job[j].identBefore)
    /\ Install(j, "undo")
    /\ StartTool(<<j, "installer">>)
    /\ UNCHANGED <<launcher, live, cap, busy, fol, watch, kills>>

\* Any of these steps fails: credentials (if they were snapshotted) and the
\* capability manifest are put back, then the recovery tool is run.
Undo(j) ==
    /\ job[j].inst \in {"write", "bootout", "bootstrap", "probe", "attest", "import", "canary"}
    /\ ident' = (ident /\ job[j].identBefore)
    /\ cap' = job[j].capBefore
    /\ Install(j, "undo")
    /\ StartTool(<<j, "installer">>)
    /\ UNCHANGED <<launcher, live, busy, fol, watch, kills>>

\* Its answer, or its 360-second timeout, ends the installer.
UndoEnds(j) ==
    LET r == <<j, "installer">> IN
    /\ job[j].inst = "undo"
    /\ \/ rec[r].pc = "done" /\ UNCHANGED <<rec, kills>>
       \/ /\ rec[r].pc # "done" /\ kills < MaxKills
          /\ kills' = kills + 1
          /\ rec' = [rec EXCEPT ![r].pc = "killed"]
    /\ Install(j, "undone")
    /\ UNCHANGED <<service, fol, watch>>

-----------------------------------------------------------------------------
(***************************************************************************)
(* recover(), for the job r[1].                                            *)
(***************************************************************************)
Snap(r) == job[r[1]].snap

\* probe_health, probe_communication: answered or not, whatever is running.
Answered == BOOLEAN

To(r, pc) == rec' = [rec EXCEPT ![r].pc = pc]
EndTool(r, result, available) ==
    rec' = [rec EXCEPT ![r] = [pc |-> "done", result |-> result, available |-> available]]

\* The operator runs the command of RECOVERY.txt.
RunByHand(j) ==
    /\ j \in Manual /\ job[j].pc # "none" /\ rec[<<j, "operator">>].pc = "idle"
    /\ StartTool(<<j, "operator">>)
    /\ UNCHANGED <<service, job, fol, watch, kills>>

\* The exact baseline is loaded, healthy and answers: nothing to do.
AlreadyRecovered(r) ==
    /\ rec[r].pc = "look" /\ launcher = Snap(r) /\ live = "base"
    /\ EndTool(r, "recovered", TRUE)
    /\ UNCHANGED <<service, job, fol, watch, kills>>

\* Otherwise (or when it is not healthy) the launcher is restored first.
RestoreLauncher(r) ==
    /\ rec[r].pc = "look"
    /\ launcher' = Snap(r)
    /\ To(r, "look again")
    /\ UNCHANGED <<live, cap, ident, busy, job, fol, watch, kills>>

\* Mutant: any running service is left alone.
LookAgainAny(r) ==
    /\ rec[r].pc = "look again"
    /\ \/ live # "down" /\ EndTool(r, "recovered", TRUE)
       \/ live = "down" /\ To(r, "load")
    /\ UNCHANGED <<service, job, fol, watch, kills>>

\* The baseline is still running and healthy: no restart. Otherwise a loaded
\* service is booted out, an unloaded one bootstrapped.
LookAgain(r) ==
    /\ rec[r].pc = "look again"
    /\ \/ live = "base" /\ EndTool(r, "recovered", TRUE)
       \/ live # "down" /\ To(r, "unload")
       \/ live = "down" /\ To(r, "load")
    /\ UNCHANGED <<service, job, fol, watch, kills>>

Unload(r) ==
    /\ rec[r].pc = "unload"
    /\ Stop
    /\ To(r, "load")
    /\ UNCHANGED <<launcher, cap, ident, job, fol, watch, kills>>

\* bootstrap_baseline tries until the baseline is what runs.
Load(r) ==
    /\ rec[r].pc = "load"
    /\ \/ StartService /\ UNCHANGED rec
       \/ live = "base" /\ To(r, "canary") /\ UNCHANGED live
    /\ UNCHANGED <<launcher, cap, ident, busy, job, fol, watch, kills>>

\* Health, a real request, and the launcher still as restored.
Canary(r) ==
    /\ rec[r].pc = "canary" /\ launcher = Snap(r) /\ live = "base"
    /\ EndTool(r, "recovered", TRUE)
    /\ UNCHANGED <<service, job, fol, watch, kills>>

\* A probe, an unload or the 30 seconds of a bootstrap fail; the receipt says
\* whether the baseline is running all the same.
ToolFails(r) ==
    /\ rec[r].pc \in {"look", "look again", "unload", "load", "canary"}
    /\ rec[r].pc \in {"look", "look again"} => live = "base"
    /\ \E healthy \in Answered : EndTool(r, "failed", live = "base" /\ healthy)
    /\ UNCHANGED <<service, job, fol, watch, kills>>

-----------------------------------------------------------------------------
(***************************************************************************)
(* The follower and install_cpa_failure_watcher.py activate_local.         *)
(***************************************************************************)
Fol(j, pc) == fol' = [fol EXCEPT ![j] = pc]

ScheduleFollower(j) ==
    /\ j \in Follower /\ job[j].pc # "none" /\ fol[j] = "none"
    /\ Fol(j, "wait")
    /\ UNCHANGED <<service, job, rec, watch, kills>>

\* The receipt is there, or the grace after the job's deadline is over.
FollowReceipt(j) ==
    /\ fol[j] = "wait"
    /\ \/ job[j].receipt = "accepted" /\ job[j].available /\ Fol(j, "require")
       \/ job[j].receipt = "failed" /\ Fol(j, "failed")
       \/ job[j].receipt = "none" /\ job[j].late /\ Fol(j, "failed")
    /\ UNCHANGED <<service, job, rec, watch, kills>>

\* require_receipt_producer: launcher and live service select the candidate.
Producer == launcher = "cand" /\ live = "cand"

RequireProducer(j) ==
    /\ fol[j] = "require"
    /\ Fol(j, IF ~Producer THEN "failed"
              ELSE IF watch = [file |-> "new", live |-> "new"] THEN "accepted" ELSE "write")
    /\ UNCHANGED <<service, job, rec, watch, kills>>

WriteWatcher(j) ==
    /\ fol[j] = "write"
    /\ watch' = [watch EXCEPT !.file = "new"]
    /\ Fol(j, "unload")
    /\ UNCHANGED <<service, job, rec, kills>>

UnloadWatcher(j) ==
    /\ fol[j] = "unload"
    /\ watch' = [watch EXCEPT !.live = "down"]
    /\ Fol(j, "load")
    /\ UNCHANGED <<service, job, rec, kills>>

LoadWatcher(j) ==
    /\ fol[j] = "load"
    /\ watch' = [watch EXCEPT !.live = watch.file]
    /\ Fol(j, "accepted")
    /\ UNCHANGED <<service, job, rec, kills>>

\* A step fails: the maintenance launcher is restored and loaded again, or stays
\* unloaded; or the 120 seconds are over and the watcher installer is killed
\* where it is.
WatcherFails(j) ==
    /\ fol[j] \in {"write", "unload", "load"}
    /\ \/ watch' \in [file : {"old"}, live : {"old", "down"}] /\ UNCHANGED kills
       \/ kills < MaxKills /\ kills' = kills + 1 /\ UNCHANGED watch
    /\ Fol(j, "failed")
    /\ UNCHANGED <<service, job, rec>>

-----------------------------------------------------------------------------
Worker(j) == Delayed(j) \/ Poll(j) \/ InstallerExits(j) \/ Recovered(j)

Installer(j) ==
    \/ Preflight(j) \/ AlreadyActive(j) \/ CheckQuiescent(j) \/ WriteLauncher(j)
    \/ Bootout(j) \/ Bootstrap(j) \/ ProbeCandidate(j) \/ AttestFirst(j)
    \/ ImportIdentity(j) \/ Accept(j) \/ Refuse(j) \/ Undo(j) \/ UndoEnds(j)

RecoveryTool(r) ==
    \/ AlreadyRecovered(r) \/ RestoreLauncher(r) \/ LookAgain(r) \/ Unload(r)
    \/ Load(r) \/ Canary(r) \/ ToolFails(r)

Follow(j) ==
    \/ FollowReceipt(j) \/ RequireProducer(j) \/ WriteWatcher(j)
    \/ UnloadWatcher(j) \/ LoadWatcher(j) \/ WatcherFails(j)

Next ==
    \/ Connect \/ Disconnect
    \/ \E j \in Job : \/ Schedule(j) \/ Deadline(j) \/ Worker(j) \/ Installer(j)
                      \/ InstallerKilled(j) \/ RecoveryKilled(j)
                      \/ RunByHand(j) \/ ScheduleFollower(j) \/ Follow(j)
    \/ \E r \in Tool : RecoveryTool(r)

Spec == Init /\ [][Next]_vars

\* The detached worker, the installer it runs and the recovery tool either of
\* them runs go on: every wait in them has a timeout. Nothing is assumed of the
\* followers, the operator or the programs that connect.
Fairness ==
    /\ \A j \in Job : WF_vars(Deadline(j) \/ Worker(j) \/ Installer(j))
    /\ \A r \in Job \X {"installer", "worker"} : WF_vars(RecoveryTool(r))

LiveSpec == Spec /\ Fairness
-----------------------------------------------------------------------------
\* Every variable has its type.
LocalTypeOK ==
    /\ launcher \in Bin /\ live \in Bin \cup {"down"} /\ cap \in Bin
    /\ ident \in BOOLEAN /\ busy \in BOOLEAN /\ kills \in 0..MaxKills
    /\ \A j \in Job : job[j].snap \in Bin /\ job[j].receipt \in {"none", "accepted", "failed"}
    /\ watch \in [file : {"old", "new"}, live : {"old", "new", "down"}]

Running(r) == rec[r].pc \notin {"idle", "done", "killed"}
Ran(r) == rec[r].pc # "idle"

\* No worker and no recovery tool is at work.
Settled ==
    /\ \A j \in Job : job[j].pc \in {"none", "delay", "quiet", "done"}
    /\ \A r \in Tool : ~Running(r)

\* An accepted activation is only taken back by a recovery that belongs to
\* another job or was run by hand: nothing the accepted job started does it
\* (worker, activate_local, recover).
AcceptedStays ==
    \A j \in Job :
        job[j].receipt = "accepted" /\ launcher = "base" =>
            \E r \in Tool : Ran(r) /\ (r[1] # j \/ r[2] = "operator")

\* Once everything has settled, the service runs the binary its launcher names,
\* however the jobs, their installers and the recovery tools interleaved and
\* whichever of them was killed, unless some recovery ended without success or
\* belongs to a job whose launcher snapshot is not the baseline's.
ServiceFollowsLauncher ==
    Settled /\ (\A r \in Tool : Ran(r) => rec[r].result = "recovered" /\ Snap(r) = "base")
        => live = launcher

\* A recovery was run by hand, or for a job beside two others: it can restore
\* the baseline while two installers are at work.
Meddled ==
    \E r \in Tool :
        /\ Ran(r)
        /\ \/ r[2] = "operator"
           \/ \E j, k \in Job \ {r[1]} : j # k /\ job[j].pc # "none" /\ job[k].pc # "none"

\* The capability manifest attests the candidate beside a baseline launcher
\* only after an accepted activation was taken back or an installer was killed,
\* or when an installer put back an attestation it had found, which it finds
\* beside a baseline launcher only if such a recovery came between two others:
\* alone, or with one other job, an installer that undoes itself leaves no such
\* pair (activate_local).
AttestedBinarySelected ==
    Settled /\ cap = "cand" /\ launcher = "base" =>
        \/ \E j \in Job : job[j].inst \in {"ok", "killed"}
        \/ Meddled /\ \E j \in Job : job[j].inst = "undone" /\ job[j].capBefore = "cand"

\* Every scheduled job ends with a receipt (worker).
JobReports ==
    \A j \in Job : (job[j].pc # "none") ~> (job[j].receipt # "none")
=============================================================================
