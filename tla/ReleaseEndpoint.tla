--------------------------- MODULE ReleaseEndpoint ---------------------------
(***************************************************************************)
(* The release directory of one endpoint and the commands that change it:  *)
(* stage, apply, rollback and upgrade (local/cloudx_local/updater.py and   *)
(* upgrade.py on this computer, cloud/cloudx_cloud/release.py behind SSH). *)
(*                                                                         *)
(* The directory holds one immutable directory per version and the two     *)
(* symlinks current and previous, each replaced atomically.  No command    *)
(* takes a lock: a job is one process, and every read or replacement of a  *)
(* link is a step of its own.                                              *)
(***************************************************************************)
EXTENDS Integers, FiniteSets

CONSTANTS
  Procs,      \* processes, each running one command at a time
  Versions,   \* version triples, by their order
  Artifacts,  \* zipapps
  None,
  Endpoint,   \* "local" or "cloud"
  First,      \* the version installed at the start
  Signed,     \* pairs <<version, artifact>> under a valid manifest signature
  Embeds,     \* the version an artifact reports in its self-check
  Index,      \* the artifact the signed stable index binds to a version
  Commands,   \* the commands operators use
  Faults      \* which operations may fail

ASSUME ReleaseAssumption ==
  /\ Versions \subseteq Nat
  /\ None \notin Versions \cup Artifacts
  /\ Endpoint \in {"local", "cloud"}
  /\ First \in Versions
  /\ Signed \subseteq Versions \X Artifacts
  /\ Embeds \in [Artifacts -> Versions]
  /\ Index \in [Versions -> Artifacts]
  /\ <<First, Index[First]>> \in Signed /\ Embeds[Index[First]] = First
  /\ Commands \subseteq {"stage", "apply", "rollback", "upgrade"}
  /\ Faults \subseteq {"stage", "link", "hook", "crash", "reply"}

VARIABLES
  releases,  \* the artifact staged for each version
  current,   \* the selected release
  previous,  \* the release kept for rollback
  hook,      \* the release whose shell hook is installed
  job,       \* what each process does
  prior      \* history: the release selected before the present one

vars == <<releases, current, previous, hook, job, prior>>

NoJob == [pc |-> "idle", cmd |-> "none", version |-> None, artifact |-> None,
          base |-> None, old |-> None, target |-> None, shell |-> FALSE,
          outcome |-> "none"]

Init ==
  /\ releases = [v \in Versions |-> IF v = First THEN Index[v] ELSE None]
  /\ current = First
  /\ previous = None
  /\ hook = First
  /\ job = [p \in Procs |-> NoJob]
  /\ prior = None

Goto(p, l) == job' = [job EXCEPT ![p].pc = l]

\* The command is over; an upgrade that succeeded says to which version.
Finish(p, o) ==
  job' = [job EXCEPT ![p] =
            [NoJob EXCEPT !.outcome = o,
                          !.version = IF o = "upgraded" THEN job[p].version ELSE None]]

Applying == {"apply", "read", "link", "choose", "previous", "hook", "verify"}

Recovering == {"recover", "rollback", "rbread", "rbtarget", "rbcurrent", "rbprevious",
               "restored"}

LocalUpgrade(p) == job[p].cmd = "upgrade" /\ Endpoint = "local"

\* An exception: the local upgrade recovers from one while it applies, and
\* reports one while it recovers; every other command just fails.
Raise(p) ==
  IF ~LocalUpgrade(p) THEN Finish(p, "failed")
  ELSE IF job[p].pc \in Applying THEN Goto(p, "recover")
  ELSE Finish(p, IF job[p].pc \in Recovering THEN "unrecovered" ELSE "failed")

Select(v) ==
  /\ current' = v
  /\ prior' = IF v = current THEN prior ELSE current

-----------------------------------------------------------------------------
(* Staging.                                                                *)

\* Only a bundle with a valid signature and matching hashes gets this far.
Stage(p, v, a) ==
  /\ job[p].pc = "idle"
  /\ "stage" \in Commands
  /\ <<v, a>> \in Signed
  /\ job' = [job EXCEPT ![p] = [NoJob EXCEPT !.pc = "stage", !.cmd = "stage",
                                             !.version = v, !.artifact = a]]
  /\ UNCHANGED <<releases, current, previous, hook, prior>>

\* Staging is over; an upgrade goes on to activate.
Staged(p) == IF job[p].cmd = "upgrade" THEN Goto(p, "apply") ELSE Finish(p, "staged")

\* Mutant: any release that is staged at this version will do.
SameReleaseAny(v, a) == releases[v] # None

SameRelease(v, a) == releases[v] = a

\* Mutant: the artifact is not asked for its version.
SelfCheckSkipped(a, v) == TRUE

SelfCheck(a, v) == Embeds[a] = v

Older(v) == current # None /\ v < current

\* The downgrade test, the test for an existing directory and the self-check.
StageCheck(p) ==
  LET v == job[p].version  a == job[p].artifact IN
  /\ job[p].pc = "stage"
  /\ \/ ~Older(v) /\ SameRelease(v, a) /\ Staged(p)
     \/ ~Older(v) /\ releases[v] = None /\ SelfCheck(a, v) /\ Goto(p, "place")
     \/ /\ \/ Older(v)
           \/ releases[v] # None /\ ~SameRelease(v, a)
           \/ releases[v] = None /\ (~SelfCheck(a, v) \/ "stage" \in Faults)
        /\ Raise(p)
  /\ UNCHANGED <<releases, current, previous, hook, prior>>

\* Mutant: the directory is replaced whatever is there.
PlaceableAlways(v) == TRUE

\* A directory that is not empty cannot be replaced.
Placeable(v) == releases[v] = None

StagePlace(p) ==
  LET v == job[p].version IN
  /\ job[p].pc = "place"
  /\ \/ /\ Placeable(v)
        /\ releases' = [releases EXCEPT ![v] = job[p].artifact]
        /\ Staged(p)
     \/ /\ ~Placeable(v) \/ "stage" \in Faults
        /\ UNCHANGED releases
        /\ Raise(p)
  /\ UNCHANGED <<current, previous, hook, prior>>

-----------------------------------------------------------------------------
(* Activation.                                                             *)

Apply(p, v, shell) ==
  /\ job[p].pc = "idle"
  /\ "apply" \in Commands
  /\ shell => Endpoint = "local"
  /\ job' = [job EXCEPT ![p] = [NoJob EXCEPT !.pc = "apply", !.cmd = "apply",
                                             !.version = v, !.shell = shell]]
  /\ UNCHANGED <<releases, current, previous, hook, prior>>

\* Mutant: an older version is activated as well.
MayActivateOlder(v) == releases[v] # None

MayActivate(v) == ~Older(v) /\ releases[v] # None

\* The cloud helper reads current once; this computer reads it again below,
\* and may fail to read the new release's hook from its artifact.
ApplyCheck(p) ==
  LET v == job[p].version IN
  /\ job[p].pc = "apply"
  /\ \/ /\ MayActivate(v)
        /\ job' = [job EXCEPT ![p].pc = IF Endpoint = "cloud" THEN "link" ELSE "read",
                              ![p].old = IF Endpoint = "cloud" THEN current ELSE @]
     \/ /\ ~MayActivate(v) \/ (job[p].shell /\ "hook" \in Faults)
        /\ Raise(p)
  /\ UNCHANGED <<releases, current, previous, hook, prior>>

ReadOld(p) ==
  /\ job[p].pc = "read"
  /\ job' = [job EXCEPT ![p].pc = "link", ![p].old = current]
  /\ UNCHANGED <<releases, current, previous, hook, prior>>

LinkCurrent(p) ==
  /\ job[p].pc = "link"
  /\ \/ Select(job[p].version) /\ Goto(p, "choose")
     \/ "link" \in Faults /\ Raise(p) /\ UNCHANGED <<current, prior>>
  /\ UNCHANGED <<releases, previous, hook>>

StagedBefore(v) == {w \in Versions : w < v /\ releases[w] # None}

Latest(S, w) == w \in S /\ \A u \in S : u <= w

LatestStagedBefore(v) ==
  IF \E w \in Versions : Latest(StagedBefore(v), w)
  THEN CHOOSE w \in Versions : Latest(StagedBefore(v), w) ELSE None

\* Mutant: the older staged release is kept, not the one that was selected.
PreviousForStaged(p) == LatestStagedBefore(job[p].version)

\* What previous will point to: the release replaced, or a fallback.
PreviousFor(p) ==
  IF job[p].old \notin {None, job[p].version} THEN job[p].old
  ELSE IF previous = None THEN LatestStagedBefore(job[p].version) ELSE None

ChoosePrevious(p) ==
  /\ job[p].pc = "choose"
  /\ job' = [job EXCEPT ![p].pc = "previous", ![p].target = PreviousFor(p)]
  /\ UNCHANGED <<releases, current, previous, hook, prior>>

\* After its links the cloud helper answers with what previous points to.
\* A helper whose client is gone answers nobody.
Linked(p, told) ==
  IF job[p].cmd = "helper" THEN job' = [job EXCEPT ![p] = NoJob]
  ELSE job' = [job EXCEPT ![p].pc = IF Endpoint = "cloud" THEN "verify" ELSE "hook",
                          ![p].target = told, ![p].old = None]

LinkPrevious(p) ==
  /\ job[p].pc = "previous"
  /\ \/ /\ previous' = IF job[p].target = None THEN previous ELSE job[p].target
        /\ Linked(p, previous')
     \/ /\ "link" \in Faults
        /\ UNCHANGED previous
        /\ Raise(p)
  /\ UNCHANGED <<releases, current, hook, prior>>

\* Mutant: an upgrade installs the hook of the release it started from.
HookOfBase(p) == IF job[p].cmd = "upgrade" THEN job[p].base ELSE job[p].version

\* _shell_hook_from_artifact: the hook of the release being activated.
HookOf(p) == job[p].version

\* The links in ~/.local/bin, then the hook of the new release, then .zshrc,
\* each of which may fail in its turn.
InstallHook(p) ==
  /\ job[p].pc = "hook"
  /\ \/ ~job[p].shell /\ UNCHANGED hook /\ Goto(p, "verify")
     \/ job[p].shell /\ hook' = HookOf(p) /\ Goto(p, "verify")
     \/ /\ job[p].shell /\ "hook" \in Faults
        /\ hook' \in {hook, HookOf(p)}
        /\ Raise(p)
     \/ "link" \in Faults /\ UNCHANGED hook /\ Raise(p)
  /\ UNCHANGED <<releases, current, previous, prior>>

\* The selector is read back.  The cloud command rolls back to what the
\* helper said is previous when it finds another release than its own.
Verify(p) ==
  /\ job[p].pc = "verify"
  /\ \/ Endpoint = "local" /\ job[p].cmd = "apply" /\ Finish(p, "active")
     \/ LocalUpgrade(p) /\ current = job[p].version /\ Finish(p, "upgraded")
     \/ LocalUpgrade(p) /\ current # job[p].version /\ Raise(p)
     \/ /\ Endpoint = "cloud"
        /\ current = job[p].version
        /\ Finish(p, IF job[p].cmd = "upgrade" THEN "upgraded" ELSE "active")
     \/ Endpoint = "cloud" /\ "reply" \in Faults /\ Finish(p, "failed")
     \/ /\ Endpoint = "cloud"
        /\ current # job[p].version
        /\ IF job[p].target = None THEN Finish(p, "failed")
           ELSE job' = [job EXCEPT ![p].pc = "rollback", ![p].base = job[p].target]
  /\ UNCHANGED <<releases, current, previous, hook, prior>>

-----------------------------------------------------------------------------
(* Rollback.                                                               *)

Rollback(p, v) ==
  /\ job[p].pc = "idle"
  /\ "rollback" \in Commands
  /\ job' = [job EXCEPT ![p] = [NoJob EXCEPT !.pc = "rollback", !.cmd = "rollback",
                                             !.version = v, !.base = v]]
  /\ UNCHANGED <<releases, current, previous, hook, prior>>

\* The version must be the one previous points to.
Confirmed(v) == previous = v

RollbackCheck(p) ==
  /\ job[p].pc = "rollback"
  /\ \/ Confirmed(job[p].base) /\ Goto(p, "rbread")
     \/ ~Confirmed(job[p].base) /\ Raise(p)
  /\ UNCHANGED <<releases, current, previous, hook, prior>>

RollbackRead(p) ==
  /\ job[p].pc = "rbread"
  /\ job' = [job EXCEPT ![p].pc = "rbtarget", ![p].old = current]
  /\ UNCHANGED <<releases, current, previous, hook, prior>>

\* This computer resolves previous again, the cloud keeps what it confirmed.
RollbackTarget(p) ==
  /\ job[p].pc = "rbtarget"
  /\ job' = [job EXCEPT ![p].pc = "rbcurrent",
                        ![p].target = IF Endpoint = "local" THEN previous ELSE job[p].base]
  /\ UNCHANGED <<releases, current, previous, hook, prior>>

RollbackCurrent(p) ==
  /\ job[p].pc = "rbcurrent"
  /\ \/ Select(job[p].target) /\ Goto(p, "rbprevious")
     \/ "link" \in Faults /\ Raise(p) /\ UNCHANGED <<current, prior>>
  /\ UNCHANGED <<releases, previous, hook>>

\* Only a rollback command succeeds by it; a client that rolled back after a
\* mismatch has failed all the same.
RolledBack(p) ==
  IF LocalUpgrade(p) THEN Goto(p, "restored")
  ELSE IF job[p].cmd = "helper" THEN job' = [job EXCEPT ![p] = NoJob]
  ELSE IF job[p].cmd = "rollback" /\ (Endpoint = "local" \/ current = job[p].version)
       THEN Finish(p, "active")
  ELSE Finish(p, "failed")

RollbackPrevious(p) ==
  /\ job[p].pc = "rbprevious"
  /\ \/ /\ previous' = IF job[p].old \notin {None, job[p].target} THEN job[p].old ELSE previous
        /\ RolledBack(p)
     \/ "link" \in Faults /\ UNCHANGED previous /\ Raise(p)
  /\ UNCHANGED <<releases, current, hook, prior>>

-----------------------------------------------------------------------------
(* upgrade_endpoint.                                                       *)

\* The signed index offers a version newer than the one selected.
Upgrade(p, v) ==
  /\ job[p].pc = "idle"
  /\ "upgrade" \in Commands
  /\ <<v, Index[v]>> \in Signed
  /\ current # None /\ v > current
  /\ job' = [job EXCEPT ![p] = [NoJob EXCEPT !.pc = "stage", !.cmd = "upgrade",
                                 !.version = v, !.artifact = Index[v],
                                 !.base = current, !.shell = (Endpoint = "local")]]
  /\ UNCHANGED <<releases, current, previous, hook, prior>>

\* Mutant: the release that failed stays selected.
NeedsRollbackNever(p) == FALSE

NeedsRollback(p) == current = job[p].version

\* A failed local upgrade looks at what is selected now.
Recover(p) ==
  /\ job[p].pc = "recover"
  /\ \/ NeedsRollback(p) /\ Goto(p, "rollback")
     \/ ~NeedsRollback(p) /\ current = job[p].base /\ Goto(p, "restored")
     \/ ~NeedsRollback(p) /\ current # job[p].base /\ Raise(p)
  /\ UNCHANGED <<releases, current, previous, hook, prior>>

Restored(p) ==
  /\ job[p].pc = "restored"
  /\ Finish(p, IF current = job[p].base THEN "restored" ELSE "unrecovered")
  /\ UNCHANGED <<releases, current, previous, hook, prior>>

-----------------------------------------------------------------------------
\* The SSH client times out or loses its connection while the helper runs on.
ReplyLost(p) ==
  /\ "reply" \in Faults
  /\ Endpoint = "cloud"
  /\ job[p].cmd \in {"apply", "upgrade", "rollback"}
  /\ job[p].pc \in {"stage", "place", "link", "choose", "previous", "rbread", "rbtarget",
                    "rbcurrent", "rbprevious"}
  /\ job' = [job EXCEPT ![p].cmd = "helper"]
  /\ UNCHANGED <<releases, current, previous, hook, prior>>

\* A process is killed between two steps.
Crash(p) ==
  /\ "crash" \in Faults
  /\ job[p].pc # "idle"
  /\ job' = [job EXCEPT ![p] = NoJob]
  /\ UNCHANGED <<releases, current, previous, hook, prior>>

Step(p) ==
  \/ StageCheck(p) \/ StagePlace(p)
  \/ ApplyCheck(p) \/ ReadOld(p) \/ LinkCurrent(p) \/ ChoosePrevious(p)
  \/ LinkPrevious(p) \/ InstallHook(p) \/ Verify(p)
  \/ RollbackCheck(p) \/ RollbackRead(p) \/ RollbackTarget(p)
  \/ RollbackCurrent(p) \/ RollbackPrevious(p)
  \/ Recover(p) \/ Restored(p) \/ ReplyLost(p) \/ Crash(p)

Next ==
  \E p \in Procs :
    \/ \E v \in Versions :
         \/ \E a \in Artifacts : Stage(p, v, a)
         \/ \E shell \in BOOLEAN : Apply(p, v, shell)
         \/ Rollback(p, v) \/ Upgrade(p, v)
    \/ Step(p)

Spec == Init /\ [][Next]_vars

-----------------------------------------------------------------------------
(* Properties.                                                             *)

Labels == {"idle", "stage", "place"} \cup Applying \cup Recovering

Jobs == [pc : Labels,
         cmd : {"none", "stage", "apply", "rollback", "upgrade", "helper"},
         version : Versions \cup {None}, artifact : Artifacts \cup {None},
         base : Versions \cup {None}, old : Versions \cup {None},
         target : Versions \cup {None}, shell : BOOLEAN,
         outcome : {"none", "staged", "active", "upgraded", "failed", "restored",
                    "unrecovered"}]

\* Types of the directory, of the links and of every process.
TypeOK ==
  /\ releases \in [Versions -> Artifacts \cup {None}]
  /\ current \in Versions
  /\ previous \in Versions \cup {None}
  /\ hook \in Versions
  /\ job \in [Procs -> Jobs]
  /\ prior \in Versions \cup {None}

Verified(v) == <<v, releases[v]>> \in Signed /\ Embeds[releases[v]] = v

\* Whatever commands race, fail or die half-way, both links point to complete
\* releases with a valid signature, which report the version they are named
\* after (_stage_verified_release, _activate_local, rollback).
SelectedVerified ==
  /\ Verified(current)
  /\ previous # None => Verified(previous)

\* architecture-guardrails.md: "Release directories are immutable code", even
\* when two signed artifacts of one version are staged at the same time.
ReleasesImmutable ==
  [][\A v \in Versions : releases[v] # None => releases'[v] = releases[v]]_vars

\* An upgrade that reports success has staged exactly the artifact the signed
\* index names, whoever staged this version before or meanwhile.
UpgradeBoundToIndex ==
  \A p \in Procs : job[p].outcome = "upgraded" =>
    releases[job[p].version] = Index[job[p].version]

\* Product-Standards.md: upgrades "reject downgrades".  Only a rollback step
\* selects an older release.
NoDowngrade ==
  [][current' < current => \E p \in Procs : job[p].pc = "rbcurrent"]_vars

\* command-surface.md: "each endpoint retains its prior signed release as
\* `previous` for offline rollback".
PriorRetained ==
  (\A p \in Procs : job[p].pc = "idle") /\ prior # None => previous = prior

\* Test-Standards.md: "local selector rollback after activation failure".
FailureRolledBack == \A p \in Procs : job[p].outcome # "unrecovered"

\* Product-Standards.md: "Local upgrade installs the release-matched shell
\* source".  An upgrade that reports success has left its version selected
\* and that version's hook installed, whatever failed before.
UpgradeInstalls ==
  \A p \in Procs : job[p].outcome = "upgraded" =>
    current = job[p].version /\ (Endpoint = "local" => hook = current)

-----------------------------------------------------------------------------
(* The inductive invariant behind SelectedVerified and UpgradeBoundToIndex. *)

\* Whatever is staged has been verified, and both links point to it.
StagedInv == \A v \in Versions : releases[v] # None => Verified(v)

LinkInv ==
  /\ releases[current] # None
  /\ previous # None => releases[previous] # None

\* What a process holds: a verified bundle while it stages, a staged release
\* while it activates, staged targets while it moves links.  An upgrade holds
\* the artifact of the index from staging to its report.
JobOK(j) ==
  /\ j.pc \in {"stage", "place"} => <<j.version, j.artifact>> \in Signed
  /\ j.pc = "place" => Embeds[j.artifact] = j.version
  /\ j.pc \in Applying => j.version \in Versions
  /\ j.pc \in Applying \ {"apply"} => releases[j.version] # None
  /\ j.pc \in Recovering \/ j.cmd = "upgrade" => j.base \in Versions
  /\ j.pc \in {"rbread", "rbtarget", "rbcurrent", "rbprevious"} =>
       releases[j.base] # None /\ previous # None
  /\ j.pc \in {"rbcurrent", "rbprevious"} => j.target \in Versions
  /\ j.old # None => releases[j.old] # None
  /\ j.target # None => releases[j.target] # None
  /\ j.pc # "idle" => j.outcome = "none"
  /\ j.cmd = "upgrade" /\ j.pc \in {"stage", "place"} => j.artifact = Index[j.version]
  /\ j.cmd = "upgrade" /\ j.pc \in Applying => releases[j.version] = Index[j.version]
  /\ j.outcome = "upgraded" => j.version \in Versions /\ releases[j.version] = Index[j.version]

JobInv == \A p \in Procs : JobOK(job[p])

RelInv == TypeOK /\ StagedInv /\ LinkInv /\ JobInv
=============================================================================
