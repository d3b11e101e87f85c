------------------------ MODULE ReleaseEndpointProofs ------------------------
(***************************************************************************)
(* Proofs about ReleaseEndpoint: types, verified selectors, immutable      *)
(* releases and upgrades bound to the index, for any number of processes,  *)
(* versions and artifacts, on both kinds of endpoint and under all faults; *)
(* and, for one command at a time whose links do not fail, the release     *)
(* kept for rollback, the rollback itself, what an upgrade installs and    *)
(* the refusal of older versions.                                          *)
(***************************************************************************)
EXTENDS ReleaseEndpoint, TLAPS

Outcomes == {"none", "staged", "active", "upgraded", "failed", "restored", "unrecovered"}

\* What is staged stays, and a release kept for rollback is never forgotten.
Grows ==
  /\ \A v \in Versions : releases[v] # None => releases'[v] = releases[v]
  /\ previous # None => previous' # None

\* A process that does not move keeps its part of the invariant.
LEMMA OthersKeep ==
  ASSUME TypeOK, Grows, NEW q \in Procs, JobOK(job[q]), job'[q] = job[q]
  PROVE  JobOK(job[q])'
<1> DEFINE j == job[q]
<1>1. j \in Jobs /\ job'[q] = j
  BY DEF TypeOK
<1>2. \A v \in Versions : releases[v] # None => releases'[v] = releases[v]
  BY DEF Grows
<1>3. /\ j.version \in Versions \cup {None} /\ j.base \in Versions \cup {None}
      /\ j.old \in Versions \cup {None} /\ j.target \in Versions \cup {None}
  BY <1>1 DEF Jobs
<1>4. Index[j.version] # None \/ j.version = None
  BY <1>3, ReleaseAssumption
<1> HIDE DEF j
<1>5. JobOK(j)
  BY DEF j
<1>6. previous # None => previous' # None
  BY DEF Grows
<1> QED
  BY ZenonT(60), <1>1, <1>2, <1>3, <1>4, <1>5, <1>6, ReleaseAssumption DEF JobOK, Applying, Recovering

\* A step of p that changes nobody else's job preserves JobInv as soon as
\* p's new job is in order.
LEMMA StepKeeps ==
  ASSUME TypeOK, JobInv, Grows, NEW p \in Procs, NEW j \in Jobs,
         job' = [job EXCEPT ![p] = j], JobOK(job[p])'
  PROVE  JobInv' /\ job' \in [Procs -> Jobs]
<1>1. job' \in [Procs -> Jobs]
  BY DEF TypeOK
<1>2. ASSUME NEW q \in Procs PROVE JobOK(job[q])'
  <2>1. CASE q = p
    BY <2>1
  <2>2. CASE q # p
    <3>1. job'[q] = job[q]
      BY <2>2 DEF TypeOK
    <3> QED
      BY <3>1, OthersKeep DEF JobInv
  <2> QED
    BY <2>1, <2>2
<1> QED
  BY <1>1, <1>2 DEF JobInv

\* Finishing with an outcome other than success of an upgrade needs nothing.
LEMMA FinishKeeps ==
  ASSUME RelInv, Grows, NEW p \in Procs, NEW o \in Outcomes, o # "upgraded", Finish(p, o)
  PROVE  JobInv' /\ job' \in [Procs -> Jobs]
<1> DEFINE j == [NoJob EXCEPT !.outcome = o, !.version = None]
<1>1. job' = [job EXCEPT ![p] = j]
  BY DEF Finish
<1>2. j \in Jobs
  BY DEF Jobs, NoJob, Outcomes, Labels
<1>3. job'[p] = j
  BY <1>1 DEF RelInv, TypeOK
<1>4. /\ j.pc = "idle" /\ j.cmd = "none" /\ j.old = None /\ j.target = None
      /\ j.outcome = o
  BY DEF NoJob
<1> HIDE DEF j
<1>5. JobOK(job[p])'
  BY <1>3, <1>4 DEF JobOK, Applying, Recovering
<1> QED
  BY <1>1, <1>2, <1>5, StepKeeps DEF RelInv

\* A process that is reset keeps the invariant.
LEMMA ResetKeeps ==
  ASSUME RelInv, Grows, NEW p \in Procs, job' = [job EXCEPT ![p] = NoJob]
  PROVE  JobInv' /\ job' \in [Procs -> Jobs]
<1>1. NoJob \in Jobs
  BY DEF Jobs, NoJob, Labels
<1>2. job'[p] = NoJob
  BY DEF RelInv, TypeOK
<1>3. JobOK(job[p])'
  BY <1>2 DEF JobOK, Applying, Recovering, NoJob
<1> QED
  BY <1>1, <1>3, StepKeeps DEF RelInv

\* An exception leaves the invariant of the jobs intact.
LEMMA RaiseKeeps ==
  ASSUME RelInv, Grows, NEW p \in Procs, job[p].pc # "idle", Raise(p)
  PROVE  JobInv' /\ job' \in [Procs -> Jobs]
<1>1. CASE ~LocalUpgrade(p)
  <2>1. Finish(p, "failed")
    BY <1>1 DEF Raise
  <2> QED
    BY <2>1, FinishKeeps DEF Outcomes
<1>2. CASE LocalUpgrade(p) /\ job[p].pc \notin Applying
  <2>1. \/ Finish(p, "failed")
        \/ Finish(p, "unrecovered")
    BY <1>2 DEF Raise
  <2> QED
    BY <2>1, FinishKeeps DEF Outcomes
<1>3. CASE LocalUpgrade(p) /\ job[p].pc \in Applying
  <2> DEFINE j == [job[p] EXCEPT !.pc = "recover"]
  <2>1. job[p] \in Jobs /\ JobOK(job[p]) /\ job[p].cmd = "upgrade"
    BY <1>3 DEF RelInv, TypeOK, JobInv, LocalUpgrade
  <2>2. job' = [job EXCEPT ![p] = j]
    BY <1>3, <2>1 DEF Raise, Goto, RelInv, TypeOK
  <2>3. j \in Jobs
    BY <2>1 DEF Jobs, Labels, Recovering
  <2>4. job'[p] = j
    BY <2>2 DEF RelInv, TypeOK
  <2>5. /\ j.pc = "recover" /\ j.cmd = job[p].cmd /\ j.version = job[p].version
        /\ j.old = job[p].old /\ j.target = job[p].target /\ j.base = job[p].base
        /\ j.outcome = job[p].outcome /\ j.outcome = "none"
    BY <2>1 DEF Jobs, JobOK
  <2>6. /\ j.old # None => releases'[j.old] # None
        /\ j.target # None => releases'[j.target] # None
    BY <2>1, <2>5 DEF JobOK, Grows, Jobs
  <2> HIDE DEF j
  <2>7. JobOK(job[p])'
    BY <2>1, <2>4, <2>5, <2>6 DEF JobOK, Applying, Recovering
  <2> QED
    BY <2>2, <2>3, <2>7, StepKeeps DEF RelInv
<1> QED
  BY <1>1, <1>2, <1>3

\* Steps that leave the directory alone only have to care for the jobs.
LEMMA FilesSame ==
  ASSUME RelInv, UNCHANGED <<releases, current, previous, hook, prior>>
  PROVE  /\ Grows
         /\ JobInv' /\ job' \in [Procs -> Jobs] => RelInv'
<1>1. Grows
  BY DEF Grows
<1>2. ASSUME JobInv', job' \in [Procs -> Jobs] PROVE RelInv'
  BY <1>2 DEF RelInv, TypeOK, StagedInv, LinkInv, Verified
<1> QED
  BY <1>1, <1>2

\* The fields of a running process.
LEMMA JobFacts ==
  ASSUME RelInv, NEW p \in Procs
  PROVE  /\ job[p] \in Jobs /\ JobOK(job[p])
         /\ job[p].version \in Versions \cup {None}
         /\ job[p].artifact \in Artifacts \cup {None}
         /\ job[p].base \in Versions \cup {None}
         /\ job[p].old \in Versions \cup {None}
         /\ job[p].target \in Versions \cup {None}
         /\ job[p].shell \in BOOLEAN
<1>1. job[p] \in Jobs /\ JobOK(job[p])
  BY DEF RelInv, TypeOK, JobInv
<1> QED
  BY <1>1 DEF Jobs

\* Stage starts a process in order.
LEMMA StageStep ==
  ASSUME RelInv, NEW p \in Procs, NEW v \in Versions, NEW a \in Artifacts, Stage(p, v, a)
  PROVE  RelInv'
<1> DEFINE j == [NoJob EXCEPT !.pc = "stage", !.cmd = "stage",
                          !.version = v, !.artifact = a]
<1>1. job' = [job EXCEPT ![p] = j] /\ UNCHANGED <<releases, current, previous, hook, prior>>
  BY DEF Stage
<1>2. Grows
  BY <1>1, FilesSame
<1>3. /\ j.pc = "stage" /\ j.cmd = "stage" /\ j.version = v /\ j.artifact = a
      /\ j.base = None /\ j.old = None /\ j.target = None /\ j.outcome = "none"
  BY DEF NoJob
<1>4. j \in Jobs
  BY ReleaseAssumption DEF Jobs, NoJob, Labels, Applying, Recovering, RelInv, TypeOK
<1>5. job'[p] = j
  BY <1>1 DEF RelInv, TypeOK
<1> HIDE DEF j
<1>6. JobOK(job[p])'
  BY <1>1, <1>3, <1>5, ReleaseAssumption DEF JobOK, Applying, Recovering, Stage, RelInv, TypeOK
<1>7. JobInv' /\ job' \in [Procs -> Jobs]
  BY <1>1, <1>2, <1>4, <1>6, StepKeeps DEF RelInv
<1> QED
  BY <1>1, <1>7, FilesSame

\* Apply starts a process in order.
LEMMA ApplyStep ==
  ASSUME RelInv, NEW p \in Procs, NEW v \in Versions, NEW shell \in BOOLEAN, Apply(p, v, shell)
  PROVE  RelInv'
<1> DEFINE j == [NoJob EXCEPT !.pc = "apply", !.cmd = "apply",
                          !.version = v, !.shell = shell]
<1>1. job' = [job EXCEPT ![p] = j] /\ UNCHANGED <<releases, current, previous, hook, prior>>
  BY DEF Apply
<1>2. Grows
  BY <1>1, FilesSame
<1>3. /\ j.pc = "apply" /\ j.cmd = "apply" /\ j.version = v /\ j.artifact = None
      /\ j.base = None /\ j.old = None /\ j.target = None /\ j.outcome = "none"
  BY DEF NoJob
<1>4. j \in Jobs
  BY ReleaseAssumption DEF Jobs, NoJob, Labels, Applying, Recovering, RelInv, TypeOK
<1>5. job'[p] = j
  BY <1>1 DEF RelInv, TypeOK
<1> HIDE DEF j
<1>6. JobOK(job[p])'
  BY <1>1, <1>3, <1>5, ReleaseAssumption DEF JobOK, Applying, Recovering, Apply, RelInv, TypeOK
<1>7. JobInv' /\ job' \in [Procs -> Jobs]
  BY <1>1, <1>2, <1>4, <1>6, StepKeeps DEF RelInv
<1> QED
  BY <1>1, <1>7, FilesSame

\* Rollback starts a process in order.
LEMMA RollbackStep ==
  ASSUME RelInv, NEW p \in Procs, NEW v \in Versions, Rollback(p, v)
  PROVE  RelInv'
<1> DEFINE j == [NoJob EXCEPT !.pc = "rollback", !.cmd = "rollback",
                          !.version = v, !.base = v]
<1>1. job' = [job EXCEPT ![p] = j] /\ UNCHANGED <<releases, current, previous, hook, prior>>
  BY DEF Rollback
<1>2. Grows
  BY <1>1, FilesSame
<1>3. /\ j.pc = "rollback" /\ j.cmd = "rollback" /\ j.version = v /\ j.artifact = None
      /\ j.base = v /\ j.old = None /\ j.target = None /\ j.outcome = "none"
  BY DEF NoJob
<1>4. j \in Jobs
  BY ReleaseAssumption DEF Jobs, NoJob, Labels, Applying, Recovering, RelInv, TypeOK
<1>5. job'[p] = j
  BY <1>1 DEF RelInv, TypeOK
<1> HIDE DEF j
<1>6. JobOK(job[p])'
  BY <1>1, <1>3, <1>5, ReleaseAssumption DEF JobOK, Applying, Recovering, Rollback, RelInv, TypeOK
<1>7. JobInv' /\ job' \in [Procs -> Jobs]
  BY <1>1, <1>2, <1>4, <1>6, StepKeeps DEF RelInv
<1> QED
  BY <1>1, <1>7, FilesSame

\* Upgrade starts a process in order.
LEMMA UpgradeStep ==
  ASSUME RelInv, NEW p \in Procs, NEW v \in Versions, Upgrade(p, v)
  PROVE  RelInv'
<1> DEFINE j == [NoJob EXCEPT !.pc = "stage", !.cmd = "upgrade",
                          !.version = v, !.artifact = Index[v],
                          !.base = current, !.shell = (Endpoint = "local")]
<1>1. job' = [job EXCEPT ![p] = j] /\ UNCHANGED <<releases, current, previous, hook, prior>>
  BY DEF Upgrade
<1>2. Grows
  BY <1>1, FilesSame
<1>3. /\ j.pc = "stage" /\ j.cmd = "upgrade" /\ j.version = v /\ j.artifact = Index[v]
      /\ j.base = current /\ j.old = None /\ j.target = None /\ j.outcome = "none"
  BY DEF NoJob
<1>4. j \in Jobs
  BY ReleaseAssumption DEF Jobs, NoJob, Labels, Applying, Recovering, RelInv, TypeOK
<1>5. job'[p] = j
  BY <1>1 DEF RelInv, TypeOK
<1> HIDE DEF j
<1>6. JobOK(job[p])'
  BY <1>1, <1>3, <1>5, ReleaseAssumption DEF JobOK, Applying, Recovering, Upgrade, RelInv, TypeOK
<1>7. JobInv' /\ job' \in [Procs -> Jobs]
  BY <1>1, <1>2, <1>4, <1>6, StepKeeps DEF RelInv
<1> QED
  BY <1>1, <1>7, FilesSame

\* ApplyCheck finds its release staged.
LEMMA ApplyCheckStep ==
  ASSUME RelInv, NEW p \in Procs, ApplyCheck(p)
  PROVE  RelInv'
<1>0. UNCHANGED <<releases, current, previous, hook, prior>> /\ Grows
  BY FilesSame DEF ApplyCheck
<1>1. JobInv' /\ job' \in [Procs -> Jobs]
  <2>1. CASE ~Raise(p) /\ Endpoint = "cloud"
    <3> DEFINE j == [job[p] EXCEPT !.pc = "link", !.old = current]
    <3>1. job' = [job EXCEPT ![p] = j]
      BY <1>0, <2>1, JobFacts DEF ApplyCheck, MayActivate, RelInv, TypeOK, Jobs
    <3>2. j \in Jobs
      BY ZenonT(60), <1>0, <2>1, JobFacts DEF Jobs, Labels, Applying, Recovering, RelInv, TypeOK
    <3>3. /\ j.pc = "link" /\ j.cmd = job[p].cmd /\ j.version = job[p].version /\ j.artifact = job[p].artifact
         /\ j.base = job[p].base /\ j.old = current /\ j.target = job[p].target /\ j.outcome = job[p].outcome
      BY <1>0, <2>1, JobFacts DEF Jobs
    <3>4. job'[p] = j
      BY <3>1 DEF RelInv, TypeOK
    <3> HIDE DEF j
    <3>5. JobOK(job[p])'
      <4>1. job[p].pc = "apply" /\ releases[job[p].version] # None
        BY <1>0, <2>1 DEF ApplyCheck, MayActivate
      <4>2. current \in Versions /\ previous \in Versions \cup {None} /\ releases[current] # None
            /\ (previous # None => releases[previous] # None)
        BY DEF RelInv, LinkInv, TypeOK
      <4> QED
        BY <1>0, <2>1, <3>3, <3>4, <4>1, <4>2, JobFacts, ReleaseAssumption
           DEF JobOK, Applying, Recovering
    <3> QED
      BY <1>0, <2>1, <3>1, <3>2, <3>5, StepKeeps DEF RelInv
  <2>2. CASE ~Raise(p) /\ Endpoint # "cloud"
    <3> DEFINE j == [job[p] EXCEPT !.pc = "read"]
    <3>1. job' = [job EXCEPT ![p] = j]
      BY <1>0, <2>2, JobFacts DEF ApplyCheck, MayActivate, RelInv, TypeOK, Jobs
    <3>2. j \in Jobs
      BY <1>0, <2>2, JobFacts DEF Jobs, Labels, Applying, Recovering, RelInv, TypeOK
    <3>3. /\ j.pc = "read" /\ j.cmd = job[p].cmd /\ j.version = job[p].version /\ j.artifact = job[p].artifact
         /\ j.base = job[p].base /\ j.old = job[p].old /\ j.target = job[p].target /\ j.outcome = job[p].outcome
      BY <1>0, <2>2, JobFacts DEF Jobs
    <3>4. job'[p] = j
      BY <3>1 DEF RelInv, TypeOK
    <3> HIDE DEF j
    <3>5. JobOK(job[p])'
      <4>1. job[p].pc = "apply" /\ releases[job[p].version] # None
        BY <1>0, <2>2 DEF ApplyCheck, MayActivate
      <4>2. current \in Versions /\ previous \in Versions \cup {None} /\ releases[current] # None
            /\ (previous # None => releases[previous] # None)
        BY DEF RelInv, LinkInv, TypeOK
      <4> QED
        BY <1>0, <2>2, <3>3, <3>4, <4>1, <4>2, JobFacts, ReleaseAssumption
           DEF JobOK, Applying, Recovering
    <3> QED
      BY <1>0, <2>2, <3>1, <3>2, <3>5, StepKeeps DEF RelInv
  <2>3. CASE Raise(p)
    BY <1>0, <2>3, RaiseKeeps DEF ApplyCheck
  <2> QED
    BY <2>1, <2>2, <2>3
<1> QED
  BY <1>0, <1>1, FilesSame

\* The release to be replaced is staged.
LEMMA ReadOldStep ==
  ASSUME RelInv, NEW p \in Procs, ReadOld(p)
  PROVE  RelInv'
<1>0. UNCHANGED <<releases, current, previous, hook, prior>> /\ Grows
  BY FilesSame DEF ReadOld
<1>1. JobInv' /\ job' \in [Procs -> Jobs]
  <2> DEFINE j == [job[p] EXCEPT !.pc = "link", !.old = current]
  <2>1. job' = [job EXCEPT ![p] = j]
    BY <1>0, JobFacts DEF ReadOld, RelInv, TypeOK, Jobs
  <2>2. j \in Jobs
    BY ZenonT(60), <1>0, JobFacts DEF Jobs, Labels, Applying, Recovering, RelInv, TypeOK
  <2>3. /\ j.pc = "link" /\ j.cmd = job[p].cmd /\ j.version = job[p].version /\ j.artifact = job[p].artifact
       /\ j.base = job[p].base /\ j.old = current /\ j.target = job[p].target /\ j.outcome = job[p].outcome
    BY <1>0, JobFacts DEF Jobs
  <2>4. job'[p] = j
    BY <2>1 DEF RelInv, TypeOK
  <2> HIDE DEF j
  <2>5. JobOK(job[p])'
    <3>1. job[p].pc = "read"
      BY <1>0 DEF ReadOld
    <3>2. current \in Versions /\ previous \in Versions \cup {None} /\ releases[current] # None
          /\ (previous # None => releases[previous] # None)
      BY DEF RelInv, LinkInv, TypeOK
    <3> QED
      BY <1>0, <2>3, <2>4, <3>1, <3>2, JobFacts, ReleaseAssumption
         DEF JobOK, Applying, Recovering
  <2> QED
    BY <1>0, <2>1, <2>2, <2>5, StepKeeps DEF RelInv
<1> QED
  BY <1>0, <1>1, FilesSame

\* The confirmed release is the one kept for rollback.
LEMMA RollbackCheckStep ==
  ASSUME RelInv, NEW p \in Procs, RollbackCheck(p)
  PROVE  RelInv'
<1>0. UNCHANGED <<releases, current, previous, hook, prior>> /\ Grows
  BY FilesSame DEF RollbackCheck
<1>1. JobInv' /\ job' \in [Procs -> Jobs]
  <2>1. CASE Confirmed(job[p].base)
    <3> DEFINE j == [job[p] EXCEPT !.pc = "rbread"]
    <3>1. job' = [job EXCEPT ![p] = j]
      BY <1>0, <2>1, JobFacts DEF RollbackCheck, Confirmed, Goto, RelInv, TypeOK, Jobs
    <3>2. j \in Jobs
      BY <1>0, <2>1, JobFacts DEF Jobs, Labels, Applying, Recovering, RelInv, TypeOK
    <3>3. /\ j.pc = "rbread" /\ j.cmd = job[p].cmd /\ j.version = job[p].version /\ j.artifact = job[p].artifact
         /\ j.base = job[p].base /\ j.old = job[p].old /\ j.target = job[p].target /\ j.outcome = job[p].outcome
      BY <1>0, <2>1, JobFacts DEF Jobs
    <3>4. job'[p] = j
      BY <3>1 DEF RelInv, TypeOK
    <3> HIDE DEF j
    <3>5. JobOK(job[p])'
      <4>1. job[p].pc = "rollback" /\ previous = job[p].base
        BY <1>0, <2>1 DEF RollbackCheck, Confirmed, Goto
      <4>2. current \in Versions /\ previous \in Versions \cup {None} /\ releases[current] # None
            /\ (previous # None => releases[previous] # None)
        BY DEF RelInv, LinkInv, TypeOK
      <4> QED
        BY <1>0, <2>1, <3>3, <3>4, <4>1, <4>2, JobFacts, ReleaseAssumption
           DEF JobOK, Applying, Recovering
    <3> QED
      BY <1>0, <2>1, <3>1, <3>2, <3>5, StepKeeps DEF RelInv
  <2>2. CASE ~Confirmed(job[p].base)
    BY <1>0, <2>2, RaiseKeeps DEF RollbackCheck
  <2> QED
    BY <2>1, <2>2 DEF RollbackCheck
<1> QED
  BY <1>0, <1>1, FilesSame

\* Reading current finds a staged release.
LEMMA RollbackReadStep ==
  ASSUME RelInv, NEW p \in Procs, RollbackRead(p)
  PROVE  RelInv'
<1>0. UNCHANGED <<releases, current, previous, hook, prior>> /\ Grows
  BY FilesSame DEF RollbackRead
<1>1. JobInv' /\ job' \in [Procs -> Jobs]
  <2> DEFINE j == [job[p] EXCEPT !.pc = "rbtarget", !.old = current]
  <2>1. job' = [job EXCEPT ![p] = j]
    BY <1>0, JobFacts DEF RollbackRead, RelInv, TypeOK, Jobs
  <2>2. j \in Jobs
    BY ZenonT(60), <1>0, JobFacts DEF Jobs, Labels, Applying, Recovering, RelInv, TypeOK
  <2>3. /\ j.pc = "rbtarget" /\ j.cmd = job[p].cmd /\ j.version = job[p].version /\ j.artifact = job[p].artifact
       /\ j.base = job[p].base /\ j.old = current /\ j.target = job[p].target /\ j.outcome = job[p].outcome
    BY <1>0, JobFacts DEF Jobs
  <2>4. job'[p] = j
    BY <2>1 DEF RelInv, TypeOK
  <2> HIDE DEF j
  <2>5. JobOK(job[p])'
    <3>1. job[p].pc = "rbread"
      BY <1>0 DEF RollbackRead
    <3>2. current \in Versions /\ previous \in Versions \cup {None} /\ releases[current] # None
          /\ (previous # None => releases[previous] # None)
      BY DEF RelInv, LinkInv, TypeOK
    <3> QED
      BY <1>0, <2>3, <2>4, <3>1, <3>2, JobFacts, ReleaseAssumption
         DEF JobOK, Applying, Recovering
  <2> QED
    BY <1>0, <2>1, <2>2, <2>5, StepKeeps DEF RelInv
<1> QED
  BY <1>0, <1>1, FilesSame

\* The target of a rollback is staged on either kind of endpoint.
LEMMA RollbackTargetStep ==
  ASSUME RelInv, NEW p \in Procs, RollbackTarget(p)
  PROVE  RelInv'
<1>0. UNCHANGED <<releases, current, previous, hook, prior>> /\ Grows
  BY FilesSame DEF RollbackTarget
<1>1. JobInv' /\ job' \in [Procs -> Jobs]
  <2>1. CASE Endpoint = "local"
    <3> DEFINE j == [job[p] EXCEPT !.pc = "rbcurrent", !.target = previous]
    <3>1. job' = [job EXCEPT ![p] = j]
      BY <1>0, <2>1, JobFacts DEF RollbackTarget, RelInv, TypeOK, Jobs
    <3>2. j \in Jobs
      BY ZenonT(60), <1>0, <2>1, JobFacts DEF Jobs, Labels, Applying, Recovering, RelInv, TypeOK
    <3>3. /\ j.pc = "rbcurrent" /\ j.cmd = job[p].cmd /\ j.version = job[p].version /\ j.artifact = job[p].artifact
         /\ j.base = job[p].base /\ j.old = job[p].old /\ j.target = previous /\ j.outcome = job[p].outcome
      BY <1>0, <2>1, JobFacts DEF Jobs
    <3>4. job'[p] = j
      BY <3>1 DEF RelInv, TypeOK
    <3> HIDE DEF j
    <3>5. JobOK(job[p])'
      <4>1. job[p].pc = "rbtarget"
        BY <1>0, <2>1 DEF RollbackTarget
      <4>2. current \in Versions /\ previous \in Versions \cup {None} /\ releases[current] # None
            /\ (previous # None => releases[previous] # None)
        BY DEF RelInv, LinkInv, TypeOK
      <4> QED
        BY <1>0, <2>1, <3>3, <3>4, <4>1, <4>2, JobFacts, ReleaseAssumption
           DEF JobOK, Applying, Recovering
    <3> QED
      BY <1>0, <2>1, <3>1, <3>2, <3>5, StepKeeps DEF RelInv
  <2>2. CASE Endpoint # "local"
    <3> DEFINE j == [job[p] EXCEPT !.pc = "rbcurrent", !.target = job[p].base]
    <3>1. job' = [job EXCEPT ![p] = j]
      BY <1>0, <2>2, JobFacts DEF RollbackTarget, RelInv, TypeOK, Jobs
    <3>2. j \in Jobs
      BY ZenonT(60), <1>0, <2>2, JobFacts DEF Jobs, Labels, Applying, Recovering, RelInv, TypeOK
    <3>3. /\ j.pc = "rbcurrent" /\ j.cmd = job[p].cmd /\ j.version = job[p].version /\ j.artifact = job[p].artifact
         /\ j.base = job[p].base /\ j.old = job[p].old /\ j.target = job[p].base /\ j.outcome = job[p].outcome
      BY <1>0, <2>2, JobFacts DEF Jobs
    <3>4. job'[p] = j
      BY <3>1 DEF RelInv, TypeOK
    <3> HIDE DEF j
    <3>5. JobOK(job[p])'
      <4>1. job[p].pc = "rbtarget"
        BY <1>0, <2>2 DEF RollbackTarget
      <4>2. current \in Versions /\ previous \in Versions \cup {None} /\ releases[current] # None
            /\ (previous # None => releases[previous] # None)
        BY DEF RelInv, LinkInv, TypeOK
      <4> QED
        BY <1>0, <2>2, <3>3, <3>4, <4>1, <4>2, JobFacts, ReleaseAssumption
           DEF JobOK, Applying, Recovering
    <3> QED
      BY <1>0, <2>2, <3>1, <3>2, <3>5, StepKeeps DEF RelInv
  <2> QED
    BY <2>1, <2>2 DEF RollbackTarget
<1> QED
  BY <1>0, <1>1, FilesSame

\* Recovery of an upgrade knows the release it started from.
LEMMA RecoverStep ==
  ASSUME RelInv, NEW p \in Procs, Recover(p)
  PROVE  RelInv'
<1>0. UNCHANGED <<releases, current, previous, hook, prior>> /\ Grows
  BY FilesSame DEF Recover
<1>1. JobInv' /\ job' \in [Procs -> Jobs]
  <2>1. CASE NeedsRollback(p)
    <3> DEFINE j == [job[p] EXCEPT !.pc = "rollback"]
    <3>1. job' = [job EXCEPT ![p] = j]
      BY <1>0, <2>1, JobFacts DEF Recover, Goto, RelInv, TypeOK, Jobs
    <3>2. j \in Jobs
      BY <1>0, <2>1, JobFacts DEF Jobs, Labels, Applying, Recovering, RelInv, TypeOK
    <3>3. /\ j.pc = "rollback" /\ j.cmd = job[p].cmd /\ j.version = job[p].version /\ j.artifact = job[p].artifact
         /\ j.base = job[p].base /\ j.old = job[p].old /\ j.target = job[p].target /\ j.outcome = job[p].outcome
      BY <1>0, <2>1, JobFacts DEF Jobs
    <3>4. job'[p] = j
      BY <3>1 DEF RelInv, TypeOK
    <3> HIDE DEF j
    <3>5. JobOK(job[p])'
      <4>1. job[p].pc = "recover"
        BY <1>0, <2>1 DEF Recover, Goto
      <4>2. current \in Versions /\ previous \in Versions \cup {None} /\ releases[current] # None
            /\ (previous # None => releases[previous] # None)
        BY DEF RelInv, LinkInv, TypeOK
      <4> QED
        BY <1>0, <2>1, <3>3, <3>4, <4>1, <4>2, JobFacts, ReleaseAssumption
           DEF JobOK, Applying, Recovering
    <3> QED
      BY <1>0, <2>1, <3>1, <3>2, <3>5, StepKeeps DEF RelInv
  <2>2. CASE ~NeedsRollback(p) /\ current = job[p].base
    <3> DEFINE j == [job[p] EXCEPT !.pc = "restored"]
    <3>1. job' = [job EXCEPT ![p] = j]
      BY <1>0, <2>2, JobFacts DEF Recover, Goto, RelInv, TypeOK, Jobs
    <3>2. j \in Jobs
      BY <1>0, <2>2, JobFacts DEF Jobs, Labels, Applying, Recovering, RelInv, TypeOK
    <3>3. /\ j.pc = "restored" /\ j.cmd = job[p].cmd /\ j.version = job[p].version /\ j.artifact = job[p].artifact
         /\ j.base = job[p].base /\ j.old = job[p].old /\ j.target = job[p].target /\ j.outcome = job[p].outcome
      BY <1>0, <2>2, JobFacts DEF Jobs
    <3>4. job'[p] = j
      BY <3>1 DEF RelInv, TypeOK
    <3> HIDE DEF j
    <3>5. JobOK(job[p])'
      <4>1. job[p].pc = "recover"
        BY <1>0, <2>2 DEF Recover, Goto
      <4>2. current \in Versions /\ previous \in Versions \cup {None} /\ releases[current] # None
            /\ (previous # None => releases[previous] # None)
        BY DEF RelInv, LinkInv, TypeOK
      <4> QED
        BY <1>0, <2>2, <3>3, <3>4, <4>1, <4>2, JobFacts, ReleaseAssumption
           DEF JobOK, Applying, Recovering
    <3> QED
      BY <1>0, <2>2, <3>1, <3>2, <3>5, StepKeeps DEF RelInv
  <2>3. CASE ~NeedsRollback(p) /\ current # job[p].base
    BY <1>0, <2>3, RaiseKeeps DEF Recover
  <2> QED
    BY <2>1, <2>2, <2>3 DEF Recover
<1> QED
  BY <1>0, <1>1, FilesSame

\* Restored ends the command.
LEMMA RestoredStep ==
  ASSUME RelInv, NEW p \in Procs, Restored(p)
  PROVE  RelInv'
<1>0. UNCHANGED <<releases, current, previous, hook, prior>> /\ Grows
  BY FilesSame DEF Restored
<1>1. JobInv' /\ job' \in [Procs -> Jobs]
  <2>1. CASE current = job[p].base
    BY <1>0, <2>1, FinishKeeps DEF Outcomes, Restored
  <2>2. CASE current # job[p].base
    BY <1>0, <2>2, FinishKeeps DEF Outcomes, Restored
  <2> QED
    BY <2>1, <2>2 DEF Restored
<1> QED
  BY <1>0, <1>1, FilesSame

\* A helper whose client is gone goes on as before.
LEMMA ReplyLostStep ==
  ASSUME RelInv, NEW p \in Procs, ReplyLost(p)
  PROVE  RelInv'
<1>0. UNCHANGED <<releases, current, previous, hook, prior>> /\ Grows
  BY FilesSame DEF ReplyLost
<1>1. JobInv' /\ job' \in [Procs -> Jobs]
  <2> DEFINE j == [job[p] EXCEPT !.cmd = "helper"]
  <2>1. job' = [job EXCEPT ![p] = j]
    BY <1>0, JobFacts DEF ReplyLost, RelInv, TypeOK, Jobs
  <2>2. j \in Jobs
    BY <1>0, JobFacts DEF Jobs, Labels, Applying, Recovering, RelInv, TypeOK
  <2>3. /\ j.pc = job[p].pc /\ j.cmd = "helper" /\ j.version = job[p].version /\ j.artifact = job[p].artifact
       /\ j.base = job[p].base /\ j.old = job[p].old /\ j.target = job[p].target /\ j.outcome = job[p].outcome
    BY <1>0, JobFacts DEF Jobs
  <2>4. job'[p] = j
    BY <2>1 DEF RelInv, TypeOK
  <2> HIDE DEF j
  <2>5. JobOK(job[p])'
    <3>1. job[p].pc \in {"stage", "place", "link", "choose", "previous", "rbread",
                      "rbtarget", "rbcurrent", "rbprevious"}
      BY <1>0 DEF ReplyLost
    <3>2. current \in Versions /\ previous \in Versions \cup {None} /\ releases[current] # None
          /\ (previous # None => releases[previous] # None)
      BY DEF RelInv, LinkInv, TypeOK
    <3> QED
      BY <1>0, <2>3, <2>4, <3>1, <3>2, JobFacts, ReleaseAssumption
         DEF JobOK, Applying, Recovering
  <2> QED
    BY <1>0, <2>1, <2>2, <2>5, StepKeeps DEF RelInv
<1> QED
  BY <1>0, <1>1, FilesSame

\* A killed process holds nothing.
LEMMA CrashStep ==
  ASSUME RelInv, NEW p \in Procs, Crash(p)
  PROVE  RelInv'
<1>0. UNCHANGED <<releases, current, previous, hook, prior>> /\ Grows
  BY FilesSame DEF Crash
<1>1. JobInv' /\ job' \in [Procs -> Jobs]
  BY <1>0, ResetKeeps DEF Crash
<1> QED
  BY <1>0, <1>1, FilesSame

\* A release that is staged as the job wants it lets the job go on.
LEMMA StagedKeeps ==
  ASSUME RelInv, Grows, NEW p \in Procs, job[p].pc \in {"stage", "place"},
         releases'[job[p].version] = job[p].artifact, Staged(p)
  PROVE  JobInv' /\ job' \in [Procs -> Jobs]
<1>1. CASE job[p].cmd # "upgrade"
  BY <1>1, FinishKeeps DEF Staged, Outcomes
<1>2. CASE job[p].cmd = "upgrade"
  <2> DEFINE j == [job[p] EXCEPT !.pc = "apply"]
  <2>1. job' = [job EXCEPT ![p] = j]
    BY <1>2, JobFacts DEF Staged, Goto, RelInv, TypeOK
  <2>2. j \in Jobs
    BY JobFacts DEF Jobs, Labels, Applying
  <2>3. /\ j.pc = "apply" /\ j.cmd = "upgrade" /\ j.version = job[p].version
        /\ j.base = job[p].base /\ j.old = job[p].old /\ j.target = job[p].target
        /\ j.outcome = job[p].outcome
    BY <1>2, JobFacts DEF Jobs
  <2>4. job'[p] = j
    BY <2>1 DEF RelInv, TypeOK
  <2> HIDE DEF j
  <2>5. /\ j.version \in Versions /\ releases'[j.version] = Index[j.version]
        /\ j.outcome = "none"
    BY <1>2, <2>3, JobFacts, ReleaseAssumption DEF JobOK
  <2>6. /\ j.old # None => releases'[j.old] # None
        /\ j.target # None => releases'[j.target] # None
    <3>1. /\ job[p].old # None => job[p].old \in Versions /\ releases[job[p].old] # None
          /\ job[p].target # None => job[p].target \in Versions /\ releases[job[p].target] # None
      BY JobFacts DEF JobOK
    <3>2. \A w \in Versions : releases[w] # None => releases'[w] # None
      BY DEF Grows
    <3> QED
      BY <2>3, <3>1, <3>2
  <2>7. j.base \in Versions
    BY <1>2, <2>3, JobFacts DEF JobOK
  <2>8. JobOK(job[p])'
    BY <2>3, <2>4, <2>5, <2>6, <2>7 DEF JobOK, Applying, Recovering
  <2> QED
    BY <2>1, <2>2, <2>8, StepKeeps DEF RelInv
<1> QED
  BY <1>1, <1>2

\* StageCheck accepts only what is staged alike, or signed and self-checked.
LEMMA StageCheckStep ==
  ASSUME RelInv, NEW p \in Procs, StageCheck(p)
  PROVE  RelInv'
<1>0. UNCHANGED <<releases, current, previous, hook, prior>> /\ Grows
  BY FilesSame DEF StageCheck
<1>1. JobInv' /\ job' \in [Procs -> Jobs]
  <2>1. CASE job[p].pc = "stage" /\ SameRelease(job[p].version, job[p].artifact) /\ Staged(p)
    BY <1>0, <2>1, StagedKeeps DEF SameRelease
  <2>2. CASE SelfCheck(job[p].artifact, job[p].version) /\ job[p].pc = "stage" /\ Goto(p, "place")
    <3> DEFINE j == [job[p] EXCEPT !.pc = "place"]
    <3>1. job' = [job EXCEPT ![p] = j]
      BY <1>0, <2>2, JobFacts DEF StageCheck, SelfCheck, Goto, RelInv, TypeOK, Jobs
    <3>2. j \in Jobs
      BY <1>0, <2>2, JobFacts DEF Jobs, Labels, Applying, Recovering, RelInv, TypeOK
    <3>3. /\ j.pc = "place" /\ j.cmd = job[p].cmd /\ j.version = job[p].version /\ j.artifact = job[p].artifact
         /\ j.base = job[p].base /\ j.old = job[p].old /\ j.target = job[p].target /\ j.outcome = job[p].outcome
      BY <1>0, <2>2, JobFacts DEF Jobs
    <3>4. job'[p] = j
      BY <3>1 DEF RelInv, TypeOK
    <3> HIDE DEF j
    <3>5. JobOK(job[p])'
      <4>1. job[p].pc = "stage" /\ Embeds[job[p].artifact] = job[p].version
        BY <1>0, <2>2 DEF StageCheck, SelfCheck, Goto
      <4>2. current \in Versions /\ previous \in Versions \cup {None} /\ releases[current] # None
            /\ (previous # None => releases[previous] # None)
        BY DEF RelInv, LinkInv, TypeOK
      <4> QED
        BY <1>0, <2>2, <3>3, <3>4, <4>1, <4>2, JobFacts, ReleaseAssumption
           DEF JobOK, Applying, Recovering
    <3> QED
      BY <1>0, <2>2, <3>1, <3>2, <3>5, StepKeeps DEF RelInv
  <2>3. CASE job[p].pc = "stage" /\ Raise(p)
    BY <1>0, <2>3, RaiseKeeps
  <2> QED
    BY <2>1, <2>2, <2>3 DEF StageCheck
<1> QED
  BY <1>0, <1>1, FilesSame

\* A directory is placed once, with what was verified.
LEMMA StagePlaceStep ==
  ASSUME RelInv, NEW p \in Procs, StagePlace(p)
  PROVE  RelInv'
<1>1. CASE Placeable(job[p].version) /\ releases' = [releases EXCEPT ![job[p].version] = job[p].artifact]
                                   /\ Staged(p)
  <2> DEFINE v == job[p].version
             a == job[p].artifact
  <2>1. /\ v \in Versions /\ a \in Artifacts /\ <<v, a>> \in Signed /\ Embeds[a] = v
        /\ job[p].pc = "place" /\ releases[v] = None
    BY <1>1, JobFacts, ReleaseAssumption DEF JobOK, StagePlace, Placeable
  <2> HIDE DEF v, a
  <2>2. releases' = [releases EXCEPT ![v] = a] /\ UNCHANGED <<current, previous, hook, prior>>
    BY <1>1 DEF StagePlace, v, a
  <2>3. releases \in [Versions -> Artifacts \cup {None}]
    BY DEF RelInv, TypeOK
  <2>4. releases' \in [Versions -> Artifacts \cup {None}] /\ releases'[v] = a
    BY <2>1, <2>2, <2>3
  <2>5. Grows
    BY <2>1, <2>2, <2>3 DEF Grows
  <2>6. JobInv' /\ job' \in [Procs -> Jobs]
    BY <1>1, <2>1, <2>4, <2>5, StagedKeeps DEF v, a
  <2>7. StagedInv'
    BY <2>1, <2>2, <2>3 DEF RelInv, StagedInv, Verified
  <2>8. LinkInv'
    BY <2>2, <2>5 DEF RelInv, LinkInv, Grows, TypeOK
  <2>9. TypeOK'
    BY <2>2, <2>4, <2>6 DEF RelInv, TypeOK
  <2> QED
    BY <2>6, <2>7, <2>8, <2>9 DEF RelInv
<1>2. CASE UNCHANGED releases /\ Raise(p)
  <2>1. UNCHANGED <<releases, current, previous, hook, prior>> /\ job[p].pc = "place"
    BY <1>2 DEF StagePlace
  <2> QED
    BY <1>2, <2>1, FilesSame, RaiseKeeps
<1> QED
  BY <1>1, <1>2 DEF StagePlace

\* The fallback for previous is a staged release.
LEMMA LatestIsStaged ==
  ASSUME RelInv, NEW v \in Versions
  PROVE  LatestStagedBefore(v) # None =>
           LatestStagedBefore(v) \in Versions /\ releases[LatestStagedBefore(v)] # None
<1>1. CASE \E w \in Versions : Latest(StagedBefore(v), w)
  <2> DEFINE w == CHOOSE w \in Versions : Latest(StagedBefore(v), w)
  <2>1. w \in Versions /\ Latest(StagedBefore(v), w)
    BY <1>1
  <2>2. LatestStagedBefore(v) = w
    BY <1>1 DEF LatestStagedBefore
  <2> QED
    BY <2>1, <2>2 DEF Latest, StagedBefore
<1>2. CASE ~ \E w \in Versions : Latest(StagedBefore(v), w)
  BY <1>2 DEF LatestStagedBefore
<1> QED
  BY <1>1, <1>2

\* What previous is about to point to is staged.
LEMMA ChoosePreviousStep ==
  ASSUME RelInv, NEW p \in Procs, ChoosePrevious(p)
  PROVE  RelInv'
<1>0. UNCHANGED <<releases, current, previous, hook, prior>> /\ Grows
  BY FilesSame DEF ChoosePrevious
<1>1. JobInv' /\ job' \in [Procs -> Jobs]
  <2> DEFINE t == PreviousFor(p)
             j == [job[p] EXCEPT !.pc = "previous", !.target = t]
  <2>0. job[p].pc = "choose" /\ job[p].version \in Versions
    BY JobFacts DEF ChoosePrevious, JobOK, Applying
  <2>1. t \in Versions \cup {None} /\ (t # None => releases[t] # None)
    <3>1. CASE job[p].old \notin {None, job[p].version}
      BY <3>1, JobFacts DEF PreviousFor, JobOK
    <3>2. CASE job[p].old \in {None, job[p].version}
      BY <3>2, <2>0, LatestIsStaged DEF PreviousFor
    <3> QED
      BY <3>1, <3>2
  <2> HIDE DEF t
  <2>2. job' = [job EXCEPT ![p] = j]
    BY JobFacts DEF ChoosePrevious, RelInv, TypeOK, t
  <2>3. j \in Jobs
    BY <2>1, JobFacts DEF Jobs, Labels, Applying
  <2>4. /\ j.pc = "previous" /\ j.cmd = job[p].cmd /\ j.version = job[p].version
        /\ j.base = job[p].base /\ j.old = job[p].old /\ j.target = t
        /\ j.outcome = job[p].outcome
    BY JobFacts DEF Jobs
  <2>5. job'[p] = j
    BY <2>2 DEF RelInv, TypeOK
  <2> HIDE DEF j
  <2>6. JobOK(job[p])'
    BY <1>0, <2>0, <2>1, <2>4, <2>5, JobFacts DEF JobOK, Applying, Recovering
  <2> QED
    BY <1>0, <2>2, <2>3, <2>6, StepKeeps DEF RelInv
<1> QED
  BY <1>0, <1>1, FilesSame

\* The release that becomes current is staged.
LEMMA LinkCurrentStep ==
  ASSUME RelInv, NEW p \in Procs, LinkCurrent(p)
  PROVE  RelInv'
<1>0. UNCHANGED <<releases, previous, hook>> /\ job[p].pc = "link" /\ Grows
  BY DEF LinkCurrent, Grows
<1>1. CASE Select(job[p].version) /\ Goto(p, "choose")
  <2> DEFINE j == [job[p] EXCEPT !.pc = "choose"]
  <2>0. job[p].version \in Versions /\ releases[job[p].version] # None
    BY <1>0, JobFacts, ReleaseAssumption DEF JobOK, Applying
  <2>1. job' = [job EXCEPT ![p] = j]
    BY <1>1, JobFacts DEF Goto, RelInv, TypeOK
  <2>2. j \in Jobs
    BY JobFacts DEF Jobs, Labels, Applying, Recovering
  <2>3. /\ j.pc = "choose" /\ j.cmd = job[p].cmd /\ j.version = job[p].version
        /\ j.base = job[p].base /\ j.old = job[p].old /\ j.target = job[p].target
        /\ j.outcome = job[p].outcome
    BY JobFacts DEF Jobs
  <2>4. job'[p] = j
    BY <2>1 DEF RelInv, TypeOK
  <2> HIDE DEF j
  <2>5. JobOK(job[p])'
    BY <1>0, <2>0, <2>3, <2>4, JobFacts DEF JobOK, Applying, Recovering
  <2>6. JobInv' /\ job' \in [Procs -> Jobs]
    BY <1>0, <2>1, <2>2, <2>5, StepKeeps DEF RelInv
  <2>7. current' \in Versions /\ prior' \in Versions \cup {None} /\ releases'[current'] # None
    BY <1>0, <1>1, <2>0 DEF Select, RelInv, TypeOK
  <2> QED
    BY <1>0, <2>6, <2>7 DEF RelInv, TypeOK, StagedInv, LinkInv, Verified
<1>2. CASE Raise(p) /\ UNCHANGED <<current, prior>>
  BY <1>0, <1>2, FilesSame, RaiseKeeps
<1> QED
  BY <1>1, <1>2 DEF LinkCurrent

\* The release a rollback selects is staged.
LEMMA RollbackCurrentStep ==
  ASSUME RelInv, NEW p \in Procs, RollbackCurrent(p)
  PROVE  RelInv'
<1>0. UNCHANGED <<releases, previous, hook>> /\ job[p].pc = "rbcurrent" /\ Grows
  BY DEF RollbackCurrent, Grows
<1>1. CASE Select(job[p].target) /\ Goto(p, "rbprevious")
  <2> DEFINE j == [job[p] EXCEPT !.pc = "rbprevious"]
  <2>0. job[p].target \in Versions /\ releases[job[p].target] # None
    BY <1>0, JobFacts, ReleaseAssumption DEF JobOK, Applying
  <2>1. job' = [job EXCEPT ![p] = j]
    BY <1>1, JobFacts DEF Goto, RelInv, TypeOK
  <2>2. j \in Jobs
    BY JobFacts DEF Jobs, Labels, Applying, Recovering
  <2>3. /\ j.pc = "rbprevious" /\ j.cmd = job[p].cmd /\ j.version = job[p].version
        /\ j.base = job[p].base /\ j.old = job[p].old /\ j.target = job[p].target
        /\ j.outcome = job[p].outcome
    BY JobFacts DEF Jobs
  <2>4. job'[p] = j
    BY <2>1 DEF RelInv, TypeOK
  <2> HIDE DEF j
  <2>5. JobOK(job[p])'
    BY <1>0, <2>0, <2>3, <2>4, JobFacts DEF JobOK, Applying, Recovering
  <2>6. JobInv' /\ job' \in [Procs -> Jobs]
    BY <1>0, <2>1, <2>2, <2>5, StepKeeps DEF RelInv
  <2>7. current' \in Versions /\ prior' \in Versions \cup {None} /\ releases'[current'] # None
    BY <1>0, <1>1, <2>0 DEF Select, RelInv, TypeOK
  <2> QED
    BY <1>0, <2>6, <2>7 DEF RelInv, TypeOK, StagedInv, LinkInv, Verified
<1>2. CASE Raise(p) /\ UNCHANGED <<current, prior>>
  BY <1>0, <1>2, FilesSame, RaiseKeeps
<1> QED
  BY <1>1, <1>2 DEF RollbackCurrent

\* What previous becomes is staged, and the job learns it.
LEMMA LinkPreviousStep ==
  ASSUME RelInv, NEW p \in Procs, LinkPrevious(p)
  PROVE  RelInv'
<1>0. UNCHANGED <<releases, current, hook, prior>> /\ job[p].pc = "previous"
  BY DEF LinkPrevious
<1>1. CASE /\ previous' = IF job[p].target = None THEN previous ELSE job[p].target
           /\ Linked(p, previous')
  <2>1. /\ previous' \in Versions \cup {None}
        /\ previous' # None => releases[previous'] # None
        /\ previous # None => previous' # None
    BY <1>1, JobFacts DEF JobOK, RelInv, TypeOK, LinkInv
  <2>2. Grows
    BY <1>0, <2>1 DEF Grows
  <2>3. JobInv' /\ job' \in [Procs -> Jobs]
    <3>1. CASE job[p].cmd = "helper"
      BY <1>1, <2>2, <3>1, ResetKeeps DEF Linked
    <3>2. CASE job[p].cmd # "helper"
      <4> DEFINE l == IF Endpoint = "cloud" THEN "verify" ELSE "hook"
                 j == [job[p] EXCEPT !.pc = l, !.target = previous', !.old = None]
      <4>1. job' = [job EXCEPT ![p] = j]
        BY <1>1, <3>2, JobFacts DEF Linked, RelInv, TypeOK
      <4>2. l \in {"verify", "hook"}
        OBVIOUS
      <4> HIDE DEF l
      <4>3. j \in Jobs
        BY <2>1, <4>2, JobFacts DEF Jobs, Labels, Applying
      <4>4. /\ j.pc = l /\ j.cmd = job[p].cmd /\ j.version = job[p].version
            /\ j.base = job[p].base /\ j.old = None /\ j.target = previous'
            /\ j.outcome = job[p].outcome
        BY JobFacts DEF Jobs
      <4>5. job'[p] = j
        BY <4>1 DEF RelInv, TypeOK
      <4> HIDE DEF j
      <4>6. JobOK(job[p])'
        BY <1>0, <2>1, <4>2, <4>4, <4>5, JobFacts DEF JobOK, Applying, Recovering
      <4> QED
        BY <2>2, <4>1, <4>3, <4>6, StepKeeps DEF RelInv
    <3> QED
      BY <3>1, <3>2
  <2> QED
    BY <1>0, <2>1, <2>3 DEF RelInv, TypeOK, StagedInv, LinkInv, Verified
<1>2. CASE UNCHANGED previous /\ Raise(p)
  BY <1>0, <1>2, FilesSame, RaiseKeeps
<1> QED
  BY <1>1, <1>2 DEF LinkPrevious

\* A rollback keeps the release it leaves.
LEMMA RollbackPreviousStep ==
  ASSUME RelInv, NEW p \in Procs, RollbackPrevious(p)
  PROVE  RelInv'
<1>0. UNCHANGED <<releases, current, hook, prior>> /\ job[p].pc = "rbprevious"
  BY DEF RollbackPrevious
<1>1. CASE /\ previous' = IF job[p].old \notin {None, job[p].target} THEN job[p].old ELSE previous
           /\ RolledBack(p)
  <2>1. /\ previous' \in Versions \cup {None}
        /\ previous' # None => releases[previous'] # None
        /\ previous # None => previous' # None
    BY <1>1, JobFacts DEF JobOK, RelInv, TypeOK, LinkInv
  <2>2. Grows
    BY <1>0, <2>1 DEF Grows
  <2>3. JobInv' /\ job' \in [Procs -> Jobs]
    <3>1. CASE LocalUpgrade(p)
      <4> DEFINE j == [job[p] EXCEPT !.pc = "restored"]
      <4>1. job' = [job EXCEPT ![p] = j]
        BY <1>1, <3>1, JobFacts DEF RolledBack, Goto, RelInv, TypeOK
      <4>2. j \in Jobs
        BY JobFacts DEF Jobs, Labels, Recovering
      <4>3. /\ j.pc = "restored" /\ j.cmd = job[p].cmd /\ j.version = job[p].version
            /\ j.base = job[p].base /\ j.old = job[p].old /\ j.target = job[p].target
            /\ j.outcome = job[p].outcome
        BY JobFacts DEF Jobs
      <4>4. job'[p] = j
        BY <4>1 DEF RelInv, TypeOK
      <4> HIDE DEF j
      <4>5. JobOK(job[p])'
        BY <1>0, <4>3, <4>4, JobFacts DEF JobOK, Applying, Recovering
      <4> QED
        BY <2>2, <4>1, <4>2, <4>5, StepKeeps DEF RelInv
    <3>2. CASE ~LocalUpgrade(p) /\ job[p].cmd = "helper"
      BY <1>1, <2>2, <3>2, ResetKeeps DEF RolledBack
    <3>3. CASE ~LocalUpgrade(p) /\ job[p].cmd # "helper"
      <4>1. Finish(p, "active") \/ Finish(p, "failed")
        BY <1>1, <3>3 DEF RolledBack
      <4> QED
        BY <2>2, <4>1, FinishKeeps DEF Outcomes
    <3> QED
      BY <3>1, <3>2, <3>3
  <2> QED
    BY <1>0, <2>1, <2>3 DEF RelInv, TypeOK, StagedInv, LinkInv, Verified
<1>2. CASE UNCHANGED previous /\ Raise(p)
  BY <1>0, <1>2, FilesSame, RaiseKeeps
<1> QED
  BY <1>1, <1>2 DEF RollbackPrevious

\* The hook is that of a version in any case.
LEMMA InstallHookStep ==
  ASSUME RelInv, NEW p \in Procs, InstallHook(p)
  PROVE  RelInv'
<1>0. /\ UNCHANGED <<releases, current, previous, prior>> /\ job[p].pc = "hook" /\ Grows
      /\ job[p].version \in Versions
  BY JobFacts DEF InstallHook, Grows, JobOK, Applying
<1>1. hook' \in Versions
  BY <1>0 DEF InstallHook, HookOf, RelInv, TypeOK
<1>2. JobInv' /\ job' \in [Procs -> Jobs]
  <2>1. CASE Goto(p, "verify")
    <3> DEFINE j == [job[p] EXCEPT !.pc = "verify"]
    <3>1. job' = [job EXCEPT ![p] = j]
      BY <2>1, JobFacts DEF Goto, RelInv, TypeOK
    <3>2. j \in Jobs
      BY JobFacts DEF Jobs, Labels, Applying
    <3>3. /\ j.pc = "verify" /\ j.cmd = job[p].cmd /\ j.version = job[p].version
          /\ j.base = job[p].base /\ j.old = job[p].old /\ j.target = job[p].target
          /\ j.outcome = job[p].outcome
      BY JobFacts DEF Jobs
    <3>4. job'[p] = j
      BY <3>1 DEF RelInv, TypeOK
    <3> HIDE DEF j
    <3>5. JobOK(job[p])'
      BY <1>0, <3>3, <3>4, JobFacts DEF JobOK, Applying, Recovering
    <3> QED
      BY <1>0, <3>1, <3>2, <3>5, StepKeeps DEF RelInv
  <2>2. CASE Raise(p)
    BY <1>0, <2>2, RaiseKeeps
  <2> QED
    BY <2>1, <2>2 DEF InstallHook
<1> QED
  BY <1>0, <1>1, <1>2 DEF RelInv, TypeOK, StagedInv, LinkInv, Verified

\* A success is reported only with the release the index binds.
LEMMA VerifyStep ==
  ASSUME RelInv, NEW p \in Procs, Verify(p)
  PROVE  RelInv'
<1>0. UNCHANGED <<releases, current, previous, hook, prior>> /\ Grows /\ job[p].pc = "verify"
  BY FilesSame DEF Verify
<1>1. JobInv' /\ job' \in [Procs -> Jobs]
  <2>1. CASE Finish(p, "active") \/ Finish(p, "failed")
    BY <1>0, <2>1, FinishKeeps DEF Outcomes
  <2>2. CASE job[p].cmd = "upgrade" /\ Finish(p, "upgraded")
    <3> DEFINE j == [NoJob EXCEPT !.outcome = "upgraded", !.version = job[p].version]
    <3>1. job' = [job EXCEPT ![p] = j]
      BY <2>2 DEF Finish
    <3>2. j \in Jobs
      BY JobFacts DEF Jobs, NoJob, Labels
    <3>3. job'[p] = j
      BY <3>1 DEF RelInv, TypeOK
    <3>4. /\ j.pc = "idle" /\ j.cmd = "none" /\ j.old = None /\ j.target = None
          /\ j.version = job[p].version
      BY DEF NoJob
    <3> HIDE DEF j
    <3>5. job[p].version \in Versions /\ releases'[job[p].version] = Index[job[p].version]
      BY <1>0, <2>2, JobFacts DEF JobOK, Applying, Verify
    <3>6. JobOK(job[p])'
      BY <3>3, <3>4, <3>5 DEF JobOK, Applying, Recovering
    <3> QED
      BY <1>0, <3>1, <3>2, <3>6, StepKeeps DEF RelInv
  <2>3. CASE Raise(p)
    BY <1>0, <2>3, RaiseKeeps
  <2>4. CASE job[p].target # None
             /\ job' = [job EXCEPT ![p].pc = "rollback", ![p].base = job[p].target]
    <3> DEFINE j == [job[p] EXCEPT !.pc = "rollback", !.base = job[p].target]
    <3>1. job' = [job EXCEPT ![p] = j]
      BY <2>4, JobFacts DEF RelInv, TypeOK
    <3>2. j \in Jobs
      BY JobFacts DEF Jobs, Labels, Recovering
    <3>3. /\ j.pc = "rollback" /\ j.cmd = job[p].cmd /\ j.version = job[p].version
          /\ j.base = job[p].target /\ j.old = job[p].old /\ j.target = job[p].target
          /\ j.outcome = job[p].outcome
      BY JobFacts DEF Jobs
    <3>4. job'[p] = j
      BY <3>1 DEF RelInv, TypeOK
    <3> HIDE DEF j
    <3>5. JobOK(job[p])'
      BY <1>0, <2>4, <3>3, <3>4, JobFacts DEF JobOK, Applying, Recovering
    <3> QED
      BY <1>0, <3>1, <3>2, <3>5, StepKeeps DEF RelInv
  <2> QED
    BY <2>1, <2>2, <2>3, <2>4 DEF Verify, LocalUpgrade
<1> QED
  BY <1>0, <1>1, FilesSame

\* The endpoint starts with one verified release, selected.
LEMMA RelInit == ASSUME Init PROVE RelInv
<1> USE ReleaseAssumption DEF Init
<1>1. TypeOK
  <2>1. NoJob \in Jobs
    BY DEF Jobs, NoJob, Labels
  <2> QED
    BY <2>1 DEF TypeOK
<1>2. StagedInv /\ LinkInv
  BY DEF StagedInv, LinkInv, Verified
<1>3. JobInv
  BY DEF JobInv, JobOK, NoJob, Applying, Recovering
<1> QED
  BY <1>1, <1>2, <1>3 DEF RelInv

\* Every step preserves the invariant.
LEMMA RelNext == ASSUME RelInv, [Next]_vars PROVE RelInv'
<1>1. ASSUME NEW p \in Procs, NEW v \in Versions, NEW a \in Artifacts, Stage(p, v, a)
      PROVE  RelInv'
  BY <1>1, StageStep
<1>2. ASSUME NEW p \in Procs, NEW v \in Versions, NEW shell \in BOOLEAN, Apply(p, v, shell)
      PROVE  RelInv'
  BY <1>2, ApplyStep
<1>3. ASSUME NEW p \in Procs, NEW v \in Versions, Rollback(p, v) \/ Upgrade(p, v)
      PROVE  RelInv'
  BY <1>3, RollbackStep, UpgradeStep
<1>4. ASSUME NEW p \in Procs, Step(p)
      PROVE  RelInv'
  BY <1>4, StageCheckStep, StagePlaceStep, ApplyCheckStep, ReadOldStep, LinkCurrentStep,
     ChoosePreviousStep, LinkPreviousStep, InstallHookStep, VerifyStep, RollbackCheckStep,
     RollbackReadStep, RollbackTargetStep, RollbackCurrentStep, RollbackPreviousStep,
     RecoverStep, RestoredStep, ReplyLostStep, CrashStep DEF Step
<1>5. CASE UNCHANGED vars
  BY <1>5 DEF vars, RelInv, TypeOK, StagedInv, LinkInv, Verified, JobInv, JobOK
<1> QED
  BY <1>1, <1>2, <1>3, <1>4, <1>5 DEF Next

\* The inductive invariant holds in every reachable state.
THEOREM RelInvariance == Spec => []RelInv
<1>1. Init => RelInv
  BY RelInit
<1>2. RelInv /\ [Next]_vars => RelInv'
  BY RelNext
<1> QED
  BY <1>1, <1>2, PTL DEF Spec

\* Types: directory, links, hook and processes of any endpoint.
THEOREM RelTypes == Spec => []TypeOK
<1>1. RelInv => TypeOK
  BY DEF RelInv
<1> QED
  BY <1>1, RelInvariance, PTL

\* Both links point to verified releases, whatever commands race, fail or are
\* killed between two steps.
THEOREM LinksVerified == Spec => []SelectedVerified
<1>1. RelInv => SelectedVerified
  BY DEF RelInv, TypeOK, StagedInv, LinkInv, SelectedVerified
<1> QED
  BY <1>1, RelInvariance, PTL

\* A staged release is never replaced.
THEOREM StagedImmutable == Spec => ReleasesImmutable
<1>1. ASSUME RelInv, Next
      PROVE  \A v \in Versions : releases[v] # None => releases'[v] = releases[v]
  <2>1. ASSUME NEW p \in Procs, StagePlace(p)
        PROVE  \A v \in Versions : releases[v] # None => releases'[v] = releases[v]
    BY <1>1, <2>1 DEF StagePlace, Placeable, RelInv, TypeOK
  <2>2. ASSUME UNCHANGED releases
        PROVE  \A v \in Versions : releases[v] # None => releases'[v] = releases[v]
    BY <2>2
  <2> QED
    BY ZenonT(60), <1>1, <2>1, <2>2 DEF Next, Step, Stage, Apply, Rollback, Upgrade, StageCheck,
       ApplyCheck, ReadOld, LinkCurrent, ChoosePrevious, LinkPrevious, InstallHook, Verify,
       RollbackCheck, RollbackRead, RollbackTarget, RollbackCurrent, RollbackPrevious,
       Recover, Restored, ReplyLost, Crash
<1>2. RelInv /\ [Next]_vars =>
        [\A v \in Versions : releases[v] # None => releases'[v] = releases[v]]_vars
  BY <1>1
<1> QED
  BY <1>2, RelInvariance, PTL DEF Spec, ReleasesImmutable

\* A reported upgrade runs the artifact the signed index binds.
THEOREM UpgradesBound == Spec => []UpgradeBoundToIndex
<1>1. RelInv => UpgradeBoundToIndex
  BY DEF RelInv, JobInv, JobOK, UpgradeBoundToIndex
<1> QED
  BY <1>1, RelInvariance, PTL

-----------------------------------------------------------------------------
(***************************************************************************)
(* One command at a time.                                                  *)
(***************************************************************************)

\* One process, whose links do not fail and which is not killed; staging, hooks
\* and replies may fail.
SingleCommand ==
  /\ \E p \in Procs : Procs = {p}
  /\ "link" \notin Faults /\ "crash" \notin Faults

\* What was selected before is kept for rollback.
PriorKept == prior # None => previous = prior

\* A guided upgrade of this computer: it recovers by itself when a step fails.
Upgrading(j) == j.cmd = "upgrade" /\ Endpoint = "local"

\* What an activation has read and replaced so far.
ActivateOK(j) ==
  /\ j.pc \in {"read", "link"} => current <= j.version
  /\ j.pc = "link" => j.old = current
  /\ j.pc \in {"choose", "previous", "hook", "verify"} => current = j.version
  /\ j.pc \in {"choose", "previous"} =>
       j.old \in Versions /\ IF j.old = j.version THEN PriorKept ELSE prior = j.old
  /\ j.pc = "previous" =>
       IF j.old = j.version THEN j.target # None => previous = None ELSE j.target = j.old

\* What a rollback has read and replaced so far.
RollbackOK(j) ==
  /\ j.pc \in {"rbread", "rbtarget", "rbcurrent"} => previous = j.base
  /\ j.pc \in {"rbtarget", "rbcurrent"} => j.old = current
  /\ j.pc \in {"rbcurrent", "rbprevious"} => j.target = j.base
  /\ j.pc = "rbprevious" =>
       /\ current = j.target /\ j.old \in Versions
       /\ IF j.old = j.target THEN PriorKept ELSE prior = j.old

\* Where an upgrade of this computer is between the release it found and the one
\* it installs, so that its recovery finds one of the two.
UpgradeOK(j) ==
  /\ j.pc \in {"recover", "restored"} => Upgrading(j)
  /\ Upgrading(j) =>
    /\ j.base # j.version /\ j.shell = TRUE
    /\ j.pc \in {"stage", "place", "apply", "read", "link", "restored"} => current = j.base
    /\ j.pc \in {"choose", "previous"} => j.old = j.base
    /\ j.pc \in {"hook", "verify"} => previous = j.base
    /\ j.pc = "verify" => hook = j.version
    /\ j.pc = "recover" => current = j.base \/ (current = j.version /\ previous = j.base)
    /\ j.pc \in {"rollback", "rbread", "rbtarget", "rbcurrent"} =>
         current = j.version /\ previous = j.base

\* What a finished command says.
OutcomeOK(j) ==
  /\ j.outcome # "unrecovered"
  /\ j.outcome = "upgraded" => current = j.version /\ (Endpoint = "local" => hook = current)

\* The inductive invariant of a process that is alone.
AloneOK(j) ==
  /\ j.pc \notin {"choose", "previous", "rbprevious"} => PriorKept
  /\ ActivateOK(j) /\ RollbackOK(j) /\ UpgradeOK(j) /\ OutcomeOK(j)

AloneInv == \A p \in Procs : AloneOK(job[p])

\* A command that goes on keeps everything but its place.
LEMMA GotoFields ==
  ASSUME TypeOK, NEW p \in Procs, NEW l, Goto(p, l)
  PROVE  /\ job'[p].pc = l /\ job'[p].cmd = job[p].cmd /\ job'[p].version = job[p].version
         /\ job'[p].base = job[p].base /\ job'[p].old = job[p].old
         /\ job'[p].target = job[p].target /\ job'[p].shell = job[p].shell
         /\ job'[p].outcome = job[p].outcome
  BY DEF Goto, TypeOK, Jobs

\* A command that is over.
LEMMA FinishFields ==
  ASSUME TypeOK, NEW p \in Procs, NEW o, Finish(p, o)
  PROVE  /\ job'[p].pc = "idle" /\ job'[p].cmd = "none" /\ job'[p].outcome = o
         /\ job'[p].version = IF o = "upgraded" THEN job[p].version ELSE None
  BY DEF Finish, TypeOK, NoJob

\* A process at rest only has to keep the prior release, unless it upgraded or
\* could not recover.
LEMMA RestAlone ==
  ASSUME NEW p \in Procs, job'[p].pc = "idle", job'[p].cmd = "none", PriorKept',
         job'[p].outcome \notin {"unrecovered", "upgraded"}
  PROVE  AloneOK(job[p])'
  BY DEF AloneOK, ActivateOK, RollbackOK, UpgradeOK, OutcomeOK, Upgrading

\* An exception where the prior release is kept: an upgrade of this computer
\* has to be where its recovery can begin, every other command just fails.
LEMMA RaiseAlone ==
  ASSUME TypeOK, NEW p \in Procs, AloneOK(job[p]), Raise(p), job[p].outcome = "none", PriorKept',
         UNCHANGED <<current, previous>>,
         job[p].pc \notin Recovering \/ ~LocalUpgrade(p),
         LocalUpgrade(p) /\ job[p].pc \in Applying =>
           \/ current = job[p].base
           \/ current = job[p].version /\ previous = job[p].base
  PROVE  AloneOK(job[p])'
<1>1. CASE ~LocalUpgrade(p)
  BY <1>1, FinishFields, RestAlone DEF Raise
<1>2. CASE LocalUpgrade(p) /\ job[p].pc \notin Applying
  BY <1>2, FinishFields, RestAlone DEF Raise
<1>3. CASE LocalUpgrade(p) /\ job[p].pc \in Applying
  <2>1. /\ job'[p].pc = "recover" /\ job'[p].cmd = job[p].cmd /\ job'[p].version = job[p].version
        /\ job'[p].base = job[p].base /\ job'[p].shell = job[p].shell /\ job'[p].outcome = "none"
    BY <1>3, GotoFields DEF Raise
  <2> QED
    BY <1>3, <2>1 DEF AloneOK, ActivateOK, RollbackOK, UpgradeOK, OutcomeOK, Upgrading, LocalUpgrade
<1> QED
  BY <1>1, <1>2, <1>3

\* What every step begins with.
LEMMA AloneFacts ==
  ASSUME RelInv, NEW p \in Procs, AloneOK(job[p])
  PROVE  /\ TypeOK /\ job[p] \in Jobs /\ current \in Versions /\ previous \in Versions \cup {None}
         /\ job[p].pc # "idle" => job[p].outcome = "none"
         /\ job[p].pc \notin {"choose", "previous", "rbprevious"} => PriorKept
         /\ ActivateOK(job[p]) /\ RollbackOK(job[p]) /\ UpgradeOK(job[p]) /\ OutcomeOK(job[p])
         /\ LocalUpgrade(p) <=> Upgrading(job[p])
         /\ None \notin Versions
  BY ReleaseAssumption DEF RelInv, TypeOK, JobInv, JobOK, AloneOK, LocalUpgrade, Upgrading

\* A command begins.
LEMMA BeginAlone ==
  ASSUME RelInv, NEW p \in Procs, AloneOK(job[p]), NEW v \in Versions,
         \/ \E a \in Artifacts : Stage(p, v, a)
         \/ \E shell \in BOOLEAN : Apply(p, v, shell)
         \/ Rollback(p, v)
         \/ Upgrade(p, v)
  PROVE  AloneOK(job[p])'
<1>1. /\ PriorKept' /\ UNCHANGED <<current, previous, hook>>
  BY AloneFacts DEF Stage, Apply, Rollback, Upgrade, PriorKept
<1>2. CASE Upgrade(p, v)
  <2>1. /\ job'[p].pc = "stage" /\ job'[p].cmd = "upgrade" /\ job'[p].outcome = "none"
        /\ job'[p].version = v /\ job'[p].base = current /\ job'[p].shell = (Endpoint = "local")
        /\ v > current
    BY <1>2, AloneFacts DEF Upgrade, NoJob, TypeOK
  <2>2. current # v
    BY <2>1, AloneFacts, ReleaseAssumption
  <2> QED
    BY <1>1, <2>1, <2>2 DEF AloneOK, ActivateOK, RollbackOK, UpgradeOK, OutcomeOK, Upgrading
<1>3. CASE \/ \E a \in Artifacts : Stage(p, v, a)
           \/ \E shell \in BOOLEAN : Apply(p, v, shell)
           \/ Rollback(p, v)
  <2>1. /\ job'[p].pc \in {"stage", "apply", "rollback"} /\ job'[p].cmd # "upgrade"
        /\ job'[p].outcome = "none"
    <3>1. CASE \E a \in Artifacts : Stage(p, v, a)
      BY ZenonT(60), <3>1, AloneFacts DEF Stage, NoJob, TypeOK
    <3>2. CASE \E shell \in BOOLEAN : Apply(p, v, shell)
      BY ZenonT(60), <3>2, AloneFacts DEF Apply, NoJob, TypeOK
    <3>3. CASE Rollback(p, v)
      BY <3>3, AloneFacts DEF Rollback, NoJob, TypeOK
    <3> QED
      BY <1>3, <3>1, <3>2, <3>3
  <2> QED
    BY <1>1, <2>1 DEF AloneOK, ActivateOK, RollbackOK, UpgradeOK, OutcomeOK, Upgrading
<1> QED
  BY <1>2, <1>3

\* Staging touches no link.
LEMMA StagingAlone ==
  ASSUME RelInv, NEW p \in Procs, AloneOK(job[p]), StageCheck(p) \/ StagePlace(p)
  PROVE  AloneOK(job[p])'
<1>1. /\ UNCHANGED <<current, previous, hook, prior>> /\ job[p].pc \in {"stage", "place"}
      /\ PriorKept' /\ job[p].outcome = "none"
  BY AloneFacts DEF StageCheck, StagePlace, PriorKept
<1>2. CASE Raise(p)
  BY <1>1, <1>2, AloneFacts, RaiseAlone DEF Recovering, Applying
<1>3. CASE Finish(p, "staged")
  BY <1>1, <1>3, AloneFacts, FinishFields, RestAlone
<1>4. ASSUME NEW l \in {"place", "apply"}, Goto(p, l) PROVE AloneOK(job[p])'
  <2>1. /\ job'[p].pc = l /\ job'[p].cmd = job[p].cmd /\ job'[p].version = job[p].version
        /\ job'[p].base = job[p].base /\ job'[p].shell = job[p].shell /\ job'[p].outcome = "none"
    BY <1>1, <1>4, AloneFacts, GotoFields
  <2> QED
    BY <1>1, <2>1, AloneFacts DEF AloneOK, ActivateOK, RollbackOK, UpgradeOK, OutcomeOK, Upgrading
<1> QED
  BY <1>2, <1>3, <1>4 DEF StageCheck, StagePlace, Staged

\* The downgrade test, and the second reading of current on this computer.
LEMMA ApplyAlone ==
  ASSUME RelInv, NEW p \in Procs, AloneOK(job[p]), ApplyCheck(p) \/ ReadOld(p)
  PROVE  AloneOK(job[p])'
<1>1. /\ UNCHANGED <<current, previous, hook, prior>> /\ job[p].pc \in {"apply", "read"}
      /\ PriorKept' /\ job[p].outcome = "none"
  BY AloneFacts DEF ApplyCheck, ReadOld, PriorKept
<1>2. CASE Raise(p) /\ job[p].pc = "apply"
  BY <1>1, <1>2, AloneFacts, RaiseAlone DEF Recovering, UpgradeOK
<1>3. CASE ~Raise(p) \/ job[p].pc = "read"
  <2>1. /\ job'[p].pc \in {"read", "link"} /\ job'[p].cmd = job[p].cmd
        /\ job'[p].version = job[p].version /\ job'[p].base = job[p].base
        /\ job'[p].shell = job[p].shell /\ job'[p].outcome = "none"
        /\ job'[p].pc = "link" => job'[p].old = current
    <3>1. CASE ReadOld(p)
      BY <1>1, <3>1, AloneFacts DEF ReadOld, TypeOK, Jobs
    <3>2. CASE ApplyCheck(p)
      BY <1>1, <1>3, <3>2, AloneFacts, ReleaseAssumption DEF ApplyCheck, TypeOK, Jobs
    <3> QED
      BY <3>1, <3>2
  <2>2. current <= job[p].version
    <3>1. CASE ReadOld(p)
      BY <3>1, AloneFacts DEF ReadOld, ActivateOK
    <3>2. CASE ApplyCheck(p)
      <4>1. ~Older(job[p].version) /\ job[p].version \in Versions
        BY <1>1, <1>3, <3>2 DEF ApplyCheck, MayActivate, RelInv, JobInv, JobOK, Applying
      <4>2. current \in Nat /\ job[p].version \in Nat /\ current # None
        BY <4>1, AloneFacts, ReleaseAssumption
      <4> QED
        BY <4>1, <4>2 DEF Older
    <3> QED
      BY <3>1, <3>2
  <2> QED
    BY <1>1, <2>1, <2>2, AloneFacts DEF AloneOK, ActivateOK, RollbackOK, UpgradeOK, OutcomeOK, Upgrading
<1> QED
  BY <1>1, <1>2, <1>3

\* current is replaced: from here to the second link the prior release is the
\* one the process has read.
LEMMA LinkAlone ==
  ASSUME RelInv, SingleCommand, NEW p \in Procs, AloneOK(job[p]), LinkCurrent(p)
  PROVE  AloneOK(job[p])'
<1>1. /\ UNCHANGED <<previous, hook>> /\ job[p].pc = "link" /\ job[p].outcome = "none"
      /\ Select(job[p].version) /\ Goto(p, "choose")
  BY AloneFacts DEF LinkCurrent, SingleCommand
<1>2. /\ job'[p].pc = "choose" /\ job'[p].cmd = job[p].cmd /\ job'[p].version = job[p].version
      /\ job'[p].base = job[p].base /\ job'[p].shell = job[p].shell /\ job'[p].outcome = "none"
      /\ job'[p].old = job[p].old
  BY <1>1, AloneFacts, GotoFields
<1>3. /\ job[p].old = current /\ current' = job[p].version
      /\ prior' = IF job[p].version = current THEN prior ELSE current
  BY <1>1, AloneFacts DEF ActivateOK, Select
<1>4. PriorKept
  BY <1>1, AloneFacts
<1> QED
  BY <1>1, <1>2, <1>3, <1>4, AloneFacts
     DEF AloneOK, ActivateOK, RollbackOK, UpgradeOK, OutcomeOK, Upgrading, PriorKept

\* What previous is to point to: what was read, unless that is the new release.
LEMMA ChooseAlone ==
  ASSUME RelInv, NEW p \in Procs, AloneOK(job[p]), ChoosePrevious(p)
  PROVE  AloneOK(job[p])'
<1>1. /\ UNCHANGED <<current, previous, hook, prior>> /\ job[p].pc = "choose"
      /\ job[p].outcome = "none"
  BY AloneFacts DEF ChoosePrevious
<1>2. /\ job'[p].pc = "previous" /\ job'[p].cmd = job[p].cmd /\ job'[p].version = job[p].version
      /\ job'[p].base = job[p].base /\ job'[p].shell = job[p].shell /\ job'[p].outcome = "none"
      /\ job'[p].old = job[p].old /\ job'[p].target = PreviousFor(p)
  BY <1>1, AloneFacts DEF ChoosePrevious, TypeOK, Jobs
<1>3. IF job[p].old = job[p].version THEN PreviousFor(p) # None => previous = None
      ELSE PreviousFor(p) = job[p].old
  BY <1>1, AloneFacts DEF PreviousFor, ActivateOK
<1> QED
  BY <1>1, <1>2, <1>3, AloneFacts
     DEF AloneOK, ActivateOK, RollbackOK, UpgradeOK, OutcomeOK, Upgrading, PriorKept

\* previous is replaced, and the prior release is kept again.
LEMMA LinkPreviousAlone ==
  ASSUME RelInv, SingleCommand, NEW p \in Procs, AloneOK(job[p]), LinkPrevious(p)
  PROVE  AloneOK(job[p])'
<1>1. /\ UNCHANGED <<current, hook, prior>> /\ job[p].pc = "previous" /\ job[p].outcome = "none"
      /\ previous' = IF job[p].target = None THEN previous ELSE job[p].target
      /\ Linked(p, previous')
  BY AloneFacts DEF LinkPrevious, SingleCommand
<1>2. PriorKept' /\ (Upgrading(job[p]) => previous' = job[p].base)
  BY <1>1, AloneFacts DEF ActivateOK, UpgradeOK, PriorKept
<1>3. CASE job[p].cmd = "helper"
  <2>1. job'[p] = NoJob
    BY <1>1, <1>3, AloneFacts DEF Linked, TypeOK
  <2> QED
    BY <1>2, <2>1, RestAlone DEF NoJob
<1>4. CASE job[p].cmd # "helper"
  <2>1. /\ job'[p].pc = (IF Endpoint = "cloud" THEN "verify" ELSE "hook")
        /\ job'[p].cmd = job[p].cmd /\ job'[p].version = job[p].version
        /\ job'[p].base = job[p].base /\ job'[p].shell = job[p].shell /\ job'[p].outcome = "none"
    BY <1>1, <1>4, AloneFacts DEF Linked, TypeOK, Jobs
  <2> QED
    BY <1>1, <1>2, <2>1, AloneFacts
       DEF AloneOK, ActivateOK, RollbackOK, UpgradeOK, OutcomeOK, Upgrading
<1> QED
  BY <1>3, <1>4

\* The hook is that of the new release before an upgrade looks at the selector.
LEMMA HookAlone ==
  ASSUME RelInv, SingleCommand, NEW p \in Procs, AloneOK(job[p]), InstallHook(p)
  PROVE  AloneOK(job[p])'
<1>1. /\ UNCHANGED <<current, previous, prior>> /\ job[p].pc = "hook" /\ job[p].outcome = "none"
      /\ PriorKept'
  BY AloneFacts DEF InstallHook, PriorKept
<1>2. CASE Raise(p)
  BY <1>1, <1>2, AloneFacts, RaiseAlone DEF Recovering, ActivateOK, UpgradeOK
<1>3. CASE Goto(p, "verify") /\ (job[p].shell => hook' = job[p].version)
  <2>1. /\ job'[p].pc = "verify" /\ job'[p].cmd = job[p].cmd /\ job'[p].version = job[p].version
        /\ job'[p].base = job[p].base /\ job'[p].shell = job[p].shell /\ job'[p].outcome = "none"
    BY <1>1, <1>3, AloneFacts, GotoFields
  <2> QED
    BY <1>1, <1>3, <2>1, AloneFacts
       DEF AloneOK, ActivateOK, RollbackOK, UpgradeOK, OutcomeOK, Upgrading
<1> QED
  BY <1>2, <1>3 DEF InstallHook, HookOf

\* The selector is the one that was installed, so nothing is rolled back here.
LEMMA VerifyAlone ==
  ASSUME RelInv, NEW p \in Procs, AloneOK(job[p]), Verify(p)
  PROVE  AloneOK(job[p])'
<1>1. /\ UNCHANGED <<current, previous, hook, prior>> /\ job[p].pc = "verify"
      /\ current = job[p].version /\ PriorKept'
      /\ Upgrading(job[p]) => hook = job[p].version
  BY AloneFacts DEF Verify, PriorKept, ActivateOK, UpgradeOK
<1>2. CASE Finish(p, "active") \/ Finish(p, "failed")
  BY <1>1, <1>2, AloneFacts, FinishFields, RestAlone
<1>3. CASE Finish(p, "upgraded") /\ job[p].cmd = "upgrade"
  <2>1. /\ job'[p].pc = "idle" /\ job'[p].cmd = "none" /\ job'[p].outcome = "upgraded"
        /\ job'[p].version = job[p].version
    BY <1>3, AloneFacts, FinishFields
  <2> QED
    BY <1>1, <1>3, <2>1 DEF AloneOK, ActivateOK, RollbackOK, UpgradeOK, OutcomeOK, Upgrading
<1> QED
  BY <1>1, <1>2, <1>3 DEF Verify, LocalUpgrade

\* A rollback, of a command or of an upgrade's recovery, finds its target.
LEMMA RollbackAlone ==
  ASSUME RelInv, NEW p \in Procs, AloneOK(job[p]),
         RollbackCheck(p) \/ RollbackRead(p) \/ RollbackTarget(p)
  PROVE  AloneOK(job[p])'
<1>1. /\ UNCHANGED <<current, previous, hook, prior>>
      /\ job[p].pc \in {"rollback", "rbread", "rbtarget"} /\ PriorKept' /\ job[p].outcome = "none"
  BY AloneFacts DEF RollbackCheck, RollbackRead, RollbackTarget, PriorKept
<1>2. CASE Raise(p) /\ job[p].pc = "rollback" /\ previous # job[p].base
  <2>1. ~LocalUpgrade(p)
    BY <1>2, AloneFacts DEF UpgradeOK
  <2> QED
    BY <1>1, <1>2, <2>1, AloneFacts, RaiseAlone
<1>3. CASE Goto(p, "rbread") /\ previous = job[p].base /\ job[p].pc = "rollback"
  <2>1. /\ job'[p].pc = "rbread" /\ job'[p].cmd = job[p].cmd /\ job'[p].version = job[p].version
        /\ job'[p].base = job[p].base /\ job'[p].shell = job[p].shell /\ job'[p].outcome = "none"
    BY <1>1, <1>3, AloneFacts, GotoFields
  <2> QED
    BY <1>1, <1>3, <2>1, AloneFacts
       DEF AloneOK, ActivateOK, RollbackOK, UpgradeOK, OutcomeOK, Upgrading
<1>4. CASE RollbackRead(p)
  <2>1. /\ job'[p].pc = "rbtarget" /\ job'[p].cmd = job[p].cmd /\ job'[p].version = job[p].version
        /\ job'[p].base = job[p].base /\ job'[p].shell = job[p].shell /\ job'[p].outcome = "none"
        /\ job'[p].old = current /\ job[p].pc = "rbread"
    BY <1>1, <1>4, AloneFacts DEF RollbackRead, TypeOK, Jobs
  <2> QED
    BY <1>1, <2>1, AloneFacts
       DEF AloneOK, ActivateOK, RollbackOK, UpgradeOK, OutcomeOK, Upgrading
<1>5. CASE RollbackTarget(p)
  <2>1. /\ job'[p].pc = "rbcurrent" /\ job'[p].cmd = job[p].cmd /\ job'[p].version = job[p].version
        /\ job'[p].base = job[p].base /\ job'[p].shell = job[p].shell /\ job'[p].outcome = "none"
        /\ job'[p].old = job[p].old /\ job[p].pc = "rbtarget"
        /\ job'[p].target = IF Endpoint = "local" THEN previous ELSE job[p].base
    BY <1>1, <1>5, AloneFacts DEF RollbackTarget, TypeOK, Jobs
  <2> QED
    BY <1>1, <2>1, AloneFacts
       DEF AloneOK, ActivateOK, RollbackOK, UpgradeOK, OutcomeOK, Upgrading
<1> QED
  BY <1>1, <1>2, <1>3, <1>4, <1>5 DEF RollbackCheck, Confirmed

\* The two links of a rollback.
LEMMA RollbackLinksAlone ==
  ASSUME RelInv, SingleCommand, NEW p \in Procs, AloneOK(job[p]),
         RollbackCurrent(p) \/ RollbackPrevious(p)
  PROVE  AloneOK(job[p])'
<1>1. CASE RollbackCurrent(p)
  <2>1. /\ UNCHANGED <<previous, hook>> /\ job[p].pc = "rbcurrent" /\ job[p].outcome = "none"
        /\ Select(job[p].target) /\ Goto(p, "rbprevious")
    BY <1>1, AloneFacts DEF RollbackCurrent, SingleCommand
  <2>2. /\ job'[p].pc = "rbprevious" /\ job'[p].cmd = job[p].cmd
        /\ job'[p].version = job[p].version /\ job'[p].base = job[p].base
        /\ job'[p].shell = job[p].shell /\ job'[p].outcome = "none"
        /\ job'[p].old = job[p].old /\ job'[p].target = job[p].target
    BY <2>1, AloneFacts, GotoFields
  <2>3. /\ job[p].old = current /\ current' = job[p].target /\ job[p].target = job[p].base
        /\ prior' = IF job[p].target = current THEN prior ELSE current
    BY <2>1, AloneFacts DEF RollbackOK, Select
  <2>4. PriorKept
    BY <2>1, AloneFacts
  <2> QED
    BY <2>1, <2>2, <2>3, <2>4, AloneFacts
       DEF AloneOK, ActivateOK, RollbackOK, UpgradeOK, OutcomeOK, Upgrading, PriorKept
<1>2. CASE RollbackPrevious(p)
  <2>1. /\ UNCHANGED <<current, hook, prior>> /\ job[p].pc = "rbprevious" /\ job[p].outcome = "none"
        /\ previous' = IF job[p].old \notin {None, job[p].target} THEN job[p].old ELSE previous
        /\ RolledBack(p)
    BY <1>2, AloneFacts DEF RollbackPrevious, SingleCommand
  <2>2. PriorKept' /\ current = job[p].base
    BY <2>1, AloneFacts DEF RollbackOK, PriorKept
  <2>3. CASE LocalUpgrade(p)
    <3>1. /\ job'[p].pc = "restored" /\ job'[p].cmd = job[p].cmd
          /\ job'[p].version = job[p].version /\ job'[p].base = job[p].base
          /\ job'[p].shell = job[p].shell /\ job'[p].outcome = "none"
      BY <2>1, <2>3, AloneFacts, GotoFields DEF RolledBack
    <3> QED
      BY <2>1, <2>2, <2>3, <3>1, AloneFacts
         DEF AloneOK, ActivateOK, RollbackOK, UpgradeOK, OutcomeOK, Upgrading
  <2>4. CASE job' = [job EXCEPT ![p] = NoJob]
    <3>1. job'[p] = NoJob
      BY <2>4, AloneFacts DEF TypeOK
    <3> QED
      BY <2>2, <3>1, RestAlone DEF NoJob
  <2>5. CASE Finish(p, "active") \/ Finish(p, "failed")
    BY <2>2, <2>5, AloneFacts, FinishFields, RestAlone
  <2> QED
    BY <2>1, <2>3, <2>4, <2>5 DEF RolledBack
<1> QED
  BY <1>1, <1>2

\* A failed upgrade finds the release it came from, or rolls back to it.
LEMMA RecoverAlone ==
  ASSUME RelInv, NEW p \in Procs, AloneOK(job[p]), Recover(p) \/ Restored(p)
  PROVE  AloneOK(job[p])'
<1>1. /\ UNCHANGED <<current, previous, hook, prior>> /\ job[p].pc \in {"recover", "restored"}
      /\ PriorKept' /\ job[p].outcome = "none"
  BY AloneFacts DEF Recover, Restored, PriorKept
<1>2. Upgrading(job[p]) /\ job[p].base # job[p].version
  BY <1>1, AloneFacts DEF UpgradeOK
<1>3. CASE Recover(p)
  <2>1. \/ Goto(p, "rollback") /\ current = job[p].version /\ previous = job[p].base
        \/ Goto(p, "restored") /\ current = job[p].base
    BY <1>2, <1>3, AloneFacts DEF Recover, NeedsRollback, UpgradeOK
  <2>2. /\ job'[p].pc \in {"rollback", "restored"} /\ job'[p].cmd = job[p].cmd
        /\ job'[p].version = job[p].version /\ job'[p].base = job[p].base
        /\ job'[p].shell = job[p].shell /\ job'[p].outcome = "none"
        /\ IF job'[p].pc = "rollback" THEN current = job[p].version /\ previous = job[p].base
           ELSE current = job[p].base
    BY <1>1, <2>1, AloneFacts, GotoFields
  <2> QED
    BY <1>1, <1>2, <2>2, AloneFacts
       DEF AloneOK, ActivateOK, RollbackOK, UpgradeOK, OutcomeOK, Upgrading
<1>4. CASE Restored(p)
  <2>1. Finish(p, "restored")
    BY <1>2, <1>4, AloneFacts DEF Restored, UpgradeOK
  <2> QED
    BY <1>1, <2>1, AloneFacts, FinishFields, RestAlone
<1> QED
  BY <1>3, <1>4

\* A client that is gone changes nothing the helper goes by.
LEMMA ReplyLostAlone ==
  ASSUME RelInv, NEW p \in Procs, AloneOK(job[p]), ReplyLost(p)
  PROVE  AloneOK(job[p])'
<1>1. /\ UNCHANGED <<current, previous, hook, prior>> /\ Endpoint = "cloud"
      /\ job[p].pc \notin {"idle", "recover", "restored"} /\ job[p].outcome = "none"
  BY AloneFacts DEF ReplyLost
<1>2. /\ job'[p].pc = job[p].pc /\ job'[p].version = job[p].version /\ job'[p].base = job[p].base
      /\ job'[p].old = job[p].old /\ job'[p].target = job[p].target /\ job'[p].outcome = "none"
  BY <1>1, AloneFacts DEF ReplyLost, TypeOK, Jobs
<1> QED
  BY <1>1, <1>2, AloneFacts
     DEF AloneOK, ActivateOK, RollbackOK, UpgradeOK, OutcomeOK, Upgrading, PriorKept

\* Every step keeps the invariant of a process that is alone.
LEMMA AloneNext == ASSUME SingleCommand, RelInv, AloneInv, [Next]_vars PROVE AloneInv'
<1>1. CASE UNCHANGED vars
  BY <1>1 DEF vars, AloneInv, AloneOK, ActivateOK, RollbackOK, UpgradeOK, OutcomeOK, PriorKept
<1>2. ASSUME NEW p \in Procs, AloneOK(job[p])' PROVE AloneInv'
  BY <1>2 DEF SingleCommand, AloneInv
<1>3. ASSUME NEW p \in Procs, Step(p) PROVE AloneInv'
  <2>1. AloneOK(job[p]) /\ ~Crash(p)
    BY DEF AloneInv, SingleCommand, Crash
  <2> QED
    BY <1>2, <1>3, <2>1, StagingAlone, ApplyAlone, LinkAlone, ChooseAlone, LinkPreviousAlone,
       HookAlone, VerifyAlone, RollbackAlone, RollbackLinksAlone, RecoverAlone, ReplyLostAlone DEF Step
<1>4. ASSUME NEW p \in Procs, NEW v \in Versions,
             \/ \E a \in Artifacts : Stage(p, v, a)
             \/ \E shell \in BOOLEAN : Apply(p, v, shell)
             \/ Rollback(p, v)
             \/ Upgrade(p, v)
      PROVE  AloneInv'
  <2>1. AloneOK(job[p])
    BY DEF AloneInv
  <2> QED
    BY <1>2, <1>4, <2>1, BeginAlone
<1> QED
  BY <1>1, <1>3, <1>4 DEF Next

\* The inductive invariant of a process that is alone holds in every behaviour.
THEOREM AloneInvariance == SingleCommand => (Spec => []AloneInv)
<1>1. Init => AloneInv
  BY DEF Init, AloneInv, AloneOK, ActivateOK, RollbackOK, UpgradeOK, OutcomeOK, Upgrading, PriorKept, NoJob
<1>2. SingleCommand /\ RelInv /\ AloneInv /\ [Next]_vars => AloneInv'
  BY AloneNext
<1> SUFFICES ASSUME SingleCommand PROVE Spec => []AloneInv
  OBVIOUS
<1>3. RelInv /\ AloneInv /\ [Next]_vars => AloneInv'
  BY <1>2
<1> QED
  BY <1>1, <1>3, RelInvariance, PTL DEF Spec

\* command-surface.md: with one command at a time and links that do not fail,
\* the prior release is kept as previous by every activation and rollback.
THEOREM PriorIsRetained == SingleCommand => (Spec => []PriorRetained)
<1>1. SingleCommand /\ AloneInv => PriorRetained
  BY DEF SingleCommand, AloneInv, AloneOK, PriorKept, PriorRetained
<1> SUFFICES ASSUME SingleCommand PROVE Spec => []PriorRetained
  OBVIOUS
<1>2. AloneInv => PriorRetained
  BY <1>1
<1> QED
  BY <1>2, AloneInvariance, PTL

\* A failed upgrade of this computer always ends with the release it came from
\* (upgrade_endpoint's recovery), wherever staging, hook or check failed.
THEOREM FailuresRolledBack == SingleCommand => (Spec => []FailureRolledBack)
<1>1. AloneInv => FailureRolledBack
  BY DEF AloneInv, AloneOK, OutcomeOK, FailureRolledBack
<1> QED
  BY <1>1, AloneInvariance, PTL

\* An upgrade that reports success has left its version selected and, on this
\* computer, that version's hook installed.
THEOREM UpgradesInstall == SingleCommand => (Spec => []UpgradeInstalls)
<1>1. AloneInv => UpgradeInstalls
  BY DEF AloneInv, AloneOK, OutcomeOK, UpgradeInstalls
<1> QED
  BY <1>1, AloneInvariance, PTL

\* Product-Standards.md, "reject downgrades": the test of the version is not
\* stale when the link is replaced, so only a rollback selects an older release.
THEOREM DowngradesRejected == SingleCommand => (Spec => NoDowngrade)
<1>1. ASSUME SingleCommand, RelInv, AloneInv, [Next]_vars, current' < current
      PROVE  \E p \in Procs : job[p].pc = "rbcurrent"
  <2>1. current \in Nat
    BY <1>1, ReleaseAssumption DEF RelInv, TypeOK
  <2>2. current' # current
    BY <1>1, <2>1
  <2>3. PICK p \in Procs : LinkCurrent(p) \/ RollbackCurrent(p)
    BY <1>1, <2>2 DEF Next, Step, Stage, Apply, Rollback, Upgrade, StageCheck, StagePlace,
       ApplyCheck, ReadOld, ChoosePrevious, LinkPrevious, InstallHook, Verify, RollbackCheck,
       RollbackRead, RollbackTarget, RollbackPrevious, Recover, Restored, ReplyLost, Crash, vars
  <2>4. ~LinkCurrent(p)
    <3>1. SUFFICES ASSUME LinkCurrent(p) PROVE FALSE
      OBVIOUS
    <3>2. current' = job[p].version /\ job[p].pc = "link"
      BY <2>2, <3>1 DEF LinkCurrent, Select
    <3>3. current <= job[p].version /\ job[p].version \in Versions
      BY <1>1, <3>2 DEF AloneInv, AloneOK, ActivateOK, RelInv, JobInv, JobOK, Applying
    <3>4. job[p].version \in Nat
      BY <3>3, ReleaseAssumption
    <3> QED
      BY <1>1, <2>1, <3>2, <3>3, <3>4
  <2> QED
    BY <2>3, <2>4 DEF RollbackCurrent
<1> SUFFICES ASSUME SingleCommand PROVE Spec => NoDowngrade
  OBVIOUS
<1>2. RelInv /\ AloneInv /\ [Next]_vars =>
        [current' < current => \E p \in Procs : job[p].pc = "rbcurrent"]_vars
  BY <1>1
<1> QED
  BY <1>2, RelInvariance, AloneInvariance, PTL DEF Spec, NoDowngrade

=============================================================================
