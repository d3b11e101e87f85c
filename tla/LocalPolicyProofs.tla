------------------------- MODULE LocalPolicyProofs -------------------------
(***************************************************************************)
(* Proofs about the activation jobs of the workstation, for any number of  *)
(* jobs, recoveries by hand and kills.                                     *)
(***************************************************************************)
EXTENDS LocalPolicy, TLAPS

\* Where a worker, its installer and a recovery tool can be.
WorkerPlace == {"none", "delay", "quiet", "install", "recover", "done"}
InstallerPlace ==
    {"idle", "preflight", "already", "check", "write", "bootout", "bootstrap", "probe",
     "attest", "import", "canary", "ok", "failed", "undo", "undone", "killed"}
ToolPlace == {"idle", "look", "look again", "unload", "load", "canary", "done", "killed"}

JobRec ==
    [pc : WorkerPlace, snap : Bin, late : BOOLEAN, inst : InstallerPlace,
     capBefore : Bin, identBefore : BOOLEAN, tries : Nat,
     receipt : {"none", "accepted", "failed"}, available : BOOLEAN]
ToolRec ==
    [pc : ToolPlace, result : {"none", "recovered", "failed"}, available : BOOLEAN]

PolicyTypes ==
    /\ launcher \in Bin /\ live \in Bin \cup {"down"} /\ cap \in Bin
    /\ ident \in BOOLEAN
    /\ job \in [Job -> JobRec] /\ rec \in [Tool -> ToolRec]

\* Worker, installer and the two tools they run are where the others let them be.
JobControl(w) ==
    /\ w.pc \in {"none", "delay", "quiet"} => w.inst = "idle" /\ w.receipt = "none"
    /\ w.inst \notin {"idle", "ok", "failed", "undone", "killed"} => w.pc = "install"
    /\ w.pc = "install" => w.receipt = "none" /\ w.inst \notin {"idle", "killed"}
    /\ w.pc = "recover" => w.receipt = "none" /\ w.inst \in {"failed", "undone", "killed"}
    /\ w.receipt = "accepted" => w.inst = "ok"

ToolControl(r) ==
    /\ Ran(r) => job[r[1]].pc # "none"
    /\ Ran(r) /\ r[2] = "installer" =>
          /\ job[r[1]].inst \in {"undo", "undone", "killed"}
          /\ rec[r].pc = "killed" => job[r[1]].inst # "undo"
    /\ Ran(r) /\ r[2] = "worker" =>
          /\ job[r[1]].inst \in {"failed", "undone", "killed"}
          /\ job[r[1]].pc \in {"recover", "done"}
          /\ rec[r].pc = "killed" => job[r[1]].pc = "done"
    /\ rec[r].pc # "done" => rec[r].result = "none"

\* A recovery of another job, or by hand.
Other(j) == \E r \in Tool : Ran(r) /\ (r[1] # j \/ r[2] = "operator")

Selecting == {"already", "bootout", "bootstrap", "probe", "attest", "import", "canary", "ok"}

\* An installer that has written the launcher, or found it written, relies on it.
SelectedStays(j) == job[j].inst \in Selecting => launcher = "cand" \/ Other(j)

\* Some recovery was not to the baseline, or has ended without it.
Unrecovered ==
    \E r \in Tool :
        /\ Ran(r)
        /\ \/ rec[r].pc \in {"done", "killed"} /\ rec[r].result # "recovered"
           \/ Snap(r) # "base"

\* Where service and launcher disagree, somebody is about to act on it.
Attended ==
    /\ live = "down" => (\E j \in Job : job[j].inst = "bootstrap") \/ (\E r \in Tool : Running(r))
    /\ live = "cand" /\ launcher = "base" => \E r \in Tool : Running(r)
    /\ live = "base" /\ launcher = "cand" =>
          (\E j \in Job : job[j].inst = "bootout") \/ (\E r \in Tool : rec[r].pc = "look")

Finished == \E j \in Job : job[j].inst \in {"ok", "killed"}

\* Who attested the candidate.
Attested ==
    cap = "cand" =>
        \/ Finished
        \/ \E j \in Job : job[j].inst \in {"import", "canary"}
        \/ Meddled /\ \E j \in Job : job[j].inst \in {"undo", "undone"} /\ job[j].capBefore = "cand"

Changing == {"check", "write", "bootout", "bootstrap", "probe", "attest", "import", "canary"}

\* An installer that changes the service found an attested candidate only where
\* Meddled says.
FoundAttested(j) ==
    job[j].inst \in Changing \cup {"undo", "undone"} /\ job[j].capBefore = "cand" =>
        Finished \/ Meddled

PolicyInv ==
    /\ PolicyTypes
    /\ \A j \in Job : JobControl(job[j])
    /\ \A r \in Tool : ToolControl(r)
    /\ \A j \in Job : SelectedStays(j)
    /\ Unrecovered \/ Attended
    /\ Attested
    /\ \A j \in Job : FoundAttested(j)


-----------------------------------------------------------------------------
(***************************************************************************)
(* What a step leaves alone.                                               *)
(***************************************************************************)

\* A tool that ran has run, a tool that ended has ended, a scheduled job keeps
\* its snapshot, and an installer that succeeded or was killed stays that.
Persists ==
    /\ \A r \in Tool : Ran(r) => rec'[r].pc # "idle"
    /\ \A r \in Tool : rec[r].pc \in {"done", "killed"} => rec'[r] = rec[r]
    /\ \A j \in Job : job[j].pc # "none" => job'[j].pc # "none" /\ job'[j].snap = job[j].snap
    /\ \A j \in Job : job[j].inst \in {"ok", "killed"} => job'[j].inst = job[j].inst

\* A tool belongs to a job and has a caller.
LEMMA ToolParts ==
    /\ \A r \in Tool : r[1] \in Job /\ r[2] \in Caller /\ r = <<r[1], r[2]>>
    /\ \A j \in Job : \A c \in Caller : <<j, c>> \in Tool
    /\ "installer" \in Caller /\ "worker" \in Caller /\ "operator" \in Caller
  BY DEF Tool, Caller

\* What has happened stays so.
LEMMA HappenedStays ==
    ASSUME PolicyInv, Persists
    PROVE  /\ \A j \in Job : Other(j) => Other(j)'
           /\ Meddled => Meddled'
           /\ Finished => Finished'
           /\ Unrecovered => Unrecovered'
  <1>1. \A j \in Job : Other(j) => Other(j)'
    BY DEF Other, Persists, Ran
  <1>2. Meddled => Meddled'
    BY ToolParts DEF Meddled, Persists, Ran
  <1>3. Finished => Finished'
    BY DEF Finished, Persists
  <1>4. Unrecovered => Unrecovered'
    <2> SUFFICES ASSUME NEW r \in Tool, Ran(r),
                        \/ rec[r].pc \in {"done", "killed"} /\ rec[r].result # "recovered"
                        \/ Snap(r) # "base"
                 PROVE  Unrecovered'
      BY DEF Unrecovered
    <2>1. rec'[r].pc # "idle" /\ r[1] \in Job /\ job[r[1]].pc # "none"
      BY ToolParts DEF Persists, PolicyInv, ToolControl
    <2>2. job'[r[1]].snap = job[r[1]].snap
      BY <2>1 DEF Persists
    <2>3. rec[r].pc \in {"done", "killed"} => rec'[r] = rec[r]
      BY DEF Persists
    <2> QED
      BY <2>1, <2>2, <2>3 DEF Unrecovered, Ran, Snap
  <1> QED
    BY <1>1, <1>2, <1>3, <1>4

\* The launcher is left alone or written with the candidate.
LEMMA SelectedKept ==
    ASSUME PolicyInv, Persists, launcher' \in {launcher, "cand"},
           \A j \in Job : job'[j].inst \in Selecting =>
               job[j].inst \in Selecting \/ launcher' = "cand"
    PROVE  \A j \in Job : SelectedStays(j)'
  BY HappenedStays DEF PolicyInv, SelectedStays

\* Service and launcher are left alone and nobody who attends to them stops.
LEMMA AttendedKept ==
    ASSUME PolicyInv, Persists, UNCHANGED <<launcher, live>>,
           \A j \in Job : job[j].inst \in {"bootout", "bootstrap"} => job'[j].inst = job[j].inst,
           \A r \in Tool : Running(r) => rec'[r].pc \notin {"idle", "done", "killed"},
           \A r \in Tool : rec[r].pc = "look" => rec'[r].pc = "look"
    PROVE  (Unrecovered \/ Attended)'
  <1>1. Attended => Attended'
    BY DEF Attended, Running
  <1> QED
    BY <1>1, HappenedStays DEF PolicyInv

\* A tool at its beginning attends to any disagreement.
LEMMA AttendedByNew ==
    ASSUME NEW r \in Tool, rec'[r].pc = "look"
    PROVE  (Unrecovered \/ Attended)'
  BY DEF Attended, Running

\* The manifest is left alone, and no installer forgets what it did.
LEMMA AttestedKept ==
    ASSUME PolicyInv, Persists, cap' = cap,
           \A j \in Job : job[j].inst \in {"import", "canary"} =>
               job'[j].inst \in {"import", "canary", "ok", "killed"},
           \A j \in Job : job[j].inst \in {"undo", "undone"} =>
               \/ job'[j].inst = "killed"
               \/ job'[j].inst \in {"undo", "undone"} /\ job'[j].capBefore = job[j].capBefore
    PROVE  Attested'
  <1> SUFFICES ASSUME cap = "cand" PROVE Attested'
    BY DEF Attested
  <1>1. CASE Finished
    BY <1>1, HappenedStays DEF Attested
  <1>2. ASSUME NEW j \in Job, job[j].inst \in {"import", "canary"} PROVE Attested'
    BY <1>2 DEF Attested, Finished
  <1>3. ASSUME Meddled, NEW j \in Job, job[j].inst \in {"undo", "undone"}, job[j].capBefore = "cand"
        PROVE  Attested'
    <2>1. Meddled'
      BY <1>3, HappenedStays
    <2> QED
      BY <1>3, <2>1 DEF Attested, Finished
  <1> QED
    BY <1>1, <1>2, <1>3 DEF PolicyInv, Attested

\* No installer gets to changing the service with an attestation it found.
LEMMA FoundKept ==
    ASSUME PolicyInv, Persists,
           \A j \in Job : job'[j].inst \in Changing \cup {"undo", "undone"} =>
               \/ /\ job[j].inst \in Changing \cup {"undo", "undone"}
                  /\ job'[j].capBefore = job[j].capBefore
               \/ job'[j].capBefore = "cand" => Finished \/ Meddled
    PROVE  \A j \in Job : FoundAttested(j)'
  <1> SUFFICES ASSUME NEW j \in Job, job'[j].inst \in Changing \cup {"undo", "undone"},
                      job'[j].capBefore = "cand"
               PROVE  Finished' \/ Meddled'
    BY DEF FoundAttested
  <1>1. Finished \/ Meddled
    BY DEF PolicyInv, FoundAttested
  <1> QED
    BY <1>1, HappenedStays

-----------------------------------------------------------------------------
(***************************************************************************)
(* Steps of the workers, the installers and the tools.                     *)
(***************************************************************************)

\* How a job's record may change: a scheduled job stays scheduled with its
\* snapshot, and an installer that has ended, or runs its tool, does not go back.
JobMoves(w, v) ==
    /\ v \in JobRec /\ JobControl(v) /\ v.pc # "none"
    /\ w.pc # "none" => v.snap = w.snap
    /\ w.inst \in {"ok", "killed"} => v.inst = w.inst
    /\ w.inst \in {"undo", "undone"} => v.inst \in {"undo", "undone", "killed"}
    /\ w.inst \in {"undo", "undone"} => v.capBefore = w.capBefore
    /\ w.inst \in {"failed", "undone"} => v.inst = w.inst
    /\ w.pc \in {"recover", "done"} => v.pc \in {"recover", "done"}
    /\ w.pc = "done" => v.pc = "done"

\* The job's record in the next state.
LEMMA SetFacts ==
    ASSUME PolicyTypes, NEW j \in Job, NEW v \in JobRec, Set(j, v)
    PROVE  /\ job' \in [Job -> JobRec] /\ job'[j] = v
           /\ \A k \in Job : k # j => job'[k] = job[k]
  BY DEF PolicyTypes, Set

\* The tool's record in the next state.
LEMMA ToolFacts ==
    ASSUME PolicyTypes, NEW r \in Tool, NEW t \in ToolRec, rec' = [rec EXCEPT ![r] = t]
    PROVE  /\ rec' \in [Tool -> ToolRec] /\ rec'[r] = t
           /\ \A q \in Tool : q # r => rec'[q] = rec[q]
  BY DEF PolicyTypes

\* A job's record changes and no tool's: what is left to show is said of the
\* service, the launcher and the manifest.
LEMMA JobMovesInv ==
    ASSUME PolicyInv, NEW j \in Job, NEW v, JobMoves(job[j], v), Set(j, v), UNCHANGED rec
    PROVE  /\ Persists
           /\ job'[j] = v /\ \A k \in Job : k # j => job'[k] = job[k]
           /\ \A k \in Job : JobControl(job[k])'
           /\ \A r \in Tool : ToolControl(r)'
           /\ job' \in [Job -> JobRec] /\ rec' \in [Tool -> ToolRec]
  <1>1. /\ job' \in [Job -> JobRec] /\ job'[j] = v
        /\ \A k \in Job : k # j => job'[k] = job[k]
    BY SetFacts DEF JobMoves, PolicyInv
  <1>2. \A k \in Job : JobControl(job[k])'
    <2> SUFFICES ASSUME NEW k \in Job PROVE JobControl(job'[k])
      BY DEF JobControl
    <2>1. JobControl(job[k]) /\ JobControl(v)
      BY DEF PolicyInv, JobMoves
    <2> QED
      BY <1>1, <2>1
  <1>3. \A r \in Tool : ToolControl(r)'
    <2> SUFFICES ASSUME NEW r \in Tool PROVE ToolControl(r)'
      OBVIOUS
    <2>1. r[1] \in Job /\ ToolControl(r) /\ rec'[r] = rec[r]
      BY ToolParts DEF PolicyInv
    <2>2. CASE r[1] # j
      BY <1>1, <2>1, <2>2 DEF ToolControl, Ran
    <2>3. CASE r[1] = j
      BY <1>1, <2>1, <2>3 DEF ToolControl, Ran, JobMoves
    <2> QED
      BY <2>2, <2>3
  <1>4. Persists
    <2>1. \A k \in Job : job[k].pc # "none" => job'[k].pc # "none" /\ job'[k].snap = job[k].snap
      BY <1>1 DEF JobMoves
    <2>2. \A k \in Job : job[k].inst \in {"ok", "killed"} => job'[k].inst = job[k].inst
      BY <1>1 DEF JobMoves
    <2> QED
      BY <2>1, <2>2 DEF Persists, Ran
  <1> QED
    BY <1>1, <1>2, <1>3, <1>4 DEF PolicyInv, PolicyTypes

\* The moves of an installer that concern neither service nor manifest.
Calm(from, to) ==
    \/ to = from
    \/ from = "idle" /\ to = "preflight"
    \/ from \in {"preflight", "already", "check"} /\ to = "failed"
    \/ from = "check" /\ to = "write"
    \/ from = "probe" /\ to \in {"attest", "canary"}
    \/ from = "import" /\ to = "canary"
    \/ from = "undo" /\ to = "undone"

\* They preserve the invariant.
LEMMA CalmStep ==
    ASSUME PolicyInv, NEW j \in Job, NEW v, JobMoves(job[j], v), Set(j, v),
           UNCHANGED <<launcher, live, cap, rec>>, ident' \in BOOLEAN,
           Calm(job[j].inst, v.inst), v.capBefore = job[j].capBefore
    PROVE  PolicyInv'
  <1>1. /\ Persists
        /\ job'[j] = v /\ \A k \in Job : k # j => job'[k] = job[k]
        /\ \A k \in Job : JobControl(job[k])'
        /\ \A r \in Tool : ToolControl(r)'
        /\ job' \in [Job -> JobRec] /\ rec' \in [Tool -> ToolRec]
    BY JobMovesInv
  <1>2. \A k \in Job : SelectedStays(k)'
    <2>1. \A k \in Job : job'[k].inst \in Selecting => job[k].inst \in Selecting
      BY <1>1 DEF Selecting, Calm
    <2> QED
      BY <1>1, <2>1, SelectedKept
  <1>3. (Unrecovered \/ Attended)'
    <2>1. \A k \in Job : job[k].inst \in {"bootout", "bootstrap"} => job'[k].inst = job[k].inst
      BY <1>1 DEF Calm
    <2> QED
      BY <1>1, <2>1, AttendedKept DEF Running
  <1>4. Attested'
    <2>1. \A k \in Job : job[k].inst \in {"import", "canary"} =>
               job'[k].inst \in {"import", "canary", "ok", "killed"}
      BY <1>1 DEF Calm
    <2>2. \A k \in Job : job[k].inst \in {"undo", "undone"} =>
               \/ job'[k].inst = "killed"
               \/ job'[k].inst \in {"undo", "undone"} /\ job'[k].capBefore = job[k].capBefore
      BY <1>1 DEF JobMoves
    <2> QED
      BY <1>1, <2>1, <2>2, AttestedKept
  <1>5. \A k \in Job : FoundAttested(k)'
    <2>1. \A k \in Job : job'[k].inst \in Changing \cup {"undo", "undone"} =>
               /\ job[k].inst \in Changing \cup {"undo", "undone"}
               /\ job'[k].capBefore = job[k].capBefore
      BY <1>1 DEF Changing, Calm
    <2> QED
      BY <1>1, <2>1, FoundKept
  <1> QED
    BY <1>1, <1>2, <1>3, <1>4, <1>5 DEF PolicyInv, PolicyTypes

\* The record of a job is one, with what its control says.
LEMMA JobIs ==
    ASSUME PolicyInv, NEW j \in Job
    PROVE  /\ job[j] \in JobRec /\ JobControl(job[j])
           /\ job[j].snap \in Bin /\ job[j].capBefore \in Bin
           /\ job[j].inst \in InstallerPlace /\ job[j].pc \in WorkerPlace
           /\ launcher \in Bin /\ cap \in Bin /\ live \in Bin \cup {"down"}
           /\ ident \in BOOLEAN
  BY DEF PolicyInv, PolicyTypes, JobRec

\* The worker's own steps.
LEMMA WorkerInv ==
    ASSUME PolicyInv, NEW j \in Job,
           \/ Schedule(j) \/ Delayed(j) \/ Deadline(j) \/ Poll(j) \/ Recovered(j)
           \/ InstallerExits(j) /\ job[j].inst = "ok"
    PROVE  PolicyInv'
  <1> USE JobIs
  <1>1. CASE Schedule(j)
    <2> DEFINE v == [job[j] EXCEPT !.pc = "delay", !.snap = launcher]
    <2>1. Set(j, v) /\ job[j].pc = "none" /\ UNCHANGED <<launcher, live, cap, ident, rec>>
      BY <1>1 DEF Schedule, service
    <2>2. JobMoves(job[j], v) /\ v.inst = job[j].inst /\ v.capBefore = job[j].capBefore
      BY <2>1 DEF JobMoves, JobRec, JobControl, WorkerPlace, Bin
    <2> QED
      BY <2>1, <2>2, CalmStep DEF Calm
  <1>2. ASSUME NEW v, Set(j, v), UNCHANGED <<launcher, live, cap, ident, rec>>,
               job[j].pc \in {"delay", "quiet"}, v = [job[j] EXCEPT !.pc = "quiet"]
        PROVE  PolicyInv'
    <2>2. JobMoves(job[j], v) /\ v.inst = job[j].inst /\ v.capBefore = job[j].capBefore
      BY <1>2 DEF JobMoves, JobRec, JobControl, WorkerPlace
    <2> QED
      BY <1>2, <2>2, CalmStep DEF Calm
  <1>3. ASSUME NEW receipt \in {"accepted", "failed"}, NEW available \in BOOLEAN,
               Report(j, receipt, available), UNCHANGED <<launcher, live, cap, ident, rec>>,
               \/ receipt = "failed" /\ job[j].pc \in {"delay", "quiet", "recover"}
               \/ receipt = "accepted" /\ job[j].pc = "install" /\ job[j].inst = "ok"
        PROVE  PolicyInv'
    <2> DEFINE v == [job[j] EXCEPT !.pc = "done", !.receipt = receipt, !.available = available]
    <2>1. Set(j, v)
      BY <1>3 DEF Report
    <2>2. JobMoves(job[j], v) /\ v.inst = job[j].inst /\ v.capBefore = job[j].capBefore
      BY <1>3 DEF JobMoves, JobRec, JobControl, WorkerPlace
    <2> QED
      BY <1>3, <2>1, <2>2, CalmStep DEF Calm
  <1>4. CASE Delayed(j)
    BY <1>2, <1>3, <1>4 DEF Delayed, service
  <1>5. CASE Deadline(j)
    <2> DEFINE v == [job[j] EXCEPT !.late = TRUE]
    <2>1. Set(j, v) /\ UNCHANGED <<launcher, live, cap, ident, rec>> /\ job[j].pc = "quiet"
      BY <1>5 DEF Deadline, service
    <2>2. JobMoves(job[j], v) /\ v.inst = job[j].inst /\ v.capBefore = job[j].capBefore
      BY <2>1 DEF JobMoves, JobRec, JobControl
    <2> QED
      BY <2>1, <2>2, CalmStep DEF Calm
  <1>6. CASE Poll(j)
    <2> DEFINE v == [job[j] EXCEPT !.pc = "install", !.inst = "preflight"]
    <2>1. ASSUME Set(j, v) PROVE PolicyInv'
      <3>1. UNCHANGED <<launcher, live, cap, ident, rec>> /\ job[j].pc = "quiet"
        BY <1>6 DEF Poll, service
      <3>2. /\ JobMoves(job[j], v) /\ v.inst = "preflight" /\ job[j].inst = "idle"
            /\ v.capBefore = job[j].capBefore
        BY <3>1 DEF JobMoves, JobRec, JobControl, WorkerPlace, InstallerPlace
      <3> QED
        BY <2>1, <3>1, <3>2, CalmStep DEF Calm
    <2> QED
      BY <1>3, <1>6, <2>1 DEF Poll, service
  <1>7. CASE Recovered(j)
    <2>1. rec[<<j, "worker">>].available \in BOOLEAN
      BY ToolParts DEF PolicyInv, PolicyTypes, ToolRec
    <2> QED
      BY <1>3, <1>7, <2>1 DEF Recovered, service
  <1>8. CASE InstallerExits(j) /\ job[j].inst = "ok"
    BY <1>3, <1>8 DEF InstallerExits, service
  <1> QED
    BY <1>1, <1>4, <1>5, <1>6, <1>7, <1>8

\* The installer's steps that leave service and manifest alone.
LEMMA CalmInstallerInv ==
    ASSUME PolicyInv, NEW j \in Job,
           \/ Refuse(j) \/ CheckQuiescent(j) \/ ProbeCandidate(j) \/ ImportIdentity(j)
           \/ UndoEnds(j) /\ UNCHANGED rec
    PROVE  PolicyInv'
  <1> USE JobIs
  <1>1. PICK to \in {"failed", "write", "attest", "canary", "undone"} :
            /\ Install(j, to) /\ Calm(job[j].inst, to) /\ job[j].inst # to
    BY DEF Refuse, CheckQuiescent, ProbeCandidate, ImportIdentity, UndoEnds, Calm
  <1>2. UNCHANGED <<launcher, live, cap, rec>> /\ ident' \in BOOLEAN
    BY DEF Refuse, CheckQuiescent, ProbeCandidate, ImportIdentity, UndoEnds, service
  <1> DEFINE v == [job[j] EXCEPT !.inst = to]
  <1>3. Set(j, v)
    BY <1>1 DEF Install
  <1>4. job[j].pc = "install"
    BY <1>1 DEF Calm, JobControl
  <1>5. JobMoves(job[j], v) /\ v.inst = to /\ v.capBefore = job[j].capBefore
    BY <1>1, <1>4 DEF JobMoves, JobRec, JobControl, InstallerPlace, Calm
  <1> QED
    BY <1>1, <1>2, <1>3, <1>5, CalmStep

\* The installer moves on with the service or the manifest: its record, and what
\* that says of the rest.
LEMMA InstallerMoves ==
    ASSUME PolicyInv, NEW j \in Job, NEW to \in InstallerPlace, NEW v \in JobRec,
           v.pc = job[j].pc, v.snap = job[j].snap, v.receipt = job[j].receipt, v.inst = to,
           Set(j, v), UNCHANGED rec,
           job[j].inst \in {"preflight", "already", "write", "bootout", "bootstrap", "attest", "canary"},
           to \in {"already", "check", "ok", "bootout", "bootstrap", "probe", "import"}
    PROVE  /\ Persists
           /\ job'[j] = v /\ \A k \in Job : k # j => job'[k] = job[k]
           /\ \A k \in Job : JobControl(job[k])'
           /\ \A r \in Tool : ToolControl(r)'
           /\ job' \in [Job -> JobRec] /\ rec' \in [Tool -> ToolRec]
  <1>1. job[j].pc = "install" /\ job[j].receipt = "none"
    BY JobIs DEF JobControl
  <1>2. JobMoves(job[j], v)
    BY <1>1 DEF JobMoves, JobControl
  <1> QED
    BY <1>2, JobMovesInv

\* The preflight notes the manifest. It goes on to change the service only where
\* the launcher is the baseline's, and there an attested candidate is Finished's
\* or Meddled's: of an installer between attestation and acceptance the launcher
\* says that another's recovery came between.
LEMMA PreflightInv == ASSUME PolicyInv, NEW j \in Job, Preflight(j) PROVE PolicyInv'
  <1> DEFINE to == IF launcher = "cand" THEN "already" ELSE "check"
             v == [job[j] EXCEPT !.inst = to, !.capBefore = cap]
  <1>0. /\ Set(j, v) /\ UNCHANGED <<launcher, live, cap, ident, rec>> /\ job[j].inst = "preflight"
        /\ to \in {"already", "check"}
    BY DEF Preflight, service
  <1>1. /\ v \in JobRec /\ v.pc = job[j].pc /\ v.snap = job[j].snap
        /\ v.receipt = job[j].receipt /\ v.inst = to /\ v.capBefore = cap
    BY <1>0, JobIs DEF JobRec, InstallerPlace
  <1>2. to = "check" => launcher = "base"
    BY JobIs DEF Bin
  <1> HIDE DEF to, v
  <1>3. /\ Persists
        /\ job'[j] = v /\ \A k \in Job : k # j => job'[k] = job[k]
        /\ \A k \in Job : JobControl(job[k])'
        /\ \A r \in Tool : ToolControl(r)'
        /\ job' \in [Job -> JobRec] /\ rec' \in [Tool -> ToolRec]
    BY <1>0, <1>1, InstallerMoves DEF InstallerPlace
  <1>4. \A k \in Job : SelectedStays(k)'
    <2>1. to = "already" => launcher' = "cand"
      BY <1>0 DEF to
    <2>2. \A k \in Job : job'[k].inst \in Selecting => job[k].inst \in Selecting \/ launcher' = "cand"
      BY <1>0, <1>1, <1>3, <2>1 DEF Selecting
    <2> QED
      BY <1>0, <1>3, <2>2, SelectedKept
  <1>5. (Unrecovered \/ Attended)'
    BY <1>0, <1>3, AttendedKept DEF Running
  <1>6. Attested'
    BY <1>0, <1>3, AttestedKept
  <1>7. to = "check" /\ cap = "cand" => Finished \/ Meddled
    <2> SUFFICES ASSUME to = "check", cap = "cand", NEW i \in Job,
                        job[i].inst \in {"import", "canary"}
                 PROVE  Meddled
      BY DEF PolicyInv, Attested
    <2>1. Other(i)
      BY <1>2 DEF PolicyInv, SelectedStays, Selecting
    <2>2. PICK r \in Tool : Ran(r) /\ (r[1] # i \/ r[2] = "operator")
      BY <2>1 DEF Other
    <2>3. r[2] # "operator" => r[1] # j
      BY <1>0, <2>2, ToolParts DEF PolicyInv, ToolControl, Caller
    <2>4. i # j /\ job[i].pc # "none" /\ job[j].pc # "none"
      BY <1>0, JobIs DEF JobControl
    <2> QED
      BY <2>2, <2>3, <2>4 DEF Meddled
  <1>8. \A k \in Job : FoundAttested(k)'
    <2>1. \A k \in Job : job'[k].inst \in Changing \cup {"undo", "undone"} =>
               \/ /\ job[k].inst \in Changing \cup {"undo", "undone"}
                  /\ job'[k].capBefore = job[k].capBefore
               \/ job'[k].capBefore = "cand" => Finished \/ Meddled
      BY <1>0, <1>1, <1>3, <1>7 DEF Changing
    <2> QED
      BY <1>3, <2>1, FoundKept
  <1> QED
    BY <1>0, <1>3, <1>4, <1>5, <1>6, <1>8, JobIs DEF PolicyInv, PolicyTypes

\* The manifest attests the candidate: the installer has succeeded, or is about
\* to import.
LEMMA AttestStep ==
    ASSUME PolicyInv, NEW j \in Job, NEW to \in {"ok", "import"}, NEW v \in JobRec,
           v.pc = job[j].pc, v.snap = job[j].snap, v.receipt = job[j].receipt, v.inst = to,
           v.capBefore = job[j].capBefore,
           Set(j, v), UNCHANGED <<launcher, live, ident, rec>>, cap' = "cand",
           job[j].inst \in {"already", "attest", "canary"}, to = "import" => job[j].inst = "attest"
    PROVE  PolicyInv'
  <1>3. /\ Persists
        /\ job'[j] = v /\ \A k \in Job : k # j => job'[k] = job[k]
        /\ \A k \in Job : JobControl(job[k])'
        /\ \A r \in Tool : ToolControl(r)'
        /\ job' \in [Job -> JobRec] /\ rec' \in [Tool -> ToolRec]
    BY InstallerMoves DEF InstallerPlace
  <1>4. \A k \in Job : SelectedStays(k)'
    <2>1. \A k \in Job : job'[k].inst \in Selecting => job[k].inst \in Selecting
      BY <1>3 DEF Selecting
    <2> QED
      BY <1>3, <2>1, SelectedKept
  <1>5. (Unrecovered \/ Attended)'
    BY <1>3, AttendedKept DEF Running
  <1>6. Attested'
    BY <1>3 DEF Attested, Finished
  <1>7. \A k \in Job : FoundAttested(k)'
    <2>1. \A k \in Job : job'[k].inst \in Changing \cup {"undo", "undone"} =>
               /\ job[k].inst \in Changing \cup {"undo", "undone"}
               /\ job'[k].capBefore = job[k].capBefore
      BY <1>3 DEF Changing
    <2> QED
      BY <1>3, <2>1, FoundKept
  <1> QED
    BY <1>3, <1>4, <1>5, <1>6, <1>7, JobIs DEF PolicyInv, PolicyTypes, Bin

\* Its three places in activate_local.
LEMMA AttestsInv ==
    ASSUME PolicyInv, NEW j \in Job, AlreadyActive(j) \/ AttestFirst(j) \/ Accept(j)
    PROVE  PolicyInv'
  <1> USE JobIs
  <1>1. CASE AttestFirst(j)
    <2> DEFINE v == [job[j] EXCEPT !.inst = "import", !.identBefore = ident]
    <2>1. /\ Set(j, v) /\ UNCHANGED <<launcher, live, ident, rec>> /\ cap' = "cand"
          /\ job[j].inst = "attest"
      BY <1>1 DEF AttestFirst
    <2>2. /\ v \in JobRec /\ v.pc = job[j].pc /\ v.snap = job[j].snap
          /\ v.receipt = job[j].receipt /\ v.inst = "import" /\ v.capBefore = job[j].capBefore
      BY DEF JobRec, InstallerPlace
    <2> QED
      BY <2>1, <2>2, AttestStep
  <1>2. CASE AlreadyActive(j) \/ Accept(j)
    <2> DEFINE v == [job[j] EXCEPT !.inst = "ok"]
    <2>1. /\ Set(j, v) /\ UNCHANGED <<launcher, live, ident, rec>> /\ cap' = "cand"
          /\ job[j].inst \in {"already", "canary"}
      BY <1>2 DEF AlreadyActive, Accept, Install
    <2>2. /\ v \in JobRec /\ v.pc = job[j].pc /\ v.snap = job[j].snap
          /\ v.receipt = job[j].receipt /\ v.inst = "ok" /\ v.capBefore = job[j].capBefore
      BY DEF JobRec, InstallerPlace
    <2> QED
      BY <2>1, <2>2, AttestStep
  <1> QED
    BY <1>1, <1>2

\* The launcher is written, the service unloaded and loaded again.
LEMMA SwitchInv ==
    ASSUME PolicyInv, NEW j \in Job, WriteLauncher(j) \/ Bootout(j) \/ Bootstrap(j)
    PROVE  PolicyInv'
  <1> DEFINE to == IF job[j].inst = "write" THEN "bootout"
                   ELSE IF job[j].inst = "bootout" THEN "bootstrap" ELSE "probe"
             v == [job[j] EXCEPT !.inst = to]
  <1>0. /\ Set(j, v) /\ UNCHANGED <<cap, ident, rec>>
        /\ job[j].inst \in {"write", "bootout", "bootstrap"}
        /\ to \in {"bootout", "bootstrap", "probe"}
    BY DEF WriteLauncher, Bootout, Bootstrap, Install
  <1>1. /\ v \in JobRec /\ v.pc = job[j].pc /\ v.snap = job[j].snap
        /\ v.receipt = job[j].receipt /\ v.inst = to /\ v.capBefore = job[j].capBefore
    BY <1>0, JobIs DEF JobRec, InstallerPlace
  <1>2. /\ WriteLauncher(j) => to = "bootout" /\ launcher' = "cand" /\ live' = live
        /\ Bootout(j) => to = "bootstrap" /\ launcher' = launcher /\ live' = "down"
        /\ Bootstrap(j) => live' = launcher' /\ launcher' = launcher /\ job[j].inst = "bootstrap"
    BY DEF WriteLauncher, Bootout, Bootstrap, StartService, Stop
  <1>3. job[j].inst = "write" => WriteLauncher(j)
    BY DEF Bootout, Bootstrap
  <1> HIDE DEF to, v
  <1>4. /\ Persists
        /\ job'[j] = v /\ \A k \in Job : k # j => job'[k] = job[k]
        /\ \A k \in Job : JobControl(job[k])'
        /\ \A r \in Tool : ToolControl(r)'
        /\ job' \in [Job -> JobRec] /\ rec' \in [Tool -> ToolRec]
    BY <1>0, <1>1, InstallerMoves DEF InstallerPlace
  <1>5. \A k \in Job : SelectedStays(k)'
    <2>1. \A k \in Job : job'[k].inst \in Selecting => job[k].inst \in Selecting \/ launcher' = "cand"
      BY <1>0, <1>2, <1>3, <1>4 DEF Selecting
    <2> QED
      BY <1>2, <1>4, <2>1, SelectedKept
  <1>6. (Unrecovered \/ Attended)'
    <2>1. CASE Unrecovered
      BY <2>1, <1>4, HappenedStays
    <2>2. CASE Attended /\ WriteLauncher(j)
      <3>1. job'[j].inst = "bootout" /\ launcher' = "cand" /\ live' = live
        BY <1>1, <1>2, <1>4, <2>2
      <3>2. \A k \in Job : job[k].inst = "bootstrap" => job'[k].inst = "bootstrap"
        BY <1>4, <2>2 DEF WriteLauncher
      <3> QED
        BY <3>1, <3>2, <1>0, <2>2 DEF Attended, Running
    <2>3. CASE Bootout(j)
      BY <1>1, <1>2, <1>4, <2>3 DEF Attended
    <2>4. CASE Bootstrap(j)
      <3>1. live' = launcher' /\ launcher' \in Bin
        BY <1>2, <2>4, JobIs
      <3> QED
        BY <3>1 DEF Attended, Bin
    <2> QED
      BY <2>1, <2>2, <2>3, <2>4 DEF PolicyInv
  <1>7. Attested'
    BY <1>0, <1>4, AttestedKept
  <1>8. \A k \in Job : FoundAttested(k)'
    <2>1. \A k \in Job : job'[k].inst \in Changing \cup {"undo", "undone"} =>
               /\ job[k].inst \in Changing \cup {"undo", "undone"}
               /\ job'[k].capBefore = job[k].capBefore
      BY <1>0, <1>1, <1>4 DEF Changing
    <2> QED
      BY <1>4, <2>1, FoundKept
  <1>9. launcher' \in Bin /\ live' \in Bin \cup {"down"}
    BY <1>2, JobIs DEF Bin
  <1> QED
    BY <1>0, <1>4, <1>5, <1>6, <1>7, <1>8, <1>9, JobIs DEF PolicyInv, PolicyTypes

-----------------------------------------------------------------------------
(***************************************************************************)
(* The recovery tools.                                                     *)
(***************************************************************************)

\* How the record of a tool may change.
ToolMoves(r, t) ==
    /\ t \in ToolRec /\ rec' = [rec EXCEPT ![r] = t]
    /\ rec[r].pc \notin {"done", "killed"} /\ t.pc # "idle"
    /\ t.pc # "done" => t.result = "none"

\* A tool's record is one, and one that has not ended has no result.
LEMMA ToolIs ==
    ASSUME PolicyInv, NEW r \in Tool
    PROVE  /\ rec[r] \in ToolRec /\ ToolControl(r) /\ r[1] \in Job /\ job[r[1]].snap \in Bin
           /\ rec[r].pc \in ToolPlace
  BY ToolParts DEF PolicyInv, PolicyTypes, ToolRec, JobRec

\* A tool is started.
LEMMA ToolStarts ==
    ASSUME PolicyInv, NEW r \in Tool, StartTool(r), rec[r].pc \notin {"done", "killed"}
    PROVE  /\ ToolMoves(r, [pc |-> "look", result |-> "none", available |-> FALSE])
           /\ rec'[r].pc = "look"
  <1> DEFINE t == [pc |-> "look", result |-> "none", available |-> FALSE]
  <1>1. t \in ToolRec /\ t.pc = "look" /\ t.result = "none"
    BY DEF ToolRec, ToolPlace
  <1>2. rec' = [rec EXCEPT ![r] = t]
    BY DEF StartTool
  <1>3. rec'[r] = t
    BY <1>1, <1>2, ToolFacts DEF PolicyInv
  <1> QED
    BY <1>1, <1>2, <1>3 DEF ToolMoves

\* The tool of a job moves, and its job with it.
LEMMA BothMove ==
    ASSUME PolicyInv, NEW j \in Job, NEW v, JobMoves(job[j], v), Set(j, v),
           NEW c \in Caller, NEW t, ToolMoves(<<j, c>>, t),
           c = "installer" => v.inst \in {"undo", "undone", "killed"},
           c = "worker" => v.inst \in {"failed", "undone", "killed"} /\ v.pc \in {"recover", "done"},
           c = "worker" /\ t.pc = "killed" => v.pc = "done",
           c = "installer" /\ t.pc = "killed" => v.inst # "undo"
    PROVE  /\ Persists
           /\ job'[j] = v /\ \A k \in Job : k # j => job'[k] = job[k]
           /\ \A k \in Job : JobControl(job[k])'
           /\ \A r \in Tool : ToolControl(r)'
           /\ job' \in [Job -> JobRec] /\ rec' \in [Tool -> ToolRec]
           /\ rec'[<<j, c>>] = t /\ \A r \in Tool : r # <<j, c>> => rec'[r] = rec[r]
  <1>1. /\ job' \in [Job -> JobRec] /\ job'[j] = v
        /\ \A k \in Job : k # j => job'[k] = job[k]
    BY SetFacts DEF JobMoves, PolicyInv
  <1>2. /\ <<j, c>> \in Tool /\ rec' \in [Tool -> ToolRec] /\ rec'[<<j, c>>] = t
        /\ \A r \in Tool : r # <<j, c>> => rec'[r] = rec[r]
    BY ToolParts, ToolFacts DEF ToolMoves, PolicyInv
  <1>3. \A k \in Job : JobControl(job[k])'
    <2> SUFFICES ASSUME NEW k \in Job PROVE JobControl(job'[k])
      BY DEF JobControl
    <2>1. JobControl(job[k]) /\ JobControl(v)
      BY DEF PolicyInv, JobMoves
    <2> QED
      BY <1>1, <2>1
  <1>4. \A r \in Tool : ToolControl(r)'
    <2> SUFFICES ASSUME NEW r \in Tool PROVE ToolControl(r)'
      OBVIOUS
    <2>1. r[1] \in Job /\ ToolControl(r) /\ r = <<r[1], r[2]>> /\ r[2] \in Caller
      BY ToolParts DEF PolicyInv
    <2>2. CASE r[1] # j
      BY <1>1, <1>2, <2>1, <2>2 DEF ToolControl, Ran
    <2>3. CASE r = <<j, c>>
      <3>1. r[1] = j /\ r[2] = c
        BY <2>3
      <3> QED
        BY <1>1, <1>2, <2>3, <3>1 DEF ToolControl, Ran, JobMoves, ToolMoves
    <2>4. CASE r[1] = j /\ r # <<j, c>>
      BY <1>1, <1>2, <2>1, <2>4 DEF ToolControl, Ran, JobMoves
    <2> QED
      BY <2>1, <2>2, <2>3, <2>4
  <1>5. Persists
    <2>1. \A k \in Job : job[k].pc # "none" => job'[k].pc # "none" /\ job'[k].snap = job[k].snap
      BY <1>1 DEF JobMoves
    <2>2. \A k \in Job : job[k].inst \in {"ok", "killed"} => job'[k].inst = job[k].inst
      BY <1>1 DEF JobMoves
    <2>3. \A r \in Tool : Ran(r) => rec'[r].pc # "idle"
      BY <1>2 DEF ToolMoves, Ran
    <2>4. \A r \in Tool : rec[r].pc \in {"done", "killed"} => rec'[r] = rec[r]
      BY <1>2 DEF ToolMoves
    <2> QED
      BY <2>1, <2>2, <2>3, <2>4 DEF Persists
  <1> QED
    BY <1>1, <1>2, <1>3, <1>4, <1>5

\* A killed tool has recovered nothing.
LEMMA KilledUnrecovered ==
    ASSUME NEW r \in Tool, rec'[r].pc = "killed", rec'[r].result = "none"
    PROVE  (Unrecovered \/ Attended)'
  BY DEF Unrecovered, Ran

\* The worker runs its tool: after an installer that failed or undid itself,
\* after one that was killed wherever it was, and once more after its own tool
\* was killed.
LEMMA WorkerToolInv ==
    ASSUME PolicyInv, NEW j \in Job,
           \/ InstallerExits(j) /\ job[j].inst # "ok"
           \/ InstallerKilled(j) \/ RecoveryKilled(j)
    PROVE  PolicyInv'
  <1> DEFINE r == <<j, "worker">>
  <1>0. r \in Tool /\ "worker" \in Caller /\ UNCHANGED <<launcher, live, cap, ident>>
    BY ToolParts DEF InstallerExits, InstallerKilled, RecoveryKilled, service
  <1>1. job[j].pc = "install" => rec[r].pc = "idle"
    BY <1>0, ToolIs DEF ToolControl, Ran
  <1>2. ASSUME NEW v, NEW t, JobMoves(job[j], v), Set(j, v), ToolMoves(r, t),
               v.inst = job[j].inst \/ v.inst = "killed", v.capBefore = job[j].capBefore,
               v.inst \in {"failed", "undone", "killed"}, v.pc \in {"recover", "done"},
               t.pc = "look" \/ (t.pc = "killed" /\ t.result = "none" /\ v.pc = "done")
        PROVE  PolicyInv'
    <2>1. /\ Persists
          /\ job'[j] = v /\ \A k \in Job : k # j => job'[k] = job[k]
          /\ \A k \in Job : JobControl(job[k])'
          /\ \A q \in Tool : ToolControl(q)'
          /\ job' \in [Job -> JobRec] /\ rec' \in [Tool -> ToolRec]
          /\ rec'[r] = t
      BY <1>0, <1>2, BothMove
    <2>2. \A k \in Job : SelectedStays(k)'
      <3>1. \A k \in Job : job'[k].inst \in Selecting => job[k].inst \in Selecting
        BY <1>2, <2>1 DEF Selecting
      <3> QED
        BY <1>0, <2>1, <3>1, SelectedKept
    <2>3. (Unrecovered \/ Attended)'
      BY <1>0, <1>2, <2>1, AttendedByNew, KilledUnrecovered
    <2>4. Attested'
      BY <1>0, <1>2, <2>1, AttestedKept
    <2>5. \A k \in Job : FoundAttested(k)'
      <3>1. \A k \in Job : job'[k].inst \in Changing \cup {"undo", "undone"} =>
               /\ job[k].inst \in Changing \cup {"undo", "undone"}
               /\ job'[k].capBefore = job[k].capBefore
        BY <1>2, <2>1 DEF Changing
      <3> QED
        BY <2>1, <3>1, FoundKept
    <2> QED
      BY <1>0, <2>1, <2>2, <2>3, <2>4, <2>5, JobIs DEF PolicyInv, PolicyTypes
  <1>3. ASSUME NEW v, JobMoves(job[j], v), Set(j, v), StartTool(r), rec[r].pc \notin {"done", "killed"},
               v.inst = job[j].inst \/ v.inst = "killed", v.capBefore = job[j].capBefore,
               v.inst \in {"failed", "undone", "killed"}, v.pc \in {"recover", "done"}
        PROVE  PolicyInv'
    <2> DEFINE t == [pc |-> "look", result |-> "none", available |-> FALSE]
    <2>1. ToolMoves(r, t) /\ t.pc = "look"
      BY <1>0, <1>3, ToolStarts
    <2> QED
      BY <1>2, <1>3, <2>1
  <1> USE JobIs
  <1>4. CASE InstallerExits(j) /\ job[j].inst # "ok"
    <2> DEFINE v == [job[j] EXCEPT !.pc = "recover", !.tries = 1]
    <2>1. /\ Set(j, v) /\ StartTool(r) /\ job[j].pc = "install"
          /\ job[j].inst \in {"failed", "undone"}
      BY <1>4 DEF InstallerExits
    <2>2. /\ JobMoves(job[j], v) /\ v.inst = job[j].inst /\ v.pc = "recover"
          /\ v.capBefore = job[j].capBefore
      BY <2>1 DEF JobMoves, JobRec, JobControl, WorkerPlace
    <2> QED
      BY <1>1, <1>3, <2>1, <2>2
  <1>5. CASE InstallerKilled(j)
    <2> DEFINE v == [job[j] EXCEPT !.pc = "recover", !.inst = "killed", !.tries = 2]
    <2>1. /\ Set(j, v) /\ StartTool(r) /\ job[j].pc = "install"
          /\ job[j].inst \notin {"ok", "failed", "undone"}
      BY <1>5 DEF InstallerKilled
    <2>2. /\ JobMoves(job[j], v) /\ v.inst = "killed" /\ v.pc = "recover"
          /\ v.capBefore = job[j].capBefore
      BY <2>1 DEF JobMoves, JobRec, JobControl, WorkerPlace, InstallerPlace
    <2> QED
      BY <1>1, <1>3, <2>1, <2>2
  <1>6. CASE RecoveryKilled(j)
    <2>1. /\ job[j].pc = "recover" /\ rec[r].pc \notin {"idle", "done"}
          /\ job[j].inst \in {"failed", "undone", "killed"} /\ rec[r].pc # "killed"
      BY <1>0, <1>6, ToolIs DEF RecoveryKilled, JobControl, ToolControl, Ran
    <2>2. CASE job[j].tries = 1
      <3> DEFINE v == [job[j] EXCEPT !.tries = 2]
      <3>1. Set(j, v) /\ StartTool(r)
        BY <1>6, <2>2 DEF RecoveryKilled
      <3>2. /\ JobMoves(job[j], v) /\ v.inst = job[j].inst /\ v.pc = "recover"
            /\ v.capBefore = job[j].capBefore
        BY <2>1 DEF JobMoves, JobRec, JobControl
      <3> QED
        BY <1>3, <2>1, <2>2, <3>1, <3>2
    <2>3. CASE job[j].tries # 1
      <3> DEFINE v == [job[j] EXCEPT !.pc = "done", !.receipt = "failed", !.available = FALSE]
                 t == [rec[r] EXCEPT !.pc = "killed"]
      <3>1. Set(j, v) /\ rec' = [rec EXCEPT ![r] = t]
        BY <1>6, <2>3 DEF RecoveryKilled, Report
      <3>2. /\ JobMoves(job[j], v) /\ v.inst = job[j].inst /\ v.pc = "done"
            /\ v.capBefore = job[j].capBefore
        BY <2>1 DEF JobMoves, JobRec, JobControl, WorkerPlace
      <3>3. t \in ToolRec /\ t.pc = "killed" /\ t.result = "none"
        BY <1>0, <2>1, ToolIs DEF ToolRec, ToolPlace, ToolControl
      <3> QED
        BY <1>2, <2>1, <3>1, <3>2, <3>3 DEF ToolMoves
    <2> QED
      BY <2>2, <2>3
  <1> QED
    BY <1>4, <1>5, <1>6

\* The installer undoes itself: the manifest is again what the preflight found,
\* and the tool attends to the service.
LEMMA UndoInv == ASSUME PolicyInv, NEW j \in Job, Undo(j) PROVE PolicyInv'
  <1> USE JobIs
  <1> DEFINE r == <<j, "installer">>
             v == [job[j] EXCEPT !.inst = "undo"]
             t == [pc |-> "look", result |-> "none", available |-> FALSE]
  <1>0. /\ r \in Tool /\ "installer" \in Caller /\ UNCHANGED <<launcher, live>>
        /\ cap' = job[j].capBefore /\ ident' \in BOOLEAN /\ Set(j, v) /\ StartTool(r)
        /\ job[j].inst \in {"write", "bootout", "bootstrap", "probe", "attest", "import", "canary"}
    BY ToolParts DEF Undo, Install
  <1>1. /\ JobMoves(job[j], v) /\ v.inst = "undo" /\ v.capBefore = job[j].capBefore
    BY <1>0 DEF JobMoves, JobRec, JobControl, InstallerPlace
  <1>2. rec[r].pc = "idle"
    BY <1>0, ToolIs DEF ToolControl, Ran
  <1>3. ToolMoves(r, t) /\ rec'[r].pc = "look"
    BY <1>0, <1>2, ToolStarts
  <1>4. /\ Persists
        /\ job'[j] = v /\ \A k \in Job : k # j => job'[k] = job[k]
        /\ \A k \in Job : JobControl(job[k])'
        /\ \A q \in Tool : ToolControl(q)'
        /\ job' \in [Job -> JobRec] /\ rec' \in [Tool -> ToolRec]
    BY ZenonT(60), <1>0, <1>1, <1>3, BothMove
  <1> HIDE DEF v, t
  <1>5. \A k \in Job : SelectedStays(k)'
    <2>1. \A k \in Job : job'[k].inst \in Selecting => job[k].inst \in Selecting
      BY <1>1, <1>4 DEF Selecting
    <2> QED
      BY <1>0, <1>4, <2>1, SelectedKept
  <1>6. (Unrecovered \/ Attended)'
    BY <1>0, <1>3, AttendedByNew
  <1>7. \A k \in Job : FoundAttested(k)'
    <2>1. \A k \in Job : job'[k].inst \in Changing \cup {"undo", "undone"} =>
               /\ job[k].inst \in Changing \cup {"undo", "undone"}
               /\ job'[k].capBefore = job[k].capBefore
      BY <1>0, <1>1, <1>4 DEF Changing
    <2> QED
      BY <1>4, <2>1, FoundKept
  <1>8. Attested'
    <2> SUFFICES ASSUME cap' = "cand" PROVE Attested'
      BY DEF Attested
    <2>1. job'[j].inst = "undo" /\ job'[j].capBefore = "cand"
      BY <1>0, <1>1, <1>4
    <2>2. Finished' \/ Meddled'
      BY <1>7, <2>1 DEF FoundAttested
    <2> QED
      BY <2>1, <2>2 DEF Attested
  <1> QED
    BY <1>0, <1>4, <1>5, <1>6, <1>7, <1>8 DEF PolicyInv, PolicyTypes

\* The installer's tool is killed at its timeout.
LEMMA UndoKilledInv ==
    ASSUME PolicyInv, NEW j \in Job, UndoEnds(j), rec[<<j, "installer">>].pc # "done",
           rec' = [rec EXCEPT ![<<j, "installer">>].pc = "killed"]
    PROVE  PolicyInv'
  <1> USE JobIs
  <1> DEFINE r == <<j, "installer">>
             v == [job[j] EXCEPT !.inst = "undone"]
             t == [rec[r] EXCEPT !.pc = "killed"]
  <1>0. /\ r \in Tool /\ "installer" \in Caller /\ UNCHANGED <<launcher, live, cap, ident>>
        /\ Set(j, v) /\ job[j].inst = "undo" /\ rec' = [rec EXCEPT ![r] = t]
    BY ToolParts DEF UndoEnds, Install, service
  <1>1. JobMoves(job[j], v) /\ v.inst = "undone" /\ v.capBefore = job[j].capBefore
    BY <1>0 DEF JobMoves, JobRec, JobControl, InstallerPlace
  <1>2. t \in ToolRec /\ t.pc = "killed" /\ t.result = "none" /\ rec[r].pc # "killed"
    BY <1>0, ToolIs DEF ToolRec, ToolPlace, ToolControl, Ran
  <1>3. ToolMoves(r, t)
    BY <1>0, <1>2 DEF ToolMoves
  <1>4. /\ Persists
        /\ job'[j] = v /\ \A k \in Job : k # j => job'[k] = job[k]
        /\ \A k \in Job : JobControl(job[k])'
        /\ \A q \in Tool : ToolControl(q)'
        /\ job' \in [Job -> JobRec] /\ rec' \in [Tool -> ToolRec]
        /\ rec'[r] = t
    BY ZenonT(60), <1>0, <1>1, <1>3, BothMove
  <1> HIDE DEF v, t
  <1>5. \A k \in Job : SelectedStays(k)'
    <2>1. \A k \in Job : job'[k].inst \in Selecting => job[k].inst \in Selecting
      BY <1>1, <1>4 DEF Selecting
    <2> QED
      BY <1>0, <1>4, <2>1, SelectedKept
  <1>6. (Unrecovered \/ Attended)'
    BY <1>0, <1>2, <1>4, KilledUnrecovered
  <1>7. \A k \in Job : FoundAttested(k)'
    <2>1. \A k \in Job : job'[k].inst \in Changing \cup {"undo", "undone"} =>
               /\ job[k].inst \in Changing \cup {"undo", "undone"}
               /\ job'[k].capBefore = job[k].capBefore
      BY <1>0, <1>1, <1>4 DEF Changing
    <2> QED
      BY <1>4, <2>1, FoundKept
  <1>8. Attested'
    BY <1>0, <1>1, <1>4, AttestedKept
  <1> QED
    BY <1>0, <1>4, <1>5, <1>6, <1>7, <1>8 DEF PolicyInv, PolicyTypes

\* A tool moves and no job does: what is left is said of launcher and service.
LEMMA ToolStep ==
    ASSUME PolicyInv, NEW r \in Tool, NEW t, ToolMoves(r, t), Ran(r) \/ r[2] = "operator",
           job[r[1]].pc # "none", t.pc # "killed",
           UNCHANGED <<cap, ident, job>>, launcher' \in Bin, live' \in Bin \cup {"down"},
           launcher' = launcher \/ Ran(r),
           Persists => (Unrecovered \/ Attended)'
    PROVE  PolicyInv'
  <1>1. /\ rec' \in [Tool -> ToolRec] /\ rec'[r] = t
        /\ \A q \in Tool : q # r => rec'[q] = rec[q]
    BY ToolFacts DEF ToolMoves, PolicyInv
  <1>2. Persists
    BY <1>1 DEF Persists, ToolMoves, Ran
  <1>3. \A q \in Tool : ToolControl(q)'
    <2> SUFFICES ASSUME NEW q \in Tool PROVE ToolControl(q)'
      OBVIOUS
    <2>1. ToolControl(q)
      BY DEF PolicyInv
    <2>2. CASE q # r
      BY <1>1, <2>1, <2>2 DEF ToolControl, Ran
    <2>3. CASE q = r
      BY <1>1, <2>1, <2>3 DEF ToolControl, Ran, ToolMoves
    <2> QED
      BY <2>2, <2>3
  <1>4. \A k \in Job : SelectedStays(k)'
    <2>1. CASE launcher' = launcher
      BY <1>2, <2>1, SelectedKept
    <2>2. CASE Ran(r)
      <3> SUFFICES ASSUME NEW k \in Job, job[k].inst \in Selecting PROVE Other(k)'
        BY DEF SelectedStays
      <3>1. r[1] # k \/ r[2] = "operator"
        BY <2>2, ToolIs, ToolParts DEF ToolControl, Selecting, Caller
      <3> QED
        BY <1>2, <2>2, <3>1 DEF Other, Persists, Ran
    <2> QED
      BY <2>1, <2>2
  <1>5. Attested'
    BY <1>2, AttestedKept
  <1>6. \A k \in Job : FoundAttested(k)'
    BY <1>2, FoundKept
  <1>7. \A k \in Job : JobControl(job[k])'
    BY DEF PolicyInv, JobControl
  <1> QED
    BY <1>1, <1>2, <1>3, <1>4, <1>5, <1>6, <1>7 DEF PolicyInv, PolicyTypes

\* The operator starts a tool.
LEMMA RunByHandInv == ASSUME PolicyInv, NEW j \in Job, RunByHand(j) PROVE PolicyInv'
  <1> DEFINE r == <<j, "operator">>
             t == [pc |-> "look", result |-> "none", available |-> FALSE]
  <1>1. /\ r \in Tool /\ r[1] = j /\ r[2] = "operator" /\ job[j].pc # "none"
        /\ StartTool(r) /\ rec[r].pc = "idle" /\ UNCHANGED <<launcher, live, cap, ident, job>>
    BY ToolParts DEF RunByHand, service
  <1>2. ToolMoves(r, t) /\ rec'[r].pc = "look" /\ t.pc = "look"
    BY <1>1, ToolStarts
  <1>3. (Unrecovered \/ Attended)'
    BY <1>1, <1>2, AttendedByNew
  <1> QED
    BY <1>1, <1>2, <1>3, ToolStep, JobIs

\* recover() goes on: it is left to say that somebody attends to the service.
LEMMA RecoveryToolInv == ASSUME PolicyInv, NEW r \in Tool, RecoveryTool(r) PROVE PolicyInv'
  <1> DEFINE Open == {"look", "look again", "unload", "load", "canary"}
  <1>0. rec[r].pc \in Open /\ Ran(r) /\ UNCHANGED <<cap, ident, job>>
    BY DEF RecoveryTool, AlreadyRecovered, RestoreLauncher, LookAgain, Unload, Load, Canary,
           ToolFails, service, Ran
  <1>1. /\ rec[r] \in ToolRec /\ rec[r].result = "none" /\ job[r[1]].pc # "none"
        /\ r[1] \in Job /\ Snap(r) \in Bin
    BY <1>0, ToolIs DEF ToolControl, Snap
  <1>2. launcher \in Bin /\ live \in Bin \cup {"down"}
    BY DEF PolicyInv, PolicyTypes
  <1>3. ASSUME NEW pc \in Open, To(r, pc), launcher' \in Bin, live' \in Bin \cup {"down"},
               Persists /\ rec'[r].pc = pc /\ (\A q \in Tool : q # r => rec'[q] = rec[q])
                   => (Unrecovered \/ Attended)'
        PROVE  PolicyInv'
    <2> DEFINE t == [rec[r] EXCEPT !.pc = pc]
    <2>1. rec' = [rec EXCEPT ![r] = t]
      BY <1>3 DEF To
    <2>2. t \in ToolRec /\ t.pc = pc /\ t.result = "none"
      BY <1>1 DEF ToolRec, ToolPlace
    <2>3. ToolMoves(r, t)
      BY <1>0, <2>1, <2>2 DEF ToolMoves
    <2>4. rec'[r].pc = pc /\ (\A q \in Tool : q # r => rec'[q] = rec[q])
      BY <2>1, <2>2, ToolFacts DEF PolicyInv
    <2> QED
      BY <1>0, <1>1, <1>3, <2>2, <2>3, <2>4, ToolStep
  <1>4. ASSUME NEW result \in {"recovered", "failed"}, NEW available \in BOOLEAN,
               EndTool(r, result, available), UNCHANGED <<launcher, live>>,
               \/ result = "failed"
               \/ live = "base" /\ (launcher = Snap(r) \/ rec[r].pc # "look")
        PROVE  PolicyInv'
    <2> DEFINE t == [pc |-> "done", result |-> result, available |-> available]
    <2>1. rec' = [rec EXCEPT ![r] = t]
      BY <1>4 DEF EndTool
    <2>2. t \in ToolRec /\ t.pc = "done" /\ t.result = result
      BY <1>1 DEF ToolRec, ToolPlace
    <2>3. ToolMoves(r, t)
      BY <1>0, <2>1, <2>2 DEF ToolMoves
    <2>4. rec'[r] = t /\ (\A q \in Tool : q # r => rec'[q] = rec[q])
      BY <2>1, <2>2, ToolFacts DEF PolicyInv
    <2> HIDE DEF t
    <2>5. ASSUME Persists PROVE (Unrecovered \/ Attended)'
      <3>1. CASE result = "failed"
        BY <2>2, <2>4, <3>1 DEF Unrecovered, Ran
      <3>2. CASE Unrecovered
        BY <2>5, <3>2, HappenedStays
      <3>3. CASE Attended /\ ~Unrecovered /\ result # "failed"
        <4>1. Snap(r) = "base" /\ live = "base"
          BY <1>0, <1>4, <3>3 DEF Unrecovered
        <4>2. CASE launcher = "base"
          BY <1>4, <4>1, <4>2 DEF Attended
        <4>3. CASE launcher = "cand"
          <5>1. rec[r].pc # "look"
            BY <1>4, <3>3, <4>1, <4>3
          <5> QED
            BY <1>0, <1>4, <2>4, <3>3, <4>1, <4>3, <5>1 DEF Attended
        <4> QED
          BY <1>2, <4>2, <4>3 DEF Bin
      <3> QED
        BY <3>1, <3>2, <3>3 DEF PolicyInv
    <2> QED
      BY <1>0, <1>1, <1>2, <1>4, <2>2, <2>3, <2>5, ToolStep
  <1>5. ASSUME NEW pc \in Open, To(r, pc), UNCHANGED <<launcher, live>>, rec[r].pc # "look"
        PROVE  PolicyInv'
    <2>1. ASSUME Persists, rec'[r].pc = pc, \A q \in Tool : q # r => rec'[q] = rec[q]
          PROVE  (Unrecovered \/ Attended)'
      BY <1>0, <1>5, <2>1, AttendedKept DEF Running
    <2> QED
      BY <1>2, <1>3, <1>5, <2>1
  <1>6. CASE AlreadyRecovered(r)
    BY <1>4, <1>6 DEF AlreadyRecovered, service
  <1>7. CASE RestoreLauncher(r)
    <2>1. ASSUME Persists, rec'[r].pc = "look again" PROVE (Unrecovered \/ Attended)'
      <3>1. CASE Unrecovered
        BY <2>1, <3>1, HappenedStays
      <3>2. CASE ~Unrecovered
        <4>1. launcher' = "base"
          BY <1>0, <1>7, <3>2 DEF Unrecovered, RestoreLauncher
        <4> QED
          BY <2>1, <4>1 DEF Attended, Running
      <3> QED
        BY <3>1, <3>2
    <2> QED
      BY <1>1, <1>2, <1>3, <1>7, <2>1 DEF RestoreLauncher
  <1>8. CASE LookAgain(r)
    <2>1. UNCHANGED <<launcher, live>> /\ rec[r].pc # "look"
      BY <1>8 DEF LookAgain, service
    <2> QED
      BY <1>4, <1>5, <1>8, <2>1 DEF LookAgain
  <1>9. CASE Unload(r)
    <2>1. To(r, "load") /\ live' = "down" /\ launcher' = launcher
      BY <1>9 DEF Unload, Stop
    <2>2. ASSUME rec'[r].pc = "load" PROVE Attended'
      BY <2>1, <2>2 DEF Attended, Running
    <2> QED
      BY <1>2, <1>3, <2>1, <2>2
  <1>10. CASE Load(r)
    <2>1. CASE StartService /\ UNCHANGED rec
      <3> DEFINE t == rec[r]
      <3>1. ToolMoves(r, t)
        BY <1>0, <1>1, <2>1 DEF ToolMoves, PolicyInv, PolicyTypes
      <3>2. launcher' = launcher /\ live' = launcher /\ live' \in Bin
        BY <1>2, <1>10, <2>1 DEF Load, StartService
      <3>3. Attended'
        BY <3>2 DEF Attended, Bin
      <3> QED
        BY <1>0, <1>1, <1>2, <3>1, <3>2, <3>3, ToolStep
    <2>2. CASE live = "base" /\ To(r, "canary") /\ UNCHANGED live
      BY <1>5, <1>10, <2>2 DEF Load
    <2> QED
      BY <1>10, <2>1, <2>2 DEF Load
  <1>11. CASE Canary(r)
    BY <1>4, <1>11 DEF Canary, service
  <1>12. CASE ToolFails(r)
    <2>1. PICK healthy \in BOOLEAN : EndTool(r, "failed", live = "base" /\ healthy)
      BY <1>12 DEF ToolFails, Answered
    <2>2. (live = "base" /\ healthy) \in BOOLEAN
      OBVIOUS
    <2> QED
      BY <1>4, <1>12, <2>1, <2>2 DEF ToolFails, service
  <1> QED
    BY <1>6, <1>7, <1>8, <1>9, <1>10, <1>11, <1>12 DEF RecoveryTool

\* Who connects, who follows and the maintenance launcher concern none of it.
LEMMA AsideInv ==
    ASSUME PolicyInv, UNCHANGED <<launcher, live, cap, ident, job, rec>>
    PROVE  PolicyInv'
  BY DEF PolicyInv, PolicyTypes, JobControl, ToolControl, SelectedStays, Other, Unrecovered,
         Attended, Attested, FoundAttested, Finished, Meddled, Ran, Running, Snap

\* It holds before any job is scheduled.
LEMMA PolicyInitInv == Init => PolicyInv
  <1> SUFFICES ASSUME Init PROVE PolicyInv
    OBVIOUS
  <1>1. NoJob \in JobRec /\ JobControl(NoJob)
    BY DEF NoJob, JobRec, JobControl, WorkerPlace, InstallerPlace, Bin
  <1>2. [pc |-> "idle", result |-> "none", available |-> FALSE] \in ToolRec
    BY DEF ToolRec, ToolPlace
  <1>3. PolicyTypes
    BY <1>1, <1>2 DEF Init, PolicyTypes, Bin
  <1>4. \A j \in Job : job[j] = NoJob /\ job[j].inst = "idle"
    BY DEF Init, NoJob
  <1>5. \A r \in Tool : rec[r].pc = "idle" /\ rec[r].result = "none"
    BY DEF Init
  <1>6. (\A j \in Job : JobControl(job[j])) /\ (\A r \in Tool : ToolControl(r))
    BY <1>1, <1>4, <1>5 DEF ToolControl, Ran
  <1>7. (\A j \in Job : SelectedStays(j)) /\ (\A j \in Job : FoundAttested(j))
    BY <1>4 DEF SelectedStays, FoundAttested, Selecting, Changing
  <1>8. Attended /\ Attested
    BY DEF Init, Attended, Attested
  <1> QED
    BY <1>3, <1>6, <1>7, <1>8 DEF PolicyInv

\* Every step of Next preserves the invariant.
LEMMA PolicyNextInv == PolicyInv /\ [Next]_vars => PolicyInv'
  <1> SUFFICES ASSUME PolicyInv, [Next]_vars PROVE PolicyInv'
    OBVIOUS
  <1>1. CASE Connect \/ Disconnect \/ UNCHANGED vars
    BY <1>1, AsideInv DEF Connect, Disconnect, vars
  <1>2. ASSUME NEW j \in Job, Worker(j) \/ Schedule(j) \/ Deadline(j) PROVE PolicyInv'
    <2>1. CASE InstallerExits(j) /\ job[j].inst # "ok"
      BY <2>1, WorkerToolInv
    <2> QED
      BY <1>2, <2>1, WorkerInv DEF Worker
  <1>3. ASSUME NEW j \in Job, UndoEnds(j) PROVE PolicyInv'
    <2>1. \/ UNCHANGED rec
          \/ /\ rec[<<j, "installer">>].pc # "done"
             /\ rec' = [rec EXCEPT ![<<j, "installer">>].pc = "killed"]
      BY <1>3 DEF UndoEnds
    <2> QED
      BY <1>3, <2>1, CalmInstallerInv, UndoKilledInv
  <1>4. ASSUME NEW j \in Job, Installer(j) PROVE PolicyInv'
    BY <1>3, <1>4, CalmInstallerInv, PreflightInv, AttestsInv, SwitchInv, UndoInv DEF Installer
  <1>5. ASSUME NEW j \in Job, InstallerKilled(j) \/ RecoveryKilled(j) PROVE PolicyInv'
    BY <1>5, WorkerToolInv
  <1>6. ASSUME NEW j \in Job, ScheduleFollower(j) \/ Follow(j) PROVE PolicyInv'
    BY <1>6, AsideInv DEF ScheduleFollower, Follow, FollowReceipt, RequireProducer, WriteWatcher,
       UnloadWatcher, LoadWatcher, WatcherFails, service
  <1> QED
    BY <1>1, <1>2, <1>4, <1>5, <1>6, RunByHandInv, RecoveryToolInv DEF Next

\* Once everything has settled, nobody attends: service and launcher agree.
LEMMA SettledAgrees == PolicyInv => ServiceFollowsLauncher
  <1> SUFFICES ASSUME PolicyInv, Settled,
                      \A r \in Tool : Ran(r) => rec[r].result = "recovered" /\ Snap(r) = "base"
               PROVE  live = launcher
    BY DEF ServiceFollowsLauncher
  <1>1. ~Unrecovered
    BY DEF Unrecovered
  <1>2. \A r \in Tool : ~Running(r) /\ rec[r].pc # "look"
    BY DEF Settled, Running
  <1>3. \A j \in Job : job[j].inst \notin {"bootout", "bootstrap"}
    BY DEF Settled, PolicyInv, JobControl
  <1>4. launcher \in Bin /\ live \in Bin \cup {"down"}
    BY DEF PolicyInv, PolicyTypes
  <1> QED
    BY <1>1, <1>2, <1>3, <1>4 DEF PolicyInv, Attended, Bin

\* Once everything has settled, no installer is between attestation and its end.
LEMMA SettledAttested == PolicyInv => AttestedBinarySelected
  <1> SUFFICES ASSUME PolicyInv, Settled, cap = "cand", ~Finished
               PROVE  Meddled /\ \E j \in Job : job[j].inst = "undone" /\ job[j].capBefore = "cand"
    BY DEF AttestedBinarySelected, Finished
  <1>1. \A j \in Job : job[j].inst \notin {"import", "canary", "undo"}
    BY DEF Settled, PolicyInv, JobControl
  <1> QED
    BY <1>1 DEF PolicyInv, Attested

-----------------------------------------------------------------------------
\* The inductive invariant of the activation jobs holds in every behaviour, for
\* any set of jobs, cold bootstraps, recoveries by hand and kills.
THEOREM PolicyInvariance == Spec => []PolicyInv
  BY PolicyInitInv, PolicyNextInv, PTL DEF Spec

\* Nothing a job started takes its own accepted activation back: the worker runs
\* its recovery tool only for an installer that failed or was killed, and the
\* installer its own only when it undoes itself.
THEOREM AcceptedAlways == Spec => []AcceptedStays
  <1>1. PolicyInv => AcceptedStays
    <2> SUFFICES ASSUME PolicyInv, NEW j \in Job, job[j].receipt = "accepted", launcher = "base"
                 PROVE  Other(j)
      BY DEF AcceptedStays, Other
    <2> QED
      BY DEF PolicyInv, JobControl, SelectedStays, Selecting
  <1> QED
    BY <1>1, PolicyInvariance, PTL

\* When every worker and every tool has ended and each tool restored its
\* baseline, launchd runs what the launcher names, however the unlocked
\* installers, recovery tools and kills interleaved.
THEOREM ServiceAgrees == Spec => []ServiceFollowsLauncher
  BY PolicyInvariance, SettledAgrees, PTL

\* The capability manifest attests an unselected candidate only after one of the
\* named causes: an activation accepted and taken back, a killed installer, or a
\* recovery that came between two installers.
THEOREM AttestationAgrees == Spec => []AttestedBinarySelected
  BY PolicyInvariance, SettledAttested, PTL
=============================================================================
