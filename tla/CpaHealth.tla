----------------------------- MODULE CpaHealth -----------------------------
(***************************************************************************)
(* The cloud credential pool: the directory of credential files the       *)
(* gateway reads (cliproxy-auth), the quarantine archive and its manifest, *)
(* the failure receipts and the sweep trigger the gateway leaves behind,   *)
(* and the processes that work on them:                                    *)
(*   - cpa-health runs (cpa_health.py) in their four modes: the timer's    *)
(*     full run, --sweep-if-triggered, --runtime-failures-only, --check;   *)
(*   - the operator's exact restore (cpa_auth.py);                         *)
(*   - the SSH importer (importer.py);                                     *)
(*   - the gateway itself, which is external.                              *)
(* Locks are flocks: a process that dies gives them up and leaves the      *)
(* files as they are. Comparing a digest and taking the rename lock are    *)
(* separate steps, as in the code.                                         *)
(***************************************************************************)
EXTENDS Naturals, FiniteSets

CONSTANTS
    Name,           \* credential file names
    Content,        \* credential file contents; a SHA-256 is its content
    Absent,         \* no file
    StaticBad,      \* contents the static scan calls permanently unusable
    Dead,           \* contents the provider rejects for good
    Health,         \* cpa-health processes
    ModesOf,        \* the modes each of them is started in
    Operator,       \* lock owner standing for the restore command
    Nil,            \* a free lock, no item, no archived name
    InitialPools,   \* the pools the system may start with
    MaxTrigger,     \* bound: triggers the gateway writes
    MaxWrites,      \* bound: writes by gateway, importer and restore
    MaxCopies,      \* bound: archive names per credential name
    MaxCrashes      \* bound: processes that die part-way

ASSUME CloudConstants ==
    /\ Absent \notin Content
    /\ StaticBad \subseteq Content /\ Dead \subseteq Content
    /\ ModesOf \in [Health -> SUBSET {"full", "sweep", "runtime", "check"}]
    /\ Operator \notin Health
    /\ Nil \notin Health \cup {Operator}
    /\ Nil \notin Name \X (1..MaxCopies) /\ Nil \notin [name : Name, sha : Content]
    /\ InitialPools \subseteq [Name -> Content \cup {Absent}]
    /\ MaxTrigger \in Nat /\ MaxCrashes \in Nat /\ MaxWrites \in Nat
    /\ MaxCopies \in Nat \ {0}

VARIABLES
    auth,       \* the active pool: name -> content or Absent
    archive,    \* the archive directory
    manifest,   \* how many entries of manifest.json name an archived file
    receipts,   \* failure receipts
    trigger,    \* trigger.json: 0 when there is none, else its content
    fresh,      \* the trigger is younger than MAX_TRIGGER_AGE_SECONDS
    emitted,    \* triggers written so far
    saved,      \* what the last state.json says
    mlock,      \* monitor.lock
    slock,      \* sweep.lock
    qlock,      \* .quarantine.lock
    h,          \* the cpa-health processes
    res,        \* the archived name being restored, or Nil
    imp,        \* the importer, which holds .cloudx-import.lock when not idle
    writes,     \* writes so far
    crashes,    \* processes that died part-way or could not roll back
    raced       \* names rewritten while a health run was working on them

dirs == <<auth, archive, manifest>>
signals == <<receipts, trigger, fresh, emitted>>
locks == <<mlock, slock, qlock>>
others == <<res, imp, writes, crashes, raced>>
vars == <<auth, archive, manifest, receipts, trigger, fresh, emitted, saved,
          mlock, slock, qlock, h, res, imp, writes, crashes, raced>>

Copy == 1..MaxCopies
ArchName == Name \X Copy
File == Content \cup {Absent}
Mode == {"full", "sweep", "runtime", "check"}

\* A receipt names a credential file and the digest it was observed with; so
\* does a candidate of the sweep and a record of the static scan.
Item == [name : Name, sha : Content]

Present == {n \in Name : auth[n] # Absent}

\* A cpa-health process: its position, the records still to handle, the
\* record being moved and where to, and what its sweep has read.
Idle == [pc |-> "idle", mode |-> "check", stage |-> "static",
         todo |-> {}, scan |-> {}, cur |-> Nil, at |-> Nil,
         probed |-> [n \in Name |-> Absent], cands |-> {},
         trig |-> 0, gate |-> "none"]

Init ==
    /\ auth \in InitialPools
    /\ archive = [a \in ArchName |-> Absent]
    /\ manifest = [a \in ArchName |-> 0]
    /\ receipts = {} /\ trigger = 0 /\ fresh = FALSE /\ emitted = 0
    /\ saved = "none"
    /\ mlock = Nil /\ slock = Nil /\ qlock = Nil
    /\ h = [p \in Health |-> Idle]
    /\ res = Nil
    /\ imp = [pc |-> "idle", plan |-> {}, done |-> {}]
    /\ writes = 0 /\ crashes = 0 /\ raced = {}

-----------------------------------------------------------------------------
(***************************************************************************)
(* Writers of the pool: the gateway (external) and the importer.           *)
(***************************************************************************)

\* A health run has read something about name n and not finished with it, or a
\* restore is renaming it.
InFlight(n) ==
    \/ res # Nil /\ res[1] = n
    \/ \E p \in Health :
          \/ h[p].probed[n] # Absent
          \/ \E i \in h[p].todo \cup h[p].cands : i.name = n
          \/ h[p].cur # Nil /\ h[p].cur.name = n

\* A writer puts f (a content, or Absent to unlink) under name n.
Write(n, f) ==
    /\ auth' = [auth EXCEPT ![n] = f]
    /\ raced' = IF InFlight(n) THEN raced \cup {n} ELSE raced

\* The gateway refreshes a credential in place.
GatewayRefresh(n, c) ==
    /\ auth[n] \in Content \ {c} /\ writes < MaxWrites
    /\ Write(n, c)
    /\ writes' = writes + 1
    /\ UNCHANGED <<archive, manifest, signals, saved, locks, h, res, imp, crashes>>

\* A conclusive permanent failure leaves a receipt bound to the content used.
GatewayReceipt(n) ==
    /\ auth[n] \in Dead
    /\ receipts' = receipts \cup {[name |-> n, sha |-> auth[n]]}
    /\ UNCHANGED <<dirs, trigger, fresh, emitted, saved, locks, h, others>>

\* No credential could serve a request: trigger.json is (over)written.
GatewayTrigger ==
    /\ emitted < MaxTrigger
    /\ emitted' = emitted + 1
    /\ trigger' = emitted + 1
    /\ fresh' = TRUE
    /\ UNCHANGED <<dirs, receipts, saved, locks, h, others>>

\* The trigger passes MAX_TRIGGER_AGE_SECONDS; the file stays.
TriggerAges ==
    /\ trigger # 0 /\ fresh
    /\ fresh' = FALSE
    /\ UNCHANGED <<dirs, receipts, trigger, emitted, saved, locks, h, others>>

\* import_records: under the lock every target is compared with the batch.
\* An identical target is skipped; another one needs --force.
ImportPlan(batch, force) ==
    LET plan == {[name |-> n, new |-> batch[n], old |-> auth[n]] :
                    n \in {m \in DOMAIN batch : auth[m] # batch[m]}}
    IN /\ imp.pc = "idle" /\ writes + Cardinality(DOMAIN batch) <= MaxWrites
       /\ plan # {}
       /\ \A w \in plan : w.old = Absent \/ force
       /\ imp' = [pc |-> "write", plan |-> plan, done |-> {}]
       /\ UNCHANGED <<dirs, signals, saved, locks, h, res, writes, crashes, raced>>

\* One target of the plan is written.
ImportWrite(w) ==
    /\ imp.pc = "write" /\ w \in imp.plan \ imp.done
    /\ Write(w.name, w.new)
    /\ writes' = writes + 1
    /\ imp' = [imp EXCEPT !.done = @ \cup {w}]
    /\ UNCHANGED <<archive, manifest, signals, saved, locks, h, res, crashes>>

\* Every target is written: the lock is released and the batch accepted.
ImportDone ==
    /\ imp.pc = "write" /\ imp.done = imp.plan
    /\ imp' = [pc |-> "idle", plan |-> {}, done |-> {}]
    /\ UNCHANGED <<dirs, signals, saved, locks, h, res, writes, crashes, raced>>

\* A write fails: what was written is taken back.
ImportFails ==
    /\ imp.pc = "write" /\ imp.done # imp.plan
    /\ imp' = [imp EXCEPT !.pc = "undo"]
    /\ UNCHANGED <<dirs, signals, saved, locks, h, res, writes, crashes, raced>>

\* A completed target gets back the bytes it had when the plan was made, or is
\* unlinked, whatever other processes have done to it since. A target that
\* cannot be put back is passed over.
ImportUndo(w) ==
    /\ imp.pc = "undo" /\ w \in imp.done
    /\ Write(w.name, w.old) \/ UNCHANGED <<auth, raced>>
    /\ imp' = [imp EXCEPT !.done = @ \ {w}]
    /\ UNCHANGED <<archive, manifest, signals, saved, locks, h, res, writes, crashes>>

\* The batch is reported as rolled back.
ImportRejected ==
    /\ imp.pc = "undo" /\ imp.done = {}
    /\ imp' = [pc |-> "idle", plan |-> {}, done |-> {}]
    /\ UNCHANGED <<dirs, signals, saved, locks, h, res, writes, crashes, raced>>

-----------------------------------------------------------------------------
(***************************************************************************)
(* cpa-health runs.                                                        *)
(***************************************************************************)

Step(p, q) == h' = [h EXCEPT ![p] = q]
Free(lock, p) == IF lock = p THEN Nil ELSE lock

\* run(): --check only probes; every other mode first takes monitor.lock.
Start(p, m) ==
    /\ h[p].pc = "idle"
    /\ Step(p, [Idle EXCEPT !.pc = IF m = "check" THEN "contexts" ELSE "lock",
                            !.mode = m,
                            !.stage = IF m = "runtime" THEN "runtime" ELSE "static"])
    /\ UNCHANGED <<dirs, signals, saved, locks, others>>

\* scan_auth_records: what the pool holds, with its digests.
Records == {[name |-> n, sha |-> auth[n]] : n \in Present}

\* static_failure_reason: the records that are unusable on their face.
StaticItems == {r \in Records : r.sha \in StaticBad}

\* Entering a stage scans the pool and lists the stage's work.
Enter(q, stage) ==
    [q EXCEPT !.pc = "work", !.stage = stage, !.scan = Present,
              !.todo = IF stage = "static" THEN StaticItems
                       ELSE IF stage = "runtime" THEN receipts ELSE q.cands]

\* monitor_lock is a blocking flock.
Lock(p) ==
    /\ h[p].pc = "lock" /\ mlock = Nil
    /\ mlock' = p
    /\ Step(p, Enter(h[p], h[p].stage))
    /\ UNCHANGED <<dirs, signals, saved, slock, qlock, others>>

\* Mutant: the digest is not compared.
ArchivableByName(q, i) == q.stage = "static" \/ i.name \in q.scan

\* A static record is moved by its path; a receipt or a candidate only while
\* its file, seen by the scan, still has its digest.
Archivable(q, i) ==
    \/ q.stage = "static"
    \/ i.name \in q.scan /\ auth[i.name] = i.sha

\* One record, receipt or candidate of the stage.
Take(p, i) ==
    /\ h[p].pc = "work" /\ i \in h[p].todo
    /\ Step(p, [h[p] EXCEPT !.todo = @ \ {i},
                            !.pc = IF Archivable(h[p], i) THEN "move" ELSE "work",
                            !.cur = IF Archivable(h[p], i) THEN i ELSE Nil])
    /\ UNCHANGED <<dirs, signals, saved, locks, others>>

\* _unique_archive_path: the first name the archive does not hold.
UniqueArchivePath(n, a) ==
    /\ a[1] = n /\ archive[a] = Absent
    /\ \A k \in Copy : k < a[2] => archive[<<n, k>>] # Absent

\* quarantine_auth_record, first half: under .quarantine.lock the file is
\* renamed into the archive, whatever it holds by now.
Move(p, a) ==
    LET n == h[p].cur.name IN
    /\ h[p].pc = "move" /\ qlock = Nil
    /\ auth[n] # Absent /\ UniqueArchivePath(n, a)
    /\ archive' = [archive EXCEPT ![a] = auth[n]]
    /\ auth' = [auth EXCEPT ![n] = Absent]
    /\ qlock' = p
    /\ Step(p, [h[p] EXCEPT !.pc = "record", !.at = a])
    /\ UNCHANGED <<manifest, signals, saved, mlock, slock, others>>

\* Second half: the manifest entry is written; a receipt that led here is
\* unlinked.
Record(p) ==
    /\ h[p].pc = "record"
    /\ manifest' = [manifest EXCEPT ![h[p].at] = @ + 1]
    /\ receipts' = IF h[p].stage = "runtime" THEN receipts \ {h[p].cur} ELSE receipts
    /\ qlock' = Nil
    /\ Step(p, [h[p] EXCEPT !.pc = "work", !.cur = Nil, !.at = Nil])
    /\ UNCHANGED <<auth, archive, trigger, fresh, emitted, saved, mlock, slock, others>>

\* The run ends; its locks go with it.
End(p) ==
    /\ Step(p, Idle)
    /\ mlock' = Free(mlock, p) /\ slock' = Free(slock, p) /\ qlock' = Free(qlock, p)

\* The file to move has disappeared: the quarantine is rejected and the run
\* ends.
MoveRejected(p) ==
    /\ h[p].pc = "move" /\ auth[h[p].cur.name] = Absent
    /\ End(p)
    /\ UNCHANGED <<dirs, signals, saved, others>>

\* Mutant: the file is not renamed back.
RecordFailsMoved(p) ==
    /\ h[p].pc = "record"
    /\ End(p)
    /\ UNCHANGED <<dirs, signals, saved, others>>

\* The manifest cannot be written: the file is renamed back, over whatever has
\* taken its name since, and the run ends.
RecordFails(p) ==
    /\ h[p].pc = "record"
    /\ auth' = [auth EXCEPT ![h[p].cur.name] = archive[h[p].at]]
    /\ archive' = [archive EXCEPT ![h[p].at] = Absent]
    /\ End(p)
    /\ UNCHANGED <<manifest, signals, saved, others>>

\* A stage has no more work. The first pass ends by releasing monitor.lock
\* before any network probe; the second goes on to the sweep's candidates.
StageDone(p) ==
    LET q == h[p] IN
    /\ q.pc = "work" /\ q.todo = {}
    /\ \/ /\ q.stage = "static"
          /\ Step(p, Enter(q, "runtime")) /\ UNCHANGED mlock
       \/ /\ q.stage = "runtime" /\ q.mode = "runtime"
          /\ Step(p, Idle) /\ mlock' = Nil
       \/ /\ q.stage = "runtime" /\ q.mode # "runtime" /\ q.gate = "none"
          /\ Step(p, [q EXCEPT !.pc = IF q.mode = "full" THEN "contexts" ELSE "trigger"])
          /\ mlock' = Nil
       \/ /\ q.stage = "runtime" /\ q.gate # "none"
          /\ Step(p, Enter(q, "probe")) /\ UNCHANGED mlock
    /\ UNCHANGED <<dirs, signals, saved, slock, qlock, others>>

\* load_trigger in a --sweep-if-triggered run: without a fresh trigger the pool
\* is only summarised; with one, sweep.lock decides who sweeps.
LoadTrigger(p) ==
    LET q == h[p] IN
    /\ q.pc = "trigger"
    /\ \/ /\ trigger = 0 \/ ~fresh
          /\ Step(p, [q EXCEPT !.pc = "passive"]) /\ UNCHANGED slock
       \/ /\ trigger # 0 /\ fresh /\ slock = Nil
          /\ slock' = p
          /\ Step(p, [q EXCEPT !.pc = "contexts", !.trig = trigger])
       \/ /\ trigger # 0 /\ fresh /\ slock # Nil
          /\ Step(p, Idle) /\ UNCHANGED slock
    /\ UNCHANGED <<dirs, signals, saved, mlock, qlock, others>>

\* passive_pool_summary, saved under monitor.lock.
Passive(p) ==
    /\ h[p].pc = "passive" /\ mlock = Nil
    /\ saved' = "passive"
    /\ Step(p, Idle)
    /\ UNCHANGED <<dirs, signals, locks, others>>

\* probe_accounts reads every credential first ...
Contexts(p) ==
    /\ h[p].pc = "contexts"
    /\ Step(p, [h[p] EXCEPT !.probed = auth, !.pc = "digest"])
    /\ UNCHANGED <<dirs, signals, saved, locks, others>>

\* ... then asks whether the provider can be reached at all ...
Gates(q) == IF \A n \in Name : q.probed[n] = Absent THEN {"no_accounts"} ELSE {"reachable", "down"}

\* ... takes the digests and sends the probes. About any of the contents the
\* answer may be inconclusive (quota, rate limit, timeout, server error) ...
Answers == SUBSET Content

\* ... and a conclusive one is a permanent rejection exactly when the content is
\* dead.
Rejected(conclusive) == conclusive \cap Dead

\* A candidate is a file all of whose accounts were rejected for good, with the
\* digest it has when the probes are sent.
Candidates(q, conclusive) ==
    {r \in Records : q.probed[r.name] \in Rejected(conclusive)}

\* An unreachable provider makes no candidate. A check ends here; the other
\* modes go back for monitor.lock.
Probe(p, gate, conclusive) ==
    LET q == h[p] IN
    /\ q.pc = "digest" /\ gate \in Gates(q)
    /\ Step(p, IF q.mode = "check" THEN Idle
               ELSE [q EXCEPT !.pc = "lock", !.stage = "runtime", !.gate = gate,
                              !.probed = Idle.probed,
                              !.cands = IF gate = "reachable"
                                        THEN Candidates(q, conclusive) ELSE {}])
    /\ UNCHANGED <<dirs, signals, saved, locks, others>>

\* Mutants: whatever trigger is there is removed; an empty pool keeps it.
ConsumesAny(q) == q.mode = "sweep" /\ q.gate \in {"reachable", "no_accounts"} /\ q.trig # 0
ConsumesReachable(q) == q.mode = "sweep" /\ q.gate = "reachable" /\ trigger = q.trig

\* consume_trigger: the trigger is removed only if it is the one loaded.
Consumes(q) == /\ q.mode = "sweep" /\ q.gate \in {"reachable", "no_accounts"}
               /\ q.trig # 0 /\ trigger = q.trig

\* What state.json says of the trigger.
SavedAs(q) == IF q.mode = "full" THEN "full" ELSE IF Consumes(q) THEN "consumed" ELSE "retained"

\* The end of the second pass: the trigger, state.json, the locks.
Finish(p) ==
    LET q == h[p] IN
    /\ q.pc = "work" /\ q.todo = {} /\ q.stage = "probe"
    /\ trigger' = IF Consumes(q) THEN 0 ELSE trigger
    /\ fresh' = (fresh /\ ~Consumes(q))
    /\ saved' = SavedAs(q)
    /\ End(p)
    /\ UNCHANGED <<dirs, receipts, emitted, others>>

-----------------------------------------------------------------------------
(***************************************************************************)
(* Restore, and processes that die.                                        *)
(***************************************************************************)

\* restore_quarantined_auth, first half: the selector matches exactly one
\* entry, its file is there and the target is free; the file is renamed.
RestoreMove(a) ==
    /\ res = Nil /\ qlock = Nil /\ writes < MaxWrites
    /\ writes' = writes + 1
    /\ manifest[a] = 1 /\ archive[a] # Absent /\ auth[a[1]] = Absent
    /\ auth' = [auth EXCEPT ![a[1]] = archive[a]]
    /\ archive' = [archive EXCEPT ![a] = Absent]
    /\ qlock' = Operator /\ res' = a
    /\ UNCHANGED <<manifest, signals, saved, mlock, slock, h, imp, crashes, raced>>

\* Second half: the entry leaves the manifest.
RestoreRecord ==
    /\ res # Nil
    /\ manifest' = [manifest EXCEPT ![res] = @ - 1]
    /\ qlock' = Nil /\ res' = Nil
    /\ UNCHANGED <<auth, archive, signals, saved, mlock, slock, h, imp, writes, crashes, raced>>

\* The manifest cannot be written: the file goes back. If it is gone by now the
\* rollback has failed too, which counts as a process that died.
RestoreFails ==
    /\ res # Nil
    /\ auth[res[1]] = Absent => crashes < MaxCrashes
    /\ archive' = [archive EXCEPT ![res] = auth[res[1]]]
    /\ auth' = [auth EXCEPT ![res[1]] = Absent]
    /\ crashes' = IF auth[res[1]] = Absent THEN crashes + 1 ELSE crashes
    /\ qlock' = Nil /\ res' = Nil
    /\ UNCHANGED <<manifest, signals, saved, mlock, slock, h, imp, writes, raced>>

\* A cpa-health process, the restore or the importer dies.
HealthDies(p) ==
    /\ h[p].pc # "idle" /\ crashes < MaxCrashes
    /\ crashes' = crashes + 1
    /\ End(p)
    /\ UNCHANGED <<dirs, signals, saved, res, imp, writes, raced>>

RestoreDies ==
    /\ res # Nil /\ crashes < MaxCrashes
    /\ crashes' = crashes + 1
    /\ qlock' = Nil /\ res' = Nil
    /\ UNCHANGED <<dirs, signals, saved, mlock, slock, h, imp, writes, raced>>

ImportDies ==
    /\ imp.pc # "idle" /\ crashes < MaxCrashes
    /\ crashes' = crashes + 1
    /\ imp' = [pc |-> "idle", plan |-> {}, done |-> {}]
    /\ UNCHANGED <<dirs, signals, saved, locks, h, res, writes, raced>>

Batch == UNION {[N -> Content] : N \in SUBSET Name \ {{}}}

Import ==
    \/ \E b \in Batch, force \in BOOLEAN : ImportPlan(b, force)
    \/ \E w \in imp.plan : ImportWrite(w) \/ ImportUndo(w)
    \/ ImportDone \/ ImportFails \/ ImportRejected \/ ImportDies

Gateway ==
    \/ \E n \in Name, c \in Content : GatewayRefresh(n, c)
    \/ \E n \in Name : GatewayReceipt(n)
    \/ GatewayTrigger \/ TriggerAges

Work(p) ==
    \/ Lock(p)
    \/ \E i \in h[p].todo : Take(p, i)
    \/ \E a \in ArchName : Move(p, a)
    \/ MoveRejected(p) \/ Record(p) \/ StageDone(p)
    \/ LoadTrigger(p) \/ Passive(p) \/ Contexts(p)
    \/ \E gate \in {"no_accounts", "reachable", "down"}, c \in Answers : Probe(p, gate, c)
    \/ Finish(p)

Run(p) ==
    \/ \E m \in ModesOf[p] : Start(p, m)
    \/ Work(p) \/ RecordFails(p) \/ HealthDies(p)

Restore ==
    \/ \E a \in ArchName : RestoreMove(a)
    \/ RestoreRecord \/ RestoreFails \/ RestoreDies

Next == Import \/ Gateway \/ Restore \/ \E p \in Health : Run(p)

-----------------------------------------------------------------------------
(***************************************************************************)
(* What a run of the pool's processes may rely on.                         *)
(***************************************************************************)
Proc == [pc : {"idle", "lock", "work", "move", "record", "trigger", "passive",
               "contexts", "digest"},
         mode : Mode, stage : {"static", "runtime", "probe"},
         todo : SUBSET Item, scan : SUBSET Name, cur : Item \cup {Nil},
         at : ArchName \cup {Nil}, probed : [Name -> File], cands : SUBSET Item,
         trig : 0..MaxTrigger, gate : {"none", "no_accounts", "reachable", "down"}]

Target == [name : Name, new : Content, old : File]

\* Every variable has its type.
TypeOK ==
    /\ auth \in [Name -> File] /\ archive \in [ArchName -> File]
    /\ manifest \in [ArchName -> Nat]
    /\ receipts \subseteq Item
    /\ emitted \in 0..MaxTrigger /\ trigger \in 0..emitted /\ fresh \in BOOLEAN
    /\ saved \in {"none", "passive", "full", "consumed", "retained"}
    /\ mlock \in Health \cup {Nil} /\ slock \in Health \cup {Nil}
    /\ qlock \in Health \cup {Operator, Nil}
    /\ h \in [Health -> Proc]
    /\ res \in ArchName \cup {Nil}
    /\ imp \in [pc : {"idle", "write", "undo"}, plan : SUBSET Target, done : SUBSET Target]
    /\ writes \in Nat /\ crashes \in Nat /\ raced \subseteq Name

Healthy == Content \ (StaticBad \cup Dead)

\* As long as no process has died between a rename and its manifest write,
\* every file of the archive has exactly one manifest entry, so that
\* cpa-health-restore can select it (cpa_auth.py quarantine and restore).
Restorable ==
    crashes = 0 /\ qlock = Nil =>
        \A a \in ArchName : archive[a] # Absent => manifest[a] = 1

\* A usable credential is only ever archived under a name that was rewritten
\* while a health run had already read it: the digest checks leave no other way
\* (cpa_health.py archive_runtime_failures, archive_permanent_probe_failures).
UsableArchivedOnlyByRace ==
    \A a \in ArchName : archive[a] \in Healthy => a[1] \in raced

\* The run that sweeps holds sweep.lock, loaded the trigger that is there and
\* reached the provider or found no account to ask about.
Swept == \E p \in Health : /\ h[p].trig = trigger /\ slock = p
                           /\ h[p].gate \in {"reachable", "no_accounts"}

\* A trigger is removed only by a run that loaded that very trigger, so read
\* the pool after it was written, and reached the provider: one written during
\* the sweep is kept for the next (cpa_sweep.py consume_trigger).
TriggerConsumedBySweep ==
    [][trigger # 0 /\ trigger' = 0 => Swept]_vars

\* The locks that order the runs: monitor.lock is held exactly by the run that
\* archives, sweep.lock by the one sweep that probes.
LockDiscipline ==
    /\ \A p \in Health : h[p].pc \in {"work", "move", "record"} <=> mlock = p
    /\ \A p \in Health : h[p].trig # 0 <=> slock = p
    /\ \A p \in Health : h[p].pc = "record" <=> qlock = p
    /\ res # Nil <=> qlock = Operator

Spec == Init /\ [][Next]_vars

\* systemd restarts the consumers (path units, timer): sweeps keep starting, a
\* started run goes on, a waiter gets a contended flock, sweeps find the provider
\* reachable often enough and the disk does not refuse every manifest write.
Fairness ==
    /\ \A p \in Health : WF_vars(Work(p)) /\ ("sweep" \in ModesOf[p] => WF_vars(Start(p, "sweep")))
    /\ \A p \in Health :
          SF_vars(h[p].mode = "sweep" /\ \E c \in Answers : Probe(p, "reachable", c))
    /\ \A p \in Health : SF_vars(Lock(p)) /\ SF_vars(Passive(p)) /\ SF_vars(Record(p))
    /\ WF_vars(RestoreRecord)

LiveSpec == Spec /\ Fairness

\* A trigger is eventually consumed, replaced by a newer one, or too old to
\* act on: no sweep leaves it waiting for ever.
TriggerHandled ==
    \A t \in 1..MaxTrigger : (trigger = t /\ fresh) ~> (trigger # t \/ ~fresh)
=============================================================================
