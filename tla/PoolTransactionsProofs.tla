----------------------- MODULE PoolTransactionsProofs -----------------------
(***************************************************************************)
(* Proofs about the cloud credential pool: its health runs, restores,      *)
(* importer and gateway (CpaHealth) beside the operator's transactions     *)
(* (PoolTransactions), for any pool, any number of health processes and    *)
(* any bounds.                                                             *)
(***************************************************************************)
EXTENDS PoolTransactions, TLAPS

\* Where a health process can be, its record, and the types of the pool.
Place ==
    {"idle", "lock", "work", "move", "record", "trigger", "passive", "contexts", "digest"}

ProcRec ==
    [pc : Place, mode : Mode, stage : {"static", "runtime", "probe"},
     todo : SUBSET Item, scan : SUBSET Name, cur : Item \cup {Nil},
     at : ArchName \cup {Nil}, probed : [Name -> File], cands : SUBSET Item,
     trig : Nat, gate : {"none", "no_accounts", "reachable", "down"}]

PoolTypes ==
    /\ auth \in [Name -> File] /\ archive \in [ArchName -> File]
    /\ manifest \in [ArchName -> Nat]
    /\ receipts \subseteq Item /\ raced \subseteq Name
    /\ trigger \in Nat /\ emitted \in Nat /\ crashes \in Nat
    /\ h \in [Health -> ProcRec] /\ res \in ArchName \cup {Nil}

\* Where a run can be with what it has loaded, and what it is about to move or
\* has moved.
Controlled(q) ==
    /\ q.pc \in {"idle", "trigger", "passive"} => q.trig = 0
    /\ q.pc = "trigger" => q.mode = "sweep"
    /\ q.trig # 0 => q.mode = "sweep" /\ (q.pc \in {"contexts", "digest"} \/ q.gate # "none")
    /\ q.mode = "check" => q.pc \in {"idle", "contexts", "digest"}
    /\ q.pc = "move" => q.cur \in Item
    /\ q.pc = "record" => q.cur \in Item /\ q.at \in ArchName /\ q.at[1] = q.cur.name

\* A file that is being archived is in the archive, one that is being restored
\* is not and still has its entry.
Renamed ==
    /\ \A p \in Health : h[p].pc = "record" => archive[h[p].at] # Absent
    /\ res # Nil => archive[res] = Absent /\ manifest[res] = 1

\* Some process has renamed a file to a and not listed it yet.
Recording(a) == \E p \in Health : h[p].pc = "record" /\ h[p].at = a

\* Archive and manifest agree, but for the rename under way.
Listed ==
    crashes = 0 =>
        \A a \in ArchName :
            /\ Recording(a) => manifest[a] = 0
            /\ ~Recording(a) /\ res # a => manifest[a] = IF archive[a] = Absent THEN 0 ELSE 1

\* What a run goes by is unusable, or its name was rewritten since.
Read(q, files, races) ==
    /\ \A n \in Name : q.probed[n] # Absent /\ files[n] \in Healthy =>
           files[n] = q.probed[n] \/ n \in races
    /\ \A i \in q.todo \cup q.cands : i.sha \in Healthy => i.name \in races
    /\ q.stage = "static" => \A i \in q.todo : files[i.name] \in Healthy => i.name \in races
    /\ q.pc = "move" /\ files[q.cur.name] \in Healthy => q.cur.name \in races

\* A usable file leaves the pool only after its name was rewritten under the
\* process that archives it.
Usable ==
    /\ \A p \in Health : Read(h[p], auth, raced)
    /\ res # Nil /\ auth[res[1]] \in Healthy => res[1] \in raced
    /\ \A r \in receipts : r.sha \in Dead
    /\ UsableArchivedOnlyByRace

\* The inductive invariant of the pool without the importer and the operator.
HealthInv ==
    /\ PoolTypes /\ LockDiscipline
    /\ \A p \in Health : Controlled(h[p])
    /\ Renamed /\ Listed /\ Usable

\* The importer's plan, and that it has not written before the first write.
ImportInv ==
    /\ imp \in [pc : {"idle", "write", "undo"}, plan : SUBSET Target, done : SUBSET Target]
    /\ writes \in Nat /\ (writes = 0 => imp.done = {})

\* Where the operator's script can be, its journal, and their types.
TxnPlace ==
    {"ready", "prepared", "swept", "stage", "limited", "found", "imported", "hold", "cohort",
     "unhold", "final", "rebase", "canary", "contain", "unarchive", "signals", "reactivate",
     "behaviour", "verify", "idle", "done", "dead"}

TxnPhase == {"none", "prepared", "limited", "imported", "accepted", "contained", "recovered"}

TxnRec ==
    [kind : {"accept", "promote", "active"}, pc : TxnPlace, phase : TxnPhase,
     base : [Name -> File], listed : [ArchName -> Nat], batch : SUBSET Name,
     names : SUBSET Name, left : SUBSET Name, ok : BOOLEAN, manual : BOOLEAN]

TxnTypes ==
    /\ t \in TxnRec /\ hold \in [Name -> File] /\ backup \in [Name -> File] /\ aside \subseteq Name

\* Where an acceptance can be.
AcceptPlace ==
    {"ready", "prepared", "swept", "stage", "limited", "unarchive", "signals", "reactivate",
     "behaviour", "verify", "idle", "done", "dead"}

\* An acceptance adds and takes out its own canaries only, none of which is in
\* its baseline; no import is under way while it has the lock.
AcceptInv ==
    t.kind = "accept" =>
        /\ t.pc \in AcceptPlace
        /\ t.pc = "ready" => t.base = Empty
        /\ PresentIn(t.base) \cap OwnName = {}
        /\ t.names \subseteq OwnName
        /\ t.pc = "stage" => t.left \subseteq OwnName
        /\ ImportLocked => imp.pc = "idle"

\* A rollback that knows its batch goes by it.
PromoteInv ==
    t.kind = "promote" /\ t.pc \in {"rebase", "unarchive"} /\ t.batch # {} => t.names = t.batch

\* The part about the operator's script.
TxnInv == TxnTypes /\ AcceptInv /\ PromoteInv /\ OriginalKept

\* The inductive invariant of the pool with all its processes.
PoolInv == HealthInv /\ ImportInv /\ TxnInv

-----------------------------------------------------------------------------
\* Archived names and items have names, and neither is Nil.
LEMMA Parts ==
    /\ \A a \in ArchName : a[1] \in Name /\ a # Nil
    /\ \A i \in Item : i.name \in Name /\ i.sha \in Content /\ i # Nil
    /\ Operator \notin Health /\ Nil \notin Health /\ Nil # Operator
  BY CloudConstants DEF ArchName, Copy, Item

\* What is no usable credential.
LEMMA Unusable ==
    /\ Absent \notin Healthy
    /\ \A c \in StaticBad \cup Dead : c \notin Healthy
  BY CloudConstants DEF Healthy

\* A process at rest.
LEMMA IdleIs ==
    /\ Idle \in ProcRec /\ Idle.pc = "idle" /\ Idle.trig = 0 /\ Idle.todo = {} /\ Idle.cands = {}
    /\ Idle.stage = "static" /\ Idle.mode = "check" /\ Idle.gate = "none"
    /\ Idle.probed = [n \in Name |-> Absent] /\ Idle.probed \in [Name -> File]
    /\ Controlled(Idle)
  <1>1. [n \in Name |-> Absent] \in [Name -> File]
    BY DEF File
  <1>2. Idle \in ProcRec
    BY <1>1 DEF Idle, ProcRec, Place, Mode
  <1> QED
    BY <1>1, <1>2 DEF Idle, Controlled

\* A process that has read nothing and is not moving anything goes by nothing.
LEMMA NothingRead ==
    ASSUME NEW files, NEW races PROVE Read(Idle, files, races)
  BY IdleIs DEF Read

\* It holds of every pool the system may start with.
LEMMA HealthInitInv == Init => HealthInv
  <1> SUFFICES ASSUME Init PROVE HealthInv
    OBVIOUS
  <1>1. PoolTypes
    BY IdleIs, CloudConstants DEF Init, PoolTypes, File
  <1>2. \A p \in Health : h[p] = Idle
    BY DEF Init
  <1>3. LockDiscipline
    BY <1>2, IdleIs, Parts DEF Init, LockDiscipline
  <1>4. \A p \in Health : Controlled(h[p])
    BY <1>2, IdleIs
  <1>5. Renamed /\ Listed
    BY <1>2, IdleIs, Parts DEF Init, Renamed, Listed, Recording
  <1>6. \A p \in Health : Read(h[p], auth, raced)
    BY <1>2, NothingRead
  <1>7. Usable
    BY <1>6, Unusable DEF Init, Usable, UsableArchivedOnlyByRace
  <1> QED
    BY <1>1, <1>3, <1>4, <1>5, <1>7 DEF HealthInv

-----------------------------------------------------------------------------
(***************************************************************************)
(* Three kinds of steps.                                                   *)
(***************************************************************************)

\* The process's record in the next state.
LEMMA StepFacts ==
    ASSUME PoolTypes, NEW p \in Health, NEW q \in ProcRec, Step(p, q)
    PROVE  /\ h' \in [Health -> ProcRec] /\ h'[p] = q
           /\ \A r \in Health : r # p => h'[r] = h[r]
  BY DEF PoolTypes, Step

\* A run goes on without renaming anything.
LEMMA RunStep ==
    ASSUME HealthInv, NEW p \in Health, NEW q \in ProcRec, Step(p, q),
           UNCHANGED <<auth, archive, manifest, receipts, raced, res, qlock, emitted>>,
           crashes' \in {crashes, crashes + 1}, trigger' \in Nat,
           h[p].pc # "record", q.pc # "record", Controlled(q), Read(q, auth, raced),
           q.pc \in {"work", "move"} <=> mlock' = p,
           \A r \in Health : r # p => (mlock' = r <=> mlock = r),
           q.trig # 0 <=> slock' = p,
           \A r \in Health : r # p => (slock' = r <=> slock = r)
    PROVE  HealthInv'
  <1>1. /\ h' \in [Health -> ProcRec] /\ h'[p] = q
        /\ \A r \in Health : r # p => h'[r] = h[r]
    BY StepFacts DEF HealthInv
  <1>2. crashes' \in Nat /\ (crashes' = 0 => crashes = 0)
    BY DEF HealthInv, PoolTypes
  <1>3. PoolTypes'
    BY <1>1, <1>2 DEF HealthInv, PoolTypes
  <1>4. LockDiscipline'
    <2>1. \A r \in Health : h'[r].pc \in {"work", "move", "record"} <=> mlock' = r
      BY <1>1 DEF HealthInv, LockDiscipline
    <2>2. \A r \in Health : h'[r].trig # 0 <=> slock' = r
      BY <1>1 DEF HealthInv, LockDiscipline
    <2>3. \A r \in Health : h'[r].pc = "record" <=> qlock' = r
      BY <1>1 DEF HealthInv, LockDiscipline
    <2> QED
      BY <2>1, <2>2, <2>3 DEF HealthInv, LockDiscipline
  <1>5. \A r \in Health : Controlled(h[r])'
    <2> SUFFICES ASSUME NEW r \in Health PROVE Controlled(h'[r])
      BY DEF Controlled
    <2> QED
      BY <1>1 DEF HealthInv
  <1>6. Renamed'
    BY <1>1 DEF HealthInv, Renamed
  <1>7. \A a \in ArchName : Recording(a)' <=> Recording(a)
    BY <1>1 DEF Recording
  <1>8. Listed'
    BY <1>2, <1>7 DEF HealthInv, Listed
  <1>9. \A r \in Health : Read(h[r], auth, raced)'
    <2> SUFFICES ASSUME NEW r \in Health PROVE Read(h[r], auth, raced)'
      OBVIOUS
    <2>1. CASE r = p
      BY <1>1, <2>1 DEF Read
    <2>2. CASE r # p
      <3>1. Read(h[r], auth, raced) /\ h'[r] = h[r]
        BY <1>1, <2>2 DEF HealthInv, Usable
      <3> QED
        BY <3>1 DEF Read
    <2> QED
      BY <2>1, <2>2
  <1>10. Usable'
    BY <1>9 DEF HealthInv, Usable, UsableArchivedOnlyByRace
  <1> QED
    BY <1>3, <1>4, <1>5, <1>6, <1>8, <1>10 DEF HealthInv

\* A writer changes the pool: what comes under a name somebody goes by is
\* unusable, or the name is noted as raced.
LEMMA WriterStep ==
    ASSUME HealthInv, UNCHANGED <<archive, manifest, mlock, slock, qlock, h, res>>,
           auth' \in [Name -> File], raced \subseteq raced', raced' \subseteq Name,
           \A n \in Name : \/ auth'[n] = auth[n] \/ auth'[n] \notin Healthy
                           \/ n \in raced' \/ ~InFlight(n),
           receipts' \subseteq Item, \A r \in receipts' : r.sha \in Dead,
           trigger' \in Nat, emitted' \in Nat, crashes' \in {crashes, crashes + 1}
    PROVE  HealthInv'
  <1>1. crashes' \in Nat /\ (crashes' = 0 => crashes = 0)
    BY DEF HealthInv, PoolTypes
  <1>2. PoolTypes'
    BY <1>1 DEF HealthInv, PoolTypes
  <1>3. LockDiscipline' /\ Renamed' /\ (\A p \in Health : Controlled(h[p])')
    BY DEF HealthInv, LockDiscipline, Renamed, Controlled
  <1>4. Listed'
    BY <1>1 DEF HealthInv, Listed, Recording
  <1>5. \A p \in Health : Read(h[p], auth, raced)'
    <2> SUFFICES ASSUME NEW p \in Health PROVE Read(h[p], auth, raced)'
      OBVIOUS
    <2> DEFINE q == h[p]
    <2>1. /\ q \in ProcRec /\ q.todo \subseteq Item /\ q.cands \subseteq Item
          /\ Controlled(q) /\ Read(q, auth, raced) /\ h'[p] = q
      BY DEF HealthInv, PoolTypes, ProcRec, Usable
    <2>2. ASSUME NEW n \in Name, InFlight(n), auth'[n] \in Healthy
          PROVE  auth'[n] = auth[n] \/ n \in raced'
      BY <2>2
    <2>3. \A n \in Name : q.probed[n] # Absent => InFlight(n)
      BY DEF InFlight
    <2>4. \A i \in q.todo : InFlight(i.name) /\ i.name \in Name
      BY <2>1, Parts DEF InFlight
    <2>5. q.pc = "move" => InFlight(q.cur.name) /\ q.cur.name \in Name
      BY <2>1, Parts DEF InFlight, Controlled
    <2>6. \A n \in Name : q.probed[n] # Absent /\ auth'[n] \in Healthy =>
              auth'[n] = q.probed[n] \/ n \in raced'
      BY <2>1, <2>2, <2>3 DEF Read
    <2>7. \A i \in q.todo \cup q.cands : i.sha \in Healthy => i.name \in raced'
      BY <2>1 DEF Read
    <2>8. q.stage = "static" => \A i \in q.todo : auth'[i.name] \in Healthy => i.name \in raced'
      BY <2>1, <2>2, <2>4 DEF Read
    <2>9. q.pc = "move" /\ auth'[q.cur.name] \in Healthy => q.cur.name \in raced'
      BY <2>1, <2>2, <2>5 DEF Read
    <2> HIDE DEF q
    <2> QED
      BY <2>1, <2>6, <2>7, <2>8, <2>9 DEF Read
  <1>6. res' # Nil /\ auth'[res'[1]] \in Healthy => res'[1] \in raced'
    <2> SUFFICES ASSUME res # Nil, auth'[res[1]] \in Healthy PROVE res[1] \in raced'
      OBVIOUS
    <2>1. InFlight(res[1]) /\ res[1] \in Name
      BY Parts DEF InFlight, HealthInv, PoolTypes
    <2> QED
      BY <2>1 DEF HealthInv, Usable
  <1>7. Usable'
    BY <1>5, <1>6 DEF HealthInv, Usable, UsableArchivedOnlyByRace
  <1> QED
    BY <1>2, <1>3, <1>4, <1>7 DEF HealthInv

-----------------------------------------------------------------------------
(***************************************************************************)
(* The steps of a run that rename nothing.                                 *)
(***************************************************************************)

\* What the invariant says of one process.
LEMMA ProcFacts ==
    ASSUME HealthInv, NEW p \in Health
    PROVE  /\ h[p] \in ProcRec /\ Controlled(h[p]) /\ Read(h[p], auth, raced)
           /\ h[p].pc \in {"work", "move", "record"} <=> mlock = p
           /\ h[p].trig # 0 <=> slock = p
           /\ h[p].pc = "record" <=> qlock = p
           /\ p # Nil /\ p # Operator
  BY Parts DEF HealthInv, PoolTypes, LockDiscipline, Usable

\* A lock given up by p is not p's, and still anybody else's.
LEMMA FreeLock ==
    ASSUME NEW p \in Health, NEW lock
    PROVE  /\ Free(lock, p) # p
           /\ \A r : r # p /\ r # Nil => (Free(lock, p) = r <=> lock = r)
           /\ lock # p => Free(lock, p) = lock
  BY Parts DEF Free

\* A run is started.
LEMMA StartInv ==
    ASSUME HealthInv, NEW p \in Health, NEW m \in ModesOf[p], Start(p, m)
    PROVE  HealthInv'
  <1> DEFINE q == [Idle EXCEPT !.pc = IF m = "check" THEN "contexts" ELSE "lock", !.mode = m,
                               !.stage = IF m = "runtime" THEN "runtime" ELSE "static"]
  <1>1. m \in Mode
    BY CloudConstants DEF Mode
  <1>2. /\ q \in ProcRec /\ q.trig = 0 /\ q.pc \in {"contexts", "lock"}
        /\ Controlled(q) /\ Read(q, auth, raced)
    <2>1. q \in ProcRec
      BY <1>1, IdleIs DEF ProcRec, Place
    <2>2. /\ q.trig = 0 /\ q.pc \in {"contexts", "lock"} /\ (q.mode = "check" => q.pc = "contexts")
          /\ q.todo = {} /\ q.cands = {} /\ q.probed = [n \in Name |-> Absent]
      BY DEF Idle
    <2> HIDE DEF q
    <2> QED
      BY <2>1, <2>2 DEF Controlled, Read
  <1>3. h[p].pc = "idle" /\ h[p].trig = 0 /\ mlock # p /\ slock # p
    BY ProcFacts DEF Start, Controlled
  <1>4. Step(p, q)
    BY DEF Start
  <1> HIDE DEF q
  <1> QED
    BY <1>2, <1>3, <1>4, RunStep
       DEF Start, dirs, signals, locks, others, HealthInv, PoolTypes

\* A stage lists nothing that is usable and was not rewritten.
LEMMA EnterFacts ==
    ASSUME HealthInv, NEW p \in Health, NEW stage \in {"static", "runtime", "probe"}
    PROVE  LET q == Enter(h[p], stage) IN
           /\ q \in ProcRec /\ q.pc = "work" /\ q.trig = h[p].trig /\ q.gate = h[p].gate
           /\ q.mode = h[p].mode /\ Read(q, auth, raced)
  <1> DEFINE q == Enter(h[p], stage)
  <1>1. h[p] \in ProcRec /\ Read(h[p], auth, raced) /\ auth \in [Name -> File] /\ receipts \subseteq Item
    BY ProcFacts DEF HealthInv, PoolTypes
  <1>2. /\ StaticItems \subseteq Item
        /\ \A i \in StaticItems : auth[i.name] = i.sha /\ i.sha \in StaticBad
    BY <1>1 DEF StaticItems, Records, Present, Item, File
  <1>3. \A i \in receipts : i.sha \in Dead
    BY DEF HealthInv, Usable
  <1>4. q.todo = IF stage = "static" THEN StaticItems ELSE IF stage = "runtime" THEN receipts ELSE h[p].cands
    BY <1>1 DEF Enter, ProcRec
  <1>5. /\ q.pc = "work" /\ q.trig = h[p].trig /\ q.gate = h[p].gate /\ q.stage = stage
        /\ q.mode = h[p].mode /\ q.cands = h[p].cands /\ q.probed = h[p].probed
    BY <1>1 DEF Enter, ProcRec
  <1>6. q \in ProcRec
    <2>1. q.todo \subseteq Item
      BY <1>1, <1>2, <1>4 DEF ProcRec
    <2>2. q = [h[p] EXCEPT !.pc = "work", !.stage = stage, !.scan = Present, !.todo = q.todo]
      BY <1>1, <1>4 DEF Enter, ProcRec
    <2>3. Present \subseteq Name
      BY DEF Present
    <2> HIDE DEF q
    <2> QED
      BY <1>1, <2>1, <2>2, <2>3 DEF ProcRec, Place
  <1> HIDE DEF q
  <1>7. Read(q, auth, raced)
    BY <1>1, <1>2, <1>3, <1>4, <1>5, Unusable DEF Read
  <1> QED
    BY <1>5, <1>6, <1>7 DEF q

\* The run has monitor.lock and enters its first stage.
LEMMA LockInv ==
    ASSUME HealthInv, NEW p \in Health, Lock(p)
    PROVE  HealthInv'
  <1> DEFINE q == Enter(h[p], h[p].stage)
  <1>1. h[p].stage \in {"static", "runtime", "probe"}
    BY ProcFacts DEF ProcRec
  <1>2. /\ q \in ProcRec /\ q.pc = "work" /\ q.trig = h[p].trig /\ q.gate = h[p].gate
        /\ q.mode = h[p].mode /\ Read(q, auth, raced)
    BY <1>1, EnterFacts
  <1>3. Step(p, q) /\ h[p].pc = "lock" /\ mlock = Nil /\ mlock' = p
    BY DEF Lock
  <1> HIDE DEF q
  <1>4. Controlled(q)
    BY <1>2, <1>3, ProcFacts DEF Controlled
  <1>5. \A r \in Health : r # Nil
    BY Parts
  <1> QED
    BY <1>2, <1>3, <1>4, <1>5, RunStep, ProcFacts
       DEF Lock, dirs, signals, others, HealthInv, PoolTypes

\* One record is looked at; only what may be archived is chosen.
LEMMA TakeInv ==
    ASSUME HealthInv, NEW p \in Health, NEW i \in h[p].todo, Take(p, i)
    PROVE  HealthInv'
  <1> DEFINE ok == Archivable(h[p], i)
             q == [h[p] EXCEPT !.todo = @ \ {i}, !.pc = IF ok THEN "move" ELSE "work",
                               !.cur = IF ok THEN i ELSE Nil]
  <1>1. /\ h[p] \in ProcRec /\ Controlled(h[p]) /\ Read(h[p], auth, raced)
        /\ h[p].pc = "work" /\ i \in Item
    BY ProcFacts DEF Take, ProcRec
  <1>2. /\ q.todo = h[p].todo \ {i} /\ q.cands = h[p].cands /\ q.probed = h[p].probed
        /\ q.stage = h[p].stage /\ q.trig = h[p].trig /\ q.gate = h[p].gate /\ q.mode = h[p].mode
        /\ q.pc \in {"work", "move"} /\ (q.pc = "move" => ok /\ q.cur = i)
    BY <1>1 DEF ProcRec
  <1>3. q \in ProcRec
    BY <1>1 DEF ProcRec, Place
  <1>4. Step(p, q)
    BY DEF Take
  <1>5. ok /\ auth[i.name] \in Healthy => i.name \in raced
    BY <1>1 DEF Archivable, Read
  <1> HIDE DEF q, ok
  <1>6. Controlled(q) /\ Read(q, auth, raced)
    BY <1>1, <1>2, <1>5 DEF Controlled, Read
  <1> QED
    BY <1>1, <1>2, <1>3, <1>4, <1>6, RunStep, ProcFacts
       DEF dirs, signals, locks, others, HealthInv, PoolTypes, Take

\* A run that is not recording ends, whatever its end does to the trigger.
LEMMA EndInv ==
    ASSUME HealthInv, NEW p \in Health, h[p].pc # "record", End(p),
           UNCHANGED <<auth, archive, manifest, receipts, raced, res, emitted>>,
           crashes' \in {crashes, crashes + 1}, trigger' \in Nat
    PROVE  HealthInv'
  <1>1. Step(p, Idle) /\ mlock' = Free(mlock, p) /\ slock' = Free(slock, p)
    BY DEF End
  <1>2. UNCHANGED qlock
    BY ProcFacts, FreeLock DEF End
  <1>3. \A r \in Health : r # Nil
    BY Parts
  <1>4. /\ mlock' # p /\ \A r \in Health : r # p => (mlock' = r <=> mlock = r)
    BY <1>1, <1>3, FreeLock
  <1>5. /\ slock' # p /\ \A r \in Health : r # p => (slock' = r <=> slock = r)
    BY <1>1, <1>3, FreeLock
  <1> QED
    BY <1>1, <1>2, <1>4, <1>5, RunStep, IdleIs, NothingRead

\* A stage is over.
LEMMA StageDoneInv ==
    ASSUME HealthInv, NEW p \in Health, StageDone(p)
    PROVE  HealthInv'
  <1>1. /\ h[p] \in ProcRec /\ Controlled(h[p]) /\ Read(h[p], auth, raced)
        /\ h[p].pc = "work" /\ mlock = p /\ p # Nil /\ \A r \in Health : r # Nil
    BY ProcFacts, Parts DEF StageDone
  <1>2. UNCHANGED <<auth, archive, manifest, receipts, raced, res, qlock, emitted, crashes, trigger, slock>>
    BY DEF StageDone, dirs, signals, others
  <1>3. trigger' \in Nat
    BY <1>2 DEF HealthInv, PoolTypes
  <1>4. ASSUME NEW stage \in {"runtime", "probe"}, Step(p, Enter(h[p], stage)), UNCHANGED mlock
        PROVE  HealthInv'
    <2> DEFINE q == Enter(h[p], stage)
    <2>1. /\ q \in ProcRec /\ q.pc = "work" /\ q.trig = h[p].trig /\ q.gate = h[p].gate
          /\ q.mode = h[p].mode /\ Read(q, auth, raced)
      BY EnterFacts
    <2>2. Step(p, q)
      BY <1>4
    <2> HIDE DEF q
    <2>3. Controlled(q)
      BY <1>1, <2>1 DEF Controlled
    <2> QED
      BY <1>1, <1>2, <1>3, <1>4, <2>1, <2>2, <2>3, RunStep, ProcFacts
  <1>5. CASE /\ h[p].stage = "runtime" /\ h[p].mode = "runtime"
             /\ Step(p, Idle) /\ mlock' = Nil
    <2>1. h[p].trig = 0
      BY <1>1, <1>5 DEF Controlled
    <2> QED
      BY <1>1, <1>2, <1>3, <1>5, <2>1, RunStep, ProcFacts, IdleIs, NothingRead
  <1>6. CASE /\ h[p].stage = "runtime" /\ h[p].mode # "runtime" /\ h[p].gate = "none"
             /\ Step(p, [h[p] EXCEPT !.pc = IF h[p].mode = "full" THEN "contexts" ELSE "trigger"])
             /\ mlock' = Nil
    <2> DEFINE q == [h[p] EXCEPT !.pc = IF h[p].mode = "full" THEN "contexts" ELSE "trigger"]
    <2>1. h[p].trig = 0 /\ h[p].mode \in {"full", "sweep"}
      BY <1>1, <1>6 DEF Controlled, ProcRec, Mode
    <2>2. /\ q.todo = h[p].todo /\ q.cands = h[p].cands /\ q.probed = h[p].probed
          /\ q.stage = h[p].stage /\ q.trig = h[p].trig /\ q.mode = h[p].mode
          /\ q.pc \in {"contexts", "trigger"} /\ (q.pc = "trigger" => q.mode = "sweep")
      BY <1>1, <2>1 DEF ProcRec
    <2>3. q \in ProcRec /\ Step(p, q)
      BY <1>1, <1>6 DEF ProcRec, Place
    <2> HIDE DEF q
    <2>4. Controlled(q) /\ Read(q, auth, raced)
      BY <1>1, <2>1, <2>2 DEF Controlled, Read
    <2> QED
      BY <1>1, <1>2, <1>3, <1>6, <2>1, <2>2, <2>3, <2>4, RunStep, ProcFacts
  <1> QED
    BY <1>4, <1>5, <1>6 DEF StageDone

\* The trigger is loaded, or there is none, or another run sweeps.
LEMMA LoadTriggerInv ==
    ASSUME HealthInv, NEW p \in Health, LoadTrigger(p)
    PROVE  HealthInv'
  <1>1. /\ h[p] \in ProcRec /\ Controlled(h[p]) /\ Read(h[p], auth, raced)
        /\ h[p].pc = "trigger" /\ h[p].trig = 0 /\ h[p].mode = "sweep"
        /\ mlock # p /\ slock # p /\ \A r \in Health : r # Nil
    BY ProcFacts, Parts DEF LoadTrigger, Controlled
  <1>2. UNCHANGED <<auth, archive, manifest, receipts, raced, res, qlock, emitted, crashes, trigger, mlock>>
    BY DEF LoadTrigger, dirs, signals, others
  <1>3. trigger' \in Nat /\ trigger \in Nat
    BY <1>2 DEF HealthInv, PoolTypes
  <1>4. CASE Step(p, [h[p] EXCEPT !.pc = "passive"]) /\ UNCHANGED slock
    <2> DEFINE q == [h[p] EXCEPT !.pc = "passive"]
    <2>1. /\ q.todo = h[p].todo /\ q.cands = h[p].cands /\ q.probed = h[p].probed
          /\ q.stage = h[p].stage /\ q.trig = h[p].trig /\ q.mode = h[p].mode /\ q.pc = "passive"
      BY <1>1 DEF ProcRec
    <2>2. q \in ProcRec /\ Step(p, q)
      BY <1>1, <1>4 DEF ProcRec, Place
    <2> HIDE DEF q
    <2>3. Controlled(q) /\ Read(q, auth, raced)
      BY <1>1, <2>1 DEF Controlled, Read
    <2> QED
      BY <1>1, <1>2, <1>3, <1>4, <2>1, <2>2, <2>3, RunStep
  <1>5. CASE /\ trigger # 0 /\ slock = Nil /\ slock' = p
             /\ Step(p, [h[p] EXCEPT !.pc = "contexts", !.trig = trigger])
    <2> DEFINE q == [h[p] EXCEPT !.pc = "contexts", !.trig = trigger]
    <2>1. /\ q.todo = h[p].todo /\ q.cands = h[p].cands /\ q.probed = h[p].probed
          /\ q.stage = h[p].stage /\ q.trig = trigger /\ q.mode = h[p].mode /\ q.pc = "contexts"
      BY <1>1 DEF ProcRec
    <2>2. q \in ProcRec /\ Step(p, q)
      BY <1>1, <1>3, <1>5 DEF ProcRec, Place
    <2> HIDE DEF q
    <2>3. Controlled(q) /\ Read(q, auth, raced)
      BY <1>1, <2>1 DEF Controlled, Read
    <2> QED
      BY <1>1, <1>2, <1>3, <1>5, <2>1, <2>2, <2>3, RunStep
  <1>6. CASE Step(p, Idle) /\ UNCHANGED slock
    BY <1>1, <1>2, <1>3, <1>6, RunStep, IdleIs, NothingRead
  <1> QED
    BY <1>4, <1>5, <1>6 DEF LoadTrigger

\* A run without a trigger saves its summary and ends.
LEMMA PassiveInv ==
    ASSUME HealthInv, NEW p \in Health, Passive(p)
    PROVE  HealthInv'
  <1>1. h[p].pc = "passive" /\ h[p].trig = 0 /\ mlock # p /\ slock # p
    BY ProcFacts DEF Passive, Controlled
  <1> QED
    BY <1>1, RunStep, IdleIs, NothingRead
       DEF Passive, dirs, signals, locks, others, HealthInv, PoolTypes

\* The credentials are read for the probes.
LEMMA ContextsInv ==
    ASSUME HealthInv, NEW p \in Health, Contexts(p)
    PROVE  HealthInv'
  <1> DEFINE q == [h[p] EXCEPT !.probed = auth, !.pc = "digest"]
  <1>1. /\ h[p] \in ProcRec /\ Controlled(h[p]) /\ Read(h[p], auth, raced)
        /\ h[p].pc = "contexts" /\ mlock # p /\ auth \in [Name -> File]
    BY ProcFacts DEF Contexts, HealthInv, PoolTypes
  <1>2. /\ q.todo = h[p].todo /\ q.cands = h[p].cands /\ q.probed = auth /\ q.gate = h[p].gate
        /\ q.stage = h[p].stage /\ q.trig = h[p].trig /\ q.mode = h[p].mode /\ q.pc = "digest"
    BY <1>1 DEF ProcRec
  <1>3. q \in ProcRec /\ Step(p, q)
    BY <1>1 DEF ProcRec, Place, Contexts
  <1> HIDE DEF q
  <1>4. Controlled(q) /\ Read(q, auth, raced)
    BY <1>1, <1>2 DEF Controlled, Read
  <1> QED
    BY <1>1, <1>2, <1>3, <1>4, RunStep, ProcFacts
       DEF Contexts, dirs, signals, locks, others, HealthInv, PoolTypes

\* The answers are in: a candidate that is usable by now was rewritten since it
\* was read.
LEMMA ProbeInv ==
    ASSUME HealthInv, NEW p \in Health, NEW gate, NEW c \in Answers, Probe(p, gate, c)
    PROVE  HealthInv'
  <1>1. /\ h[p] \in ProcRec /\ Controlled(h[p]) /\ Read(h[p], auth, raced)
        /\ h[p].pc = "digest" /\ mlock # p /\ auth \in [Name -> File]
        /\ gate \in {"no_accounts", "reachable", "down"}
    BY ProcFacts DEF Probe, Gates, HealthInv, PoolTypes
  <1>2. UNCHANGED <<auth, archive, manifest, receipts, raced, res, qlock, emitted, crashes, trigger, mlock, slock>>
    BY DEF Probe, dirs, signals, locks, others
  <1>3. trigger' \in Nat
    BY <1>2 DEF HealthInv, PoolTypes
  <1>4. CASE h[p].mode = "check"
    <2>1. Step(p, Idle) /\ h[p].trig = 0
      BY <1>1, <1>4 DEF Probe, Controlled
    <2> QED
      BY <1>1, <1>2, <1>3, <2>1, RunStep, ProcFacts, IdleIs, NothingRead
  <1>5. CASE h[p].mode # "check"
    <2> DEFINE cands == IF gate = "reachable" THEN Candidates(h[p], c) ELSE {}
               q == [h[p] EXCEPT !.pc = "lock", !.stage = "runtime", !.gate = gate,
                                 !.probed = Idle.probed, !.cands = cands]
    <2>1. /\ cands \subseteq Item
          /\ \A i \in cands : i.sha \in Healthy => i.name \in raced
      <3>1. \A i \in cands : /\ i \in Item /\ i.name \in Name /\ i.sha = auth[i.name]
                             /\ h[p].probed[i.name] \in Dead
        BY <1>1 DEF Candidates, Records, Rejected, Present, Item, File
      <3> QED
        BY <3>1, <1>1, Unusable, CloudConstants DEF Read
    <2> HIDE DEF cands
    <2>2. /\ q.todo = h[p].todo /\ q.cands = cands /\ q.probed = Idle.probed /\ q.gate = gate
          /\ q.stage = "runtime" /\ q.trig = h[p].trig /\ q.mode = h[p].mode /\ q.pc = "lock"
      BY <1>1 DEF ProcRec
    <2>3. Step(p, q)
      BY <1>5 DEF Probe, cands
    <2>4. q \in ProcRec
      BY <1>1, <2>1, IdleIs DEF ProcRec, Place
    <2> HIDE DEF q
    <2>5. Controlled(q)
      BY <1>1, <1>5, <2>2 DEF Controlled
    <2>6. Read(q, auth, raced)
      BY <1>1, <2>1, <2>2, IdleIs DEF Read
    <2> QED
      BY <1>1, <1>2, <1>3, <2>2, <2>3, <2>4, <2>5, <2>6, RunStep, ProcFacts
  <1> QED
    BY <1>4, <1>5

\* The second pass is over.
LEMMA FinishInv ==
    ASSUME HealthInv, NEW p \in Health, Finish(p)
    PROVE  HealthInv'
  <1>1. trigger' \in Nat
    BY DEF Finish, HealthInv, PoolTypes
  <1> QED
    BY <1>1, EndInv DEF Finish, dirs, others

\* The quarantine of a file that has gone is rejected.
LEMMA MoveRejectedInv ==
    ASSUME HealthInv, NEW p \in Health, MoveRejected(p)
    PROVE  HealthInv'
  BY EndInv DEF MoveRejected, dirs, signals, others, HealthInv, PoolTypes

-----------------------------------------------------------------------------
(***************************************************************************)
(* The steps that rename a file.                                           *)
(***************************************************************************)

\* What comes under a name or into the archive is unusable, or the name was
\* rewritten before.
LEMMA UsableStep ==
    ASSUME HealthInv, raced \subseteq raced', receipts' \subseteq receipts,
           \A n \in Name : auth'[n] = auth[n] \/ auth'[n] \notin Healthy \/ n \in raced',
           \A a \in ArchName : archive'[a] = archive[a] \/ archive'[a] \notin Healthy \/ a[1] \in raced',
           \A p \in Health : h'[p] = h[p] \/ Read(h'[p], auth', raced'),
           res' # Nil => res' = res \/ (auth'[res'[1]] \in Healthy => res'[1] \in raced')
    PROVE  Usable'
  <1>1. \A p \in Health : Read(h'[p], auth', raced')
    <2> SUFFICES ASSUME NEW p \in Health, h'[p] = h[p] PROVE Read(h[p], auth', raced')
      OBVIOUS
    <2>1. /\ h[p] \in ProcRec /\ Controlled(h[p]) /\ Read(h[p], auth, raced)
      BY ProcFacts
    <2>2. /\ \A i \in h[p].todo : i.name \in Name
          /\ h[p].pc = "move" => h[p].cur.name \in Name
      BY <2>1, Parts DEF ProcRec, Controlled
    <2> QED
      BY <2>1, <2>2 DEF Read
  <1>2. res' # Nil /\ auth'[res'[1]] \in Healthy => res'[1] \in raced'
    <2>1. res # Nil => res[1] \in Name
      BY Parts DEF HealthInv, PoolTypes
    <2> QED
      BY <2>1 DEF HealthInv, Usable
  <1>3. \A a \in ArchName : archive'[a] \in Healthy => a[1] \in raced'
    BY DEF HealthInv, Usable, UsableArchivedOnlyByRace
  <1>4. \A r \in receipts' : r.sha \in Dead
    BY DEF HealthInv, Usable
  <1>5. \A p \in Health : Read(h[p], auth, raced)'
    BY <1>1 DEF Read
  <1> QED
    BY <1>2, <1>3, <1>4, <1>5 DEF Usable, UsableArchivedOnlyByRace

\* A file is renamed into the archive.
LEMMA MoveInv ==
    ASSUME HealthInv, NEW p \in Health, NEW a \in ArchName, Move(p, a)
    PROVE  HealthInv'
  <1> DEFINE n == h[p].cur.name
             q == [h[p] EXCEPT !.pc = "record", !.at = a]
  <1>1. /\ h[p] \in ProcRec /\ Controlled(h[p]) /\ Read(h[p], auth, raced)
        /\ h[p].pc = "move" /\ qlock = Nil /\ mlock = p /\ p # Nil /\ p # Operator
        /\ h[p].cur \in Item /\ n \in Name /\ a[1] = n /\ archive[a] = Absent /\ auth[n] # Absent
    BY ProcFacts, Parts DEF Move, Controlled, UniqueArchivePath
  <1>2. /\ q \in ProcRec /\ q.pc = "record" /\ q.at = a /\ q.cur = h[p].cur /\ q.todo = h[p].todo
        /\ q.cands = h[p].cands /\ q.probed = h[p].probed /\ q.stage = h[p].stage
        /\ q.trig = h[p].trig /\ q.gate = h[p].gate /\ q.mode = h[p].mode
    BY <1>1 DEF ProcRec, Place
  <1>3. Step(p, q)
    BY DEF Move
  <1>4. /\ archive' = [archive EXCEPT ![a] = auth[n]] /\ auth' = [auth EXCEPT ![n] = Absent] /\ qlock' = p
        /\ UNCHANGED <<manifest, receipts, trigger, emitted, mlock, slock, res, crashes, raced>>
    BY DEF Move, signals, others
  <1> HIDE DEF q
  <1>5. /\ h' \in [Health -> ProcRec] /\ h'[p] = q
        /\ \A r \in Health : r # p => h'[r] = h[r]
    BY <1>2, <1>3, StepFacts DEF HealthInv
  <1>6. \A r \in Health : h[r].pc # "record" /\ r # Nil
    BY <1>1, ProcFacts
  <1>7. res = Nil
    BY <1>1, Parts DEF HealthInv, LockDiscipline
  <1>8. /\ archive' \in [ArchName -> File] /\ auth' \in [Name -> File]
        /\ archive'[a] = auth[n] /\ \A b \in ArchName : b # a => archive'[b] = archive[b]
        /\ auth'[n] = Absent /\ \A m \in Name : m # n => auth'[m] = auth[m]
    BY <1>1, <1>4 DEF HealthInv, PoolTypes, File
  <1> HIDE DEF n
  <1>9. PoolTypes'
    BY <1>4, <1>5, <1>8 DEF HealthInv, PoolTypes
  <1>10. LockDiscipline'
    <2>1. \A r \in Health : h'[r].pc \in {"work", "move", "record"} <=> mlock' = r
      BY <1>1, <1>2, <1>4, <1>5 DEF HealthInv, LockDiscipline
    <2>2. \A r \in Health : h'[r].trig # 0 <=> slock' = r
      BY <1>2, <1>4, <1>5 DEF HealthInv, LockDiscipline
    <2>3. \A r \in Health : h'[r].pc = "record" <=> qlock' = r
      BY <1>2, <1>4, <1>5, <1>6
    <2> QED
      BY <2>1, <2>2, <2>3, <1>1, <1>4, <1>7 DEF LockDiscipline
  <1>11. \A r \in Health : Controlled(h'[r])
    BY <1>1, <1>2, <1>5 DEF HealthInv, Controlled, n
  <1>12. Renamed'
    BY <1>1, <1>2, <1>4, <1>5, <1>6, <1>7, <1>8 DEF Renamed
  <1>13. \A b \in ArchName : Recording(b)' <=> b = a
    BY <1>2, <1>5, <1>6 DEF Recording
  <1>14. Listed'
    <2>1. \A b \in ArchName : ~Recording(b)
      BY <1>6 DEF Recording
    <2>2. \A b \in ArchName : b # Nil
      BY Parts
    <2> QED
      BY <1>1, <1>4, <1>7, <1>8, <1>13, <2>1, <2>2 DEF HealthInv, Listed
  <1>15. Usable'
    <2>1. auth[n] \in Healthy => n \in raced
      BY <1>1 DEF Read, n
    <2>2. Read(q, auth', raced)
      BY <1>1, <1>2, <1>8, Unusable, Parts DEF Read, ProcRec
    <2> QED
      BY <1>1, <1>4, <1>5, <1>7, <1>8, <2>1, <2>2, UsableStep, Unusable
  <1>16. \A r \in Health : Controlled(h[r])'
    BY <1>11 DEF Controlled
  <1> QED
    BY <1>9, <1>10, <1>12, <1>14, <1>15, <1>16 DEF HealthInv

\* A run that is recording a move goes on or ends, having recorded the move,
\* taken it back or left it to the operator.
LEMMA RecorderStep ==
    ASSUME HealthInv, NEW p \in Health, h[p].pc = "record", NEW q \in ProcRec, Step(p, q),
           q.pc # "record", Controlled(q), Read(q, auth', raced'), qlock' = Nil,
           UNCHANGED <<raced, res, trigger, emitted>>, receipts' \subseteq receipts,
           auth' \in [Name -> File], archive' \in [ArchName -> File], manifest' \in [ArchName -> Nat],
           \A b \in ArchName : b # h[p].at => archive'[b] = archive[b] /\ manifest'[b] = manifest[b],
           archive'[h[p].at] \in {archive[h[p].at], Absent},
           \A n \in Name : auth'[n] = auth[n] \/ auth'[n] \notin Healthy \/ n \in raced,
           \/ crashes' = crashes + 1
           \/ crashes' = crashes /\ (manifest[h[p].at] = 0 =>
                    manifest'[h[p].at] = IF archive'[h[p].at] = Absent THEN 0 ELSE 1),
           q.pc \in {"work", "move"} <=> mlock' = p,
           \A r \in Health : r # p => (mlock' = r <=> mlock = r),
           q.trig # 0 <=> slock' = p,
           \A r \in Health : r # p => (slock' = r <=> slock = r)
    PROVE  HealthInv'
  <1>1. /\ h' \in [Health -> ProcRec] /\ h'[p] = q
        /\ \A r \in Health : r # p => h'[r] = h[r]
    BY StepFacts DEF HealthInv
  <1>2. crashes' \in Nat /\ (crashes' = 0 => crashes' = crashes)
    BY DEF HealthInv, PoolTypes
  <1>3. qlock = p /\ res = Nil /\ \A r \in Health : r # p => h[r].pc # "record"
    BY ProcFacts DEF HealthInv, LockDiscipline
  <1>4. PoolTypes'
    BY <1>1, <1>2 DEF HealthInv, PoolTypes
  <1>5. LockDiscipline'
    <2>1. \A r \in Health : h'[r].pc \in {"work", "move", "record"} <=> mlock' = r
      BY <1>1 DEF HealthInv, LockDiscipline
    <2>2. \A r \in Health : h'[r].trig # 0 <=> slock' = r
      BY <1>1 DEF HealthInv, LockDiscipline
    <2>3. \A r \in Health : h'[r].pc = "record" <=> qlock' = r
      BY <1>1, <1>3, Parts
    <2> QED
      BY <2>1, <2>2, <2>3, <1>3, Parts DEF LockDiscipline
  <1>6. \A r \in Health : Controlled(h[r])'
    <2> SUFFICES ASSUME NEW r \in Health PROVE Controlled(h'[r])
      BY DEF Controlled
    <2> QED
      BY <1>1 DEF HealthInv
  <1>7. Renamed'
    BY <1>1, <1>3 DEF Renamed
  <1>8. \A a \in ArchName : ~Recording(a)'
    BY <1>1, <1>3 DEF Recording
  <1>9. \A a \in ArchName : Recording(a) <=> a = h[p].at
    BY <1>3 DEF Recording
  <1>10. Listed'
    <2> SUFFICES ASSUME crashes' = 0, NEW a \in ArchName
                 PROVE  manifest'[a] = IF archive'[a] = Absent THEN 0 ELSE 1
      BY <1>8 DEF Listed
    <2>1. crashes = 0 /\ crashes' = crashes /\ crashes' # crashes + 1
      BY <1>2 DEF HealthInv, PoolTypes
    <2>2. CASE a = h[p].at
      BY <1>9, <2>1, <2>2 DEF HealthInv, Listed
    <2>3. CASE a # h[p].at
      <3>1. a # Nil
        BY Parts
      <3> QED
        BY <1>3, <1>9, <2>1, <2>3, <3>1 DEF HealthInv, Listed
    <2> QED
      BY <2>2, <2>3
  <1>11. Usable'
    <2>1. \A a \in ArchName : archive'[a] = archive[a] \/ archive'[a] \notin Healthy
      BY Unusable
    <2> QED
      BY <1>1, <1>3, <2>1, UsableStep
  <1> QED
    BY <1>4, <1>5, <1>6, <1>7, <1>10, <1>11 DEF HealthInv

\* The manifest entry is written.
LEMMA RecordInv ==
    ASSUME HealthInv, NEW p \in Health, Record(p)
    PROVE  HealthInv'
  <1> DEFINE q == [h[p] EXCEPT !.pc = "work", !.cur = Nil, !.at = Nil]
             a == h[p].at
  <1>1. /\ h[p] \in ProcRec /\ Controlled(h[p]) /\ Read(h[p], auth, raced)
        /\ h[p].pc = "record" /\ mlock = p /\ a \in ArchName /\ archive[a] # Absent
    BY ProcFacts DEF Record, Controlled, HealthInv, Renamed
  <1>2. /\ q \in ProcRec /\ q.pc = "work" /\ q.todo = h[p].todo
        /\ q.cands = h[p].cands /\ q.probed = h[p].probed /\ q.stage = h[p].stage
        /\ q.trig = h[p].trig /\ q.gate = h[p].gate /\ q.mode = h[p].mode
    BY <1>1 DEF ProcRec, Place
  <1>3. Step(p, q) /\ manifest' = [manifest EXCEPT ![a] = @ + 1] /\ receipts' \subseteq receipts /\ qlock' = Nil
    BY DEF Record
  <1>4. UNCHANGED <<auth, archive, trigger, emitted, mlock, slock, res, crashes, raced>>
    BY DEF Record, others
  <1>5. /\ manifest' \in [ArchName -> Nat] /\ manifest'[a] = manifest[a] + 1
        /\ \A b \in ArchName : b # a => manifest'[b] = manifest[b]
    BY <1>1, <1>3 DEF HealthInv, PoolTypes
  <1> HIDE DEF q
  <1>6. Controlled(q) /\ Read(q, auth, raced)
    BY <1>1, <1>2 DEF Controlled, Read
  <1>7. auth' \in [Name -> File] /\ archive' \in [ArchName -> File]
    BY <1>4 DEF HealthInv, PoolTypes
  <1>8. manifest[a] = 0 => manifest'[a] = IF archive'[a] = Absent THEN 0 ELSE 1
    BY <1>1, <1>4, <1>5
  <1> HIDE DEF a
  <1>9. h[p].trig # 0 <=> slock = p
    BY ProcFacts
  <1> QED
    BY <1>1, <1>2, <1>3, <1>4, <1>5, <1>6, <1>7, <1>8, <1>9, RecorderStep DEF a

\* The end of a run that was recording.
LEMMA RecorderEnds ==
    ASSUME HealthInv, NEW p \in Health, h[p].pc = "record", End(p),
           UNCHANGED <<manifest, receipts, raced, res, trigger, emitted>>,
           \/ /\ auth' = [auth EXCEPT ![h[p].cur.name] = archive[h[p].at]]
              /\ archive' = [archive EXCEPT ![h[p].at] = Absent]
              /\ crashes' = crashes
           \/ UNCHANGED <<auth, archive>> /\ crashes' = crashes + 1
    PROVE  HealthInv'
  <1> DEFINE a == h[p].at  n == h[p].cur.name
  <1>1. a \in ArchName /\ n \in Name /\ a[1] = n /\ qlock = p
    BY ProcFacts, Parts DEF Controlled
  <1>2. Step(p, Idle) /\ mlock' = Free(mlock, p) /\ slock' = Free(slock, p) /\ qlock' = Nil
    BY <1>1 DEF End, Free
  <1>3. \A r \in Health : r # Nil
    BY Parts
  <1>4. /\ mlock' # p /\ \A r \in Health : r # p => (mlock' = r <=> mlock = r)
    BY <1>2, <1>3, FreeLock
  <1>5. /\ slock' # p /\ \A r \in Health : r # p => (slock' = r <=> slock = r)
    BY <1>2, <1>3, FreeLock
  <1>6. /\ auth \in [Name -> File] /\ archive \in [ArchName -> File] /\ manifest \in [ArchName -> Nat]
    BY DEF HealthInv, PoolTypes
  <1>7. CASE UNCHANGED <<auth, archive>> /\ crashes' = crashes + 1
    BY <1>2, <1>4, <1>5, <1>6, <1>7, RecorderStep, IdleIs, NothingRead
  <1>8. CASE /\ auth' = [auth EXCEPT ![n] = archive[a]]
             /\ archive' = [archive EXCEPT ![a] = Absent] /\ crashes' = crashes
    <2>1. /\ auth' \in [Name -> File] /\ archive' \in [ArchName -> File]
          /\ auth'[n] = archive[a] /\ \A m \in Name : m # n => auth'[m] = auth[m]
          /\ archive'[a] = Absent /\ \A b \in ArchName : b # a => archive'[b] = archive[b]
      BY <1>1, <1>6, <1>8 DEF File
    <2>2. archive[a] \in Healthy => n \in raced
      BY <1>1 DEF HealthInv, Usable, UsableArchivedOnlyByRace
    <2>3. manifest' = manifest
      OBVIOUS
    <2> HIDE DEF a, n
    <2> QED
      BY <1>2, <1>4, <1>5, <1>6, <1>8, <2>1, <2>2, <2>3, RecorderStep, IdleIs, NothingRead DEF a
  <1> QED
    BY <1>7, <1>8

\* The manifest cannot be written and the file is renamed back.
LEMMA RecordFailsInv ==
    ASSUME HealthInv, NEW p \in Health, RecordFails(p)
    PROVE  HealthInv'
  BY RecorderEnds DEF RecordFails, signals, others

\* A run dies, recording or not.
LEMMA HealthDiesInv ==
    ASSUME HealthInv, NEW p \in Health, HealthDies(p)
    PROVE  HealthInv'
  <1>1. trigger' \in Nat
    BY DEF HealthDies, signals, HealthInv, PoolTypes
  <1>2. CASE h[p].pc = "record"
    BY <1>2, RecorderEnds DEF HealthDies, dirs, signals
  <1>3. CASE h[p].pc # "record"
    BY <1>1, <1>3, EndInv DEF HealthDies, dirs, signals
  <1> QED
    BY <1>2, <1>3

\* A restore, or a script's, renames while no run does.
LEMMA RestorerStep ==
    ASSUME HealthInv, UNCHANGED <<h, mlock, slock, trigger, emitted, receipts>>,
           raced \subseteq raced', raced' \subseteq Name, crashes' \in Nat,
           qlock \in {Nil, Operator}, qlock' \in {Nil, Operator}, qlock' = Operator <=> res' # Nil,
           res' \in ArchName \cup {Nil},
           auth' \in [Name -> File], archive' \in [ArchName -> File], manifest' \in [ArchName -> Nat],
           res' # Nil => archive'[res'] = Absent /\ manifest'[res'] = 1,
           crashes' = 0 => \A a \in ArchName :
               res' # a => manifest'[a] = IF archive'[a] = Absent THEN 0 ELSE 1,
           \A n \in Name : auth'[n] = auth[n] \/ auth'[n] \notin Healthy \/ n \in raced',
           \A a \in ArchName : archive'[a] = archive[a] \/ archive'[a] \notin Healthy \/ a[1] \in raced',
           res' # Nil => res' = res \/ (auth'[res'[1]] \in Healthy => res'[1] \in raced')
    PROVE  HealthInv'
  <1>1. \A p \in Health : h[p].pc # "record" /\ p # Nil /\ p # Operator
    BY ProcFacts
  <1>2. PoolTypes'
    BY DEF HealthInv, PoolTypes
  <1>3. LockDiscipline'
    BY <1>1 DEF HealthInv, LockDiscipline
  <1>4. \A p \in Health : Controlled(h[p])'
    BY DEF HealthInv, Controlled
  <1>5. Renamed'
    BY <1>1 DEF Renamed
  <1>6. Listed'
    BY <1>1 DEF Listed, Recording
  <1>7. Usable'
    BY UsableStep
  <1> QED
    BY <1>2, <1>3, <1>4, <1>5, <1>6, <1>7 DEF HealthInv

\* Archive and manifest agree about every name that is not being restored when
\* no run is recording.
LEMMA QuietListed ==
    ASSUME HealthInv, qlock \in {Nil, Operator}, crashes = 0, NEW a \in ArchName, res # a
    PROVE  manifest[a] = IF archive[a] = Absent THEN 0 ELSE 1
  BY ProcFacts DEF HealthInv, Listed, Recording

\* The restore renames the file back.
LEMMA RestoreMoveInv ==
    ASSUME HealthInv, NEW a \in ArchName, RestoreMove(a)
    PROVE  HealthInv'
  <1>1. /\ res = Nil /\ qlock = Nil /\ manifest[a] = 1 /\ archive[a] # Absent /\ a # Nil /\ a[1] \in Name
        /\ qlock' = Operator /\ res' = a /\ Nil # Operator
        /\ UNCHANGED <<manifest, receipts, trigger, emitted, mlock, slock, h, crashes, raced>>
    BY Parts DEF RestoreMove, signals
  <1>2. auth' = [auth EXCEPT ![a[1]] = archive[a]] /\ archive' = [archive EXCEPT ![a] = Absent]
    BY DEF RestoreMove
  <1>3. PoolTypes
    BY DEF HealthInv
  <1>4. /\ auth' \in [Name -> File] /\ archive' \in [ArchName -> File] /\ manifest' \in [ArchName -> Nat]
        /\ auth'[a[1]] = archive[a] /\ \A m \in Name : m # a[1] => auth'[m] = auth[m]
        /\ archive'[a] = Absent /\ \A b \in ArchName : b # a => archive'[b] = archive[b]
        /\ crashes \in Nat /\ raced \subseteq Name
    BY <1>1, <1>2, <1>3 DEF PoolTypes, File
  <1>5. archive[a] \in Healthy => a[1] \in raced
    BY DEF HealthInv, Usable, UsableArchivedOnlyByRace
  <1>6. crashes' = 0 => \A b \in ArchName :
            res' # b => manifest'[b] = IF archive'[b] = Absent THEN 0 ELSE 1
    BY <1>1, <1>4, QuietListed, Parts
  <1> QED
    BY <1>1, <1>4, <1>5, <1>6, RestorerStep, Unusable

\* The restore ends: its entry is dropped, its file goes back, or it dies.
LEMMA RestoreEndInv ==
    ASSUME HealthInv, RestoreRecord \/ RestoreFails \/ RestoreDies
    PROVE  HealthInv'
  <1>1. /\ res # Nil /\ qlock' = Nil /\ res' = Nil /\ Nil # Operator
        /\ UNCHANGED <<receipts, trigger, emitted, mlock, slock, h, raced>>
    BY Parts DEF RestoreRecord, RestoreFails, RestoreDies, signals
  <1>2. /\ res \in ArchName /\ res[1] \in Name /\ qlock = Operator
        /\ archive[res] = Absent /\ manifest[res] = 1
    BY <1>1, Parts DEF HealthInv, PoolTypes, LockDiscipline, Renamed
  <1>3. /\ auth \in [Name -> File] /\ archive \in [ArchName -> File] /\ manifest \in [ArchName -> Nat]
        /\ crashes \in Nat /\ raced \subseteq Name
    BY DEF HealthInv, PoolTypes
  <1>4. CASE RestoreRecord
    <2>1. manifest' = [manifest EXCEPT ![res] = @ - 1] /\ UNCHANGED <<auth, archive, crashes>>
      BY <1>4 DEF RestoreRecord
    <2>2. /\ manifest' \in [ArchName -> Nat] /\ manifest'[res] = 0
          /\ \A b \in ArchName : b # res => manifest'[b] = manifest[b]
      BY <1>2, <1>3, <2>1
    <2>3. crashes' = 0 => \A b \in ArchName : manifest'[b] = IF archive'[b] = Absent THEN 0 ELSE 1
      BY <1>2, <2>1, <2>2, QuietListed
    <2> QED
      BY <1>1, <1>2, <1>3, <2>1, <2>2, <2>3, RestorerStep
  <1>5. CASE RestoreFails
    <2>1. /\ archive' = [archive EXCEPT ![res] = auth[res[1]]] /\ auth' = [auth EXCEPT ![res[1]] = Absent]
          /\ crashes' = IF auth[res[1]] = Absent THEN crashes + 1 ELSE crashes
          /\ UNCHANGED manifest
      BY <1>5 DEF RestoreFails
    <2>2. /\ auth' \in [Name -> File] /\ archive' \in [ArchName -> File]
          /\ auth'[res[1]] = Absent /\ \A m \in Name : m # res[1] => auth'[m] = auth[m]
          /\ archive'[res] = auth[res[1]] /\ \A b \in ArchName : b # res => archive'[b] = archive[b]
      BY <1>2, <1>3, <2>1 DEF File
    <2>3. crashes' \in Nat /\ (crashes' = 0 => crashes = 0 /\ auth[res[1]] # Absent)
      BY <1>3, <2>1
    <2>4. crashes' = 0 => \A b \in ArchName : manifest'[b] = IF archive'[b] = Absent THEN 0 ELSE 1
      BY <1>2, <2>1, <2>2, <2>3, QuietListed
    <2>5. auth[res[1]] \in Healthy => res[1] \in raced
      BY <1>1 DEF HealthInv, Usable
    <2>6. manifest' \in [ArchName -> Nat]
      BY <1>3, <2>1
    <2> QED
      BY <1>1, <1>2, <1>3, <2>2, <2>3, <2>4, <2>5, <2>6, RestorerStep, Unusable
  <1>6. CASE RestoreDies
    <2>1. crashes' = crashes + 1 /\ UNCHANGED <<auth, archive, manifest>>
      BY <1>6 DEF RestoreDies, dirs
    <2>2. crashes' \in Nat /\ crashes' # 0
      BY <1>3, <2>1
    <2> QED
      BY <1>1, <1>2, <1>3, <2>1, <2>2, RestorerStep
  <1> QED
    BY <1>4, <1>5, <1>6

-----------------------------------------------------------------------------
(***************************************************************************)
(* Writers, and the steps of the pool's processes together.                *)
(***************************************************************************)

\* A write under a name somebody goes by is noted.
LEMMA WriteFacts ==
    ASSUME HealthInv, NEW n \in Name, NEW f \in File, Write(n, f)
    PROVE  /\ auth' \in [Name -> File] /\ auth'[n] = f /\ \A m \in Name : m # n => auth'[m] = auth[m]
           /\ raced \subseteq raced' /\ raced' \subseteq Name
           /\ \A m \in Name : auth'[m] = auth[m] \/ m \in raced' \/ ~InFlight(m)
  <1>1. auth \in [Name -> File] /\ raced \subseteq Name
    BY DEF HealthInv, PoolTypes
  <1>2. auth' = [auth EXCEPT ![n] = f] /\ raced' = IF InFlight(n) THEN raced \cup {n} ELSE raced
    BY DEF Write
  <1> QED
    BY <1>1, <1>2

\* One name is rewritten and nothing else.
LEMMA WriteInv ==
    ASSUME HealthInv, NEW n \in Name, NEW f \in File, Write(n, f),
           UNCHANGED <<archive, manifest, receipts, trigger, emitted, mlock, slock, qlock, h, res, crashes>>
    PROVE  HealthInv'
  <1>1. /\ receipts \subseteq Item /\ (\A r \in receipts : r.sha \in Dead)
        /\ trigger \in Nat /\ emitted \in Nat
    BY DEF HealthInv, PoolTypes, Usable
  <1> QED
    BY <1>1, WriteFacts, WriterStep

\* The pool is left alone.
LEMMA SignalsInv ==
    ASSUME HealthInv, UNCHANGED <<auth, archive, manifest, mlock, slock, qlock, h, res, raced>>,
           receipts' \subseteq Item, \A r \in receipts' : r.sha \in Dead,
           trigger' \in Nat, emitted' \in Nat, crashes' \in {crashes, crashes + 1}
    PROVE  HealthInv'
  <1>1. auth' \in [Name -> File] /\ raced' \subseteq Name
    BY DEF HealthInv, PoolTypes
  <1> QED
    BY <1>1, WriterStep

\* Nothing of the pool changes, but for a process that dies.
LEMMA UntouchedInv ==
    ASSUME HealthInv, UNCHANGED <<auth, archive, manifest, receipts, trigger, emitted, mlock, slock,
                                  qlock, h, res, raced>>,
           crashes' \in {crashes, crashes + 1}
    PROVE  HealthInv'
  <1>1. /\ receipts \subseteq Item /\ (\A r \in receipts : r.sha \in Dead)
        /\ trigger \in Nat /\ emitted \in Nat
    BY DEF HealthInv, PoolTypes, Usable
  <1> QED
    BY <1>1, SignalsInv

\* The gateway refreshes, reports a failure or asks for a sweep.
LEMMA GatewayInv ==
    ASSUME HealthInv, Gateway
    PROVE  HealthInv'
  <1>1. /\ auth \in [Name -> File] /\ receipts \subseteq Item /\ (\A r \in receipts : r.sha \in Dead)
        /\ trigger \in Nat /\ emitted \in Nat
    BY DEF HealthInv, PoolTypes, Usable
  <1>2. ASSUME NEW n \in Name, NEW c \in Content, GatewayRefresh(n, c) PROVE HealthInv'
    BY <1>2, WriteInv DEF GatewayRefresh, signals, locks, File
  <1>3. ASSUME NEW n \in Name, GatewayReceipt(n) PROVE HealthInv'
    <2>1. [name |-> n, sha |-> auth[n]] \in Item
      BY <1>3, CloudConstants DEF GatewayReceipt, Item
    <2>2. receipts' \subseteq Item /\ \A r \in receipts' : r.sha \in Dead
      BY <1>1, <1>3, <2>1 DEF GatewayReceipt
    <2> QED
      BY <1>1, <1>3, <2>2, SignalsInv DEF GatewayReceipt, dirs, locks, others
  <1>4. CASE GatewayTrigger
    <2>1. emitted' \in Nat /\ trigger' \in Nat
      BY <1>1, <1>4 DEF GatewayTrigger
    <2> QED
      BY <1>1, <1>4, <2>1, SignalsInv DEF GatewayTrigger, dirs, locks, others
  <1>5. CASE TriggerAges
    BY <1>5, UntouchedInv DEF TriggerAges, dirs, locks, others
  <1> QED
    BY <1>2, <1>3, <1>4, <1>5 DEF Gateway

\* The importer plans, writes, takes back or dies.
LEMMA ImportStepInv ==
    ASSUME HealthInv, ImportInv, Import
    PROVE  HealthInv'
  <1>1. ASSUME NEW b \in Batch, NEW force \in BOOLEAN, ImportPlan(b, force) PROVE HealthInv'
    BY <1>1, UntouchedInv DEF ImportPlan, dirs, signals, locks
  <1>2. ASSUME NEW w \in imp.plan PROVE w.name \in Name /\ w.new \in File /\ w.old \in File
    BY <1>2 DEF ImportInv, Target, File
  <1>3. ASSUME NEW w \in imp.plan, ImportWrite(w) PROVE HealthInv'
    BY <1>2, <1>3, WriteInv DEF ImportWrite, signals, locks
  <1>4. ASSUME NEW w \in imp.plan, ImportUndo(w) PROVE HealthInv'
    <2>1. CASE Write(w.name, w.old)
      BY <1>2, <1>4, <2>1, WriteInv DEF ImportUndo, signals, locks
    <2>2. CASE UNCHANGED <<auth, raced>>
      BY <1>4, <2>2, UntouchedInv DEF ImportUndo, signals, locks
    <2> QED
      BY <1>4, <2>1, <2>2 DEF ImportUndo
  <1>5. CASE ImportDone \/ ImportFails \/ ImportRejected \/ ImportDies
    BY <1>5, UntouchedInv DEF ImportDone, ImportFails, ImportRejected, ImportDies, dirs, signals, locks
  <1> QED
    BY <1>1, <1>3, <1>4, <1>5 DEF Import

\* A run's step.
LEMMA RunInv ==
    ASSUME HealthInv, NEW p \in Health, Run(p)
    PROVE  HealthInv'
  BY StartInv, LockInv, TakeInv, MoveInv, MoveRejectedInv, RecordInv, StageDoneInv, LoadTriggerInv,
     PassiveInv, ContextsInv, ProbeInv, FinishInv, RecordFailsInv, HealthDiesInv
     DEF Run, Work

\* Every step of the pool's processes keeps the invariant.
LEMMA HealthNextInv ==
    ASSUME HealthInv, ImportInv, Next
    PROVE  HealthInv'
  BY GatewayInv, ImportStepInv, RunInv, RestoreMoveInv, RestoreEndInv DEF Next, Restore

\* Only the importer's own steps change its plan, and a write counts.
LEMMA ImportNextInv ==
    ASSUME HealthInv, ImportInv, Next
    PROVE  ImportInv'
  <1>1. auth \in [Name -> File]
    BY DEF HealthInv, PoolTypes
  <1>2. ASSUME NEW b \in Batch, NEW force \in BOOLEAN, ImportPlan(b, force) PROVE ImportInv'
    <2>1. PICK N \in SUBSET Name : b \in [N -> Content]
      BY DEF Batch
    <2>2. {[name |-> n, new |-> b[n], old |-> auth[n]] : n \in {m \in DOMAIN b : auth[m] # b[m]}}
            \subseteq Target
      BY <1>1, <2>1 DEF Target
    <2> QED
      BY <1>2, <2>2 DEF ImportPlan, ImportInv
  <1>3. ASSUME NEW w \in imp.plan, ImportWrite(w) PROVE ImportInv'
    <2>1. /\ writes \in Nat /\ writes' = writes + 1 /\ w \in Target
          /\ imp' = [imp EXCEPT !.done = @ \cup {w}]
      BY <1>3 DEF ImportWrite, ImportInv
    <2>2. writes' \in Nat /\ writes' # 0
      BY <2>1
    <2>3. imp' \in [pc : {"idle", "write", "undo"}, plan : SUBSET Target, done : SUBSET Target]
      BY <2>1 DEF ImportInv
    <2> QED
      BY <2>2, <2>3 DEF ImportInv
  <1>4. ASSUME NEW w \in imp.plan, ImportUndo(w) PROVE ImportInv'
    BY <1>4 DEF ImportUndo, ImportInv
  <1>5. CASE ImportDone \/ ImportFails \/ ImportRejected \/ ImportDies
    <2>1. imp' \in [pc : {"idle", "write", "undo"}, plan : SUBSET Target, done : SUBSET Target] /\ writes' = writes
      BY <1>5 DEF ImportDone, ImportFails, ImportRejected, ImportDies, ImportInv
    <2>2. imp'.done \in {imp.done, {}}
      BY <1>5 DEF ImportDone, ImportFails, ImportRejected, ImportDies, ImportInv
    <2> QED
      BY <2>1, <2>2 DEF ImportInv
  <1>6. ASSUME imp' = imp, writes' \in {writes, writes + 1} PROVE ImportInv'
    <2>1. writes' \in Nat /\ (writes' = 0 => writes = 0)
      BY <1>6 DEF ImportInv
    <2> QED
      BY <1>6, <2>1 DEF ImportInv
  <1>7. CASE Gateway
    BY <1>6, <1>7 DEF Gateway, GatewayRefresh, GatewayReceipt, GatewayTrigger, TriggerAges, others
  <1>8. CASE Restore
    BY <1>6, <1>8 DEF Restore, RestoreMove, RestoreRecord, RestoreFails, RestoreDies
  <1>9. ASSUME NEW p \in Health, Run(p) PROVE ImportInv'
    BY <1>6, <1>9 DEF Run, Work, Start, Lock, Take, Move, MoveRejected, Record, StageDone, LoadTrigger,
                      Passive, Contexts, Probe, Finish, RecordFails, HealthDies, others
  <1> QED
    BY <1>2, <1>3, <1>4, <1>5, <1>7, <1>8, <1>9 DEF Next, Import

-----------------------------------------------------------------------------
(***************************************************************************)
(* The pool's processes alone: CpaHealth's specification.                  *)
(***************************************************************************)

\* Nobody has planned anything at first.
LEMMA ImportInitInv == Init => ImportInv
  BY DEF Init, ImportInv

\* A step that changes nothing keeps the invariant.
LEMMA HealthStutterInv ==
    ASSUME HealthInv, ImportInv, UNCHANGED vars
    PROVE  HealthInv' /\ ImportInv'
  <1>1. HealthInv'
    BY UntouchedInv DEF vars
  <1> QED
    BY <1>1 DEF vars, ImportInv

\* Archive and manifest agree whenever nobody is between a rename and its
\* manifest write and nobody has died there.
LEMMA InvRestorable == HealthInv => Restorable
  <1> SUFFICES ASSUME HealthInv, crashes = 0, qlock = Nil, NEW a \in ArchName, archive[a] # Absent
               PROVE  manifest[a] = 1
    BY DEF Restorable
  <1>1. res # a
    BY Parts DEF HealthInv, LockDiscipline
  <1> QED
    BY <1>1, QuietListed

\* The pool's processes keep archive, manifest and locks in step, however many
\* health runs there are (CpaHealth's specification implies its invariant).
THEOREM HealthInvariance == Spec => []HealthInv
  <1>1. Init => HealthInv /\ ImportInv
    BY HealthInitInv, ImportInitInv
  <1>2. HealthInv /\ ImportInv /\ [Next]_vars => (HealthInv /\ ImportInv)'
    BY HealthNextInv, ImportNextInv, HealthStutterInv
  <1> QED
    BY <1>1, <1>2, PTL DEF Spec

\* monitor.lock is held exactly by the run that archives, sweep.lock by the one
\* sweep that probes, .quarantine.lock by whoever is between a rename and its
\* manifest write.
THEOREM LocksOrder == Spec => []LockDiscipline
  <1>1. HealthInv => LockDiscipline
    BY DEF HealthInv
  <1> QED
    BY <1>1, HealthInvariance, PTL

\* Every archived file can be selected by cpa-health-restore.
THEOREM ArchivedRestorable == Spec => []Restorable
  BY HealthInvariance, InvRestorable, PTL

\* A usable credential is only archived under a name rewritten under a run.
THEOREM ArchivedByRaceOnly == Spec => []UsableArchivedOnlyByRace
  <1>1. HealthInv => UsableArchivedOnlyByRace
    BY DEF HealthInv, Usable
  <1> QED
    BY <1>1, HealthInvariance, PTL

\* What removes the trigger is the end of the sweep that loaded it.
LEMMA TriggerStep ==
    ASSUME HealthInv, Next, trigger # 0, trigger' = 0
    PROVE  Swept
  <1>1. trigger' # trigger
    OBVIOUS
  <1>2. CASE Gateway
    <2>1. ~GatewayTrigger
      <3>1. emitted \in Nat
        BY DEF HealthInv, PoolTypes
      <3> QED
        BY <3>1 DEF GatewayTrigger
    <2> QED
      BY <1>1, <1>2, <2>1 DEF Gateway, GatewayRefresh, GatewayReceipt, TriggerAges, signals
  <1>3. ~Import
    BY <1>1 DEF Import, ImportPlan, ImportWrite, ImportUndo, ImportDone, ImportFails, ImportRejected,
                ImportDies, signals
  <1>4. ~Restore
    BY <1>1 DEF Restore, RestoreMove, RestoreRecord, RestoreFails, RestoreDies, signals
  <1>5. ASSUME NEW p \in Health, Run(p) PROVE Finish(p)
    BY <1>1, <1>5 DEF Run, Work, Start, Lock, Take, Move, MoveRejected, Record, StageDone, LoadTrigger,
                      Passive, Contexts, Probe, RecordFails, HealthDies, signals
  <1>6. ASSUME NEW p \in Health, Finish(p)
        PROVE  h[p].trig = trigger /\ slock = p /\ h[p].gate \in {"reachable", "no_accounts"}
    <2>1. Consumes(h[p])
      BY <1>1, <1>6 DEF Finish
    <2> QED
      BY <2>1, ProcFacts DEF Consumes
  <1> QED
    BY <1>2, <1>3, <1>4, <1>5, <1>6 DEF Next, Swept

\* A trigger is removed only by the sweep that loaded that very trigger, holds
\* sweep.lock and reached the provider.
THEOREM TriggersConsumed == Spec => TriggerConsumedBySweep
  <1>1. HealthInv /\ [Next]_vars =>
            [trigger # 0 /\ trigger' = 0 => Swept]_vars
    BY TriggerStep
  <1> QED
    BY <1>1, HealthInvariance, PTL DEF Spec, TriggerConsumedBySweep

-----------------------------------------------------------------------------
(***************************************************************************)
(* The transactions beside them. First what they do to the pool.           *)
(***************************************************************************)

\* The files a transaction adds.
LEMMA OwnFacts == OwnName \subseteq Name /\ OwnName # {} /\ \A n \in OwnName : Own[n] \in Content
  BY TransactionConstants DEF OwnName

\* A transaction starts with nothing recorded.
LEMMA TxnInitInv == TxnInit => PoolInv
  <1> SUFFICES ASSUME TxnInit PROVE PoolInv
    OBVIOUS
  <1>1. PICK k \in Kinds :
            t = [kind |-> k, pc |-> "ready", phase |-> "none", base |-> Empty,
                 listed |-> [a \in ArchName |-> 0], batch |-> {}, names |-> {},
                 left |-> {}, ok |-> FALSE, manual |-> FALSE]
    BY DEF TxnInit
  <1>2. Empty \in [Name -> File] /\ PresentIn(Empty) = {}
    BY DEF Empty, PresentIn, File
  <1>3. TxnTypes
    BY <1>1, <1>2, TransactionConstants DEF TxnInit, TxnTypes, TxnRec, TxnPlace, TxnPhase
  <1>4. AcceptInv /\ PromoteInv /\ OriginalKept
    BY <1>1, <1>2 DEF AcceptInv, PromoteInv, OriginalKept, ImportLocked, AcceptPlace
  <1>5. HealthInv /\ ImportInv
    BY HealthInitInv, ImportInitInv DEF TxnInit
  <1> QED
    BY <1>3, <1>4, <1>5 DEF PoolInv, TxnInv

\* Several names are rewritten at once, and noted.
LEMMA BulkInv ==
    ASSUME HealthInv, NEW S \in SUBSET Name, NEW F, \A n \in S : F[n] \in File,
           auth' = [n \in Name |-> IF n \in S THEN F[n] ELSE auth[n]],
           raced \subseteq raced', raced' \subseteq Name,
           \A n \in S : F[n] = Absent \/ n \in raced' \/ ~InFlight(n),
           UNCHANGED <<archive, manifest, emitted, mlock, slock, qlock, h, res, crashes>>,
           receipts' \subseteq receipts, trigger' \in Nat
    PROVE  HealthInv'
  <1>1. auth \in [Name -> File] /\ emitted \in Nat
    BY DEF HealthInv, PoolTypes
  <1>2. receipts' \subseteq Item /\ \A r \in receipts' : r.sha \in Dead
    BY DEF HealthInv, PoolTypes, Usable
  <1>3. auth' \in [Name -> File]
    BY <1>1
  <1>4. \A n \in Name : \/ auth'[n] = auth[n] \/ auth'[n] \notin Healthy
                        \/ n \in raced' \/ ~InFlight(n)
    BY Unusable
  <1> QED
    BY <1>1, <1>2, <1>3, <1>4, WriterStep

\* A script restores an archived file, or gives up.
LEMMA RestoresArchivedInv ==
    ASSUME HealthInv, NEW a \in ArchName, RestoresArchived(a)
    PROVE  HealthInv'
  <1>1. /\ qlock = Nil /\ a[1] \in Name /\ a # Nil
        /\ UNCHANGED <<receipts, trigger, emitted, mlock, slock, qlock, h, res, crashes>>
    BY Parts DEF RestoresArchived, signals, locks
  <1>2. /\ archive \in [ArchName -> File] /\ manifest \in [ArchName -> Nat] /\ crashes \in Nat
        /\ res = Nil /\ Nil # Operator
    BY <1>1, Parts DEF HealthInv, PoolTypes, LockDiscipline
  <1>3. CASE UNCHANGED <<auth, archive, manifest, raced>>
    BY <1>1, <1>3, UntouchedInv
  <1>4. CASE /\ manifest[a] = 1 /\ archive[a] # Absent
             /\ Write(a[1], archive[a])
             /\ archive' = [archive EXCEPT ![a] = Absent]
             /\ manifest' = [manifest EXCEPT ![a] = 0]
    <2>1. /\ archive' \in [ArchName -> File] /\ manifest' \in [ArchName -> Nat]
          /\ archive'[a] = Absent /\ \A b \in ArchName : b # a => archive'[b] = archive[b]
          /\ manifest'[a] = 0 /\ \A b \in ArchName : b # a => manifest'[b] = manifest[b]
      BY <1>2, <1>4 DEF File
    <2>2. archive[a] \in File
      BY <1>2
    <2>3. /\ auth' \in [Name -> File] /\ auth'[a[1]] = archive[a]
          /\ \A m \in Name : m # a[1] => auth'[m] = auth[m]
          /\ raced \subseteq raced' /\ raced' \subseteq Name
      BY <1>1, <1>4, <2>2, WriteFacts
    <2>4. archive[a] \in Healthy => a[1] \in raced
      BY DEF HealthInv, Usable, UsableArchivedOnlyByRace
    <2>5. crashes' = 0 => \A b \in ArchName : manifest'[b] = IF archive'[b] = Absent THEN 0 ELSE 1
      <3> SUFFICES ASSUME crashes = 0, NEW b \in ArchName, b # a
                   PROVE  manifest[b] = IF archive[b] = Absent THEN 0 ELSE 1
        BY <1>1, <2>1
      <3>1. res # b
        BY <1>2, Parts
      <3> QED
        BY <1>1, <3>1, QuietListed
    <2> QED
      BY <1>1, <1>2, <2>1, <2>3, <2>4, <2>5, RestorerStep, Unusable
  <1> QED
    BY <1>3, <1>4 DEF RestoresArchived

\* A baseline file comes back, or is there.
LEMMA PutBackInv ==
    ASSUME HealthInv, TxnTypes, NEW n \in Name, UNCHANGED pool,
           PutBack(n) \/ UNCHANGED <<auth, raced, hold>>
    PROVE  HealthInv'
  <1>1. Source(n) \in File
    BY DEF TxnTypes, Source
  <1>2. CASE UNCHANGED <<auth, raced>>
    BY <1>2, UntouchedInv DEF pool, signals, locks
  <1>3. CASE Write(n, Source(n))
    BY <1>1, <1>3, WriteInv DEF pool, signals, locks
  <1> QED
    BY <1>2, <1>3 DEF PutBack

\* The named files leave the pool.
LEMMA TakeOutInv ==
    ASSUME HealthInv, TxnTypes, TakeOut, UNCHANGED pool
    PROVE  HealthInv'
  <1>1. /\ t.names \in SUBSET Name
        /\ UNCHANGED <<archive, manifest, receipts, trigger, emitted, mlock, slock, qlock, h, res, crashes>>
    BY DEF pool, signals, locks, TxnTypes, TxnRec
  <1>2. /\ auth' = [n \in Name |-> IF n \in t.names THEN Empty[n] ELSE auth[n]]
        /\ \A n \in t.names : Empty[n] = Absent /\ Empty[n] \in File
        /\ raced' = raced \cup {n \in t.names \cap Present : InFlight(n)}
    BY <1>1 DEF TakeOut, Empty, File
  <1>3. raced \subseteq raced' /\ raced' \subseteq Name /\ trigger' \in Nat
    BY <1>1, <1>2 DEF HealthInv, PoolTypes
  <1> QED
    BY <1>1, <1>2, <1>3, BulkInv

\* The steps of an acceptance.
LEMMA AcceptHealthInv ==
    ASSUME HealthInv, TxnTypes, AcceptInv, Accept
    PROVE  HealthInv'
  <1>1. CASE \/ AcceptPreflight \/ IsolatedSweeps \/ Aggregate \/ AcceptFails \/ RecoverAcceptance
             \/ ActiveAnswers \/ VerifyAcceptance \/ IdleAcceptance
    <2>1. UNCHANGED vars
      BY <1>1 DEF AcceptPreflight, IsolatedSweeps, Aggregate, AcceptFails, RecoverAcceptance,
                  ActiveAnswers, Asks, VerifyAcceptance, IdleAcceptance
    <2> QED
      BY <2>1, UntouchedInv DEF vars
  <1>2. CASE HoldActive
    <2>1. PICK n \in Name : Write(n, Absent)
      BY <1>2 DEF HoldActive, PresentIn
    <2> QED
      BY <1>2, <2>1, WriteInv DEF HoldActive, pool, signals, locks, File
  <1>3. ASSUME NEW n \in Name, StageCanary(n) PROVE HealthInv'
    <2>1. n \in OwnName
      BY <1>3 DEF StageCanary, AcceptInv
    <2> QED
      BY <1>3, <2>1, OwnFacts, WriteInv DEF StageCanary, pool, signals, locks, File
  <1>4. ASSUME NEW n \in Name, Reactivate(n) PROVE HealthInv'
    <2>1. hold[n] \in File
      BY DEF TxnTypes
    <2>2. CASE UNCHANGED <<auth, raced>>
      BY <1>4, <2>2, UntouchedInv DEF Reactivate, pool, signals, locks
    <2>3. CASE Write(n, hold[n])
      BY <1>4, <2>1, <2>3, WriteInv DEF Reactivate, pool, signals, locks
    <2> QED
      BY <1>4, <2>2, <2>3 DEF Reactivate
  <1>5. CASE RemoveCanaries
    BY <1>5, TakeOutInv DEF RemoveCanaries
  <1>6. CASE ClearCanarySignals
    <2>1. /\ receipts' \subseteq Item /\ (\A r \in receipts' : r.sha \in Dead) /\ trigger' \in Nat
          /\ emitted' \in Nat
      BY <1>6 DEF ClearCanarySignals, ClearSignals, HealthInv, PoolTypes, Usable
    <2> QED
      BY <1>6, <2>1, SignalsInv DEF ClearCanarySignals, ClearSignals, dirs, locks, others
  <1>7. ASSUME NEW a \in ArchName, RestoreCanary(a) PROVE HealthInv'
    BY <1>7, RestoresArchivedInv DEF RestoreCanary
  <1> QED
    BY <1>1, <1>2, <1>3, <1>4, <1>5, <1>6, <1>7 DEF Accept

\* The steps of a promotion.
LEMMA PromoteHealthInv ==
    ASSUME HealthInv, TxnTypes, Promote
    PROVE  HealthInv'
  <1>1. CASE \/ PromotePreflight \/ CopyBaseline \/ Validate \/ Cohort \/ Unheld \/ AcceptPromotion
             \/ PromoteFails \/ RecoverPromotion \/ Rebased \/ BaselineBehaves \/ VerifyRollback
    <2>1. UNCHANGED vars
      BY <1>1 DEF PromotePreflight, CopyBaseline, Validate, Cohort, Unheld, AcceptPromotion,
                  PromoteFails, RecoverPromotion, Rebased, BaselineBehaves, Asks, VerifyRollback
    <2> QED
      BY <2>1, UntouchedInv DEF vars
  <1>2. ASSUME NEW n \in Name, HoldBaseline(n) PROVE HealthInv'
    BY <1>2, WriteInv DEF HoldBaseline, pool, signals, locks, File
  <1>3. ASSUME NEW n \in Name, Unhold(n) \/ Rebase(n) PROVE HealthInv'
    BY <1>3, PutBackInv DEF Unhold, Rebase
  <1>4. CASE RemovePromoted
    <2>1. CASE TakeOut
      BY <1>4, <2>1, TakeOutInv DEF RemovePromoted
    <2>2. CASE UNCHANGED <<auth, raced>>
      BY <1>4, <2>2, UntouchedInv DEF RemovePromoted, pool, signals, locks
    <2> QED
      BY <1>4, <2>1, <2>2 DEF RemovePromoted
  <1>5. CASE ClearPromotedSignals
    <2>1. /\ receipts' \subseteq Item /\ (\A r \in receipts' : r.sha \in Dead) /\ trigger' \in Nat
          /\ emitted' \in Nat
      BY <1>5 DEF ClearPromotedSignals, ClearSignals, HealthInv, PoolTypes, Usable
    <2> QED
      BY <1>5, <2>1, SignalsInv DEF ClearPromotedSignals, ClearSignals, dirs, locks, others
  <1>6. ASSUME NEW a \in ArchName, RestorePromoted(a) PROVE HealthInv'
    BY <1>6, RestoresArchivedInv DEF RestorePromoted
  <1> QED
    BY <1>1, <1>2, <1>3, <1>4, <1>5, <1>6 DEF Promote

\* The steps of an import into an empty pool, the import itself, and a death.
LEMMA ActiveHealthInv ==
    ASSUME HealthInv, TxnTypes, Active \/ ImportBatch \/ Dies
    PROVE  HealthInv'
  <1>1. CASE ActivePreflight \/ Identify \/ AcceptActive \/ ActiveFails
    <2>1. UNCHANGED vars
      BY <1>1 DEF ActivePreflight, Identify, AcceptActive, ActiveFails
    <2> QED
      BY <2>1, UntouchedInv DEF vars
  <1>2. CASE Contain
    <2>1. PICK gone \in SUBSET Name :
              /\ auth' = [n \in Name |-> IF n \in gone THEN Absent ELSE auth[n]]
              /\ raced' = raced \cup {n \in gone : InFlight(n)}
      <3> DEFINE target == IF t.left # {} THEN t.left
                           ELSE IF Cardinality(Created) = 1 THEN Created ELSE {}
      <3>1. target \cap Present \in SUBSET Name
        BY DEF Present
      <3> QED
        BY <1>2, <3>1 DEF Contain
    <2>2. /\ auth' = [n \in Name |-> IF n \in gone THEN Empty[n] ELSE auth[n]]
          /\ \A n \in gone : Empty[n] = Absent /\ Empty[n] \in File
      BY <2>1 DEF Empty, File
    <2>3. /\ raced \subseteq raced' /\ raced' \subseteq Name /\ trigger' \in Nat /\ receipts' \subseteq receipts
      BY <1>2, <2>1 DEF HealthInv, PoolTypes, Contain
    <2>4. UNCHANGED <<archive, manifest, emitted, mlock, slock, qlock, h, res, crashes>>
      BY <1>2 DEF Contain, locks
    <2> QED
      BY <2>2, <2>3, <2>4, BulkInv
  <1>3. CASE ImportBatch
    <2>1. /\ auth' = [n \in Name |-> IF n \in OwnName THEN Own[n] ELSE auth[n]]
          /\ raced' = raced \cup {n \in OwnName : InFlight(n)}
      BY <1>3 DEF ImportBatch
    <2>2. OwnName \in SUBSET Name /\ \A n \in OwnName : Own[n] \in File
      BY OwnFacts DEF File
    <2>3. raced \subseteq raced' /\ raced' \subseteq Name /\ \A n \in OwnName : n \in raced' \/ ~InFlight(n)
      BY <2>1, <2>2 DEF HealthInv, PoolTypes
    <2>4. /\ UNCHANGED <<archive, manifest, receipts, emitted, mlock, slock, qlock, h, res, crashes>>
          /\ trigger' \in Nat
      BY <1>3 DEF ImportBatch, pool, signals, locks, HealthInv, PoolTypes
    <2> QED
      BY <2>1, <2>2, <2>3, <2>4, BulkInv
  <1>4. CASE Dies
    BY <1>4, UntouchedInv DEF Dies, dirs, signals, locks
  <1> QED
    BY <1>1, <1>2, <1>3, <1>4 DEF Active

\* A transaction leaves the importer alone.
LEMMA TransactionImport ==
    ASSUME ImportInv, Transaction
    PROVE  ImportInv' /\ UNCHANGED <<imp, writes>>
  <1>1. Accept => UNCHANGED <<imp, writes>>
    BY DEF Accept, AcceptPreflight, IsolatedSweeps, HoldActive, Aggregate, AcceptFails, RecoverAcceptance,
           RemoveCanaries, ClearCanarySignals, ClearSignals, ActiveAnswers, Asks, VerifyAcceptance,
           IdleAcceptance, StageCanary, Reactivate, RestoreCanary, RestoresArchived, pool, vars, others
  <1>2. Promote => UNCHANGED <<imp, writes>>
    BY DEF Promote, PromotePreflight, CopyBaseline, Validate, Cohort, Unheld, AcceptPromotion, PromoteFails,
           RecoverPromotion, Rebased, RemovePromoted, ClearPromotedSignals, ClearSignals, BaselineBehaves,
           Asks, VerifyRollback, HoldBaseline, Unhold, Rebase, RestorePromoted, RestoresArchived, pool,
           vars, others
  <1>3. Active \/ ImportBatch \/ Dies => UNCHANGED <<imp, writes>>
    BY DEF Active, ActivePreflight, Identify, AcceptActive, ActiveFails, Contain, ImportBatch, Dies, pool, vars
  <1> QED
    BY <1>1, <1>2, <1>3 DEF Transaction, ImportInv

-----------------------------------------------------------------------------
(***************************************************************************)
(* What a transaction records.                                             *)
(***************************************************************************)

\* What its fields hold.
LEMMA TxnRecFacts ==
    ASSUME TxnTypes
    PROVE  /\ t.base \in [Name -> File] /\ t.names \subseteq Name /\ t.left \subseteq Name
           /\ t.batch \subseteq Name /\ PresentIn(t.base) \subseteq Name
           /\ Present \subseteq Name /\ Created \subseteq Name /\ Promoted \subseteq Name
  <1>1. /\ t.base \in [Name -> File] /\ t.names \subseteq Name /\ t.left \subseteq Name
        /\ t.batch \subseteq Name
    BY DEF TxnTypes, TxnRec
  <1>2. Archived \subseteq Name
    BY Parts DEF Archived
  <1> QED
    BY <1>1, <1>2 DEF PresentIn, Present, Created, Promoted

\* The steps of an acceptance keep the types.
LEMMA AcceptTypes ==
    ASSUME PoolInv, Accept
    PROVE  TxnTypes'
  <1>1. /\ t \in TxnRec /\ auth \in [Name -> File] /\ manifest \in [ArchName -> Nat]
        /\ hold \in [Name -> File] /\ backup \in [Name -> File] /\ aside \subseteq Name
        /\ OwnName \subseteq Name
    BY OwnFacts DEF PoolInv, TxnInv, TxnTypes, HealthInv, PoolTypes
  <1>2. CASE AcceptPreflight
    BY <1>1, <1>2 DEF AcceptPreflight, Baseline, TxnTypes, TxnRec, TxnPlace, TxnPhase
  <1>3. CASE \/ IsolatedSweeps \/ Aggregate \/ AcceptFails \/ RecoverAcceptance
             \/ ActiveAnswers \/ VerifyAcceptance \/ IdleAcceptance
    <2>1. UNCHANGED <<hold, backup, aside>>
      BY <1>3 DEF IsolatedSweeps, Aggregate, AcceptFails, RecoverAcceptance, ActiveAnswers, Asks,
                  VerifyAcceptance, IdleAcceptance
    <2>2. CASE IsolatedSweeps \/ Aggregate \/ AcceptFails \/ RecoverAcceptance
      <3>1. t' \in TxnRec
        <4>1. CASE IsolatedSweeps
          BY <1>1, <4>1 DEF IsolatedSweeps, Goto, TxnRec, TxnPlace, TxnPhase
        <4>2. CASE Aggregate
          BY <1>1, <4>2 DEF Aggregate, TxnRec, TxnPlace, TxnPhase
        <4>3. CASE AcceptFails
          BY <1>1, <4>3 DEF AcceptFails, TxnRec, TxnPlace, TxnPhase
        <4>4. CASE RecoverAcceptance
          BY <1>1, <4>4 DEF RecoverAcceptance, TxnRec, TxnPlace, TxnPhase
        <4> QED
          BY <2>2, <4>1, <4>2, <4>3, <4>4
      <3> QED
        BY <1>1, <2>1, <3>1 DEF TxnTypes
    <2>3. CASE ActiveAnswers
      <3>1. t' \in TxnRec
        BY <1>1, <2>3 DEF ActiveAnswers, Asks, Goto, TxnRec, TxnPlace, TxnPhase
      <3> QED
        BY <1>1, <2>1, <3>1 DEF TxnTypes
    <2>4. CASE VerifyAcceptance
      <3>1. \/ t' = [t EXCEPT !.pc = "idle", !.phase = "recovered"]
            \/ t' = [t EXCEPT !.pc = "done", !.phase = "recovered"]
            \/ t' = [t EXCEPT !.pc = "dead"]
        BY <2>4 DEF VerifyAcceptance
      <3>2. t' \in TxnRec
        <4>1. CASE t' = [t EXCEPT !.pc = "idle", !.phase = "recovered"]
          BY <1>1, <4>1 DEF TxnRec, TxnPlace, TxnPhase
        <4>2. CASE t' = [t EXCEPT !.pc = "done", !.phase = "recovered"]
          BY <1>1, <4>2 DEF TxnRec, TxnPlace, TxnPhase
        <4>3. CASE t' = [t EXCEPT !.pc = "dead"]
          BY <1>1, <4>3 DEF TxnRec, TxnPlace, TxnPhase
        <4> QED
          BY <3>1, <4>1, <4>2, <4>3
      <3> QED
        BY <1>1, <2>1, <3>2 DEF TxnTypes
    <2>5. CASE IdleAcceptance
      <3>1. t' \in TxnRec
        BY ZenonT(60), <1>1, <2>5 DEF IdleAcceptance, Goto, TxnRec, TxnPlace, TxnPhase
      <3> QED
        BY <1>1, <2>1, <3>1 DEF TxnTypes
    <2> QED
      BY <1>3, <2>2, <2>3, <2>4, <2>5
  <1>4. CASE HoldActive
    BY <1>1, <1>4 DEF HoldActive, TxnTypes, TxnRec, TxnPlace, TxnPhase
  <1>5. ASSUME NEW n \in Name, StageCanary(n) PROVE TxnTypes'
    BY <1>1, <1>5 DEF StageCanary, TxnTypes, TxnRec, TxnPlace, TxnPhase
  <1>6. ASSUME NEW n \in Name, Reactivate(n) PROVE TxnTypes'
    BY <1>1, <1>6 DEF Reactivate, Goto, TxnTypes, TxnRec, TxnPlace, TxnPhase, File
  <1>7. CASE RemoveCanaries \/ ClearCanarySignals
    BY <1>1, <1>7 DEF RemoveCanaries, TakeOut, ClearCanarySignals, ClearSignals, Goto, TxnTypes, TxnRec, TxnPlace, TxnPhase
  <1>8. ASSUME NEW a \in ArchName, RestoreCanary(a) PROVE TxnTypes'
    BY <1>1, <1>8 DEF RestoreCanary, RestoresArchived, Goto, TxnTypes, TxnRec, TxnPlace, TxnPhase
  <1> QED
    BY <1>2, <1>3, <1>4, <1>5, <1>6, <1>7, <1>8 DEF Accept

\* Beginning a rollback, and going somewhere, keep the types.
LEMMA RollbackTypes ==
    ASSUME TxnTypes, NEW ok \in BOOLEAN, NEW manual \in BOOLEAN, BeginRollback(ok, manual)
    PROVE  t' \in TxnRec
  BY TxnRecFacts DEF BeginRollback, TxnTypes, TxnRec, TxnPlace, TxnPhase

\* So does putting a file of the baseline back.
LEMMA PutBackTypes ==
    ASSUME TxnTypes, NEW n \in Name, PutBack(n)
    PROVE  t' \in TxnRec /\ hold' \in [Name -> File]
  <1>1. t' \in TxnRec
    BY DEF PutBack, TxnTypes, TxnRec, TxnPlace, TxnPhase
  <1>2. hold' \in [Name -> File]
    BY DEF PutBack, TxnTypes, File
  <1> QED
    BY <1>1, <1>2

\* The steps of a promotion keep the types.
LEMMA PromoteTypes ==
    ASSUME PoolInv, Promote
    PROVE  TxnTypes'
  <1>1. /\ t \in TxnRec /\ auth \in [Name -> File] /\ manifest \in [ArchName -> Nat]
        /\ hold \in [Name -> File] /\ backup \in [Name -> File] /\ aside \subseteq Name
        /\ OwnName \subseteq Name /\ TxnTypes
    BY OwnFacts DEF PoolInv, TxnInv, TxnTypes, HealthInv, PoolTypes
  <1>2. /\ t.base \in [Name -> File] /\ t.names \subseteq Name /\ t.left \subseteq Name
        /\ PresentIn(t.base) \subseteq Name /\ Created \subseteq Name /\ t.manual \in BOOLEAN
    BY <1>1, TxnRecFacts DEF TxnRec, TxnPlace, TxnPhase
  <1>3. ASSUME t' \in TxnRec, UNCHANGED <<hold, backup, aside>> PROVE TxnTypes'
    BY <1>1, <1>3 DEF TxnTypes
  <1>4. CASE PromotePreflight \/ Validate \/ AcceptPromotion \/ Rebased
    <2>1. t' \in TxnRec
      <3>1. CASE PromotePreflight
        BY <1>1, <3>1 DEF PromotePreflight, Baseline, TxnRec, TxnPlace, TxnPhase
      <3>2. CASE Validate
        BY <1>1, <1>2, <3>2 DEF Validate, TxnRec, TxnPlace, TxnPhase
      <3>3. CASE AcceptPromotion
        BY <1>1, <3>3 DEF AcceptPromotion, TxnRec, TxnPlace, TxnPhase
      <3>4. CASE Rebased
        BY <1>1, <3>4 DEF Rebased, Goto, TxnRec, TxnPlace, TxnPhase
      <3> QED
        BY <1>4, <3>1, <3>2, <3>3, <3>4
    <2> QED
      BY <1>3, <1>4, <2>1 DEF PromotePreflight, Validate, AcceptPromotion, Rebased
  <1>5. CASE CopyBaseline
    <2>1. t' \in TxnRec
      <3>1. \/ t' = [t EXCEPT !.pc = "prepared", !.phase = "prepared"]
            \/ t' = [t EXCEPT !.pc = "done"]
        BY <1>5 DEF CopyBaseline, Goto
      <3>2. QED
        <4>1. CASE t' = [t EXCEPT !.pc = "prepared", !.phase = "prepared"]
          BY <1>1, <4>1 DEF TxnRec, TxnPlace, TxnPhase
        <4>2. CASE t' = [t EXCEPT !.pc = "done"]
          BY <1>1, <4>2 DEF TxnRec, TxnPlace, TxnPhase
        <4> QED
          BY <3>1, <4>1, <4>2
    <2>2. backup' \in [Name -> File]
      BY <1>1, <1>5 DEF CopyBaseline, File
    <2> QED
      BY <1>1, <1>5, <2>1, <2>2 DEF CopyBaseline, TxnTypes
  <1>6. CASE Cohort \/ BaselineBehaves
    <2>1. t' \in TxnRec
      <3>1. CASE Cohort
        <4>1. PICK ok \in BOOLEAN :
                  t' = [t EXCEPT !.pc = "unhold", !.left = PresentIn(t.base), !.ok = ok]
          BY <3>1 DEF Cohort, LiveCanary
        <4> QED
          BY <1>1, <1>2, <4>1 DEF TxnRec, TxnPlace, TxnPhase
      <3>2. CASE BaselineBehaves
        BY <1>1, <3>2 DEF BaselineBehaves, Asks, Goto, TxnRec, TxnPlace, TxnPhase
      <3> QED
        BY <1>6, <3>1, <3>2
    <2> QED
      BY <1>3, <1>6, <2>1 DEF Cohort, BaselineBehaves, Asks
  <1>7. CASE PromoteFails \/ RecoverPromotion
    <2>1. t' \in TxnRec
      BY <1>1, <1>7, RollbackTypes DEF PromoteFails, RecoverPromotion
    <2> QED
      BY <1>3, <1>7, <2>1 DEF PromoteFails, RecoverPromotion
  <1>8. CASE Unheld
    <2>1. t' \in TxnRec
      <3>1. CASE Goto("final")
        BY <1>1, <3>1 DEF Goto, TxnRec, TxnPlace, TxnPhase
      <3>2. CASE BeginRollback(FALSE, t.manual)
        BY <1>1, <1>2, <3>2, RollbackTypes
      <3> QED
        BY <1>8, <3>1, <3>2 DEF Unheld
    <2> QED
      BY <1>3, <1>8, <2>1 DEF Unheld
  <1>9. CASE VerifyRollback
    <2>1. \/ t' = [t EXCEPT !.pc = "done", !.phase = "recovered"]
          \/ t' = [t EXCEPT !.pc = "dead"]
      BY <1>9 DEF VerifyRollback
    <2>2. t' \in TxnRec
      <3>1. CASE t' = [t EXCEPT !.pc = "done", !.phase = "recovered"]
        BY <1>1, <3>1 DEF TxnRec, TxnPlace, TxnPhase
      <3>2. CASE t' = [t EXCEPT !.pc = "dead"]
        BY <1>1, <3>2 DEF TxnRec, TxnPlace, TxnPhase
      <3> QED
        BY <2>1, <3>1, <3>2
    <2> QED
      BY <1>3, <1>9, <2>2 DEF VerifyRollback
  <1>10. ASSUME NEW n \in Name, HoldBaseline(n) PROVE TxnTypes'
    <2>1. t' \in TxnRec
      BY <1>1, <1>10 DEF HoldBaseline, TxnRec, TxnPlace, TxnPhase
    <2>2. hold' \in [Name -> File]
      BY <1>1, <1>10 DEF HoldBaseline
    <2> QED
      BY <1>1, <1>10, <2>1, <2>2 DEF HoldBaseline, TxnTypes
  <1>11. ASSUME NEW n \in Name, Unhold(n) PROVE TxnTypes'
    <2>1. CASE PutBack(n)
      BY <1>1, <1>11, <2>1, PutBackTypes DEF Unhold, TxnTypes
    <2>2. CASE BeginRollback(FALSE, t.manual) /\ UNCHANGED hold
      BY <1>1, <1>2, <1>3, <1>11, <2>2, RollbackTypes DEF Unhold
    <2> QED
      BY <1>11, <2>1, <2>2 DEF Unhold
  <1>12. ASSUME NEW n \in Name, Rebase(n) PROVE TxnTypes'
    <2>1. CASE PutBack(n)
      BY <1>1, <1>12, <2>1, PutBackTypes DEF Rebase, TxnTypes
    <2>2. CASE Goto("dead") /\ UNCHANGED hold
      <3>1. t' \in TxnRec
        BY <1>1, <2>2 DEF Goto, TxnRec, TxnPlace, TxnPhase
      <3> QED
        BY <1>3, <1>12, <2>2, <3>1 DEF Rebase
    <2> QED
      BY <1>12, <2>1, <2>2 DEF Rebase
  <1>13. CASE RemovePromoted
    <2>1. t' \in TxnRec
      BY <1>1, <1>13 DEF RemovePromoted, TakeOut, Goto, TxnRec, TxnPlace, TxnPhase
    <2>2. aside' \subseteq Name
      BY <1>1, <1>2, <1>13 DEF RemovePromoted
    <2> QED
      BY <1>1, <1>13, <2>1, <2>2 DEF RemovePromoted, TxnTypes
  <1>14. CASE ClearPromotedSignals
    <2>1. t' \in TxnRec
      BY <1>1, <1>14 DEF ClearPromotedSignals, Goto, TxnRec, TxnPlace, TxnPhase
    <2> QED
      BY <1>3, <1>14, <2>1 DEF ClearPromotedSignals, ClearSignals
  <1>15. ASSUME NEW a \in ArchName, RestorePromoted(a) PROVE TxnTypes'
    <2>1. t' \in TxnRec
      BY <1>1, <1>15 DEF RestorePromoted, RestoresArchived, Goto, TxnRec, TxnPlace, TxnPhase
    <2> QED
      BY <1>3, <1>15, <2>1 DEF RestorePromoted, RestoresArchived
  <1> QED
    BY <1>4, <1>5, <1>6, <1>7, <1>8, <1>9, <1>10, <1>11, <1>12, <1>13, <1>14, <1>15 DEF Promote

\* So do those of an import into an empty pool, the import and a death.
LEMMA ActiveTypes ==
    ASSUME PoolInv, Active \/ ImportBatch \/ Dies
    PROVE  TxnTypes'
  <1>1. /\ t \in TxnRec /\ auth \in [Name -> File] /\ manifest \in [ArchName -> Nat]
        /\ hold \in [Name -> File] /\ backup \in [Name -> File] /\ aside \subseteq Name
        /\ TxnTypes
    BY DEF PoolInv, TxnInv, TxnTypes, HealthInv, PoolTypes
  <1>2. Created \subseteq Name /\ Present \subseteq Name
    BY <1>1, TxnRecFacts
  <1>3. CASE ActivePreflight \/ Identify \/ AcceptActive \/ ActiveFails
    <2>1. t' \in TxnRec
      <3>1. CASE ActivePreflight
        BY <1>1, <1>2, <3>1 DEF ActivePreflight, Baseline, TxnRec, TxnPlace, TxnPhase
      <3>2. CASE Identify
        BY <1>1, <1>2, <3>2 DEF Identify, TxnRec, TxnPlace, TxnPhase
      <3>3. CASE AcceptActive
        BY <1>1, <1>2, <3>3 DEF AcceptActive, TxnRec, TxnPlace, TxnPhase
      <3>4. CASE ActiveFails
        BY <1>1, <1>2, <3>4 DEF ActiveFails, Goto, TxnRec, TxnPlace, TxnPhase
      <3> QED
        BY <1>3, <3>1, <3>2, <3>3, <3>4
    <2> QED
      BY <1>1, <1>3, <2>1 DEF ActivePreflight, Identify, AcceptActive, ActiveFails, TxnTypes
  <1>4. CASE Contain
    <2>1. t' \in TxnRec
      BY <1>1, <1>4 DEF Contain, TxnRec, TxnPlace, TxnPhase
    <2>2. aside' \subseteq Name
      BY <1>2, <1>4 DEF Contain
    <2> QED
      BY <1>1, <1>4, <2>1, <2>2 DEF Contain, TxnTypes
  <1>5. CASE ImportBatch \/ Dies
    <2>1. t' \in TxnRec
      BY <1>1, <1>5 DEF ImportBatch, Dies, Goto, TxnRec, TxnPlace, TxnPhase
    <2> QED
      BY <1>1, <1>5, <2>1 DEF ImportBatch, Dies, TxnTypes
  <1> QED
    BY <1>3, <1>4, <1>5 DEF Active

\* What a step of an acceptance does to its record: the preflight sets the
\* baseline; no other step changes it, gets the import lock or takes back the
\* operator's call.
AcceptMoves ==
    /\ t'.kind = "accept" /\ t'.pc \in AcceptPlace \ {"ready"}
    /\ t'.names \subseteq OwnName /\ (t'.pc = "stage" => t'.left \subseteq OwnName)
    /\ \/ t.pc = "ready" /\ imp.pc = "idle" /\ t'.base = auth /\ Present \cap OwnName = {}
          /\ UNCHANGED vars
       \/ /\ t'.base = t.base /\ (~t'.manual => ~t.manual)
          /\ t.pc \notin {"ready", "done", "dead"} \/ t'.pc = "dead" \/ t'.manual

\* Every step of an acceptance is of that kind.
LEMMA AcceptMove ==
    ASSUME PoolInv, t.kind = "accept", Accept \/ Dies
    PROVE  AcceptMoves
  <1>1. /\ t \in TxnRec /\ t.kind = "accept" /\ t.pc \in AcceptPlace /\ t.names \subseteq OwnName
        /\ (t.pc = "stage" => t.left \subseteq OwnName)
    BY DEF PoolInv, TxnInv, TxnTypes, AcceptInv
  <1>2. CASE AcceptPreflight
    BY <1>1, <1>2 DEF AcceptPreflight, Baseline, AcceptMoves, AcceptPlace, TxnRec
  <1>3. CASE IsolatedSweeps
    BY <1>1, <1>3 DEF IsolatedSweeps, Goto, AcceptMoves, AcceptPlace, TxnRec
  <1>4. CASE HoldActive
    BY <1>1, <1>4 DEF HoldActive, AcceptMoves, AcceptPlace, TxnRec
  <1>5. CASE Aggregate
    BY <1>1, <1>5 DEF Aggregate, AcceptMoves, AcceptPlace, TxnRec
  <1>6. CASE AcceptFails
    BY <1>1, <1>6 DEF AcceptFails, AcceptMoves, AcceptPlace, TxnRec
  <1>7. CASE RecoverAcceptance
    BY <1>1, <1>7 DEF RecoverAcceptance, AcceptMoves, AcceptPlace, TxnRec
  <1>8. CASE RemoveCanaries
    BY <1>1, <1>8 DEF RemoveCanaries, TakeOut, Goto, AcceptMoves, AcceptPlace, TxnRec
  <1>9. CASE ClearCanarySignals
    BY <1>1, <1>9 DEF ClearCanarySignals, Goto, AcceptMoves, AcceptPlace, TxnRec
  <1>10. CASE ActiveAnswers
    BY <1>1, <1>10 DEF ActiveAnswers, Asks, Goto, AcceptMoves, AcceptPlace, TxnRec
  <1>11. CASE VerifyAcceptance
    BY <1>1, <1>11 DEF VerifyAcceptance, AcceptMoves, AcceptPlace, TxnRec
  <1>12. CASE IdleAcceptance
    BY <1>1, <1>12 DEF IdleAcceptance, Goto, AcceptMoves, AcceptPlace, TxnRec
  <1>13. CASE Dies
    BY <1>1, <1>13 DEF Dies, Goto, AcceptMoves, AcceptPlace, TxnRec
  <1>14. ASSUME NEW n \in Name, StageCanary(n) PROVE AcceptMoves
    BY <1>1, <1>14 DEF StageCanary, AcceptMoves, AcceptPlace, TxnRec
  <1>15. ASSUME NEW n \in Name, Reactivate(n) PROVE AcceptMoves
    BY <1>1, <1>15 DEF Reactivate, Goto, AcceptMoves, AcceptPlace, TxnRec
  <1>16. ASSUME NEW a \in ArchName, RestoreCanary(a) PROVE AcceptMoves
    BY <1>1, <1>16 DEF RestoreCanary, RestoresArchived, Goto, AcceptMoves, AcceptPlace, TxnRec
  <1> QED
    BY <1>2, <1>3, <1>4, <1>5, <1>6, <1>7, <1>8, <1>9, <1>10, <1>11, <1>12, <1>13, <1>14, <1>15, <1>16 DEF Accept

\* A transaction stays of its kind, and only an acceptance is one.
LEMMA KindKept ==
    ASSUME PoolInv, Transaction
    PROVE  /\ t'.kind = t.kind
           /\ t.kind = "accept" => Accept \/ Dies
  <1>1. t \in TxnRec /\ (t.kind = "accept" => t.pc \in AcceptPlace)
    BY DEF PoolInv, TxnInv, TxnTypes, AcceptInv
  <1>2. Active \/ ImportBatch => t.kind # "accept"
    BY DEF Active, ActivePreflight, Identify, AcceptActive, ActiveFails, Contain, ImportBatch
  <1>3. Promote => t.kind # "accept"
    BY <1>1 DEF Promote, PromotePreflight, CopyBaseline, Validate, Cohort, Unheld, AcceptPromotion, PromoteFails,
           RecoverPromotion, Rebased, RemovePromoted, ClearPromotedSignals, BaselineBehaves,
           VerifyRollback, HoldBaseline, Unhold, Rebase, RestorePromoted, AcceptPlace
  <1>4. Active \/ ImportBatch \/ Dies => t'.kind = t.kind
    BY <1>1 DEF Active, ActivePreflight, Identify, AcceptActive, ActiveFails, Contain, ImportBatch, Dies,
                Goto, Baseline, TxnRec
  <1>5. Promote => t'.kind = t.kind
    BY <1>1 DEF Promote, PromotePreflight, CopyBaseline, Validate, Cohort, Unheld, AcceptPromotion, PromoteFails,
           RecoverPromotion, Rebased, RemovePromoted, ClearPromotedSignals, BaselineBehaves, Asks,
           VerifyRollback, HoldBaseline, Unhold, Rebase, RestorePromoted, RestoresArchived, TakeOut, PutBack,
           BeginRollback, Goto, Baseline, TxnRec
  <1>6. Accept => t.kind = "accept" \/ \E n \in Name : Reactivate(n)
    BY DEF Accept, AcceptPreflight, IsolatedSweeps, HoldActive, Aggregate, AcceptFails, RecoverAcceptance,
           RemoveCanaries, ClearCanarySignals, ActiveAnswers, VerifyAcceptance, IdleAcceptance, StageCanary,
           RestoreCanary
  <1>7. ASSUME NEW n \in Name, Reactivate(n) PROVE t'.kind = t.kind
    BY <1>1, <1>7 DEF Reactivate, Goto, TxnRec
  <1>8. Accept => t'.kind = t.kind
    BY <1>6, <1>7, AcceptMove DEF AcceptMoves
  <1> QED
    BY <1>2, <1>3, <1>4, <1>5, <1>8 DEF Transaction

\* A transaction's step keeps what is known of an acceptance.
LEMMA AcceptInvStep ==
    ASSUME PoolInv, Transaction
    PROVE  AcceptInv'
  <1> SUFFICES ASSUME t.kind = "accept" PROVE AcceptInv'
    BY KindKept DEF AcceptInv
  <1>1. AcceptMoves /\ UNCHANGED imp
    BY AcceptMove, KindKept, TransactionImport DEF PoolInv
  <1>2. PresentIn(t'.base) \cap OwnName = {}
    BY <1>1 DEF AcceptMoves, PoolInv, TxnInv, AcceptInv, Present, PresentIn
  <1>3. ImportLocked' => imp.pc = "idle"
    BY <1>1 DEF AcceptMoves, PoolInv, TxnInv, AcceptInv, ImportLocked
  <1> QED
    BY <1>1, <1>2, <1>3 DEF AcceptMoves, AcceptInv, PresentIn

-----------------------------------------------------------------------------
(***************************************************************************)
(* The acceptance's credential is kept.                                    *)
(***************************************************************************)

\* A file under one of a credential's archive names.
LEMMA ArchiveOf ==
    ASSUME NEW f, NEW n \in Name
    PROVE  (\E k \in Copy : f[<<n, k>>] # Absent) <=> (\E a \in ArchName : a[1] = n /\ f[a] # Absent)
  <1>1. \A k \in Copy : <<n, k>> \in ArchName /\ <<n, k>>[1] = n
    BY DEF ArchName
  <1>2. \A a \in ArchName : a = <<a[1], a[2]>> /\ a[2] \in Copy
    BY DEF ArchName
  <1>3. ASSUME NEW a \in ArchName, a[1] = n, f[a] # Absent PROVE \E k \in Copy : f[<<n, k>>] # Absent
    BY <1>2, <1>3
  <1> QED
    BY <1>1, <1>3

\* A credential that is kept stays kept when its places only lose a file to one
\* another.
LEMMA KeptMoves ==
    ASSUME NEW n \in Name, Kept(n), auth[n] # Absent => (auth'[n] # Absent \/ hold'[n] # Absent \/
                                \E a \in ArchName : a[1] = n /\ archive'[a] # Absent),
           hold[n] # Absent => hold'[n] # Absent \/ auth'[n] # Absent,
           \A a \in ArchName : a[1] = n /\ archive[a] # Absent =>
               archive'[a] # Absent \/ auth'[n] # Absent
    PROVE  Kept(n)'
  <1>1. (\E k \in Copy : archive[<<n, k>>] # Absent) => \E a \in ArchName : a[1] = n /\ archive[a] # Absent
    BY ArchiveOf
  <1>2. (\E a \in ArchName : a[1] = n /\ archive'[a] # Absent) => \E k \in Copy : archive'[<<n, k>>] # Absent
    BY ArchiveOf
  <1> QED
    BY <1>1, <1>2 DEF Kept

\* It stays kept under every step of the pool's processes but an importer's
\* undo.
LEMMA PoolKeeps ==
    ASSUME HealthInv, ImportInv, Next, \A w \in imp.plan : ~ImportUndo(w), hold' = hold,
           NEW n \in Name, Kept(n)
    PROVE  Kept(n)'
  <1>1. auth \in [Name -> File] /\ archive \in [ArchName -> File] /\ Absent \notin Content
    BY CloudConstants DEF HealthInv, PoolTypes
  <1>2. ASSUME UNCHANGED <<auth, archive>> PROVE Kept(n)'
    BY <1>2, KeptMoves
  <1>3. ASSUME NEW m \in Name, NEW f \in Content, Write(m, f), UNCHANGED archive PROVE Kept(n)'
    <2>1. auth[n] # Absent => auth'[n] # Absent
      BY <1>1, <1>3 DEF Write
    <2> QED
      BY <1>3, <2>1, KeptMoves
  <1>4. CASE Gateway
    BY <1>2, <1>3, <1>4 DEF Gateway, GatewayRefresh, GatewayReceipt, GatewayTrigger, TriggerAges, dirs
  <1>5. CASE Import
    <2>1. ASSUME NEW w \in imp.plan, ImportWrite(w) PROVE Kept(n)'
      <3>1. w.name \in Name /\ w.new \in Content
        BY DEF ImportInv, Target
      <3> QED
        BY <1>3, <2>1, <3>1 DEF ImportWrite
    <2> QED
      BY <1>2, <1>5, <2>1 DEF Import, ImportPlan, ImportDone, ImportFails, ImportRejected, ImportDies, dirs
  <1>6. CASE Restore
    <2>1. ASSUME NEW a \in ArchName, RestoreMove(a) PROVE Kept(n)'
      <3>1. /\ archive[a] # Absent /\ auth' = [auth EXCEPT ![a[1]] = archive[a]]
            /\ archive' = [archive EXCEPT ![a] = Absent] /\ a[1] \in Name
        BY <2>1, Parts DEF RestoreMove
      <3> QED
        BY <1>1, <3>1, KeptMoves
    <2>2. CASE RestoreFails
      <3>1. /\ res \in ArchName /\ res[1] \in Name /\ archive[res] = Absent
            /\ archive' = [archive EXCEPT ![res] = auth[res[1]]] /\ auth' = [auth EXCEPT ![res[1]] = Absent]
        BY <2>2, Parts DEF RestoreFails, HealthInv, PoolTypes, Renamed
      <3> QED
        BY <1>1, <3>1, KeptMoves
    <2> QED
      BY <1>2, <1>6, <2>1, <2>2 DEF Restore, RestoreRecord, RestoreDies, dirs
  <1>7. ASSUME NEW p \in Health, Run(p) PROVE Kept(n)'
    <2>1. ASSUME NEW a \in ArchName, Move(p, a) PROVE Kept(n)'
      <3>1. /\ h[p].cur.name \in Name /\ a[1] = h[p].cur.name /\ auth[h[p].cur.name] # Absent
            /\ archive' = [archive EXCEPT ![a] = auth[h[p].cur.name]]
            /\ auth' = [auth EXCEPT ![h[p].cur.name] = Absent]
        BY <2>1, ProcFacts, Parts DEF Move, UniqueArchivePath, Controlled
      <3> QED
        BY <1>1, <3>1, KeptMoves
    <2>2. CASE RecordFails(p)
      <3>1. /\ h[p].at \in ArchName /\ h[p].at[1] = h[p].cur.name /\ h[p].cur.name \in Name
            /\ archive[h[p].at] # Absent
            /\ auth' = [auth EXCEPT ![h[p].cur.name] = archive[h[p].at]]
            /\ archive' = [archive EXCEPT ![h[p].at] = Absent]
        BY <2>2, ProcFacts, Parts DEF RecordFails, Controlled, HealthInv, Renamed
      <3> QED
        BY <1>1, <3>1, KeptMoves
    <2> QED
      BY <1>2, <1>7, <2>1, <2>2
         DEF Run, Work, Start, Lock, Take, MoveRejected, Record, StageDone, LoadTrigger, Passive, Contexts,
             Probe, Finish, HealthDies, dirs
  <1> QED
    BY <1>4, <1>5, <1>6, <1>7 DEF Next

\* It stays kept under every step of the acceptance.
LEMMA AcceptKeeps ==
    ASSUME PoolInv, t.kind = "accept", Accept \/ Dies, NEW n \in PresentIn(t.base), Kept(n)
    PROVE  Kept(n)'
  <1>1. /\ auth \in [Name -> File] /\ archive \in [ArchName -> File] /\ hold \in [Name -> File]
        /\ n \in Name /\ t.base[n] # Absent /\ n \notin OwnName /\ t.names \subseteq OwnName
        /\ Absent \notin Content
    BY CloudConstants DEF PoolInv, TxnInv, TxnTypes, AcceptInv, HealthInv, PoolTypes, PresentIn
  <1>2. ASSUME UNCHANGED <<auth, archive, hold>> PROVE Kept(n)'
    BY <1>1, <1>2, KeptMoves
  <1>3. CASE \/ AcceptPreflight \/ IsolatedSweeps \/ Aggregate \/ AcceptFails \/ RecoverAcceptance
             \/ ClearCanarySignals \/ ActiveAnswers \/ VerifyAcceptance \/ IdleAcceptance \/ Dies
    BY <1>2, <1>3 DEF AcceptPreflight, IsolatedSweeps, Aggregate, AcceptFails, RecoverAcceptance,
           ClearCanarySignals, ClearSignals, ActiveAnswers, Asks, VerifyAcceptance, IdleAcceptance, Dies,
           vars, dirs
  <1>4. CASE HoldActive
    <2>1. PICK m \in PresentIn(t.base) :
              /\ hold' = [hold EXCEPT ![m] = auth[m]] /\ auth[m] = t.base[m] /\ Write(m, Absent)
      BY <1>4 DEF HoldActive
    <2>2. /\ auth' = [auth EXCEPT ![m] = Absent] /\ UNCHANGED archive /\ m \in Name /\ auth[m] # Absent
      BY <1>4, <2>1 DEF HoldActive, Write, pool, PresentIn
    <2> QED
      BY <1>1, <2>1, <2>2, KeptMoves
  <1>5. ASSUME NEW m \in Name, StageCanary(m) PROVE Kept(n)'
    <2>1. m \in OwnName
      BY <1>5 DEF StageCanary, PoolInv, TxnInv, AcceptInv
    <2>2. auth' = [auth EXCEPT ![m] = Own[m]] /\ UNCHANGED <<archive, hold>>
      BY <1>5 DEF StageCanary, Write, pool
    <2> QED
      BY <1>1, <2>1, <2>2, KeptMoves
  <1>6. ASSUME NEW m \in Name, Reactivate(m) PROVE Kept(n)'
    <2>1. UNCHANGED archive /\ t.base[m] # Absent
      BY <1>6 DEF Reactivate, pool, PresentIn
    <2>2. CASE auth[m] = t.base[m] /\ hold' = [hold EXCEPT ![m] = Absent] /\ UNCHANGED auth
      BY <1>1, <2>1, <2>2, KeptMoves
    <2>3. CASE /\ auth[m] = Absent /\ hold[m] = t.base[m] /\ auth' = [auth EXCEPT ![m] = hold[m]]
               /\ hold' = [hold EXCEPT ![m] = Absent]
      BY <1>1, <2>1, <2>3, KeptMoves
    <2>4. CASE UNCHANGED <<auth, hold>>
      BY <1>2, <2>1, <2>4
    <2> QED
      BY <1>6, <2>2, <2>3, <2>4 DEF Reactivate, Write
  <1>7. CASE RemoveCanaries
    <2>1. /\ auth' = [m \in Name |-> IF m \in t.names THEN Absent ELSE auth[m]]
          /\ UNCHANGED <<archive, hold>>
      BY <1>7 DEF RemoveCanaries, TakeOut, pool
    <2> QED
      BY <1>1, <2>1, KeptMoves
  <1>8. ASSUME NEW a \in ArchName, RestoreCanary(a) PROVE Kept(n)'
    <2>1. UNCHANGED hold /\ a[1] \in Name
      BY <1>8, Parts DEF RestoreCanary, RestoresArchived
    <2>2. CASE UNCHANGED <<auth, archive>>
      BY <1>2, <2>1, <2>2
    <2>3. CASE /\ archive[a] # Absent /\ auth' = [auth EXCEPT ![a[1]] = archive[a]]
               /\ archive' = [archive EXCEPT ![a] = Absent]
      BY <1>1, <2>1, <2>3, KeptMoves
    <2> QED
      BY <1>8, <2>2, <2>3 DEF RestoreCanary, RestoresArchived, Write
  <1> QED
    BY <1>3, <1>4, <1>5, <1>6, <1>7, <1>8 DEF Accept

\* A transaction's step keeps the acceptance's credential.
LEMMA OriginalKeptStep ==
    ASSUME PoolInv, Transaction
    PROVE  OriginalKept'
  <1> SUFFICES ASSUME t'.kind = "accept", ~t'.manual, ImportLocked' \/ writes' = 0,
                      NEW n \in PresentIn(t'.base)
               PROVE  Kept(n)'
    BY DEF OriginalKept, PresentIn
  <1>1. t.kind = "accept" /\ AcceptMoves /\ (Accept \/ Dies) /\ UNCHANGED writes
    BY KindKept, AcceptMove, TransactionImport DEF PoolInv
  <1>2. CASE t'.base = auth /\ UNCHANGED vars
    BY <1>2 DEF PresentIn, Kept, vars
  <1>3. CASE /\ t'.base = t.base /\ ~t.manual
             /\ t.pc \notin {"ready", "done", "dead"} \/ t'.pc = "dead"
    <2>1. ImportLocked \/ writes = 0
      BY <1>1, <1>3 DEF ImportLocked
    <2>2. Kept(n)
      BY <1>1, <1>3, <2>1 DEF PoolInv, TxnInv, OriginalKept
    <2> QED
      BY <1>1, <1>3, <2>2, AcceptKeeps
  <1> QED
    BY <1>1, <1>2, <1>3 DEF AcceptMoves

-----------------------------------------------------------------------------
(***************************************************************************)
(* A rollback goes by its batch.                                           *)
(***************************************************************************)

\* The names a rollback takes out are chosen when it begins.
LEMMA PromoteInvStep ==
    ASSUME PoolInv, Transaction
    PROVE  PromoteInv'
  <1>1. t \in TxnRec /\ PromoteInv
    BY DEF PoolInv, TxnInv, TxnTypes
  <1>2. CASE t.kind # "promote"
    BY <1>2, KindKept DEF PromoteInv
  <1>3. ASSUME t.kind = "promote", \E ok, manual : BeginRollback(ok, manual) PROVE PromoteInv'
    BY <1>1, <1>3 DEF BeginRollback, Promoted, PromoteInv, TxnRec
  <1>4. ASSUME t'.pc \notin {"rebase", "unarchive"} PROVE PromoteInv'
    BY <1>4 DEF PromoteInv
  <1>5. ASSUME t.pc \in {"rebase", "unarchive"}, t'.names = t.names, t'.batch = t.batch, t'.kind = t.kind
        PROVE  PromoteInv'
    BY <1>1, <1>5 DEF PromoteInv
  <1>6. CASE t.kind = "promote" /\ Promote
    <2>1. CASE \/ PromotePreflight \/ CopyBaseline \/ Validate \/ Cohort \/ AcceptPromotion \/ RemovePromoted
               \/ ClearPromotedSignals \/ BaselineBehaves \/ VerifyRollback \/ \E n \in Name : HoldBaseline(n)
      <3>1. t'.pc \notin {"rebase", "unarchive"}
        BY <1>1, <2>1 DEF PromotePreflight, CopyBaseline, Validate, Cohort, AcceptPromotion, RemovePromoted,
             ClearPromotedSignals, BaselineBehaves, Asks, VerifyRollback, HoldBaseline, TakeOut, Goto, Baseline,
             TxnRec
      <3> QED
        BY <1>4, <3>1
    <2>2. CASE PromoteFails \/ RecoverPromotion
      BY <1>3, <1>6, <2>2 DEF PromoteFails, RecoverPromotion
    <2>3. CASE Unheld
      <3>1. CASE Goto("final")
        BY <1>1, <1>4, <3>1 DEF Goto, TxnRec
      <3>2. CASE BeginRollback(FALSE, t.manual)
        BY <1>3, <1>6, <3>2
      <3> QED
        BY <2>3, <3>1, <3>2 DEF Unheld
    <2>4. ASSUME NEW n \in Name, Unhold(n) PROVE PromoteInv'
      <3>1. CASE PutBack(n)
        BY <1>1, <1>4, <2>4, <3>1 DEF Unhold, PutBack, TxnRec
      <3>2. CASE BeginRollback(FALSE, t.manual)
        BY <1>3, <1>6, <3>2
      <3> QED
        BY <2>4, <3>1, <3>2 DEF Unhold
    <2>5. ASSUME NEW n \in Name, Rebase(n) PROVE PromoteInv'
      BY <1>1, <1>5, <2>5 DEF Rebase, PutBack, Goto, TxnRec
    <2>6. CASE Rebased
      BY <1>1, <1>5, <2>6 DEF Rebased, Goto, TxnRec
    <2>7. ASSUME NEW a \in ArchName, RestorePromoted(a) PROVE PromoteInv'
      BY <1>1, <1>5, <2>7 DEF RestorePromoted, RestoresArchived, Goto, TxnRec
    <2> QED
      BY <1>6, <2>1, <2>2, <2>3, <2>4, <2>5, <2>6, <2>7 DEF Promote
  <1>7. CASE t.kind = "promote" /\ (Active \/ ImportBatch \/ Dies)
    <2>1. t'.pc \notin {"rebase", "unarchive"}
      BY <1>1, <1>7 DEF Active, ActivePreflight, Identify, AcceptActive, ActiveFails, Contain, ImportBatch, Dies,
                        Goto, TxnRec
    <2> QED
      BY <1>4, <2>1
  <1>8. CASE t.kind = "promote" /\ Accept
    <2>1. \E n \in Name : Reactivate(n)
      BY <1>8 DEF Accept, AcceptPreflight, IsolatedSweeps, HoldActive, Aggregate, AcceptFails,
           RecoverAcceptance, RemoveCanaries, ClearCanarySignals, ActiveAnswers, VerifyAcceptance,
           IdleAcceptance, StageCanary, RestoreCanary
    <2>2. t'.pc \notin {"rebase", "unarchive"}
      BY <1>1, <2>1 DEF Reactivate, Goto, TxnRec
    <2> QED
      BY <1>4, <2>2
  <1> QED
    BY <1>2, <1>6, <1>7, <1>8 DEF Transaction

-----------------------------------------------------------------------------
(***************************************************************************)
(* The whole pool.                                                         *)
(***************************************************************************)

\* A step of the pool's processes beside a transaction keeps what is known of
\* the transaction.
LEMMA BesideInv ==
    ASSUME PoolInv, Next, ImportLocked => imp' = imp, UNCHANGED txn
    PROVE  TxnInv'
  <1>1. UNCHANGED <<t, hold, backup, aside>>
    BY DEF txn
  <1>2. TxnTypes' /\ PromoteInv'
    BY <1>1 DEF PoolInv, TxnInv, TxnTypes, PromoteInv
  <1>3. AcceptInv'
    BY <1>1 DEF PoolInv, TxnInv, AcceptInv, ImportLocked, PresentIn
  <1>4. OriginalKept'
    <2> SUFFICES ASSUME t.kind = "accept", ~t.manual, ImportLocked \/ writes' = 0,
                        NEW n \in PresentIn(t.base)
                 PROVE  Kept(n)'
      BY <1>1 DEF OriginalKept, ImportLocked, PresentIn
    <2>1. \A w \in imp.plan : ~ImportUndo(w)
      <3>1. CASE ImportLocked
        BY <3>1 DEF PoolInv, TxnInv, AcceptInv, ImportUndo
      <3>2. CASE writes' = 0
        BY <3>2 DEF PoolInv, ImportInv, ImportUndo
      <3> QED
        BY <3>1, <3>2
    <2>2. ImportLocked \/ writes = 0
      <3>1. writes' \in {writes, writes + 1} /\ writes \in Nat
        BY ZenonT(60) DEF Next, Gateway, GatewayRefresh, GatewayReceipt, GatewayTrigger, TriggerAges, Import,
               ImportPlan, ImportWrite, ImportUndo, ImportDone, ImportFails, ImportRejected, ImportDies,
               Restore, RestoreMove, RestoreRecord, RestoreFails, RestoreDies, Run, Work, Start, Lock,
               Take, Move, MoveRejected, Record, StageDone, LoadTrigger, Passive, Contexts, Probe, Finish,
               RecordFails, HealthDies, others, PoolInv, ImportInv
      <3> QED
        BY <3>1
    <2>3. Kept(n) /\ n \in Name
      BY <2>2 DEF PoolInv, TxnInv, OriginalKept, PresentIn
    <2> QED
      BY <1>1, <2>1, <2>3, PoolKeeps DEF PoolInv
  <1> QED
    BY <1>2, <1>3, <1>4 DEF TxnInv

\* Every step of the whole pool keeps the invariant.
LEMMA PoolNextInv ==
    ASSUME PoolInv, [TxnNext]_allVars
    PROVE  PoolInv'
  <1>1. CASE Transaction
    <2>1. HealthInv'
      BY <1>1, AcceptHealthInv, PromoteHealthInv, ActiveHealthInv DEF Transaction, PoolInv, TxnInv
    <2>2. TxnTypes'
      BY <1>1, AcceptTypes, PromoteTypes, ActiveTypes DEF Transaction
    <2> QED
      BY <1>1, <2>1, <2>2, TransactionImport, AcceptInvStep, PromoteInvStep, OriginalKeptStep
         DEF PoolInv, TxnInv
  <1>2. CASE Next /\ (ImportLocked => imp' = imp) /\ UNCHANGED txn
    BY <1>2, HealthNextInv, ImportNextInv, BesideInv DEF PoolInv
  <1>3. CASE UNCHANGED allVars
    <2>1. UNCHANGED vars /\ UNCHANGED <<t, hold, backup, aside>>
      BY <1>3 DEF allVars
    <2>2. HealthInv' /\ ImportInv'
      BY <2>1, HealthStutterInv DEF PoolInv
    <2>3. TxnInv'
      BY <2>1 DEF PoolInv, TxnInv, TxnTypes, AcceptInv, PromoteInv, OriginalKept, ImportLocked, Kept,
                  PresentIn, vars
    <2> QED
      BY <2>2, <2>3 DEF PoolInv
  <1> QED
    BY <1>1, <1>2, <1>3 DEF TxnNext

\* The operator's transactions keep archive, manifest and locks in step too.
THEOREM PoolInvariance == TxnSpec => []PoolInv
  BY TxnInitInv, PoolNextInv, PTL DEF TxnSpec

\* Beside the transactions, every archived file can still be selected by
\* cpa-health-restore.
THEOREM TransactionsKeepRestorable == TxnSpec => []Restorable
  <1>1. PoolInv => Restorable
    BY InvRestorable DEF PoolInv
  <1> QED
    BY <1>1, PoolInvariance, PTL

\* Beside the transactions, a usable credential is still only archived under a
\* name rewritten under a run.
THEOREM TransactionsArchiveByRaceOnly == TxnSpec => []UsableArchivedOnlyByRace
  <1>1. PoolInv => UsableArchivedOnlyByRace
    BY DEF PoolInv, HealthInv, Usable
  <1> QED
    BY <1>1, PoolInvariance, PTL

\* The acceptance never loses the credential it holds.
THEOREM OriginalAlwaysKept == TxnSpec => []OriginalKept
  <1>1. PoolInv => OriginalKept
    BY DEF PoolInv, TxnInv
  <1> QED
    BY <1>1, PoolInvariance, PTL

\* What a step moves aside is of the transaction's own batch.
LEMMA AsideStep ==
    ASSUME PoolInv, [TxnNext]_allVars, t.kind = "promote", t.batch = OwnName
    PROVE  aside' \ aside \subseteq OwnName
  <1>1. CASE UNCHANGED aside
    BY <1>1
  <1>2. CASE RemovePromoted
    <2>1. t.names = OwnName
      BY <1>2, OwnFacts DEF RemovePromoted, PoolInv, TxnInv, PromoteInv
    <2> QED
      BY <1>2, <2>1 DEF RemovePromoted
  <1>3. Accept => UNCHANGED aside
    BY DEF Accept, AcceptPreflight, IsolatedSweeps, HoldActive, Aggregate, AcceptFails, RecoverAcceptance,
           RemoveCanaries, ClearCanarySignals, ClearSignals, ActiveAnswers, Asks, VerifyAcceptance,
           IdleAcceptance, StageCanary, Reactivate, RestoreCanary, RestoresArchived
  <1>4. Promote => UNCHANGED aside \/ RemovePromoted
    BY DEF Promote, PromotePreflight, CopyBaseline, Validate, Cohort, Unheld, AcceptPromotion, PromoteFails,
           RecoverPromotion, Rebased, ClearPromotedSignals, ClearSignals, BaselineBehaves,
           Asks, VerifyRollback, HoldBaseline, Unhold, Rebase, RestorePromoted, RestoresArchived
  <1>5. Active \/ ImportBatch \/ Dies => UNCHANGED aside
    BY DEF Active, ActivePreflight, Identify, AcceptActive, ActiveFails, Contain, ImportBatch, Dies
  <1> QED
    BY <1>1, <1>2, <1>3, <1>4, <1>5 DEF TxnNext, Transaction, txn, allVars

\* Rolling a promotion back takes nothing but its own batch out of the pool.
THEOREM RollbackOwnOnly == TxnSpec => RollbackTakesOwn
  <1>1. PoolInv /\ [TxnNext]_allVars =>
            [t.kind = "promote" /\ t.batch = OwnName => aside' \ aside \subseteq OwnName]_allVars
    BY AsideStep
  <1> QED
    BY <1>1, PoolInvariance, PTL DEF TxnSpec, RollbackTakesOwn
=============================================================================
