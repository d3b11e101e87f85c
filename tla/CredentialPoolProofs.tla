------------------------ MODULE CredentialPoolProofs ------------------------
(***************************************************************************)
(* Proofs of the safety properties of CredentialPool, for any number of    *)
(* processes, names and contents: nothing archived is overwritten, nothing *)
(* is lost, nothing is in two files, and the manifest lists the archive.   *)
(***************************************************************************)
EXTENDS CredentialPool, FiniteSetTheorems, TLAPS

\* An entry of a manifest names two files.
LEMMA EntryFacts ==
  ASSUME NEW s \in Seq(Entry), NEW i \in 1..Len(s)
  PROVE  s[i].src \in Names /\ s[i].dst \in Names
<1>1. s[i] \in Entry
  OBVIOUS
<1> QED
  BY <1>1 DEF Entry

\* Removing the entry at i of a manifest leaves a manifest of its entries.
LEMMA WithoutFacts ==
  ASSUME NEW S, NEW s \in Seq(S), NEW i \in 1..Len(s)
  PROVE  /\ Without(s, i) \in Seq(S)
         /\ \A k \in 1..Len(Without(s, i)) :
              \E j \in 1..Len(s) : Without(s, i)[k] = s[j]
<1> DEFINE u == SubSeq(s, 1, i - 1)
           v == SubSeq(s, i + 1, Len(s))
<1>1. u \in Seq(S) /\ Len(u) = i - 1 /\ \A k \in 1..(i - 1) : u[k] = s[k]
  OBVIOUS
<1>2. v \in Seq(S) /\ Len(v) = Len(s) - i /\ \A k \in 1..(Len(s) - i) : v[k] = s[i + k]
  OBVIOUS
<1>3. Without(s, i) = u \o v
  BY DEF Without
<1> HIDE DEF u, v
<1>4. u \o v \in Seq(S) /\ Len(u \o v) = Len(s) - 1
  BY <1>1, <1>2
<1>5. ASSUME NEW k \in 1..(Len(s) - 1)
      PROVE  \E j \in 1..Len(s) : (u \o v)[k] = s[j]
  <2>1. CASE k <= i - 1
    <3>1. (u \o v)[k] = s[k]
      BY <1>1, <1>2, <2>1
    <3> QED
      BY <3>1
  <2>2. CASE k > i - 1
    <3>1. (u \o v)[k] = v[k - (i - 1)]
      BY <1>1, <1>2, <2>2
    <3>2. v[k - (i - 1)] = s[k + 1]
      BY <1>2, <2>2
    <3> QED
      BY <3>1, <3>2
  <2>3. k <= i - 1 \/ k > i - 1
    OBVIOUS
  <2> QED
    BY <2>1, <2>2, <2>3
<1> QED
  BY <1>3, <1>4, <1>5

\* Scan(p) preserves the invariant of the pool.
LEMMA ScanStep ==
  ASSUME PoolInv, DisjointVariants, NEW p \in Procs, Scan(p)
  PROVE  PoolInv'
<1> USE PoolAssumption DEF PoolInv, TypeOK, Files
<1>1. TypeOK'
  BY DEF Scan, Goto, Accused, NoFiles, work, Entry
<1>2. LockInv'
  BY DEF Scan, Goto, Accused, NoFiles, work, LockInv
<1>3. ActiveInv'
  BY DEF Scan, Goto, Accused, NoFiles, work, ActiveInv
<1>4. EntryInv'
  BY DEF Scan, Goto, Accused, NoFiles, work, EntryInv, Entry
<1>5. SelectInv'
  BY DEF Scan, Goto, Accused, NoFiles, work, SelectInv
<1>6. UndoInv'
  BY DEF Scan, Goto, Accused, NoFiles, work, UndoInv
<1> QED
  BY <1>1, <1>2, <1>3, <1>4, <1>5, <1>6 DEF PoolInv

\* Probe(p) preserves the invariant of the pool.
LEMMA ProbeStep ==
  ASSUME PoolInv, DisjointVariants, NEW p \in Procs, Probe(p)
  PROVE  PoolInv'
<1> USE PoolAssumption DEF PoolInv, TypeOK, Files
<1>1. TypeOK'
  BY DEF Probe, Goto, work, Entry
<1>2. LockInv'
  BY DEF Probe, Goto, work, LockInv
<1>3. ActiveInv'
  BY DEF Probe, Goto, work, ActiveInv
<1>4. EntryInv'
  BY DEF Probe, Goto, work, EntryInv, Entry
<1>5. SelectInv'
  BY DEF Probe, Goto, work, SelectInv
<1>6. UndoInv'
  BY DEF Probe, Goto, work, UndoInv
<1> QED
  BY <1>1, <1>2, <1>3, <1>4, <1>5, <1>6 DEF PoolInv

\* Lock(p) preserves the invariant of the pool.
LEMMA LockStep ==
  ASSUME PoolInv, DisjointVariants, NEW p \in Procs, Lock(p)
  PROVE  PoolInv'
<1> USE PoolAssumption DEF PoolInv, TypeOK, Files
<1>1. TypeOK'
  BY DEF Lock, Goto, LockFree, work, Entry
<1>2. LockInv'
  BY DEF Lock, Goto, LockFree, work, LockInv
<1>3. ActiveInv'
  BY DEF Lock, Goto, LockFree, work, ActiveInv
<1>4. EntryInv'
  BY DEF Lock, Goto, LockFree, work, EntryInv, Entry, LockInv
<1>5. SelectInv'
  BY DEF Lock, Goto, LockFree, work, SelectInv
<1>6. UndoInv'
  BY DEF Lock, Goto, LockFree, work, UndoInv, LockInv
<1> QED
  BY <1>1, <1>2, <1>3, <1>4, <1>5, <1>6 DEF PoolInv

\* ArchiveRefused(p) preserves the invariant of the pool.
LEMMA ArchiveRefusedStep ==
  ASSUME PoolInv, DisjointVariants, NEW p \in Procs, ArchiveRefused(p)
  PROVE  PoolInv'
<1> USE PoolAssumption DEF PoolInv, TypeOK, Files
<1>1. TypeOK'
  BY DEF ArchiveRefused, Goto, LockFree, Forget, NoFiles, work, Entry
<1>2. LockInv'
  BY DEF ArchiveRefused, Goto, LockFree, Forget, NoFiles, work, LockInv
<1>3. ActiveInv'
  BY DEF ArchiveRefused, Goto, LockFree, Forget, NoFiles, work, ActiveInv
<1>4. EntryInv'
  BY DEF ArchiveRefused, Goto, LockFree, Forget, NoFiles, work, EntryInv, Entry
<1>5. SelectInv'
  BY DEF ArchiveRefused, Goto, LockFree, Forget, NoFiles, work, SelectInv
<1>6. UndoInv'
  BY DEF ArchiveRefused, Goto, LockFree, Forget, NoFiles, work, UndoInv
<1> QED
  BY <1>1, <1>2, <1>3, <1>4, <1>5, <1>6 DEF PoolInv

\* Select(p) preserves the invariant of the pool.
LEMMA SelectStep ==
  ASSUME PoolInv, DisjointVariants, NEW p \in Procs, Select(p)
  PROVE  PoolInv'
<1> USE PoolAssumption DEF PoolInv, TypeOK, Files
<1>0. \A n \in StillThere(p) :
        /\ n \in Active /\ UniqueTarget(n) \in Names
        /\ arch[UniqueTarget(n)] = None
        /\ \E i \in 1..Len(Variants[n]) : UniqueTarget(n) = Variants[n][i]
  <2> SUFFICES ASSUME NEW n \in StillThere(p)
               PROVE  /\ n \in Active /\ UniqueTarget(n) \in Names
                      /\ arch[UniqueTarget(n)] = None
                      /\ \E i \in 1..Len(Variants[n]) : UniqueTarget(n) = Variants[n][i]
    OBVIOUS
  <2>1. n \in Names /\ n \in Active
    BY DEF StillThere, ActiveInv
  <2>2. \E i \in 1..Len(Variants[n]) : FirstFree(n, i)
    BY DEF Select
  <2> DEFINE k == CHOOSE i \in 1..Len(Variants[n]) : FirstFree(n, i)
  <2>3. k \in 1..Len(Variants[n]) /\ FirstFree(n, k)
    BY <2>2
  <2>4. UniqueTarget(n) = Variants[n][k] /\ arch[Variants[n][k]] = None
    BY <2>3 DEF UniqueTarget, FirstFree, Free
  <2> HIDE DEF k
  <2>5. Variants[n] \in Seq(Names)
    BY <2>1
  <2>6. Variants[n][k] \in Names
    BY <2>3, <2>5
  <2> QED
    BY <2>1, <2>3, <2>4, <2>6
<1>1. TypeOK'
  BY <1>0 DEF Select, Goto, StillThere, work, Entry
<1>2. LockInv'
  BY DEF Select, Goto, StillThere, work, LockInv
<1>3. ActiveInv'
  BY DEF Select, Goto, StillThere, work, ActiveInv
<1>4. EntryInv'
  BY DEF Select, Goto, StillThere, work, EntryInv, Entry
<1>5. SelectInv'
  <2>1. ASSUME NEW m \in Names, NEW n \in Names, m # n, sel'[m] # None, sel'[n] = sel'[m]
        PROVE  FALSE
    <3>1. m \in StillThere(p) /\ n \in StillThere(p)
      BY <2>1 DEF Select
    <3>2. UniqueTarget(m) = UniqueTarget(n)
      BY <2>1, <3>1 DEF Select
    <3>3. PICK i \in 1..Len(Variants[m]) : UniqueTarget(m) = Variants[m][i]
      BY <1>0, <3>1
    <3>4. PICK j \in 1..Len(Variants[n]) : UniqueTarget(n) = Variants[n][j]
      BY <1>0, <3>1
    <3>5. m \in Active /\ n \in Active
      BY <1>0, <3>1
    <3>6. Variants[m][i] # Variants[n][j]
      BY <2>1, <3>5 DEF DisjointVariants
    <3> QED
      BY <3>2, <3>3, <3>4, <3>6
  <2>2. ASSUME NEW q \in Procs, pc'[q] = "move"
        PROVE  q = p
    BY <2>2 DEF Select, Goto, LockInv
  <2>3. ASSUME NEW n \in Names, sel'[n] # None
        PROVE  cands'[p][n] # None /\ arch'[sel'[n]] = None
    BY <1>0, <2>3 DEF Select, StillThere, work
  <2> QED
    BY <2>1, <2>2, <2>3 DEF SelectInv
<1>6. UndoInv'
  BY DEF Select, Goto, StillThere, work, UndoInv
<1> QED
  BY <1>1, <1>2, <1>3, <1>4, <1>5, <1>6 DEF PoolInv

\* Move(p, n) preserves the invariant of the pool.
LEMMA MoveStep ==
  ASSUME PoolInv, DisjointVariants, NEW p \in Procs, NEW n \in Names, Move(p, n)
  PROVE  PoolInv'
<1> USE PoolAssumption DEF PoolInv, TypeOK, Files
<1>1. TypeOK'
  BY DEF Move, ToMove, ReplaceIntoArchive, work, Entry, SelectInv
<1>2. LockInv'
  BY DEF Move, ToMove, ReplaceIntoArchive, work, LockInv
<1>3. ActiveInv'
  BY DEF Move, ToMove, ReplaceIntoArchive, work, ActiveInv
<1>4. EntryInv'
  BY DEF Move, ToMove, ReplaceIntoArchive, work, EntryInv, Entry, LockInv, ActiveInv
<1>5. SelectInv'
  BY DEF Move, ToMove, ReplaceIntoArchive, work, SelectInv
<1>6. UndoInv'
  BY DEF Move, ToMove, ReplaceIntoArchive, work, UndoInv, LockInv
<1> QED
  BY <1>1, <1>2, <1>3, <1>4, <1>5, <1>6 DEF PoolInv

\* MoveFails(p, n) preserves the invariant of the pool.
LEMMA MoveFailsStep ==
  ASSUME PoolInv, DisjointVariants, NEW p \in Procs, NEW n \in Names, MoveFails(p, n)
  PROVE  PoolInv'
<1> USE PoolAssumption DEF PoolInv, TypeOK, Files
<1>1. TypeOK'
  BY DEF MoveFails, Goto, ToMove, work, Entry
<1>2. LockInv'
  BY DEF MoveFails, Goto, ToMove, work, LockInv
<1>3. ActiveInv'
  BY DEF MoveFails, Goto, ToMove, work, ActiveInv
<1>4. EntryInv'
  BY DEF MoveFails, Goto, ToMove, work, EntryInv, Entry
<1>5. SelectInv'
  BY DEF MoveFails, Goto, ToMove, work, SelectInv
<1>6. UndoInv'
  BY DEF MoveFails, Goto, ToMove, work, UndoInv
<1> QED
  BY <1>1, <1>2, <1>3, <1>4, <1>5, <1>6 DEF PoolInv

\* ChmodFails(p, n) preserves the invariant of the pool.
LEMMA ChmodFailsStep ==
  ASSUME PoolInv, DisjointVariants, NEW p \in Procs, NEW n \in Names, ChmodFails(p, n)
  PROVE  PoolInv'
<1> USE PoolAssumption DEF PoolInv, TypeOK, Files
<1>1. TypeOK'
  BY DEF ChmodFails, Goto, ToMove, ReplaceIntoArchive, work, Entry
<1>2. LockInv'
  BY DEF ChmodFails, Goto, ToMove, ReplaceIntoArchive, work, LockInv
<1>3. ActiveInv'
  BY DEF ChmodFails, Goto, ToMove, ReplaceIntoArchive, work, ActiveInv
<1>4. EntryInv'
  BY DEF ChmodFails, Goto, ToMove, ReplaceIntoArchive, work, EntryInv, Entry, LockInv
<1>5. SelectInv'
  BY DEF ChmodFails, Goto, ToMove, ReplaceIntoArchive, work, SelectInv, LockInv
<1>6. UndoInv'
  BY DEF ChmodFails, Goto, ToMove, ReplaceIntoArchive, work, UndoInv
<1> QED
  BY <1>1, <1>2, <1>3, <1>4, <1>5, <1>6 DEF PoolInv

\* WriteManifest(p) preserves the invariant of the pool.
LEMMA WriteManifestStep ==
  ASSUME PoolInv, DisjointVariants, NEW p \in Procs, WriteManifest(p)
  PROVE  PoolInv'
<1> USE PoolAssumption DEF PoolInv, TypeOK, Files
<1>1. TypeOK'
  BY DEF WriteManifest, Goto, ToMove, work, Entry
<1>2. LockInv'
  BY DEF WriteManifest, Goto, ToMove, work, LockInv
<1>3. ActiveInv'
  BY DEF WriteManifest, Goto, ToMove, work, ActiveInv
<1>4. EntryInv'
  BY DEF WriteManifest, Goto, ToMove, work, EntryInv, Entry
<1>5. SelectInv'
  BY DEF WriteManifest, Goto, ToMove, work, SelectInv
<1>6. UndoInv'
  <2>1. ASSUME NEW q \in Procs, pc[q] = "undo"
        PROVE  pc'[q] = "undo"
    BY <2>1 DEF WriteManifest, Goto
  <2>2. \A q \in Procs : pc'[q] = "select" => pc[q] = "select"
    BY DEF WriteManifest, Goto
  <2> QED
    BY <2>1, <2>2 DEF WriteManifest, work, UndoInv
<1> QED
  BY <1>1, <1>2, <1>3, <1>4, <1>5, <1>6 DEF PoolInv

\* Sync(p) preserves the invariant of the pool.
LEMMA SyncStep ==
  ASSUME PoolInv, DisjointVariants, NEW p \in Procs, Sync(p)
  PROVE  PoolInv'
<1> USE PoolAssumption DEF PoolInv, TypeOK, Files
<1>1. TypeOK'
  BY DEF Sync, Goto, NoFiles, work, Entry
<1>2. LockInv'
  BY DEF Sync, Goto, NoFiles, work, LockInv
<1>3. ActiveInv'
  BY DEF Sync, Goto, NoFiles, work, ActiveInv
<1>4. EntryInv'
  BY DEF Sync, Goto, NoFiles, work, EntryInv, Entry
<1>5. SelectInv'
  BY DEF Sync, Goto, NoFiles, work, SelectInv
<1>6. UndoInv'
  BY DEF Sync, Goto, NoFiles, work, UndoInv
<1> QED
  BY <1>1, <1>2, <1>3, <1>4, <1>5, <1>6 DEF PoolInv

\* SyncFails(p) preserves the invariant of the pool.
LEMMA SyncFailsStep ==
  ASSUME PoolInv, DisjointVariants, NEW p \in Procs, SyncFails(p)
  PROVE  PoolInv'
<1> USE PoolAssumption DEF PoolInv, TypeOK, Files
<1>1. TypeOK'
  BY DEF SyncFails, Goto, work, Entry
<1>2. LockInv'
  BY DEF SyncFails, Goto, work, LockInv
<1>3. ActiveInv'
  BY DEF SyncFails, Goto, work, ActiveInv
<1>4. EntryInv'
  BY DEF SyncFails, Goto, work, EntryInv, Entry
<1>5. SelectInv'
  BY DEF SyncFails, Goto, work, SelectInv
<1>6. UndoInv'
  BY DEF SyncFails, Goto, work, UndoInv
<1> QED
  BY <1>1, <1>2, <1>3, <1>4, <1>5, <1>6 DEF PoolInv

\* UnlinkReceipts(p) preserves the invariant of the pool.
LEMMA UnlinkReceiptsStep ==
  ASSUME PoolInv, DisjointVariants, NEW p \in Procs, UnlinkReceipts(p)
  PROVE  PoolInv'
<1> USE PoolAssumption DEF PoolInv, TypeOK, Files
<1>1. TypeOK'
  BY DEF UnlinkReceipts, Goto, Forget, NoFiles, work, Entry
<1>2. LockInv'
  BY DEF UnlinkReceipts, Goto, Forget, NoFiles, work, LockInv
<1>3. ActiveInv'
  BY DEF UnlinkReceipts, Goto, Forget, NoFiles, work, ActiveInv
<1>4. EntryInv'
  BY DEF UnlinkReceipts, Goto, Forget, NoFiles, work, EntryInv, Entry
<1>5. SelectInv'
  BY DEF UnlinkReceipts, Goto, Forget, NoFiles, work, SelectInv
<1>6. UndoInv'
  BY DEF UnlinkReceipts, Goto, Forget, NoFiles, work, UndoInv
<1> QED
  BY <1>1, <1>2, <1>3, <1>4, <1>5, <1>6 DEF PoolInv

\* UndoTest(p, n) preserves the invariant of the pool.
LEMMA UndoTestStep ==
  ASSUME PoolInv, DisjointVariants, NEW p \in Procs, NEW n \in Names, UndoTest(p, n)
  PROVE  PoolInv'
<1> USE PoolAssumption DEF PoolInv, TypeOK, Files
<1>1. TypeOK'
  BY DEF UndoTest, MayRestore, work, Entry
<1>2. LockInv'
  BY DEF UndoTest, MayRestore, work, LockInv
<1>3. ActiveInv'
  BY DEF UndoTest, MayRestore, work, ActiveInv
<1>4. EntryInv'
  BY DEF UndoTest, MayRestore, work, EntryInv, Entry
<1>5. SelectInv'
  BY DEF UndoTest, MayRestore, work, SelectInv, LockInv
<1>6. UndoInv'
  BY DEF UndoTest, MayRestore, work, UndoInv
<1> QED
  BY <1>1, <1>2, <1>3, <1>4, <1>5, <1>6 DEF PoolInv

\* UndoMove(p) preserves the invariant of the pool.
LEMMA UndoMoveStep ==
  ASSUME PoolInv, DisjointVariants, NEW p \in Procs, UndoMove(p)
  PROVE  PoolInv'
<1> USE PoolAssumption DEF PoolInv, TypeOK, Files
<1>0. undo \in Names /\ sel[undo] \in Names
  BY DEF UndoMove, UndoInv
<1>1. TypeOK'
  <2>1. auth' \in Files /\ arch' \in Files
    <3>1. CASE ReplaceIntoAuth(sel[undo], undo)
      BY <1>0, <3>1 DEF ReplaceIntoAuth
    <3>2. CASE UNCHANGED <<auth, arch>>
      BY <3>2
    <3> QED
      BY <3>1, <3>2 DEF UndoMove
  <2> QED
    BY <2>1 DEF UndoMove, work
<1>2. LockInv'
  BY DEF UndoMove, ReplaceIntoAuth, work, LockInv
<1>3. ActiveInv'
  BY DEF UndoMove, ReplaceIntoAuth, work, ActiveInv, UndoInv
<1>4. EntryInv'
  BY DEF UndoMove, ReplaceIntoAuth, work, EntryInv, Entry, LockInv
<1>5. SelectInv'
  BY DEF UndoMove, ReplaceIntoAuth, work, SelectInv, LockInv
<1>6. UndoInv'
  BY DEF UndoMove, ReplaceIntoAuth, work, UndoInv
<1> QED
  BY <1>1, <1>2, <1>3, <1>4, <1>5, <1>6 DEF PoolInv

\* ArchiveRaises(p) preserves the invariant of the pool.
LEMMA ArchiveRaisesStep ==
  ASSUME PoolInv, DisjointVariants, NEW p \in Procs, ArchiveRaises(p)
  PROVE  PoolInv'
<1> USE PoolAssumption DEF PoolInv, TypeOK, Files
<1>1. TypeOK'
  BY DEF ArchiveRaises, Goto, Forget, NoFiles, work, Entry
<1>2. LockInv'
  BY DEF ArchiveRaises, Goto, Forget, NoFiles, work, LockInv
<1>3. ActiveInv'
  BY DEF ArchiveRaises, Goto, Forget, NoFiles, work, ActiveInv
<1>4. EntryInv'
  BY DEF ArchiveRaises, Goto, Forget, NoFiles, work, EntryInv, Entry
<1>5. SelectInv'
  BY DEF ArchiveRaises, Goto, Forget, NoFiles, work, SelectInv
<1>6. UndoInv'
  BY DEF ArchiveRaises, Goto, Forget, NoFiles, work, UndoInv
<1> QED
  BY <1>1, <1>2, <1>3, <1>4, <1>5, <1>6 DEF PoolInv

\* RestoreBegin(p, t) preserves the invariant of the pool.
LEMMA RestoreBeginStep ==
  ASSUME PoolInv, DisjointVariants, NEW p \in Procs, NEW t \in Selectors, RestoreBegin(p, t)
  PROVE  PoolInv'
<1> USE PoolAssumption DEF PoolInv, TypeOK, Files
<1>1. TypeOK'
  <2>1. pick' \in Nat
    <3>1. PICK i \in 1..Len(manifest) : pick' = i
      BY DEF RestoreBegin
    <3>2. Len(manifest) \in Nat
      OBVIOUS
    <3> QED
      BY <3>1, <3>2
  <2>2. draft' \in Seq(Entry) /\ lock' \in Procs
    BY DEF RestoreBegin
  <2> QED
    BY <2>1, <2>2 DEF RestoreBegin, Goto
<1>2. LockInv'
  BY DEF RestoreBegin, Goto, LockFree, Matches, Restorable, work, LockInv
<1>3. ActiveInv'
  BY DEF RestoreBegin, Goto, LockFree, Matches, Restorable, work, ActiveInv
<1>4. EntryInv'
  BY DEF RestoreBegin, Goto, LockFree, Matches, Restorable, work, EntryInv, Entry, LockInv
<1>5. SelectInv'
  BY DEF RestoreBegin, Goto, LockFree, Matches, Restorable, work, SelectInv
<1>6. UndoInv'
  BY DEF RestoreBegin, Goto, LockFree, Matches, Restorable, work, UndoInv
<1> QED
  BY <1>1, <1>2, <1>3, <1>4, <1>5, <1>6 DEF PoolInv

\* RestoreMove(p) preserves the invariant of the pool.
LEMMA RestoreMoveStep ==
  ASSUME PoolInv, DisjointVariants, NEW p \in Procs, RestoreMove(p)
  PROVE  PoolInv'
<1> USE PoolAssumption DEF PoolInv, TypeOK, Files
<1>0. /\ pick \in 1..Len(draft) /\ draft[pick] \in Entry
      /\ draft[pick].src \in Names /\ draft[pick].dst \in Names
  <2>1. pick \in 1..Len(draft) /\ draft \in Seq(Entry)
    BY DEF RestoreMove, EntryInv
  <2>2. draft[pick] \in Entry
    BY <2>1
  <2> QED
    BY <2>1, <2>2 DEF Entry
<1>1. TypeOK'
  <2>1. auth' \in Files /\ arch' \in Files
    BY <1>0 DEF RestoreMove, ReplaceIntoAuth
  <2> QED
    BY <2>1 DEF RestoreMove, Goto, work
<1>2. LockInv'
  BY DEF RestoreMove, Goto, ReplaceIntoAuth, work, LockInv
<1>3. ActiveInv'
  BY DEF RestoreMove, Goto, ReplaceIntoAuth, work, ActiveInv, EntryInv, Entry
<1>4. EntryInv'
  <2>1. arch'[draft[pick].dst] = None
    BY <1>0 DEF RestoreMove, ReplaceIntoAuth
  <2> QED
    BY <1>0, <2>1 DEF RestoreMove, Goto, work, EntryInv, LockInv
<1>5. SelectInv'
  BY DEF RestoreMove, Goto, ReplaceIntoAuth, work, SelectInv
<1>6. UndoInv'
  BY DEF RestoreMove, Goto, ReplaceIntoAuth, work, UndoInv
<1> QED
  BY <1>1, <1>2, <1>3, <1>4, <1>5, <1>6 DEF PoolInv

\* RestoreRaises(p) preserves the invariant of the pool.
LEMMA RestoreRaisesStep ==
  ASSUME PoolInv, DisjointVariants, NEW p \in Procs, RestoreRaises(p)
  PROVE  PoolInv'
<1> USE PoolAssumption DEF PoolInv, TypeOK, Files
<1>1. TypeOK'
  BY DEF RestoreRaises, Goto, work, Entry
<1>2. LockInv'
  BY DEF RestoreRaises, Goto, work, LockInv
<1>3. ActiveInv'
  BY DEF RestoreRaises, Goto, work, ActiveInv
<1>4. EntryInv'
  BY DEF RestoreRaises, Goto, work, EntryInv, Entry
<1>5. SelectInv'
  BY DEF RestoreRaises, Goto, work, SelectInv
<1>6. UndoInv'
  BY DEF RestoreRaises, Goto, work, UndoInv
<1> QED
  BY <1>1, <1>2, <1>3, <1>4, <1>5, <1>6 DEF PoolInv

\* RestoreManifest(p) preserves the invariant of the pool.
LEMMA RestoreManifestStep ==
  ASSUME PoolInv, DisjointVariants, NEW p \in Procs, RestoreManifest(p)
  PROVE  PoolInv'
<1> USE PoolAssumption DEF PoolInv, TypeOK, Files
<1>0. /\ pick \in 1..Len(draft)
      /\ Without(draft, pick) \in Seq(Entry)
      /\ \A i \in 1..Len(Without(draft, pick)) :
           \E j \in 1..Len(draft) : Without(draft, pick)[i] = draft[j]
  <2>1. pick \in 1..Len(draft)
    BY DEF RestoreManifest, EntryInv
  <2>2. draft \in Seq(Entry)
    OBVIOUS
  <2> QED
    BY <2>1, <2>2, WithoutFacts
<1>1. TypeOK'
  BY <1>0 DEF RestoreManifest, Goto, work
<1>2. LockInv'
  BY DEF RestoreManifest, Goto, Without, work, LockInv
<1>3. ActiveInv'
  BY DEF RestoreManifest, Goto, Without, work, ActiveInv
<1>4. EntryInv'
  <2>1. \A i \in 1..Len(manifest') : manifest'[i].src \in Active
    BY <1>0 DEF RestoreManifest, EntryInv
  <2> QED
    BY <2>1 DEF RestoreManifest, Goto, work, EntryInv, LockInv
<1>5. SelectInv'
  BY DEF RestoreManifest, Goto, Without, work, SelectInv
<1>6. UndoInv'
  BY DEF RestoreManifest, Goto, Without, work, UndoInv
<1> QED
  BY <1>1, <1>2, <1>3, <1>4, <1>5, <1>6 DEF PoolInv

\* RestoreManifestFails(p) preserves the invariant of the pool.
LEMMA RestoreManifestFailsStep ==
  ASSUME PoolInv, DisjointVariants, NEW p \in Procs, RestoreManifestFails(p)
  PROVE  PoolInv'
<1> USE PoolAssumption DEF PoolInv, TypeOK, Files
<1>1. TypeOK'
  BY ZenonT(60) DEF RestoreManifestFails, Goto, ReplaceIntoArchive, work, Entry, EntryInv
<1>2. LockInv'
  BY DEF RestoreManifestFails, Goto, ReplaceIntoArchive, work, LockInv
<1>3. ActiveInv'
  BY DEF RestoreManifestFails, Goto, ReplaceIntoArchive, work, ActiveInv
<1>4. EntryInv'
  BY DEF RestoreManifestFails, Goto, ReplaceIntoArchive, work, EntryInv, Entry, LockInv
<1>5. SelectInv'
  BY DEF RestoreManifestFails, Goto, ReplaceIntoArchive, work, SelectInv, LockInv
<1>6. UndoInv'
  BY DEF RestoreManifestFails, Goto, ReplaceIntoArchive, work, UndoInv
<1> QED
  BY <1>1, <1>2, <1>3, <1>4, <1>5, <1>6 DEF PoolInv

\* Crash(p) preserves the invariant of the pool.
LEMMA CrashStep ==
  ASSUME PoolInv, DisjointVariants, NEW p \in Procs, Crash(p)
  PROVE  PoolInv'
<1> USE PoolAssumption DEF PoolInv, TypeOK, Files
<1>1. TypeOK'
  BY DEF Crash, Goto, Forget, NoFiles, work, Entry
<1>2. LockInv'
  BY DEF Crash, Goto, Forget, NoFiles, work, LockInv
<1>3. ActiveInv'
  BY DEF Crash, Goto, Forget, NoFiles, work, ActiveInv
<1>4. EntryInv'
  BY DEF Crash, Goto, Forget, NoFiles, work, EntryInv, Entry
<1>5. SelectInv'
  BY DEF Crash, Goto, Forget, NoFiles, work, SelectInv
<1>6. UndoInv'
  BY DEF Crash, Goto, Forget, NoFiles, work, UndoInv, LockInv
<1> QED
  BY <1>1, <1>2, <1>3, <1>4, <1>5, <1>6 DEF PoolInv

\* ImportBegin(plan, force) preserves the invariant of the pool.
LEMMA ImportBeginStep ==
  ASSUME PoolInv, DisjointVariants, NEW plan \in Plans, NEW force \in BOOLEAN, ImportBegin(plan, force)
  PROVE  PoolInv'
<1> USE PoolAssumption DEF PoolInv, TypeOK, Files
<1>1. TypeOK'
  BY DEF ImportBegin, Plans, work, Entry
<1>2. LockInv'
  BY DEF ImportBegin, Plans, work, LockInv
<1>3. ActiveInv'
  BY DEF ImportBegin, Plans, work, ActiveInv
<1>4. EntryInv'
  BY DEF ImportBegin, Plans, work, EntryInv, Entry
<1>5. SelectInv'
  BY DEF ImportBegin, Plans, work, SelectInv
<1>6. UndoInv'
  BY DEF ImportBegin, Plans, work, UndoInv
<1> QED
  BY <1>1, <1>2, <1>3, <1>4, <1>5, <1>6 DEF PoolInv

\* ImportWrite(n) preserves the invariant of the pool.
LEMMA ImportWriteStep ==
  ASSUME PoolInv, DisjointVariants, NEW n \in Names, ImportWrite(n)
  PROVE  PoolInv'
<1> USE PoolAssumption DEF PoolInv, TypeOK, Files
<1>1. TypeOK'
  BY DEF ImportWrite, Planned, work, Entry
<1>2. LockInv'
  BY DEF ImportWrite, Planned, work, LockInv
<1>3. ActiveInv'
  BY DEF ImportWrite, Planned, work, ActiveInv
<1>4. EntryInv'
  BY DEF ImportWrite, Planned, work, EntryInv, Entry
<1>5. SelectInv'
  BY DEF ImportWrite, Planned, work, SelectInv
<1>6. UndoInv'
  BY DEF ImportWrite, Planned, work, UndoInv
<1> QED
  BY <1>1, <1>2, <1>3, <1>4, <1>5, <1>6 DEF PoolInv

\* ImportWriteFails preserves the invariant of the pool.
LEMMA ImportWriteFailsStep ==
  ASSUME PoolInv, DisjointVariants, ImportWriteFails
  PROVE  PoolInv'
<1> USE PoolAssumption DEF PoolInv, TypeOK, Files
<1>1. TypeOK'
  BY DEF ImportWriteFails, Planned, work, Entry
<1>2. LockInv'
  BY DEF ImportWriteFails, Planned, work, LockInv
<1>3. ActiveInv'
  BY DEF ImportWriteFails, Planned, work, ActiveInv
<1>4. EntryInv'
  BY DEF ImportWriteFails, Planned, work, EntryInv, Entry
<1>5. SelectInv'
  BY DEF ImportWriteFails, Planned, work, SelectInv
<1>6. UndoInv'
  BY DEF ImportWriteFails, Planned, work, UndoInv
<1> QED
  BY <1>1, <1>2, <1>3, <1>4, <1>5, <1>6 DEF PoolInv

\* ImportVerify preserves the invariant of the pool.
LEMMA ImportVerifyStep ==
  ASSUME PoolInv, DisjointVariants, ImportVerify
  PROVE  PoolInv'
<1> USE PoolAssumption DEF PoolInv, TypeOK, Files
<1>1. TypeOK'
  BY DEF ImportVerify, Planned, NoImport, NoFiles, work, Entry
<1>2. LockInv'
  BY DEF ImportVerify, Planned, NoImport, NoFiles, work, LockInv
<1>3. ActiveInv'
  BY DEF ImportVerify, Planned, NoImport, NoFiles, work, ActiveInv
<1>4. EntryInv'
  BY DEF ImportVerify, Planned, NoImport, NoFiles, work, EntryInv, Entry
<1>5. SelectInv'
  BY DEF ImportVerify, Planned, NoImport, NoFiles, work, SelectInv
<1>6. UndoInv'
  BY DEF ImportVerify, Planned, NoImport, NoFiles, work, UndoInv
<1> QED
  BY <1>1, <1>2, <1>3, <1>4, <1>5, <1>6 DEF PoolInv

\* ImportUndo(n) preserves the invariant of the pool.
LEMMA ImportUndoStep ==
  ASSUME PoolInv, DisjointVariants, NEW n \in Names, ImportUndo(n)
  PROVE  PoolInv'
<1> USE PoolAssumption DEF PoolInv, TypeOK, Files
<1>1. TypeOK'
  <2>1. auth' \in Files
    <3>1. CASE auth' = [auth EXCEPT ![n] = imp.orig[n]]
      BY <3>1
    <3>2. CASE auth' = auth
      BY <3>2
    <3> QED
      BY <3>1, <3>2 DEF ImportUndo
  <2>2. imp' \in [pc : {"free", "write", "undo"}, plan : Files, orig : Files,
                  done : SUBSET Names]
    BY DEF ImportUndo
  <2> QED
    BY <2>1, <2>2 DEF ImportUndo, work
<1>2. LockInv'
  BY DEF ImportUndo, work, LockInv
<1>3. ActiveInv'
  BY DEF ImportUndo, work, ActiveInv
<1>4. EntryInv'
  BY DEF ImportUndo, work, EntryInv, Entry
<1>5. SelectInv'
  BY DEF ImportUndo, work, SelectInv
<1>6. UndoInv'
  BY DEF ImportUndo, work, UndoInv
<1> QED
  BY <1>1, <1>2, <1>3, <1>4, <1>5, <1>6 DEF PoolInv

\* ImportRaises preserves the invariant of the pool.
LEMMA ImportRaisesStep ==
  ASSUME PoolInv, DisjointVariants, ImportRaises
  PROVE  PoolInv'
<1> USE PoolAssumption DEF PoolInv, TypeOK, Files
<1>1. TypeOK'
  BY DEF ImportRaises, NoImport, NoFiles, work, Entry
<1>2. LockInv'
  BY DEF ImportRaises, NoImport, NoFiles, work, LockInv
<1>3. ActiveInv'
  BY DEF ImportRaises, NoImport, NoFiles, work, ActiveInv
<1>4. EntryInv'
  BY DEF ImportRaises, NoImport, NoFiles, work, EntryInv, Entry
<1>5. SelectInv'
  BY DEF ImportRaises, NoImport, NoFiles, work, SelectInv
<1>6. UndoInv'
  BY DEF ImportRaises, NoImport, NoFiles, work, UndoInv
<1> QED
  BY <1>1, <1>2, <1>3, <1>4, <1>5, <1>6 DEF PoolInv

\* ImportKilled preserves the invariant of the pool.
LEMMA ImportKilledStep ==
  ASSUME PoolInv, DisjointVariants, ImportKilled
  PROVE  PoolInv'
<1> USE PoolAssumption DEF PoolInv, TypeOK, Files
<1>1. TypeOK'
  BY DEF ImportKilled, NoImport, NoFiles, work, Entry
<1>2. LockInv'
  BY DEF ImportKilled, NoImport, NoFiles, work, LockInv
<1>3. ActiveInv'
  BY DEF ImportKilled, NoImport, NoFiles, work, ActiveInv
<1>4. EntryInv'
  BY DEF ImportKilled, NoImport, NoFiles, work, EntryInv, Entry
<1>5. SelectInv'
  BY DEF ImportKilled, NoImport, NoFiles, work, SelectInv
<1>6. UndoInv'
  BY DEF ImportKilled, NoImport, NoFiles, work, UndoInv
<1> QED
  BY <1>1, <1>2, <1>3, <1>4, <1>5, <1>6 DEF PoolInv

\* GatewayFails(n) preserves the invariant of the pool.
LEMMA GatewayFailsStep ==
  ASSUME PoolInv, DisjointVariants, NEW n \in Names, GatewayFails(n)
  PROVE  PoolInv'
<1> USE PoolAssumption DEF PoolInv, TypeOK, Files
<1>1. TypeOK'
  BY DEF GatewayFails, work, Entry
<1>2. LockInv'
  BY DEF GatewayFails, work, LockInv
<1>3. ActiveInv'
  BY DEF GatewayFails, work, ActiveInv
<1>4. EntryInv'
  BY DEF GatewayFails, work, EntryInv, Entry
<1>5. SelectInv'
  BY DEF GatewayFails, work, SelectInv
<1>6. UndoInv'
  BY DEF GatewayFails, work, UndoInv
<1> QED
  BY <1>1, <1>2, <1>3, <1>4, <1>5, <1>6 DEF PoolInv

\* GatewayRecovers(n) preserves the invariant of the pool.
LEMMA GatewayRecoversStep ==
  ASSUME PoolInv, DisjointVariants, NEW n \in Names, GatewayRecovers(n)
  PROVE  PoolInv'
<1> USE PoolAssumption DEF PoolInv, TypeOK, Files
<1>1. TypeOK'
  BY DEF GatewayRecovers, work, Entry
<1>2. LockInv'
  BY DEF GatewayRecovers, work, LockInv
<1>3. ActiveInv'
  BY DEF GatewayRecovers, work, ActiveInv
<1>4. EntryInv'
  BY DEF GatewayRecovers, work, EntryInv, Entry
<1>5. SelectInv'
  BY DEF GatewayRecovers, work, SelectInv
<1>6. UndoInv'
  BY DEF GatewayRecovers, work, UndoInv
<1> QED
  BY <1>1, <1>2, <1>3, <1>4, <1>5, <1>6 DEF PoolInv

\* GatewayRefresh(n, c) preserves the invariant of the pool.
LEMMA GatewayRefreshStep ==
  ASSUME PoolInv, DisjointVariants, NEW n \in Names, NEW c \in Refreshed, GatewayRefresh(n, c)
  PROVE  PoolInv'
<1> USE PoolAssumption DEF PoolInv, TypeOK, Files
<1>1. TypeOK'
  BY DEF GatewayRefresh, work, Entry
<1>2. LockInv'
  BY DEF GatewayRefresh, work, LockInv
<1>3. ActiveInv'
  BY DEF GatewayRefresh, work, ActiveInv
<1>4. EntryInv'
  BY DEF GatewayRefresh, work, EntryInv, Entry
<1>5. SelectInv'
  BY DEF GatewayRefresh, work, SelectInv
<1>6. UndoInv'
  BY DEF GatewayRefresh, work, UndoInv
<1> QED
  BY <1>1, <1>2, <1>3, <1>4, <1>5, <1>6 DEF PoolInv

-----------------------------------------------------------------------------
(* The invariant as a whole.                                               *)

\* The initial state satisfies the invariant.
LEMMA PoolInit == Init => PoolInv
<1> SUFFICES ASSUME Init PROVE PoolInv
  OBVIOUS
<1> USE PoolAssumption DEF Init, NoFiles, NoImport
<1>1. TypeOK
  BY DEF TypeOK, Files
<1>2. LockInv
  BY DEF LockInv
<1>3. ActiveInv
  BY DEF ActiveInv
<1>4. EntryInv /\ SelectInv /\ UndoInv
  BY DEF EntryInv, SelectInv, UndoInv
<1> QED
  BY <1>1, <1>2, <1>3, <1>4 DEF PoolInv

\* Every step preserves the invariant.
LEMMA PoolNext ==
  ASSUME PoolInv, DisjointVariants, [Next]_vars
  PROVE  PoolInv'
<1>1. ASSUME NEW p \in Procs, Scan(p)
     PROVE  PoolInv'
  BY <1>1, ScanStep
<1>2. ASSUME NEW p \in Procs, Probe(p)
     PROVE  PoolInv'
  BY <1>2, ProbeStep
<1>3. ASSUME NEW p \in Procs, Lock(p)
     PROVE  PoolInv'
  BY <1>3, LockStep
<1>4. ASSUME NEW p \in Procs, ArchiveRefused(p)
     PROVE  PoolInv'
  BY <1>4, ArchiveRefusedStep
<1>5. ASSUME NEW p \in Procs, Select(p)
     PROVE  PoolInv'
  BY <1>5, SelectStep
<1>6. ASSUME NEW p \in Procs, NEW n \in Names, Move(p, n)
     PROVE  PoolInv'
  BY <1>6, MoveStep
<1>7. ASSUME NEW p \in Procs, NEW n \in Names, MoveFails(p, n)
     PROVE  PoolInv'
  BY <1>7, MoveFailsStep
<1>8. ASSUME NEW p \in Procs, NEW n \in Names, ChmodFails(p, n)
     PROVE  PoolInv'
  BY <1>8, ChmodFailsStep
<1>9. ASSUME NEW p \in Procs, WriteManifest(p)
     PROVE  PoolInv'
  BY <1>9, WriteManifestStep
<1>10. ASSUME NEW p \in Procs, Sync(p)
     PROVE  PoolInv'
  BY <1>10, SyncStep
<1>11. ASSUME NEW p \in Procs, SyncFails(p)
     PROVE  PoolInv'
  BY <1>11, SyncFailsStep
<1>12. ASSUME NEW p \in Procs, UnlinkReceipts(p)
     PROVE  PoolInv'
  BY <1>12, UnlinkReceiptsStep
<1>13. ASSUME NEW p \in Procs, NEW n \in Names, UndoTest(p, n)
     PROVE  PoolInv'
  BY <1>13, UndoTestStep
<1>14. ASSUME NEW p \in Procs, UndoMove(p)
     PROVE  PoolInv'
  BY <1>14, UndoMoveStep
<1>15. ASSUME NEW p \in Procs, ArchiveRaises(p)
     PROVE  PoolInv'
  BY <1>15, ArchiveRaisesStep
<1>16. ASSUME NEW p \in Procs, NEW t \in Selectors, RestoreBegin(p, t)
     PROVE  PoolInv'
  BY <1>16, RestoreBeginStep
<1>17. ASSUME NEW p \in Procs, RestoreMove(p)
     PROVE  PoolInv'
  BY <1>17, RestoreMoveStep
<1>18. ASSUME NEW p \in Procs, RestoreRaises(p)
     PROVE  PoolInv'
  BY <1>18, RestoreRaisesStep
<1>19. ASSUME NEW p \in Procs, RestoreManifest(p)
     PROVE  PoolInv'
  BY <1>19, RestoreManifestStep
<1>20. ASSUME NEW p \in Procs, RestoreManifestFails(p)
     PROVE  PoolInv'
  BY <1>20, RestoreManifestFailsStep
<1>21. ASSUME NEW p \in Procs, Crash(p)
     PROVE  PoolInv'
  BY <1>21, CrashStep
<1>22. ASSUME NEW plan \in Plans, NEW force \in BOOLEAN, ImportBegin(plan, force)
     PROVE  PoolInv'
  BY <1>22, ImportBeginStep
<1>23. ASSUME NEW n \in Names, ImportWrite(n)
     PROVE  PoolInv'
  BY <1>23, ImportWriteStep
<1>24. ASSUME ImportWriteFails
     PROVE  PoolInv'
  BY <1>24, ImportWriteFailsStep
<1>25. ASSUME ImportVerify
     PROVE  PoolInv'
  BY <1>25, ImportVerifyStep
<1>26. ASSUME NEW n \in Names, ImportUndo(n)
     PROVE  PoolInv'
  BY <1>26, ImportUndoStep
<1>27. ASSUME ImportRaises
     PROVE  PoolInv'
  BY <1>27, ImportRaisesStep
<1>28. ASSUME ImportKilled
     PROVE  PoolInv'
  BY <1>28, ImportKilledStep
<1>29. ASSUME NEW n \in Names, GatewayFails(n)
     PROVE  PoolInv'
  BY <1>29, GatewayFailsStep
<1>30. ASSUME NEW n \in Names, GatewayRecovers(n)
     PROVE  PoolInv'
  BY <1>30, GatewayRecoversStep
<1>31. ASSUME NEW n \in Names, NEW c \in Refreshed, GatewayRefresh(n, c)
     PROVE  PoolInv'
  BY <1>31, GatewayRefreshStep
<1>32. CASE UNCHANGED vars
  BY <1>32 DEF PoolInv, TypeOK, LockInv, ActiveInv, EntryInv, SelectInv, UndoInv,
            vars, work
<1> QED
  BY <1>1, <1>2, <1>3, <1>4, <1>5, <1>6, <1>7, <1>8, <1>9, <1>10, <1>11, <1>12, <1>13, <1>14, <1>15, <1>16, <1>17, <1>18, <1>19, <1>20, <1>21, <1>22, <1>23, <1>24, <1>25, <1>26, <1>27, <1>28, <1>29, <1>30, <1>31, <1>32 DEF Next, Archiver, Restorer, Import, Gateway

\* The pool's invariant: one lock holder, targets of their own that stay free,
\* manifests that name active sources.
THEOREM PoolInvariance ==
  ASSUME DisjointVariants
  PROVE  Spec => []PoolInv
<1>1. Init => PoolInv
  BY PoolInit
<1>2. PoolInv /\ [Next]_vars => PoolInv'
  BY PoolNext
<1> QED
  BY <1>1, <1>2, PTL DEF Spec

\* Every field of the pool, of its transactions and of the importer keeps its
\* type.
THEOREM PoolTypes ==
  ASSUME DisjointVariants
  PROVE  Spec => []TypeOK
<1>1. PoolInv => TypeOK
  BY DEF PoolInv
<1> QED
  BY <1>1, PoolInvariance, PTL

-----------------------------------------------------------------------------
(* ArchiveKept.                                                            *)

\* A step that changes an archived file puts its content back into the pool.
LEMMA ArchiveNext ==
  ASSUME PoolInv, DisjointVariants, [Next]_vars, NEW t \in Names,
         arch[t] # None, arch'[t] # arch[t]
  PROVE  \E n \in Names : auth'[n] = arch[t]
<1> USE PoolAssumption DEF PoolInv, TypeOK, Files
<1>1. ASSUME NEW p \in Procs, Scan(p)
     PROVE  \E k \in Names : auth'[k] = arch[t]
  BY <1>1 DEF Scan
<1>2. ASSUME NEW p \in Procs, Probe(p)
     PROVE  \E k \in Names : auth'[k] = arch[t]
  BY <1>2 DEF Probe
<1>3. ASSUME NEW p \in Procs, Lock(p)
     PROVE  \E k \in Names : auth'[k] = arch[t]
  BY <1>3 DEF Lock
<1>4. ASSUME NEW p \in Procs, ArchiveRefused(p)
     PROVE  \E k \in Names : auth'[k] = arch[t]
  BY <1>4 DEF ArchiveRefused
<1>5. ASSUME NEW p \in Procs, Select(p)
     PROVE  \E k \in Names : auth'[k] = arch[t]
  BY <1>5 DEF Select
<1>6. ASSUME NEW p \in Procs, NEW n \in Names, Move(p, n)
     PROVE  \E k \in Names : auth'[k] = arch[t]
  BY <1>6 DEF Move, ToMove, ReplaceIntoArchive, SelectInv
<1>7. ASSUME NEW p \in Procs, NEW n \in Names, MoveFails(p, n)
     PROVE  \E k \in Names : auth'[k] = arch[t]
  BY <1>7 DEF MoveFails
<1>8. ASSUME NEW p \in Procs, NEW n \in Names, ChmodFails(p, n)
     PROVE  \E k \in Names : auth'[k] = arch[t]
  BY <1>8 DEF ChmodFails, ToMove, ReplaceIntoArchive, SelectInv
<1>9. ASSUME NEW p \in Procs, WriteManifest(p)
     PROVE  \E k \in Names : auth'[k] = arch[t]
  BY <1>9 DEF WriteManifest
<1>10. ASSUME NEW p \in Procs, Sync(p)
     PROVE  \E k \in Names : auth'[k] = arch[t]
  BY <1>10 DEF Sync
<1>11. ASSUME NEW p \in Procs, SyncFails(p)
     PROVE  \E k \in Names : auth'[k] = arch[t]
  BY <1>11 DEF SyncFails
<1>12. ASSUME NEW p \in Procs, UnlinkReceipts(p)
     PROVE  \E k \in Names : auth'[k] = arch[t]
  BY <1>12 DEF UnlinkReceipts
<1>13. ASSUME NEW p \in Procs, NEW n \in Names, UndoTest(p, n)
     PROVE  \E k \in Names : auth'[k] = arch[t]
  BY <1>13 DEF UndoTest
<1>14. ASSUME NEW p \in Procs, UndoMove(p)
     PROVE  \E k \in Names : auth'[k] = arch[t]
  <2>1. undo \in Names /\ sel[undo] \in Names
    BY <1>14 DEF UndoMove, UndoInv
  <2>2. ReplaceIntoAuth(sel[undo], undo)
    BY <1>14 DEF UndoMove
  <2> QED
    BY <2>1, <2>2 DEF ReplaceIntoAuth
<1>15. ASSUME NEW p \in Procs, ArchiveRaises(p)
     PROVE  \E k \in Names : auth'[k] = arch[t]
  BY <1>15 DEF ArchiveRaises
<1>16. ASSUME NEW p \in Procs, NEW x \in Selectors, RestoreBegin(p, x)
     PROVE  \E k \in Names : auth'[k] = arch[t]
  BY <1>16 DEF RestoreBegin
<1>17. ASSUME NEW p \in Procs, RestoreMove(p)
     PROVE  \E k \in Names : auth'[k] = arch[t]
  <2>1. pick \in 1..Len(draft) /\ draft \in Seq(Entry)
    BY <1>17 DEF RestoreMove, EntryInv
  <2>2. draft[pick].src \in Names /\ draft[pick].dst \in Names
    BY <2>1, EntryFacts
  <2> QED
    BY <1>17, <2>2 DEF RestoreMove, ReplaceIntoAuth
<1>18. ASSUME NEW p \in Procs, RestoreRaises(p)
     PROVE  \E k \in Names : auth'[k] = arch[t]
  BY <1>18 DEF RestoreRaises
<1>19. ASSUME NEW p \in Procs, RestoreManifest(p)
     PROVE  \E k \in Names : auth'[k] = arch[t]
  BY <1>19 DEF RestoreManifest
<1>20. ASSUME NEW p \in Procs, RestoreManifestFails(p)
     PROVE  \E k \in Names : auth'[k] = arch[t]
  <2>1. arch[draft[pick].dst] = None
    BY <1>20 DEF RestoreManifestFails, EntryInv
  <2>2. \E u \in Names : ReplaceIntoArchive(u, draft[pick].dst)
    <3>1. pick \in 1..Len(draft) /\ draft \in Seq(Entry)
      BY <1>20 DEF RestoreManifestFails, EntryInv
    <3>2. draft[pick].src \in Names
      BY <3>1, EntryFacts
    <3> QED
      BY <1>20, <3>2 DEF RestoreManifestFails
  <2> QED
    BY <2>1, <2>2 DEF ReplaceIntoArchive
<1>21. ASSUME NEW p \in Procs, Crash(p)
     PROVE  \E k \in Names : auth'[k] = arch[t]
  BY <1>21 DEF Crash
<1>22. ASSUME NEW plan \in Plans, NEW force \in BOOLEAN, ImportBegin(plan, force)
     PROVE  \E k \in Names : auth'[k] = arch[t]
  BY <1>22 DEF ImportBegin
<1>23. ASSUME NEW n \in Names, ImportWrite(n)
     PROVE  \E k \in Names : auth'[k] = arch[t]
  BY <1>23 DEF ImportWrite
<1>24. ASSUME ImportWriteFails
     PROVE  \E k \in Names : auth'[k] = arch[t]
  BY <1>24 DEF ImportWriteFails
<1>25. ASSUME ImportVerify
     PROVE  \E k \in Names : auth'[k] = arch[t]
  BY <1>25 DEF ImportVerify
<1>26. ASSUME NEW n \in Names, ImportUndo(n)
     PROVE  \E k \in Names : auth'[k] = arch[t]
  BY <1>26 DEF ImportUndo
<1>27. ASSUME ImportRaises
     PROVE  \E k \in Names : auth'[k] = arch[t]
  BY <1>27 DEF ImportRaises
<1>28. ASSUME ImportKilled
     PROVE  \E k \in Names : auth'[k] = arch[t]
  BY <1>28 DEF ImportKilled
<1>29. ASSUME NEW n \in Names, GatewayFails(n)
     PROVE  \E k \in Names : auth'[k] = arch[t]
  BY <1>29 DEF GatewayFails
<1>30. ASSUME NEW n \in Names, GatewayRecovers(n)
     PROVE  \E k \in Names : auth'[k] = arch[t]
  BY <1>30 DEF GatewayRecovers
<1>31. ASSUME NEW n \in Names, NEW c \in Refreshed, GatewayRefresh(n, c)
     PROVE  \E k \in Names : auth'[k] = arch[t]
  BY <1>31 DEF GatewayRefresh
<1>32. CASE UNCHANGED vars
  BY <1>32 DEF vars
<1> QED
  BY <1>1, <1>2, <1>3, <1>4, <1>5, <1>6, <1>7, <1>8, <1>9, <1>10, <1>11, <1>12, <1>13, <1>14, <1>15, <1>16, <1>17, <1>18, <1>19, <1>20, <1>21, <1>22, <1>23, <1>24, <1>25, <1>26, <1>27, <1>28, <1>29, <1>30, <1>31, <1>32 DEF Next, Archiver, Restorer, Import, Gateway

\* When no two active names share an archive name, an archived credential only
\* ever leaves the archive for the active directory, whatever imports, moves,
\* failures and kills interleave.
THEOREM ArchiveIsKept ==
  ASSUME DisjointVariants
  PROVE  Spec => ArchiveKept
<1>1. PoolInv /\ [Next]_vars =>
        [\A t \in Names :
           arch[t] # None /\ arch'[t] # arch[t] => \E n \in Names : auth'[n] = arch[t]]_vars
  BY ArchiveNext
<1> QED
  BY <1>1, PoolInvariance, PTL DEF Spec, ArchiveKept

-----------------------------------------------------------------------------
(* NothingLost, for a pool into which nothing is imported.                 *)

\* Without imports, names found free stay free until they are used.
LEMMA QuietNext ==
  ASSUME PoolInv, QuietInv, Importable = {}, [Next]_vars
  PROVE  QuietInv'
<1> USE PoolAssumption DEF PoolInv, TypeOK, Files, QuietInv
<1>1. ASSUME NEW p \in Procs, Scan(p)
     PROVE  QuietInv'
  BY <1>1 DEF Scan, Goto, Accused, NoFiles, work, LockInv
<1>2. ASSUME NEW p \in Procs, Probe(p)
     PROVE  QuietInv'
  BY <1>2 DEF Probe, Goto, work, LockInv
<1>3. ASSUME NEW p \in Procs, Lock(p)
     PROVE  QuietInv'
  BY <1>3 DEF Lock, Goto, LockFree, work, LockInv, UndoInv
<1>4. ASSUME NEW p \in Procs, ArchiveRefused(p)
     PROVE  QuietInv'
  BY <1>4 DEF ArchiveRefused, Goto, LockFree, Forget, NoFiles, work, LockInv
<1>5. ASSUME NEW p \in Procs, Select(p)
     PROVE  QuietInv'
  BY <1>5 DEF Select, Goto, StillThere, work, LockInv
<1>6. ASSUME NEW p \in Procs, NEW n \in Names, Move(p, n)
     PROVE  QuietInv'
  BY <1>6 DEF Move, ToMove, ReplaceIntoArchive, work, LockInv, UndoInv
<1>7. ASSUME NEW p \in Procs, NEW n \in Names, MoveFails(p, n)
     PROVE  QuietInv'
  BY <1>7 DEF MoveFails, Goto, ToMove, work, LockInv
<1>8. ASSUME NEW p \in Procs, NEW n \in Names, ChmodFails(p, n)
     PROVE  QuietInv'
  BY <1>8 DEF ChmodFails, Goto, ToMove, ReplaceIntoArchive, work, LockInv, UndoInv
<1>9. ASSUME NEW p \in Procs, WriteManifest(p)
     PROVE  QuietInv'
  BY <1>9 DEF WriteManifest, Goto, ToMove, work, LockInv
<1>10. ASSUME NEW p \in Procs, Sync(p)
     PROVE  QuietInv'
  BY <1>10 DEF Sync, Goto, NoFiles, work, LockInv
<1>11. ASSUME NEW p \in Procs, SyncFails(p)
     PROVE  QuietInv'
  BY <1>11 DEF SyncFails, Goto, work, LockInv
<1>12. ASSUME NEW p \in Procs, UnlinkReceipts(p)
     PROVE  QuietInv'
  BY <1>12 DEF UnlinkReceipts, Goto, Forget, NoFiles, work, LockInv
<1>13. ASSUME NEW p \in Procs, NEW n \in Names, UndoTest(p, n)
     PROVE  QuietInv'
  BY <1>13 DEF UndoTest, MayRestore
<1>14. ASSUME NEW p \in Procs, UndoMove(p)
     PROVE  QuietInv'
  BY <1>14 DEF UndoMove, ReplaceIntoAuth, work, LockInv, UndoInv
<1>15. ASSUME NEW p \in Procs, ArchiveRaises(p)
     PROVE  QuietInv'
  BY <1>15 DEF ArchiveRaises, Goto, Forget, NoFiles, work, LockInv
<1>16. ASSUME NEW p \in Procs, NEW x \in Selectors, RestoreBegin(p, x)
     PROVE  QuietInv'
  <2>1. undo = None
    BY <1>16 DEF RestoreBegin, LockFree, LockInv, UndoInv
  <2>2. PICK k \in 1..Len(manifest) : Restorable(k) /\ pick' = k
    BY <1>16 DEF RestoreBegin
  <2>3. auth'[draft'[pick'].src] = None
    BY <1>16, <2>2 DEF RestoreBegin, Restorable
  <2> QED
    BY <1>16, <2>1, <2>3 DEF RestoreBegin
<1>17. ASSUME NEW p \in Procs, RestoreMove(p)
     PROVE  QuietInv'
  BY <1>17 DEF RestoreMove, Goto, ReplaceIntoAuth, work, LockInv, UndoInv
<1>18. ASSUME NEW p \in Procs, RestoreRaises(p)
     PROVE  QuietInv'
  BY <1>18 DEF RestoreRaises, Goto, work, LockInv
<1>19. ASSUME NEW p \in Procs, RestoreManifest(p)
     PROVE  QuietInv'
  BY <1>19 DEF RestoreManifest, Goto, Without, work, LockInv
<1>20. ASSUME NEW p \in Procs, RestoreManifestFails(p)
     PROVE  QuietInv'
  BY <1>20 DEF RestoreManifestFails, Goto, ReplaceIntoArchive, work, LockInv, UndoInv
<1>21. ASSUME NEW p \in Procs, Crash(p)
     PROVE  QuietInv'
  BY <1>21 DEF Crash, Goto, Forget, NoFiles, work, LockInv, UndoInv
<1>22. ASSUME NEW plan \in Plans, NEW force \in BOOLEAN, ImportBegin(plan, force)
     PROVE  QuietInv'
  <2>1. plan \in [Names -> {None}] /\ plan # NoFiles
    BY <1>22 DEF Plans
  <2> QED
    BY <2>1 DEF NoFiles
<1>23. ASSUME NEW n \in Names, ImportWrite(n)
     PROVE  QuietInv'
  BY <1>23 DEF ImportWrite, NoImport
<1>24. ASSUME ImportWriteFails
     PROVE  QuietInv'
  BY <1>24 DEF ImportWriteFails, NoImport
<1>25. ASSUME ImportVerify
     PROVE  QuietInv'
  BY <1>25 DEF ImportVerify, NoImport
<1>26. ASSUME NEW n \in Names, ImportUndo(n)
     PROVE  QuietInv'
  BY <1>26 DEF ImportUndo, NoImport
<1>27. ASSUME ImportRaises
     PROVE  QuietInv'
  BY <1>27 DEF ImportRaises, NoImport
<1>28. ASSUME ImportKilled
     PROVE  QuietInv'
  BY <1>28 DEF ImportKilled, NoImport
<1>29. ASSUME NEW n \in Names, GatewayFails(n)
     PROVE  QuietInv'
  BY <1>29 DEF GatewayFails, work, LockInv
<1>30. ASSUME NEW n \in Names, GatewayRecovers(n)
     PROVE  QuietInv'
  BY <1>30 DEF GatewayRecovers, work, LockInv
<1>31. ASSUME NEW n \in Names, NEW c \in Refreshed, GatewayRefresh(n, c)
     PROVE  QuietInv'
  BY <1>31 DEF GatewayRefresh, work, LockInv
<1>32. CASE UNCHANGED vars
  BY <1>32 DEF vars, work
<1> QED
  BY <1>1, <1>2, <1>3, <1>4, <1>5, <1>6, <1>7, <1>8, <1>9, <1>10, <1>11, <1>12, <1>13, <1>14, <1>15, <1>16, <1>17, <1>18, <1>19, <1>20, <1>21, <1>22, <1>23, <1>24, <1>25, <1>26, <1>27, <1>28, <1>29, <1>30, <1>31, <1>32 DEF Next, Archiver, Restorer, Import, Gateway

\* os.replace onto a free name loses nothing, in either direction.
LEMMA MovedKept ==
  ASSUME auth \in Files, arch \in Files, NEW u \in Names, NEW v \in Names,
         arch[v] = None,
         auth' = [auth EXCEPT ![u] = None], arch' = [arch EXCEPT ![v] = auth[u]],
         NEW d \in Creds, Held(d)
  PROVE  Held(d)'
<1>1. PICK n \in Names : auth[n] = d \/ arch[n] = d
  BY DEF Held
<1>2. CASE auth[n] = d /\ n = u
  <2>1. arch'[v] = d
    BY <1>2 DEF Files
  <2> QED
    BY <2>1 DEF Held
<1>3. CASE auth[n] = d /\ n # u
  <2>1. auth'[n] = d
    BY <1>3 DEF Files
  <2> QED
    BY <2>1 DEF Held
<1>4. CASE arch[n] = d
  <2>1. n # v
    BY <1>4, PoolAssumption
  <2>2. arch'[n] = d
    BY <1>4, <2>1 DEF Files
  <2> QED
    BY <2>2 DEF Held
<1> QED
  BY <1>1, <1>2, <1>3, <1>4

\* The same for a move out of the archive.
LEMMA ReturnedKept ==
  ASSUME auth \in Files, arch \in Files, NEW u \in Names, NEW v \in Names,
         auth[u] = None,
         auth' = [auth EXCEPT ![u] = arch[v]], arch' = [arch EXCEPT ![v] = None],
         NEW d \in Creds, Held(d)
  PROVE  Held(d)'
<1>1. PICK n \in Names : auth[n] = d \/ arch[n] = d
  BY DEF Held
<1>2. CASE arch[n] = d /\ n = v
  <2>1. auth'[u] = d
    BY <1>2 DEF Files
  <2> QED
    BY <2>1 DEF Held
<1>3. CASE arch[n] = d /\ n # v
  <2>1. arch'[n] = d
    BY <1>3 DEF Files
  <2> QED
    BY <2>1 DEF Held
<1>4. CASE auth[n] = d
  <2>1. n # u
    BY <1>4, PoolAssumption
  <2>2. auth'[n] = d
    BY <1>4, <2>1 DEF Files
  <2> QED
    BY <2>2 DEF Held
<1> QED
  BY <1>1, <1>2, <1>3, <1>4

\* Without imports, every step keeps a copy of every credential.
LEMMA LossNext ==
  ASSUME PoolInv, QuietInv, DisjointVariants, Importable = {}, [Next]_vars,
         NEW d \in Creds, Held(d)
  PROVE  Held(d)' \/ Replaced(d)
<1> USE PoolAssumption DEF PoolInv, TypeOK, Files
<1>1. ASSUME NEW p \in Procs, Scan(p)
     PROVE  Held(d)' \/ Replaced(d)
  BY <1>1 DEF Scan, Held
<1>2. ASSUME NEW p \in Procs, Probe(p)
     PROVE  Held(d)' \/ Replaced(d)
  BY <1>2 DEF Probe, Held
<1>3. ASSUME NEW p \in Procs, Lock(p)
     PROVE  Held(d)' \/ Replaced(d)
  BY <1>3 DEF Lock, Held
<1>4. ASSUME NEW p \in Procs, ArchiveRefused(p)
     PROVE  Held(d)' \/ Replaced(d)
  BY <1>4 DEF ArchiveRefused, Held
<1>5. ASSUME NEW p \in Procs, Select(p)
     PROVE  Held(d)' \/ Replaced(d)
  BY <1>5 DEF Select, Held
<1>6. ASSUME NEW p \in Procs, NEW n \in Names, Move(p, n)
     PROVE  Held(d)' \/ Replaced(d)
  <2>1. sel[n] \in Names /\ arch[sel[n]] = None
    BY <1>6 DEF Move, ToMove, SelectInv
  <2> QED
    BY <1>6, <2>1, MovedKept DEF Move, ReplaceIntoArchive, QuietInv
<1>7. ASSUME NEW p \in Procs, NEW n \in Names, MoveFails(p, n)
     PROVE  Held(d)' \/ Replaced(d)
  BY <1>7 DEF MoveFails, Held
<1>8. ASSUME NEW p \in Procs, NEW n \in Names, ChmodFails(p, n)
     PROVE  Held(d)' \/ Replaced(d)
  <2>1. sel[n] \in Names /\ arch[sel[n]] = None
    BY <1>8 DEF ChmodFails, ToMove, SelectInv
  <2> QED
    BY <1>8, <2>1, MovedKept DEF ChmodFails, ReplaceIntoArchive, QuietInv
<1>9. ASSUME NEW p \in Procs, WriteManifest(p)
     PROVE  Held(d)' \/ Replaced(d)
  BY <1>9 DEF WriteManifest, Held
<1>10. ASSUME NEW p \in Procs, Sync(p)
     PROVE  Held(d)' \/ Replaced(d)
  BY <1>10 DEF Sync, Held
<1>11. ASSUME NEW p \in Procs, SyncFails(p)
     PROVE  Held(d)' \/ Replaced(d)
  BY <1>11 DEF SyncFails, Held
<1>12. ASSUME NEW p \in Procs, UnlinkReceipts(p)
     PROVE  Held(d)' \/ Replaced(d)
  BY <1>12 DEF UnlinkReceipts, Held
<1>13. ASSUME NEW p \in Procs, NEW n \in Names, UndoTest(p, n)
     PROVE  Held(d)' \/ Replaced(d)
  BY <1>13 DEF UndoTest, Held
<1>14. ASSUME NEW p \in Procs, UndoMove(p)
     PROVE  Held(d)' \/ Replaced(d)
  <2>1. undo \in Names /\ sel[undo] \in Names /\ auth[undo] = None
    BY <1>14 DEF UndoMove, UndoInv, QuietInv
  <2>2. CASE ReplaceIntoAuth(sel[undo], undo)
    BY <2>1, <2>2, ReturnedKept DEF ReplaceIntoAuth
  <2>3. CASE UNCHANGED <<auth, arch>>
    BY <2>3 DEF Held
  <2> QED
    BY <1>14, <2>2, <2>3 DEF UndoMove
<1>15. ASSUME NEW p \in Procs, ArchiveRaises(p)
     PROVE  Held(d)' \/ Replaced(d)
  BY <1>15 DEF ArchiveRaises, Held
<1>16. ASSUME NEW p \in Procs, NEW x \in Selectors, RestoreBegin(p, x)
     PROVE  Held(d)' \/ Replaced(d)
  BY <1>16 DEF RestoreBegin, Held
<1>17. ASSUME NEW p \in Procs, RestoreMove(p)
     PROVE  Held(d)' \/ Replaced(d)
  <2>1. pick \in 1..Len(draft) /\ draft \in Seq(Entry)
    BY <1>17 DEF RestoreMove, EntryInv
  <2>2. draft[pick].src \in Names /\ draft[pick].dst \in Names
    BY <2>1, EntryFacts
  <2>3. auth[draft[pick].src] = None
    BY <1>17 DEF RestoreMove, QuietInv
  <2> QED
    BY <1>17, <2>2, <2>3, ReturnedKept DEF RestoreMove, ReplaceIntoAuth
<1>18. ASSUME NEW p \in Procs, RestoreRaises(p)
     PROVE  Held(d)' \/ Replaced(d)
  BY <1>18 DEF RestoreRaises, Held
<1>19. ASSUME NEW p \in Procs, RestoreManifest(p)
     PROVE  Held(d)' \/ Replaced(d)
  BY <1>19 DEF RestoreManifest, Held
<1>20. ASSUME NEW p \in Procs, RestoreManifestFails(p)
     PROVE  Held(d)' \/ Replaced(d)
  <2>1. pick \in 1..Len(draft) /\ draft \in Seq(Entry)
    BY <1>20 DEF RestoreManifestFails, EntryInv
  <2>2. draft[pick].src \in Names /\ draft[pick].dst \in Names
    BY <2>1, EntryFacts
  <2>3. arch[draft[pick].dst] = None
    BY <1>20 DEF RestoreManifestFails, EntryInv
  <2>4. CASE ReplaceIntoArchive(draft[pick].src, draft[pick].dst)
    BY <2>2, <2>3, <2>4, MovedKept DEF ReplaceIntoArchive
  <2>5. CASE UNCHANGED <<auth, arch>>
    BY <2>5 DEF Held
  <2> QED
    BY <1>20, <2>4, <2>5 DEF RestoreManifestFails
<1>21. ASSUME NEW p \in Procs, Crash(p)
     PROVE  Held(d)' \/ Replaced(d)
  BY <1>21 DEF Crash, Held
<1>22. ASSUME NEW plan \in Plans, NEW force \in BOOLEAN, ImportBegin(plan, force)
     PROVE  Held(d)' \/ Replaced(d)
  BY <1>22 DEF ImportBegin, Held
<1>23. ASSUME NEW n \in Names, ImportWrite(n)
     PROVE  Held(d)' \/ Replaced(d)
  BY <1>23 DEF ImportWrite, QuietInv, NoImport
<1>24. ASSUME ImportWriteFails
     PROVE  Held(d)' \/ Replaced(d)
  BY <1>24 DEF ImportWriteFails, Held
<1>25. ASSUME ImportVerify
     PROVE  Held(d)' \/ Replaced(d)
  BY <1>25 DEF ImportVerify, Held
<1>26. ASSUME NEW n \in Names, ImportUndo(n)
     PROVE  Held(d)' \/ Replaced(d)
  BY <1>26 DEF ImportUndo, QuietInv, NoImport
<1>27. ASSUME ImportRaises
     PROVE  Held(d)' \/ Replaced(d)
  BY <1>27 DEF ImportRaises, Held
<1>28. ASSUME ImportKilled
     PROVE  Held(d)' \/ Replaced(d)
  BY <1>28 DEF ImportKilled, Held
<1>29. ASSUME NEW n \in Names, GatewayFails(n)
     PROVE  Held(d)' \/ Replaced(d)
  BY <1>29 DEF GatewayFails, Held
<1>30. ASSUME NEW n \in Names, GatewayRecovers(n)
     PROVE  Held(d)' \/ Replaced(d)
  BY <1>30 DEF GatewayRecovers, Held
<1>31. ASSUME NEW n \in Names, NEW c \in Refreshed, GatewayRefresh(n, c)
     PROVE  Held(d)' \/ Replaced(d)
  BY <1>31 DEF GatewayRefresh, Held, Replaced
<1>32. CASE UNCHANGED vars
  BY <1>32 DEF vars, Held
<1> QED
  BY <1>1, <1>2, <1>3, <1>4, <1>5, <1>6, <1>7, <1>8, <1>9, <1>10, <1>11, <1>12, <1>13, <1>14, <1>15, <1>16, <1>17, <1>18, <1>19, <1>20, <1>21, <1>22, <1>23, <1>24, <1>25, <1>26, <1>27, <1>28, <1>29, <1>30, <1>31, <1>32 DEF Next, Archiver, Restorer, Import, Gateway

\* When no two active names share an archive name and nothing is imported, no
\* step destroys the last copy of a credential, whichever operation fails and
\* whichever process is killed.
THEOREM CredentialsKept ==
  ASSUME DisjointVariants, Importable = {}
  PROVE  Spec => NothingLost
<1>1. Init => QuietInv
  BY PoolAssumption DEF Init, QuietInv
<1>2. PoolInv /\ QuietInv /\ [Next]_vars => QuietInv'
  BY QuietNext
<1>3. PoolInv /\ QuietInv /\ [Next]_vars =>
        [\A c \in Creds : Held(c) => Held(c)' \/ Replaced(c)]_vars
  BY LossNext
<1> QED
  BY <1>1, <1>2, <1>3, PoolInvariance, PTL DEF Spec, NothingLost

-----------------------------------------------------------------------------
(* OneCopy, for a pool into which nothing is imported.                     *)

\* A step that leaves both directories as they are leaves no second copy.
LEMMA StillOneCopy ==
  ASSUME OneCopy, FreshInv, UNCHANGED <<auth, arch, fresh>>
  PROVE  OneCopy' /\ FreshInv'
BY DEF OneCopy, FreshInv

\* os.replace moves a content: it never leaves a second copy, whatever the
\* target held.
LEMMA MovedOnce ==
  ASSUME TypeOK, OneCopy, FreshInv, NEW n \in Names, NEW t \in Names,
         ReplaceIntoArchive(n, t) \/ ReplaceIntoAuth(t, n), UNCHANGED fresh
  PROVE  OneCopy' /\ FreshInv'
<1> USE PoolAssumption
<1>0. auth \in [Names -> Creds \cup {None}] /\ arch \in [Names -> Creds \cup {None}]
      /\ None \notin fresh
  BY DEF TypeOK, Files
<1>1. CASE ReplaceIntoArchive(n, t)
  <2>1. \A m \in Names : auth'[m] = (IF m = n THEN None ELSE auth[m])
    BY <1>0, <1>1 DEF ReplaceIntoArchive
  <2>2. \A m \in Names : arch'[m] = (IF m = t THEN auth[n] ELSE arch[m])
    BY <1>0, <1>1 DEF ReplaceIntoArchive
  <2>3. ASSUME NEW m \in Names, NEW k \in Names, auth'[m] # None
        PROVE  auth'[m] # arch'[k]
    BY ZenonT(60), <2>1, <2>2, <2>3 DEF OneCopy
  <2>4. ASSUME NEW m \in Names, NEW k \in Names, m # k, auth'[m] # None
        PROVE  auth'[m] # auth'[k]
    BY <2>1, <2>2, <2>4 DEF OneCopy
  <2>5. ASSUME NEW m \in Names, NEW k \in Names, m # k, arch'[m] # None
        PROVE  arch'[m] # arch'[k]
    BY ZenonT(60), <2>1, <2>2, <2>5 DEF OneCopy
  <2>6. OneCopy'
    BY <2>3, <2>4, <2>5 DEF OneCopy
  <2> QED
    BY <1>0, <2>1, <2>2, <2>6 DEF FreshInv
<1>2. CASE ReplaceIntoAuth(t, n)
  <2>1. \A m \in Names : arch'[m] = (IF m = t THEN None ELSE arch[m])
    BY <1>0, <1>2 DEF ReplaceIntoAuth
  <2>2. \A m \in Names : auth'[m] = (IF m = n THEN arch[t] ELSE auth[m])
    BY <1>0, <1>2 DEF ReplaceIntoAuth
  <2>3. ASSUME NEW m \in Names, NEW k \in Names, auth'[m] # None
        PROVE  auth'[m] # arch'[k]
    BY ZenonT(60), <2>1, <2>2, <2>3 DEF OneCopy
  <2>4. ASSUME NEW m \in Names, NEW k \in Names, m # k, auth'[m] # None
        PROVE  auth'[m] # auth'[k]
    BY ZenonT(60), <2>1, <2>2, <2>4 DEF OneCopy
  <2>5. ASSUME NEW m \in Names, NEW k \in Names, m # k, arch'[m] # None
        PROVE  arch'[m] # arch'[k]
    BY <2>1, <2>2, <2>5 DEF OneCopy
  <2>6. OneCopy'
    BY <2>3, <2>4, <2>5 DEF OneCopy
  <2> QED
    BY <1>0, <2>1, <2>2, <2>6 DEF FreshInv
<1> QED
  BY <1>1, <1>2

\* Every step keeps every content in one file.
LEMMA OneCopyNext ==
  ASSUME PoolInv, QuietInv, OneCopy, FreshInv, Importable = {}, [Next]_vars
  PROVE  OneCopy' /\ FreshInv'
<1> USE PoolAssumption
<1>0. TypeOK
  BY DEF PoolInv
<1>1. CASE UNCHANGED <<auth, arch, fresh>>
  BY <1>1, StillOneCopy
<1>2. ASSUME NEW p \in Procs, NEW n \in Names, Move(p, n) \/ ChmodFails(p, n)
      PROVE  OneCopy' /\ FreshInv'
  <2>1. sel[n] \in Names /\ ReplaceIntoArchive(n, sel[n]) /\ UNCHANGED fresh
    BY <1>2, <1>0 DEF Move, ChmodFails, ToMove, TypeOK
  <2> QED
    BY <1>0, <2>1, MovedOnce
<1>3. ASSUME NEW p \in Procs, UndoMove(p), ~ UNCHANGED <<auth, arch, fresh>>
      PROVE  OneCopy' /\ FreshInv'
  <2>1. undo \in Names /\ sel[undo] \in Names
    BY <1>3, <1>0 DEF UndoMove, UndoInv, PoolInv, TypeOK
  <2>2. ReplaceIntoAuth(sel[undo], undo) /\ UNCHANGED fresh
    BY <1>3 DEF UndoMove
  <2> QED
    BY <1>0, <2>1, <2>2, MovedOnce
<1>4. ASSUME NEW p \in Procs, RestoreMove(p) \/ RestoreManifestFails(p),
             ~ UNCHANGED <<auth, arch, fresh>>
      PROVE  OneCopy' /\ FreshInv'
  <2>1. pick \in 1..Len(draft) /\ draft \in Seq(Entry)
    BY <1>4, <1>0 DEF RestoreMove, RestoreManifestFails, PoolInv, EntryInv, TypeOK
  <2>2. draft[pick].src \in Names /\ draft[pick].dst \in Names
    BY <2>1, EntryFacts
  <2>3. /\ \/ ReplaceIntoAuth(draft[pick].dst, draft[pick].src)
           \/ ReplaceIntoArchive(draft[pick].src, draft[pick].dst)
        /\ UNCHANGED fresh
    BY <1>4 DEF RestoreMove, RestoreManifestFails
  <2> QED
    BY <1>0, <2>2, <2>3, MovedOnce
<1>5. ASSUME NEW n \in Names, NEW c \in Refreshed, GatewayRefresh(n, c)
      PROVE  OneCopy' /\ FreshInv'
  <2>0. auth \in [Names -> Creds \cup {None}] /\ c # None /\ fresh \subseteq Refreshed
    BY <1>0 DEF TypeOK, Files
  <2>1. \A m \in Names : auth'[m] = (IF m = n THEN c ELSE auth[m])
    BY <1>5, <2>0 DEF GatewayRefresh
  <2>2. \A m \in Names : auth[m] # c /\ arch[m] # c
    BY <1>5 DEF GatewayRefresh, FreshInv
  <2>3. arch' = arch /\ fresh' = fresh \ {c}
    BY <1>5 DEF GatewayRefresh
  <2>4. OneCopy'
    BY <2>1, <2>2, <2>3 DEF OneCopy
  <2> QED
    BY <2>1, <2>3, <2>4 DEF FreshInv
<1>6. ASSUME NEW plan \in Plans, NEW force \in BOOLEAN, ImportBegin(plan, force)
      PROVE  OneCopy' /\ FreshInv'
  BY <1>6, <1>1 DEF ImportBegin
<1>7. imp.pc = "free" /\ imp.done = {}
  BY DEF QuietInv, NoImport
<1>8. ASSUME NEW p \in Procs,
             \/ Scan(p) \/ Probe(p) \/ Lock(p) \/ ArchiveRefused(p) \/ Select(p)
             \/ WriteManifest(p) \/ Sync(p) \/ SyncFails(p) \/ UnlinkReceipts(p)
             \/ ArchiveRaises(p) \/ RestoreRaises(p) \/ RestoreManifest(p) \/ Crash(p)
             \/ (\E n \in Names : MoveFails(p, n) \/ UndoTest(p, n))
             \/ (\E t \in Selectors : RestoreBegin(p, t))
      PROVE  OneCopy' /\ FreshInv'
  <2>1. UNCHANGED <<auth, arch, fresh>>
    BY <1>8 DEF Scan, Probe, Lock, ArchiveRefused, Select, WriteManifest, Sync,
       SyncFails, UnlinkReceipts, ArchiveRaises, RestoreRaises, RestoreManifest, Crash,
       MoveFails, UndoTest, RestoreBegin
  <2> QED
    BY <2>1, <1>1
<1>9. ASSUME Import PROVE OneCopy' /\ FreshInv'
  BY <1>9, <1>6, <1>7 DEF Import, ImportWrite, ImportUndo, ImportWriteFails,
     ImportVerify, ImportRaises, ImportKilled
<1>10. ASSUME Gateway PROVE OneCopy' /\ FreshInv'
  BY <1>10, <1>5, <1>1 DEF Gateway, GatewayFails, GatewayRecovers
<1>11. CASE UNCHANGED vars
  BY <1>11, <1>1 DEF vars
<1> QED
  BY <1>1, <1>2, <1>3, <1>4, <1>8, <1>9, <1>10, <1>11 DEF Next, Archiver, Restorer

\* When the pool starts with different contents, refreshes bring new ones and
\* nothing is imported, no failure, rollback, restore or killed process ever
\* leaves a credential in two files.
THEOREM NoSecondCopy ==
  ASSUME DisjointVariants, DistinctContents, Importable = {}
  PROVE  Spec => []OneCopy
<1> USE PoolAssumption
<1>1. Init => QuietInv
  BY DEF Init, QuietInv
<1>2. Init => OneCopy /\ FreshInv
  BY DEF Init, OneCopy, FreshInv, NoFiles, DistinctContents
<1>3. PoolInv /\ QuietInv /\ [Next]_vars => QuietInv'
  BY QuietNext
<1>4. PoolInv /\ QuietInv /\ OneCopy /\ FreshInv /\ [Next]_vars => OneCopy' /\ FreshInv'
  BY OneCopyNext
<1> QED
  BY <1>1, <1>2, <1>3, <1>4, PoolInvariance, PTL DEF Spec

-----------------------------------------------------------------------------
(* ListedOnce, for a pool into which nothing is imported, when moves and   *)
(* manifest writes may fail but neither rollbacks nor chmod, fsync and the *)
(* processes themselves do.                                                *)

\* The labels at which a process holds the archive lock.
Holding == {"select", "move", "sync", "undo", "restore", "restored"}

\* Failures after which archive_candidates and restore_run roll back in full.
RecoverableFaults == Faults \subseteq {"replace", "manifest", "write"}

\* Removing the entry at i of a manifest without duplicates removes exactly
\* that archive name.
LEMMA WithoutLists ==
  ASSUME NEW s \in Seq(Entry), NEW i \in 1..Len(s), Distinct(s)
  PROVE  /\ Distinct(Without(s, i))
         /\ \A t \in Names : Listed(Without(s, i), t) <=> Listed(s, t) /\ t # s[i].dst
<1> DEFINE u == SubSeq(s, 1, i - 1)
           v == SubSeq(s, i + 1, Len(s))
           w == Without(s, i)
<1>1. u \in Seq(Entry) /\ Len(u) = i - 1 /\ \A k \in 1..(i - 1) : u[k] = s[k]
  OBVIOUS
<1>2. v \in Seq(Entry) /\ Len(v) = Len(s) - i /\ \A k \in 1..(Len(s) - i) : v[k] = s[i + k]
  OBVIOUS
<1>3. w = u \o v
  BY DEF Without
<1> HIDE DEF u, v, w
<1>4. Len(w) = Len(s) - 1
  BY SMTT(30), <1>1, <1>2, <1>3
<1>5. \A k \in 1..(i - 1) : k \in 1..Len(w) /\ w[k] = s[k]
  BY <1>1, <1>2, <1>3
<1>6. ASSUME NEW k \in i..(Len(s) - 1)
      PROVE  k \in 1..Len(w) /\ w[k] = s[k + 1]
  <2>1. k \in 1..Len(w) /\ k - (i - 1) \in 1..Len(v)
    BY <1>2, <1>4
  <2>2. w[k] = v[k - (i - 1)]
    BY <1>1, <1>2, <1>3, <2>1
  <2>3. v[k - (i - 1)] = s[i + (k - (i - 1))]
    BY <1>2, <2>1
  <2>4. i + (k - (i - 1)) = k + 1
    OBVIOUS
  <2> QED
    BY <2>1, <2>2, <2>3, <2>4
<1>7. \A k \in 1..Len(w) : k \in 1..(i - 1) \/ k \in i..(Len(s) - 1)
  BY <1>4
<1>8. ASSUME NEW k \in 1..Len(w), NEW l \in 1..Len(w), w[k].dst = w[l].dst
      PROVE  k = l
  <2>1. \A j \in i..(Len(s) - 1) : j \in Nat /\ j >= i /\ j + 1 \in 1..Len(s)
    OBVIOUS
  <2>2. \A j \in 1..(i - 1) : j \in Nat /\ j < i /\ j \in 1..Len(s)
    OBVIOUS
  <2>3. CASE k < i /\ l < i
    BY <1>5, <1>8, <2>2, <2>3 DEF Distinct
  <2>4. CASE k < i /\ l >= i
    <3>1. k \in 1..(i - 1) /\ l \in i..(Len(s) - 1)
      BY <1>4, <2>4
    <3>2. s[k].dst = s[l + 1].dst
      BY <1>5, <1>6, <1>8, <3>1
    <3>3. k = l + 1
      BY <2>1, <2>2, <3>1, <3>2 DEF Distinct
    <3> QED
      BY <3>1, <3>3
  <2>5. CASE k >= i /\ l < i
    <3>1. l \in 1..(i - 1) /\ k \in i..(Len(s) - 1)
      BY <1>4, <2>5
    <3>2. s[l].dst = s[k + 1].dst
      BY <1>5, <1>6, <1>8, <3>1
    <3>3. l = k + 1
      BY <2>1, <2>2, <3>1, <3>2 DEF Distinct
    <3> QED
      BY <3>1, <3>3
  <2>6. CASE k >= i /\ l >= i
    <3>1. k \in i..(Len(s) - 1) /\ l \in i..(Len(s) - 1)
      BY <1>4, <2>6
    <3>2. s[k + 1].dst = s[l + 1].dst
      BY <1>6, <1>8, <3>1
    <3>3. k + 1 = l + 1
      BY <2>1, <3>1, <3>2 DEF Distinct
    <3> QED
      BY <3>3
  <2>7. (k < i \/ k >= i) /\ (l < i \/ l >= i)
    OBVIOUS
  <2> QED
    BY <2>3, <2>4, <2>5, <2>6, <2>7
<1>9. ASSUME NEW t \in Names, Listed(w, t)
      PROVE  Listed(s, t) /\ t # s[i].dst
  <2>1. PICK k \in 1..Len(w) : w[k].dst = t
    BY <1>9 DEF Listed
  <2>2. \E j \in 1..Len(s) : j # i /\ w[k] = s[j]
    <3>1. CASE k \in 1..(i - 1)
      BY <1>5, <3>1
    <3>2. CASE k \in i..(Len(s) - 1)
      <4>1. k + 1 \in 1..Len(s) /\ k + 1 # i
        BY <3>2
      <4> QED
        BY <1>6, <3>2, <4>1
    <3> QED
      BY <1>7, <3>1, <3>2
  <2> QED
    BY <2>1, <2>2 DEF Listed, Distinct
<1>10. ASSUME NEW t \in Names, Listed(s, t), t # s[i].dst
       PROVE  Listed(w, t)
  <2>1. PICK j \in 1..Len(s) : s[j].dst = t
    BY <1>10 DEF Listed
  <2>2. CASE j < i
    <3>1. j \in 1..(i - 1)
      BY <2>2
    <3> QED
      BY <1>5, <2>1, <3>1 DEF Listed
  <2>3. CASE j > i
    <3>1. j - 1 \in i..(Len(s) - 1) /\ (j - 1) + 1 = j
      BY <2>3
    <3>2. j - 1 \in 1..Len(w) /\ w[j - 1] = s[j]
      BY <1>6, <3>1
    <3> QED
      BY <2>1, <3>2 DEF Listed
  <2>4. j < i \/ j > i
    BY <1>10, <2>1
  <2> QED
    BY <2>2, <2>3, <2>4
<1>11. Distinct(w) /\ \A t \in Names : Listed(w, t) <=> Listed(s, t) /\ t # s[i].dst
  BY <1>8, <1>9, <1>10 DEF Distinct
<1> QED
  BY <1>11 DEF w

\* An entry for a new archive name adds that name.
LEMMA AppendLists ==
  ASSUME NEW s \in Seq(Entry), NEW e \in Entry, Distinct(s), ~ Listed(s, e.dst)
  PROVE  /\ Distinct(Append(s, e))
         /\ \A t \in Names : Listed(Append(s, e), t) <=> Listed(s, t) \/ t = e.dst
<1> DEFINE w == Append(s, e)
<1>1. /\ Len(w) = Len(s) + 1 /\ w[Len(s) + 1] = e
      /\ \A k \in 1..Len(s) : w[k] = s[k]
      /\ \A k \in 1..(Len(s) + 1) : k \in 1..Len(s) \/ k = Len(s) + 1
      /\ \A k \in 1..Len(s) : k \in 1..(Len(s) + 1)
      /\ Len(s) + 1 \in 1..(Len(s) + 1)
  OBVIOUS
<1> HIDE DEF w
<1>2. Distinct(w)
  BY <1>1 DEF Distinct, Listed
<1>3. \A t \in Names : Listed(w, t) <=> Listed(s, t) \/ t = e.dst
  BY <1>1 DEF Listed
<1> QED
  BY <1>2, <1>3 DEF w

\* A step of somebody who holds no lock, and empties or fills no active file.
LEMMA BystanderLists ==
  ASSUME TypeOK, EntryInv, ListInv, UNCHANGED <<arch, manifest, lock, work>>,
         \A n \in Names : auth'[n] = None <=> auth[n] = None,
         \A q \in Procs : pc'[q] \in Holding => pc'[q] = pc[q]
  PROVE  ListInv'
<1>1. Distinct(manifest)' /\ (lock' = None => ListsArchive(manifest)')
  BY DEF ListInv, ListsArchive, Listed, Distinct, work
<1>2. ASSUME NEW q \in Procs
      PROVE  PhaseOK(pc[q])'
  <2>1. CASE pc'[q] \notin Holding
    BY <2>1 DEF PhaseOK, Holding
  <2>2. CASE pc'[q] \in Holding
    <3>1. pc'[q] = pc[q] /\ PhaseOK(pc[q]) /\ moved \subseteq Names
      BY <2>2 DEF ListInv, TypeOK
    <3>2. pc[q] = "restored" => draft[pick].src \in Names
      BY EntryFacts DEF EntryInv, TypeOK
    <3> QED
      BY <3>1, <3>2 DEF PhaseOK, ListsArchive, Listed, Distinct, work
  <2> QED
    BY <2>1, <2>2
<1> QED
  BY <1>1, <1>2 DEF ListInv

\* A step of the holder, or of a process that becomes it, is a matter of its
\* own phase: no other process is in one.
LEMMA HolderLists ==
  ASSUME NEW p \in Procs, NEW l, TypeOK, LockInv, Goto(p, l), LockFree \/ lock = p,
         Distinct(manifest)', lock' = None => ListsArchive(manifest)', PhaseOK(l)'
  PROVE  ListInv'
<1>1. ASSUME NEW q \in Procs, q # p
      PROVE  PhaseOK(pc[q])'
  <2>1. pc'[q] \notin Holding
    BY <1>1, PoolAssumption DEF TypeOK, LockInv, Goto, LockFree, Holding
  <2> QED
    BY <2>1 DEF PhaseOK, Holding
<1>2. pc'[p] = l
  BY DEF TypeOK, Goto
<1>3. PhaseOK(pc[p])'
  BY <1>2 DEF PhaseOK
<1> QED
  BY <1>1, <1>3 DEF ListInv

\* archive_candidates, one lemma per action: taking the lock ...
LEMMA LockLists ==
  ASSUME PoolInv, ListInv, NEW p \in Procs, Lock(p)
  PROVE  ListInv'
<1>1. /\ TypeOK /\ LockInv /\ LockFree /\ Goto(p, "select") /\ lock' # None
      /\ manifest' = manifest /\ arch' = arch /\ draft' = manifest
  BY PoolAssumption DEF PoolInv, Lock
<1>2. Distinct(manifest) /\ ListsArchive(manifest)
  BY <1>1 DEF ListInv, LockFree
<1>3. Distinct(manifest)' /\ ListsArchive(manifest)'
  BY <1>1, <1>2 DEF Distinct, ListsArchive, Listed
<1>4. PhaseOK("select")'
  BY <1>1, <1>3 DEF PhaseOK
<1> QED
  BY <1>1, <1>3, <1>4, HolderLists

\* ... selecting targets ...
LEMMA SelectLists ==
  ASSUME PoolInv, ListInv, NEW p \in Procs, Select(p)
  PROVE  ListInv'
<1>1. /\ TypeOK /\ LockInv /\ lock = p /\ Goto(p, "move") /\ lock' = p /\ p # None
      /\ manifest' = manifest /\ arch' = arch /\ draft' = draft /\ moved' = {}
  BY PoolAssumption DEF PoolInv, Select, LockInv, UndoInv
<1>2. draft = manifest /\ Distinct(manifest) /\ ListsArchive(manifest)
  BY DEF ListInv, PhaseOK, Select
<1>3. Distinct(manifest)' /\ ListsArchive(manifest)' /\ Distinct(draft)' /\ ListsArchive(draft)'
  BY <1>1, <1>2 DEF Distinct, ListsArchive, Listed
<1>4. PhaseOK("move")'
  BY <1>1, <1>3 DEF PhaseOK, ListsArchive
<1> QED
  BY <1>1, <1>3, <1>4, HolderLists

\* ... moving one file ...
LEMMA MoveLists ==
  ASSUME PoolInv, ListInv, NEW p \in Procs, NEW n \in Names, Move(p, n)
  PROVE  ListInv'
<1> DEFINE e == [src |-> n, dst |-> sel[n], digest |-> cands[p][n]]
<1>1. /\ TypeOK /\ LockInv /\ SelectInv /\ UndoInv /\ lock = p /\ lock' = p /\ p # None
      /\ pc[p] = "move" /\ pc' = pc /\ PhaseOK("move") /\ Distinct(manifest)
      /\ manifest' = manifest /\ sel' = sel /\ moved' = moved \cup {n}
      /\ draft' = Append(draft, e) /\ n \notin moved /\ sel[n] # None /\ auth[n] # None
  BY PoolAssumption DEF PoolInv, ListInv, Move, ToMove, LockInv
<1>2. Goto(p, "move")
  BY <1>1 DEF Goto, TypeOK
<1>3. /\ sel[n] \in Names /\ cands[p][n] \in Creds /\ arch[sel[n]] = None
      /\ draft \in Seq(Entry) /\ moved \subseteq Names
  BY <1>1, PoolAssumption DEF TypeOK, SelectInv, Files
<1>4. e \in Entry /\ e.dst = sel[n]
  BY <1>3 DEF Entry
<1>5. /\ \A m \in Names : auth'[m] = (IF m = n THEN None ELSE auth[m])
      /\ \A t \in Names : arch'[t] = (IF t = sel[n] THEN auth[n] ELSE arch[t])
  BY <1>1 DEF Move, ReplaceIntoArchive, TypeOK, Files
<1> HIDE DEF e
<1>6. Distinct(draft) /\ ListsArchive(draft) /\ ~ Listed(draft, e.dst)
  BY <1>1, <1>3, <1>4 DEF PhaseOK, ListsArchive
<1>7. Distinct(draft') /\ \A t \in Names : Listed(draft', t) <=> Listed(draft, t) \/ t = sel[n]
  BY <1>1, <1>3, <1>4, <1>6, AppendLists
<1>8. Distinct(manifest)' /\ Distinct(draft)' /\ ListsArchive(draft)'
  BY <1>1, <1>5, <1>6, <1>7 DEF ListsArchive, Distinct, Listed
<1>9. \A m \in moved : sel[m] \in Names /\ sel[m] # sel[n] /\ auth[m] = None /\ arch[sel[m]] # None
  BY <1>1, <1>3 DEF PhaseOK, UndoInv, TypeOK
<1>10. \A m \in moved' : auth'[m] = None /\ arch'[sel'[m]] # None
  BY <1>1, <1>3, <1>5, <1>9
<1>11. ASSUME NEW t \in Names
       PROVE  Listed(manifest, t)' <=> arch'[t] # None /\ \A m \in moved' : sel'[m] # t
  <2>1. Listed(manifest, t) <=> arch[t] # None /\ \A m \in moved : sel[m] # t
    BY <1>1 DEF PhaseOK
  <2>2. Listed(manifest, t)' <=> Listed(manifest, t)
    BY <1>1 DEF Listed
  <2> QED
    BY <1>1, <1>3, <1>5, <1>9, <2>1, <2>2
<1>12. PhaseOK("move")'
  BY <1>8, <1>10, <1>11 DEF PhaseOK
<1> QED
  BY <1>1, <1>2, <1>8, <1>12, HolderLists

\* ... giving up, at a move or at the manifest ...
LEMMA GiveUpLists ==
  ASSUME PoolInv, ListInv, NEW p \in Procs, pc[p] = "move", Goto(p, "undo"),
         UNCHANGED <<auth, arch, manifest, lock, work>>
  PROVE  ListInv'
<1>1. /\ TypeOK /\ LockInv /\ lock = p /\ p # None /\ PhaseOK("move") /\ Distinct(manifest)
      /\ moved \subseteq Names
  BY PoolAssumption DEF PoolInv, ListInv, LockInv, TypeOK
<1>2. Distinct(manifest)'
  BY <1>1 DEF Distinct
<1>3. PhaseOK("undo")'
  BY <1>1 DEF PhaseOK, Listed, work
<1> QED
  BY <1>1, <1>2, <1>3, HolderLists

\* ... writing the manifest ...
LEMMA WriteManifestLists ==
  ASSUME PoolInv, ListInv, NEW p \in Procs, WriteManifest(p)
  PROVE  ListInv'
<1>1. CASE manifest' = draft /\ Goto(p, "sync")
  <2>1. /\ TypeOK /\ LockInv /\ lock = p /\ lock' = p /\ p # None
        /\ Distinct(draft) /\ ListsArchive(draft) /\ arch' = arch
    BY PoolAssumption DEF PoolInv, ListInv, LockInv, WriteManifest, PhaseOK
  <2>2. Distinct(manifest)' /\ ListsArchive(manifest)'
    BY <1>1, <2>1 DEF Distinct, ListsArchive, Listed
  <2>3. PhaseOK("sync")'
    BY <2>2 DEF PhaseOK
  <2> QED
    BY <1>1, <2>1, <2>2, <2>3, HolderLists
<1>2. CASE Goto(p, "undo") /\ UNCHANGED manifest
  BY <1>2, GiveUpLists DEF WriteManifest
<1> QED
  BY <1>1, <1>2 DEF WriteManifest

\* ... and releasing the lock, after a commit or a rollback.
LEMMA ReleaseLists ==
  ASSUME PoolInv, ListInv, NEW p \in Procs, NEW l \in {"idle", "clean"}, lock = p,
         Goto(p, l), UNCHANGED <<arch, manifest>>, ListsArchive(manifest)
  PROVE  ListInv'
<1>1. TypeOK /\ LockInv /\ Distinct(manifest)
  BY DEF PoolInv, ListInv
<1>2. Distinct(manifest)' /\ ListsArchive(manifest)'
  BY <1>1 DEF Distinct, ListsArchive, Listed
<1>3. PhaseOK(l)'
  BY DEF PhaseOK
<1> QED
  BY <1>1, <1>2, <1>3, HolderLists

\* Rollback: the test always finds what it has moved, and its place free ...
LEMMA UndoTestLists ==
  ASSUME PoolInv, ListInv, NEW p \in Procs, NEW n \in Names, UndoTest(p, n)
  PROVE  ListInv'
<1>1. /\ TypeOK /\ LockInv /\ lock = p /\ lock' = p /\ p # None /\ pc[p] = "undo" /\ pc' = pc
      /\ PhaseOK("undo") /\ Distinct(manifest) /\ moved \subseteq Names
      /\ UNCHANGED <<auth, arch, manifest, sel>>
  BY PoolAssumption DEF PoolInv, ListInv, LockInv, TypeOK, UndoTest
<1>2. MayRestore(n)
  BY <1>1 DEF UndoTest, PhaseOK, MayRestore
<1>3. moved' = moved
  BY <1>2 DEF UndoTest
<1>4. Goto(p, "undo") /\ Distinct(manifest)'
  BY <1>1 DEF Goto, TypeOK, Distinct
<1>5. PhaseOK("undo")'
  BY <1>1, <1>3 DEF PhaseOK, Listed
<1> QED
  BY <1>1, <1>4, <1>5, HolderLists

\* ... and the move back undoes one move.
LEMMA UndoMoveLists ==
  ASSUME PoolInv, ListInv, RecoverableFaults, NEW p \in Procs, UndoMove(p)
  PROVE  ListInv'
<1>1. /\ TypeOK /\ LockInv /\ SelectInv /\ UndoInv /\ lock = p /\ lock' = p /\ p # None
      /\ pc[p] = "undo" /\ pc' = pc /\ PhaseOK("undo") /\ Distinct(manifest)
      /\ moved \subseteq Names /\ manifest' = manifest /\ sel' = sel /\ moved' = moved \ {undo}
  BY PoolAssumption DEF PoolInv, ListInv, LockInv, TypeOK, UndoMove
<1>2. undo \in moved /\ undo \in Names /\ sel[undo] \in Names
  BY <1>1 DEF UndoMove, UndoInv, TypeOK
<1>3. ReplaceIntoAuth(sel[undo], undo)
  BY DEF UndoMove, RecoverableFaults
<1>4. /\ \A m \in Names : auth'[m] = (IF m = undo THEN arch[sel[undo]] ELSE auth[m])
      /\ \A t \in Names : arch'[t] = (IF t = sel[undo] THEN None ELSE arch[t])
  BY <1>1, <1>2, <1>3 DEF ReplaceIntoAuth, TypeOK, Files
<1>5. \A m \in moved : sel[m] \in Names /\ auth[m] = None /\ arch[sel[m]] # None
                       /\ (m # undo => sel[m] # sel[undo])
  BY <1>1, <1>2 DEF PhaseOK, UndoInv, SelectInv, TypeOK
<1>6. \A m \in moved' : auth'[m] = None /\ arch'[sel'[m]] # None
  BY <1>1, <1>2, <1>4, <1>5
<1>7. ASSUME NEW t \in Names
      PROVE  Listed(manifest, t)' <=> arch'[t] # None /\ \A m \in moved' : sel'[m] # t
  <2>1. Listed(manifest, t) <=> arch[t] # None /\ \A m \in moved : sel[m] # t
    BY <1>1 DEF PhaseOK
  <2>2. Listed(manifest, t)' <=> Listed(manifest, t)
    BY <1>1 DEF Listed
  <2>3. CASE t = sel[undo]
    BY <1>2, <1>4, <2>1, <2>2, <2>3
  <2>4. CASE t # sel[undo]
    BY <1>1, <1>4, <2>1, <2>2, <2>4
  <2> QED
    BY <2>3, <2>4
<1>8. PhaseOK("undo")'
  BY <1>6, <1>7 DEF PhaseOK
<1>9. Goto(p, "undo") /\ Distinct(manifest)'
  BY <1>1 DEF Goto, TypeOK, Distinct
<1> QED
  BY <1>1, <1>8, <1>9, HolderLists

\* restore_run: under the lock ...
LEMMA RestoreBeginLists ==
  ASSUME PoolInv, ListInv, NEW p \in Procs, NEW x \in Selectors, RestoreBegin(p, x)
  PROVE  ListInv'
<1>1. /\ TypeOK /\ LockInv /\ LockFree /\ Goto(p, "restore") /\ lock' # None
      /\ manifest' = manifest /\ arch' = arch /\ draft' = manifest
  BY PoolAssumption DEF PoolInv, RestoreBegin
<1>2. Distinct(manifest) /\ ListsArchive(manifest)
  BY <1>1 DEF ListInv, LockFree
<1>3. Distinct(manifest)' /\ ListsArchive(manifest)'
  BY <1>1, <1>2 DEF Distinct, ListsArchive, Listed
<1>4. PhaseOK("restore")'
  BY <1>1, <1>3 DEF PhaseOK
<1> QED
  BY <1>1, <1>3, <1>4, HolderLists

\* ... the file moves, and the manifest is one entry too long ...
LEMMA RestoreMoveLists ==
  ASSUME PoolInv, ListInv, NEW p \in Procs, RestoreMove(p)
  PROVE  ListInv'
<1> DEFINE src == draft[pick].src
           dst == draft[pick].dst
<1>1. /\ TypeOK /\ LockInv /\ lock = p /\ lock' = p /\ p # None /\ Goto(p, "restored")
      /\ draft = manifest /\ ListsArchive(manifest) /\ Distinct(manifest)
      /\ manifest' = manifest /\ draft' = draft /\ pick' = pick
      /\ ReplaceIntoAuth(dst, src)
  BY PoolAssumption DEF PoolInv, ListInv, LockInv, PhaseOK, RestoreMove, work
<1>2. pick \in 1..Len(draft) /\ draft \in Seq(Entry) /\ src \in Names /\ dst \in Names
  BY EntryFacts DEF PoolInv, EntryInv, TypeOK, RestoreMove
<1>3. Listed(manifest, dst)
  BY <1>1, <1>2 DEF Listed
<1> HIDE DEF src, dst
<1>4. arch[dst] # None
  BY <1>1, <1>2, <1>3 DEF ListsArchive
<1>5. /\ auth'[src] = arch[dst]
      /\ \A t \in Names : arch'[t] = (IF t = dst THEN None ELSE arch[t])
  BY <1>1, <1>2 DEF ReplaceIntoAuth, TypeOK, Files
<1>6. Distinct(manifest)' /\ \A t \in Names : Listed(manifest, t)' <=> Listed(manifest, t)
  BY <1>1 DEF Distinct, Listed
<1>7. \A t \in Names : Listed(manifest, t)' <=> arch'[t] # None \/ t = dst
  BY <1>1, <1>3, <1>5, <1>6 DEF ListsArchive
<1>8. draft'[pick'].src = src /\ draft'[pick'].dst = dst
  BY <1>1 DEF src, dst
<1>9. PhaseOK("restored")'
  BY <1>1, <1>4, <1>5, <1>7, <1>8 DEF PhaseOK
<1> QED
  BY <1>1, <1>6, <1>9, HolderLists

\* ... the move fails, and nothing has changed ...
LEMMA RestoreRaisesLists ==
  ASSUME PoolInv, ListInv, RecoverableFaults, NEW p \in Procs, RestoreRaises(p)
  PROVE  ListInv'
<1>1. pc[p] \in {"restore", "restored"} /\ lock = p /\ PhaseOK(pc[p])
  BY DEF RestoreRaises, PoolInv, LockInv, ListInv
<1>2. pc[p] = "restore"
  BY <1>1 DEF RestoreRaises, RecoverableFaults, PhaseOK
<1>3. ListsArchive(manifest) /\ Goto(p, "idle") /\ UNCHANGED <<arch, manifest>>
  BY <1>1, <1>2 DEF RestoreRaises, PhaseOK
<1> QED
  BY <1>1, <1>3, ReleaseLists

\* ... the entry is taken out ...
LEMMA RestoreManifestLists ==
  ASSUME PoolInv, ListInv, NEW p \in Procs, RestoreManifest(p)
  PROVE  ListInv'
<1> DEFINE dst == draft[pick].dst
<1>1. /\ TypeOK /\ LockInv /\ lock = p /\ Goto(p, "idle") /\ PhaseOK("restored")
      /\ draft = manifest /\ Distinct(manifest) /\ arch' = arch
      /\ manifest' = Without(draft, pick)
      /\ pick \in 1..Len(draft) /\ draft \in Seq(Entry) /\ arch[dst] = None
  BY DEF PoolInv, ListInv, LockInv, PhaseOK, RestoreManifest, EntryInv, TypeOK
<1>2. Distinct(manifest') /\ \A t \in Names : Listed(manifest', t) <=> Listed(draft, t) /\ t # dst
  BY <1>1, WithoutLists
<1>3. \A t \in Names : Listed(manifest, t) <=> arch[t] # None \/ t = dst
  BY <1>1 DEF PhaseOK
<1> HIDE DEF dst
<1>4. \A t \in Names : Listed(manifest', t) <=> arch'[t] # None
  BY <1>1, <1>2, <1>3
<1>5. Distinct(manifest)' /\ ListsArchive(manifest)'
  BY <1>2, <1>4 DEF Distinct, Listed, ListsArchive
<1>6. PhaseOK("idle")'
  BY DEF PhaseOK
<1> QED
  BY <1>1, <1>5, <1>6, HolderLists

\* ... or the manifest cannot be written and the file goes back.
LEMMA RestoreManifestFailsLists ==
  ASSUME PoolInv, ListInv, RecoverableFaults, NEW p \in Procs, RestoreManifestFails(p)
  PROVE  ListInv'
<1> DEFINE src == draft[pick].src
           dst == draft[pick].dst
<1>1. /\ TypeOK /\ LockInv /\ lock = p /\ Goto(p, "idle") /\ PhaseOK("restored")
      /\ Distinct(manifest) /\ manifest' = manifest
      /\ pick \in 1..Len(draft) /\ draft \in Seq(Entry)
  BY DEF PoolInv, ListInv, LockInv, PhaseOK, RestoreManifestFails, EntryInv, TypeOK
<1>2. src \in Names /\ dst \in Names
  BY <1>1, EntryFacts
<1>3. auth[src] # None
  BY <1>1 DEF PhaseOK
<1>4. ReplaceIntoArchive(src, dst)
  BY <1>3 DEF RestoreManifestFails, RecoverableFaults
<1>5. \A t \in Names : Listed(manifest, t) <=> arch[t] # None \/ t = dst
  BY <1>1 DEF PhaseOK
<1> HIDE DEF src, dst
<1>6. \A t \in Names : arch'[t] = (IF t = dst THEN auth[src] ELSE arch[t])
  BY <1>1, <1>2, <1>4 DEF ReplaceIntoArchive, TypeOK, Files
<1>7. Distinct(manifest)' /\ \A t \in Names : Listed(manifest, t)' <=> Listed(manifest, t)
  BY <1>1 DEF Distinct, Listed
<1>8. ListsArchive(manifest)'
  BY <1>3, <1>5, <1>6, <1>7 DEF ListsArchive
<1>9. PhaseOK("idle")'
  BY DEF PhaseOK
<1> QED
  BY <1>1, <1>7, <1>8, <1>9, HolderLists

\* Every step keeps the manifests and the archive in step.
LEMMA ListNext ==
  ASSUME PoolInv, QuietInv, ListInv, Importable = {}, RecoverableFaults, [Next]_vars
  PROVE  ListInv'
<1> USE PoolAssumption
<1>0. TypeOK /\ EntryInv /\ LockInv
  BY DEF PoolInv
<1>1. ASSUME UNCHANGED <<auth, arch, manifest, lock, work>>,
             NEW p \in Procs, NEW l \in {"idle", "lock", "clean"}, Goto(p, l)
      PROVE  ListInv'
  <2>1. \A q \in Procs : pc'[q] \in Holding => pc'[q] = pc[q]
    BY <1>0, <1>1 DEF Goto, TypeOK, Holding
  <2> QED
    BY <1>0, <1>1, <2>1, BystanderLists
<1>2. ASSUME NEW p \in Procs,
             Scan(p) \/ Probe(p) \/ ArchiveRefused(p) \/ UnlinkReceipts(p)
      PROVE  ListInv'
  BY <1>1, <1>2 DEF Scan, Probe, ArchiveRefused, UnlinkReceipts
<1>3. ASSUME NEW p \in Procs, NEW n \in Names, Move(p, n) \/ MoveFails(p, n) \/ ChmodFails(p, n)
      PROVE  ListInv'
  <2>1. ~ ChmodFails(p, n)
    BY DEF ChmodFails, RecoverableFaults
  <2>2. CASE MoveFails(p, n)
    BY <2>2, GiveUpLists DEF MoveFails
  <2> QED
    BY <1>3, <2>1, <2>2, MoveLists
<1>4. ASSUME NEW p \in Procs, Sync(p) \/ SyncFails(p)
      PROVE  ListInv'
  <2>1. Sync(p)
    BY <1>4 DEF SyncFails, RecoverableFaults
  <2>2. lock = p /\ ListsArchive(manifest)
    BY <1>0, <2>1 DEF Sync, LockInv, ListInv, PhaseOK
  <2> QED
    BY <2>1, <2>2, ReleaseLists DEF Sync
<1>5. ASSUME NEW p \in Procs, ArchiveRaises(p)
      PROVE  ListInv'
  <2>1. lock = p /\ PhaseOK("undo") /\ moved = {}
    BY <1>0, <1>5 DEF ArchiveRaises, LockInv, ListInv
  <2>2. ListsArchive(manifest)
    BY <2>1 DEF PhaseOK, ListsArchive
  <2> QED
    BY <1>5, <2>1, <2>2, ReleaseLists DEF ArchiveRaises
<1>6. ASSUME NEW p \in Procs, Archiver(p)
      PROVE  ListInv'
  BY <1>2, <1>3, <1>4, <1>5, <1>6, LockLists, SelectLists, WriteManifestLists,
     UndoTestLists, UndoMoveLists DEF Archiver
<1>7. ASSUME NEW p \in Procs, Restorer(p)
      PROVE  ListInv'
  BY <1>7, RestoreMoveLists, RestoreRaisesLists, RestoreManifestLists,
     RestoreManifestFailsLists DEF Restorer
<1>8. ASSUME NEW p \in Procs PROVE ~ Crash(p)
  BY DEF Crash, RecoverableFaults
<1>9. ASSUME Import PROVE ListInv'
  <2>1. imp.pc = "free"
    BY DEF QuietInv, NoImport
  <2>2. \A plan \in Plans, force \in BOOLEAN : ~ ImportBegin(plan, force)
    <3>1. \A plan \in Plans : plan \in [Names -> {None}] /\ plan # NoFiles
      BY DEF Plans
    <3> QED
      BY <3>1 DEF NoFiles
  <2> QED
    BY <1>9, <2>1, <2>2 DEF Import, ImportWrite, ImportUndo, ImportWriteFails,
       ImportVerify, ImportRaises, ImportKilled
<1>10. ASSUME UNCHANGED <<arch, manifest, lock, work, pc>>,
              \A n \in Names : auth'[n] = None <=> auth[n] = None
       PROVE  ListInv'
  BY <1>0, <1>10, BystanderLists
<1>11. ASSUME Gateway PROVE ListInv'
  <2>1. PICK n \in Names : \/ GatewayFails(n) \/ GatewayRecovers(n)
                           \/ \E c \in Refreshed : GatewayRefresh(n, c)
    BY <1>11 DEF Gateway
  <2>2. UNCHANGED <<arch, manifest, lock, work, pc>>
    BY <2>1 DEF GatewayFails, GatewayRecovers, GatewayRefresh
  <2>3. ASSUME NEW m \in Names PROVE auth'[m] = None <=> auth[m] = None
    BY <1>0, <2>1 DEF GatewayFails, GatewayRecovers, GatewayRefresh, TypeOK, Files
  <2> QED
    BY <1>10, <2>2, <2>3
<1>12. CASE UNCHANGED vars
  BY <1>10, <1>12 DEF vars
<1> QED
  BY <1>2, <1>6, <1>7, <1>8, <1>9, <1>11, <1>12, RestoreBeginLists DEF Next

\* The invariant, between transactions, says what ListedOnce asks.
LEMMA ListInvEnough ==
  ASSUME ListInv, TypeOK
  PROVE  ListedOnce
<1> SUFFICES ASSUME lock = None, NEW t \in Names
             PROVE  Cardinality(Matches(t)) = IF arch[t] = None THEN 0 ELSE 1
  BY DEF ListedOnce
<1>1. Distinct(manifest) /\ (Listed(manifest, t) <=> arch[t] # None)
  BY DEF ListInv, ListsArchive
<1>2. CASE arch[t] = None
  <2>1. Matches(t) = {}
    BY <1>1, <1>2 DEF Matches, Listed
  <2> QED
    BY <1>2, <2>1, FS_EmptySet
<1>3. CASE arch[t] # None
  <2>1. PICK i \in 1..Len(manifest) : manifest[i].dst = t
    BY <1>1, <1>3 DEF Listed
  <2>2. Matches(t) = {i}
    BY <1>1, <2>1 DEF Matches, Distinct
  <2> QED
    BY <1>3, <2>2, FS_Singleton
<1> QED
  BY <1>2, <1>3

\* When nothing is imported, no two active names share an archive name, and
\* only moves and manifest writes fail, every finished transaction, committed
\* or rolled back, leaves a manifest that lists each archived file once.
THEOREM ManifestMatchesArchive ==
  ASSUME DisjointVariants, Importable = {}, RecoverableFaults
  PROVE  Spec => []ListedOnce
<1>1. Init => QuietInv
  BY PoolAssumption DEF Init, QuietInv
<1>2. Init => ListInv
  BY DEF Init, ListInv, Distinct, ListsArchive, Listed, PhaseOK, NoFiles
<1>3. PoolInv /\ QuietInv /\ [Next]_vars => QuietInv'
  BY QuietNext
<1>4. PoolInv /\ QuietInv /\ ListInv /\ [Next]_vars => ListInv'
  BY ListNext
<1>5. PoolInv /\ ListInv => ListedOnce
  BY ListInvEnough DEF PoolInv
<1> QED
  BY <1>1, <1>2, <1>3, <1>4, <1>5, PoolInvariance, PTL DEF Spec
=============================================================================
