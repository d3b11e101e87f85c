--------------------------- MODULE CredentialPool ---------------------------
(***************************************************************************)
(* The local CPA credential pool: a directory of active auth files and a   *)
(* private archive with its manifest (local/cloudx_local/                  *)
(* local_cpa_maintenance.py), the importer that writes the active          *)
(* directory (local_cpa_import.py), and the gateway, which rewrites auth   *)
(* files when it refreshes tokens and leaves failure receipts.             *)
(*                                                                         *)
(* Maintenance runs and restores are processes that share the flock        *)
(* .archive.lock.  The importer has a lock of its own, and the gateway has *)
(* none.  A file's content is a credential; its digest is the content      *)
(* itself.  The working fields of an archive or restore transaction are    *)
(* kept once: only the process that holds the archive lock uses them.      *)
(***************************************************************************)
EXTENDS Integers, Sequences, FiniteSets

CONSTANTS
  Procs,       \* maintenance runs and restore commands
  Names,       \* file names
  Active,      \* the names the active directory may hold
  Creds,       \* file contents
  None,
  Variants,    \* the archive names _unique_target tries for a source name
  Initial,     \* the active directory at the start
  Broken,      \* contents with a static reason to be archived
  Importable,  \* contents the importer may be given
  Refreshed,   \* contents the gateway writes when it refreshes a token
  Selectors,   \* archived names an operator may ask to restore
  MaxEntries,  \* entries that fit into MAX_MANIFEST_BYTES
  Faults       \* which operations may fail

FaultKinds == {"replace", "chmod", "manifest", "fsync", "rollback", "write",
               "crash"}

ASSUME PoolAssumption ==
  /\ None \notin Names \cup Creds \cup Procs
  /\ Variants \in [Names -> Seq(Names)]
  /\ Active \subseteq Names
  /\ Initial \in [Names -> Creds \cup {None}]
  /\ \A n \in Names \ Active : Initial[n] = None
  /\ Broken \subseteq Creds
  /\ Importable \subseteq Creds
  /\ Refreshed \subseteq Creds
  /\ Selectors \subseteq Names
  /\ MaxEntries \in Nat
  /\ Faults \subseteq FaultKinds

VARIABLES
  auth,      \* the active directory: content by name
  arch,      \* the archive directory
  receipt,   \* failure receipts, by auth file name: the digest they accuse
  manifest,  \* entries of manifest.json
  lock,      \* holder of .archive.lock
  pc,        \* where each process stands
  cands,     \* each run's candidates: the digest by name
  owed,      \* each run's candidates that carry a receipt to be unlinked
  sel,       \* the target of each selected candidate
  moved,     \* sources already moved
  draft,     \* the manifest in memory
  undo,      \* the source whose rollback has been decided
  pick,      \* the index of the manifest entry being restored
  fresh,     \* refreshed contents not yet written
  imp        \* the importer: pc, plan, the originals it read, what it wrote

work == <<sel, moved, draft, undo, pick>>
vars == <<auth, arch, receipt, manifest, lock, pc, cands, owed, work, fresh,
          imp>>

Files == [Names -> Creds \cup {None}]
NoFiles == [n \in Names |-> None]
Entry == [src : Names, dst : Names, digest : Creds]
NoImport == [pc |-> "free", plan |-> NoFiles, orig |-> NoFiles, done |-> {}]

Init ==
  /\ auth = Initial
  /\ arch = NoFiles
  /\ receipt = NoFiles
  /\ manifest = <<>>
  /\ lock = None
  /\ pc = [p \in Procs |-> "idle"]
  /\ cands = [p \in Procs |-> NoFiles]
  /\ owed = [p \in Procs |-> {}]
  /\ sel = [n \in Names |-> None]
  /\ moved = {}
  /\ draft = <<>>
  /\ undo = None
  /\ pick = 0
  /\ fresh = Refreshed
  /\ imp = NoImport

Goto(p, l) == pc' = [pc EXCEPT ![p] = l]

\* A run is over, or has been refused: its candidates are dropped.
Forget(p) ==
  /\ cands' = [cands EXCEPT ![p] = NoFiles]
  /\ owed' = [owed EXCEPT ![p] = {}]

-----------------------------------------------------------------------------
(* refresh_document: candidates are found without any lock.                *)

\* A static reason, or a fresh receipt for exactly this content.
Accused(n) == auth[n] # None /\ (auth[n] \in Broken \/ receipt[n] = auth[n])

\* scan_active_auth and runtime_candidates.
Scan(p) ==
  /\ pc[p] = "idle"
  /\ \E n \in Names : Accused(n)
  /\ cands' = [cands EXCEPT ![p] =
                 [n \in Names |-> IF Accused(n) THEN auth[n] ELSE None]]
  /\ owed' = [owed EXCEPT ![p] = {n \in Names : Accused(n) /\ auth[n] \notin Broken}]
  /\ Goto(p, "lock")
  /\ UNCHANGED <<auth, arch, receipt, manifest, lock, work, fresh, imp>>

\* The incident sweep: the probe has found the credentials of some files
\* invalid.  It remembers their digests; archiving compares them again.
Probe(p) ==
  /\ pc[p] = "idle"
  /\ \E S \in SUBSET {n \in Names : auth[n] # None} \ {{}} :
       cands' = [cands EXCEPT ![p] = [n \in Names |-> IF n \in S THEN auth[n] ELSE None]]
  /\ owed' = [owed EXCEPT ![p] = {}]
  /\ Goto(p, "lock")
  /\ UNCHANGED <<auth, arch, receipt, manifest, lock, work, fresh, imp>>

-----------------------------------------------------------------------------
(* archive_candidates.                                                     *)

\* Mutant: the lock is not exclusive.
LockFreeAlways == TRUE

LockFree == lock = None

\* The manifest is read under the lock.
Lock(p) ==
  /\ pc[p] = "lock"
  /\ LockFree
  /\ Len(manifest) <= MaxEntries
  /\ lock' = p
  /\ draft' = manifest
  /\ sel' = [n \in Names |-> None]
  /\ moved' = {}
  /\ Goto(p, "select")
  /\ UNCHANGED <<auth, arch, receipt, manifest, cands, owed, undo, pick, fresh, imp>>

\* A manifest that has grown too large is refused as invalid, and a candidate
\* that cannot be read ends the run before anything has moved.
ArchiveRefused(p) ==
  /\ pc[p] = "lock"
  /\ LockFree
  /\ Len(manifest) > MaxEntries \/ "replace" \in Faults
  /\ Forget(p)
  /\ Goto(p, "idle")
  /\ UNCHANGED <<auth, arch, receipt, manifest, lock, work, fresh, imp>>

Free(n, i) == arch[Variants[n][i]] = None

\* The first of n, n.2, n.3 ... that does not exist in the archive.
FirstFree(n, i) == Free(n, i) /\ \A j \in 1..(i - 1) : ~Free(n, j)

\* Mutant: the first name is taken even when it exists.
UniqueTargetPlain(n) == Variants[n][1]

UniqueTarget(n) == Variants[n][CHOOSE i \in 1..Len(Variants[n]) : FirstFree(n, i)]

\* Mutant: only files with a static reason are archived.
StillThereStatic(p) ==
  {n \in Names : cands[p][n] \in Broken /\ auth[n] = cands[p][n]}

\* Candidates that still exist with the digest they were judged by.
StillThere(p) == {n \in Names : cands[p][n] # None /\ auth[n] = cands[p][n]}

\* Targets are chosen for all candidates before any file moves.
Select(p) ==
  /\ pc[p] = "select"
  /\ \A n \in StillThere(p) : \E i \in 1..Len(Variants[n]) : FirstFree(n, i)
  /\ sel' = [n \in Names |-> IF n \in StillThere(p) THEN UniqueTarget(n) ELSE None]
  /\ Goto(p, "move")
  /\ UNCHANGED <<auth, arch, receipt, manifest, lock, cands, owed, moved, draft, undo,
                 pick, fresh, imp>>

\* Mutant: candidates that were not selected move as well.
ToMoveAll == {n \in Names : auth[n] # None} \ moved

ToMove == {n \in Names : sel[n] # None} \ moved

\* os.replace(from, to) as an effect on the active and archive directories.
ReplaceIntoArchive(n, t) ==
  /\ auth' = [auth EXCEPT ![n] = None]
  /\ arch' = [arch EXCEPT ![t] = auth[n]]

\* Mutant: the archived file is copied, not moved.
CopyIntoAuth(t, n) ==
  /\ auth' = [auth EXCEPT ![n] = arch[t]]
  /\ UNCHANGED arch

ReplaceIntoAuth(t, n) ==
  /\ auth' = [auth EXCEPT ![n] = arch[t]]
  /\ arch' = [arch EXCEPT ![t] = None]

Move(p, n) ==
  /\ pc[p] = "move"
  /\ n \in ToMove
  /\ auth[n] # None
  /\ ReplaceIntoArchive(n, sel[n])
  /\ moved' = moved \cup {n}
  /\ draft' = Append(draft, [src |-> n, dst |-> sel[n], digest |-> cands[p][n]])
  /\ UNCHANGED <<receipt, manifest, lock, pc, cands, owed, sel, undo, pick, fresh, imp>>

\* The source is gone, or the move fails.
MoveFails(p, n) ==
  /\ pc[p] = "move"
  /\ n \in ToMove
  /\ auth[n] = None \/ "replace" \in Faults
  /\ Goto(p, "undo")
  /\ UNCHANGED <<auth, arch, receipt, manifest, lock, cands, owed, work, fresh, imp>>

\* chmod raises after the move: the file is not yet among the moved ones.
ChmodFails(p, n) ==
  /\ pc[p] = "move"
  /\ n \in ToMove
  /\ "chmod" \in Faults
  /\ auth[n] # None
  /\ ReplaceIntoArchive(n, sel[n])
  /\ Goto(p, "undo")
  /\ UNCHANGED <<receipt, manifest, lock, cands, owed, work, fresh, imp>>

WriteManifest(p) ==
  /\ pc[p] = "move"
  /\ ToMove = {}
  /\ \/ manifest' = draft /\ Goto(p, "sync")
     \/ "manifest" \in Faults /\ Goto(p, "undo") /\ UNCHANGED manifest
  /\ UNCHANGED <<auth, arch, receipt, lock, cands, owed, work, fresh, imp>>

\* Both directories are synced and the lock is released; the receipts of
\* what was moved are still to be removed.
Sync(p) ==
  /\ pc[p] = "sync"
  /\ Goto(p, "clean")
  /\ lock' = None
  /\ cands' = [cands EXCEPT ![p] = NoFiles]
  /\ owed' = [owed EXCEPT ![p] = @ \cap moved]
  /\ UNCHANGED <<auth, arch, receipt, manifest, work, fresh, imp>>

SyncFails(p) ==
  /\ pc[p] = "sync"
  /\ "fsync" \in Faults
  /\ Goto(p, "undo")
  /\ UNCHANGED <<auth, arch, receipt, manifest, lock, cands, owed, work, fresh, imp>>

\* Receipts of runtime candidates are unlinked by path.
UnlinkReceipts(p) ==
  /\ pc[p] = "clean"
  /\ receipt' = [n \in Names |-> IF n \in owed[p] THEN None ELSE receipt[n]]
  /\ Forget(p)
  /\ Goto(p, "idle")
  /\ UNCHANGED <<auth, arch, manifest, lock, work, fresh, imp>>

\* The test that precedes a rollback move.
MayRestore(n) == auth[n] = None /\ arch[sel[n]] # None

\* Rollback of one moved file: first the test ...
UndoTest(p, n) ==
  /\ pc[p] = "undo"
  /\ undo = None
  /\ n \in moved
  /\ IF MayRestore(n) THEN undo' = n /\ UNCHANGED moved
                      ELSE moved' = moved \ {n} /\ UNCHANGED undo
  /\ UNCHANGED <<auth, arch, receipt, manifest, lock, pc, cands, owed, sel, draft, pick,
                 fresh, imp>>

\* ... then the move back, which may fail in its turn.
UndoMove(p) ==
  /\ pc[p] = "undo"
  /\ undo # None
  /\ \/ ReplaceIntoAuth(sel[undo], undo)
     \/ "rollback" \in Faults /\ UNCHANGED <<auth, arch>>
  /\ moved' = moved \ {undo}
  /\ undo' = None
  /\ UNCHANGED <<receipt, manifest, lock, pc, cands, owed, sel, draft, pick, fresh, imp>>

\* The transaction has been rolled back and raises.
ArchiveRaises(p) ==
  /\ pc[p] = "undo"
  /\ undo = None
  /\ moved = {}
  /\ lock' = None
  /\ Forget(p)
  /\ Goto(p, "idle")
  /\ UNCHANGED <<auth, arch, receipt, manifest, work, fresh, imp>>

-----------------------------------------------------------------------------
(* restore_run.                                                            *)

Matches(t) == {i \in 1..Len(manifest) : manifest[i].dst = t}

Restorable(i) ==
  /\ arch[manifest[i].dst] # None
  /\ auth[manifest[i].src] = None

\* Under the lock, exactly one entry must name the archived file, the file
\* must exist and the active name must be free.  Otherwise the command
\* raises and nothing changes.
RestoreBegin(p, t) ==
  /\ pc[p] = "idle"
  /\ LockFree
  /\ Len(manifest) <= MaxEntries
  /\ \E i \in 1..Len(manifest) :
       /\ Matches(t) = {i}
       /\ Restorable(i)
       /\ pick' = i
  /\ lock' = p
  /\ draft' = manifest
  /\ Goto(p, "restore")
  /\ UNCHANGED <<auth, arch, receipt, manifest, cands, owed, sel, moved, undo, fresh, imp>>

RestoreMove(p) ==
  /\ pc[p] = "restore"
  /\ ReplaceIntoAuth(draft[pick].dst, draft[pick].src)
  /\ Goto(p, "restored")
  /\ UNCHANGED <<receipt, manifest, lock, cands, owed, work, fresh, imp>>

\* The move fails, or chmod raises after it: there is no rollback for either.
RestoreRaises(p) ==
  /\ \/ pc[p] = "restore" /\ "replace" \in Faults
     \/ pc[p] = "restored" /\ ("chmod" \in Faults \/ auth[draft[pick].src] = None)
  /\ lock' = None
  /\ Goto(p, "idle")
  /\ UNCHANGED <<auth, arch, receipt, manifest, cands, owed, work, fresh, imp>>

Without(s, i) == SubSeq(s, 1, i - 1) \o SubSeq(s, i + 1, Len(s))

RestoreManifest(p) ==
  /\ pc[p] = "restored"
  /\ manifest' = Without(draft, pick)
  /\ lock' = None
  /\ Goto(p, "idle")
  /\ UNCHANGED <<auth, arch, receipt, cands, owed, work, fresh, imp>>

\* Mutant: the restored file is removed instead of moved back.
RestoreManifestFailsRemoving(p) ==
  /\ pc[p] = "restored"
  /\ "manifest" \in Faults
  /\ auth' = [auth EXCEPT ![draft[pick].src] = None]
  /\ lock' = None
  /\ Goto(p, "idle")
  /\ UNCHANGED <<arch, receipt, manifest, cands, owed, work, fresh, imp>>

\* The manifest cannot be written: the file goes back, whatever it holds now.
RestoreManifestFails(p) ==
  /\ pc[p] = "restored"
  /\ "manifest" \in Faults
  /\ \/ /\ auth[draft[pick].src] # None
        /\ ReplaceIntoArchive(draft[pick].src, draft[pick].dst)
     \/ /\ auth[draft[pick].src] = None \/ "rollback" \in Faults
        /\ UNCHANGED <<auth, arch>>
  /\ lock' = None
  /\ Goto(p, "idle")
  /\ UNCHANGED <<receipt, manifest, cands, owed, work, fresh, imp>>

\* A process is killed: its flock goes with it, files stay as they are.
Crash(p) ==
  /\ "crash" \in Faults
  /\ pc[p] # "idle"
  /\ lock' = IF lock = p THEN None ELSE lock
  /\ undo' = IF lock = p THEN None ELSE undo
  /\ Forget(p)
  /\ Goto(p, "idle")
  /\ UNCHANGED <<auth, arch, receipt, manifest, sel, moved, draft, pick, fresh, imp>>

-----------------------------------------------------------------------------
(* _write_plans of the importer, under its own lock: one import at a time. *)

\* What an import may bring: a payload for some of the active names.
Plans == {plan \in [Names -> Importable \cup {None}] :
            plan # NoFiles /\ \A n \in Names \ Active : plan[n] = None}

Planned == {n \in Names : imp.plan[n] # None}

Conflicts(plan) ==
  {n \in Names : plan[n] # None /\ auth[n] # None /\ auth[n] # plan[n]}

\* Originals are read; files that hold their payload already are left alone,
\* and without force a conflict ends the import.
ImportBegin(plan, force) ==
  /\ imp.pc = "free"
  /\ force \/ Conflicts(plan) = {}
  /\ imp' = [pc |-> "write",
             plan |-> [n \in Names |-> IF auth[n] = plan[n] THEN None ELSE plan[n]],
             orig |-> auth, done |-> {}]
  /\ UNCHANGED <<auth, arch, receipt, manifest, lock, pc, cands, owed, work, fresh>>

ImportWrite(n) ==
  /\ imp.pc = "write"
  /\ n \in Planned \ imp.done
  /\ auth' = [auth EXCEPT ![n] = imp.plan[n]]
  /\ imp' = [imp EXCEPT !.done = @ \cup {n}]
  /\ UNCHANGED <<arch, receipt, manifest, lock, pc, cands, owed, work, fresh>>

ImportWriteFails ==
  /\ imp.pc = "write"
  /\ Planned \ imp.done # {}
  /\ "write" \in Faults
  /\ imp' = [imp EXCEPT !.pc = "undo"]
  /\ UNCHANGED <<auth, arch, receipt, manifest, lock, pc, cands, owed, work, fresh>>

\* Every target is read back and compared with its payload.
ImportVerify ==
  /\ imp.pc = "write"
  /\ imp.done = Planned
  /\ imp' = IF \A n \in Planned : auth[n] = imp.plan[n]
            THEN NoImport ELSE [imp EXCEPT !.pc = "undo"]
  /\ UNCHANGED <<auth, arch, receipt, manifest, lock, pc, cands, owed, work, fresh>>

\* Rollback of one written file: its original comes back, or it is unlinked.
\* An OSError leaves the file as it is.
ImportUndo(n) ==
  /\ imp.pc = "undo"
  /\ n \in imp.done
  /\ \/ auth' = [auth EXCEPT ![n] = imp.orig[n]]
     \/ "rollback" \in Faults /\ UNCHANGED auth
  /\ imp' = [imp EXCEPT !.done = @ \ {n}]
  /\ UNCHANGED <<arch, receipt, manifest, lock, pc, cands, owed, work, fresh>>

ImportRaises ==
  /\ imp.pc = "undo"
  /\ imp.done = {}
  /\ imp' = NoImport
  /\ UNCHANGED <<auth, arch, receipt, manifest, lock, pc, cands, owed, work, fresh>>

\* The importer is killed between two files.
ImportKilled ==
  /\ imp.pc # "free"
  /\ "crash" \in Faults
  /\ imp' = NoImport
  /\ UNCHANGED <<auth, arch, receipt, manifest, lock, pc, cands, owed, work, fresh>>

-----------------------------------------------------------------------------
(* The gateway.                                                            *)

\* A permanent failure: a receipt with the digest of the file as it is now.
GatewayFails(n) ==
  /\ auth[n] # None
  /\ receipt' = [receipt EXCEPT ![n] = auth[n]]
  /\ UNCHANGED <<auth, arch, manifest, lock, pc, cands, owed, work, fresh, imp>>

\* A success clears the receipt.
GatewayRecovers(n) ==
  /\ receipt[n] # None
  /\ receipt' = [receipt EXCEPT ![n] = None]
  /\ UNCHANGED <<auth, arch, manifest, lock, pc, cands, owed, work, fresh, imp>>

\* Tokens are refreshed and the file is rewritten.
GatewayRefresh(n, c) ==
  /\ auth[n] # None
  /\ c \in fresh
  /\ auth' = [auth EXCEPT ![n] = c]
  /\ fresh' = fresh \ {c}
  /\ UNCHANGED <<arch, receipt, manifest, lock, pc, cands, owed, work, imp>>

-----------------------------------------------------------------------------
Archiver(p) ==
  \/ Lock(p) \/ ArchiveRefused(p) \/ Select(p)
  \/ \E n \in Names : Move(p, n) \/ MoveFails(p, n) \/ ChmodFails(p, n)
  \/ WriteManifest(p) \/ Sync(p) \/ SyncFails(p) \/ UnlinkReceipts(p)
  \/ (\E n \in Names : UndoTest(p, n)) \/ UndoMove(p) \/ ArchiveRaises(p)

Restorer(p) ==
  \/ RestoreMove(p) \/ RestoreRaises(p)
  \/ RestoreManifest(p) \/ RestoreManifestFails(p)

Import ==
  \/ \E plan \in Plans, force \in BOOLEAN : ImportBegin(plan, force)
  \/ \E n \in Names : ImportWrite(n) \/ ImportUndo(n)
  \/ ImportWriteFails \/ ImportVerify \/ ImportRaises \/ ImportKilled

Gateway ==
  \E n \in Names : \/ GatewayFails(n) \/ GatewayRecovers(n)
                   \/ \E c \in Refreshed : GatewayRefresh(n, c)

Next ==
  \/ \E p \in Procs : \/ Scan(p) \/ Probe(p) \/ Archiver(p) \/ Restorer(p)
                      \/ (\E t \in Selectors : RestoreBegin(p, t)) \/ Crash(p)
  \/ Import \/ Gateway

Spec == Init /\ [][Next]_vars

\* Runs repeat, a process that has begun goes on, and no operation of a run
\* fails for ever.
Fairness ==
  \A p \in Procs :
    /\ SF_vars(Scan(p))
    /\ SF_vars(Lock(p))
    /\ WF_vars(Archiver(p))
    /\ WF_vars(Restorer(p))
    /\ SF_vars(Sync(p))

FairSpec == Spec /\ Fairness

-----------------------------------------------------------------------------
(* Properties.                                                             *)

\* Types of the directories, of the manifest and of every working field.
TypeOK ==
  /\ auth \in Files
  /\ arch \in Files
  /\ receipt \in Files
  /\ manifest \in Seq(Entry)
  /\ lock \in Procs \cup {None}
  /\ pc \in [Procs -> {"idle", "lock", "select", "move", "sync", "clean", "undo",
                       "restore", "restored"}]
  /\ cands \in [Procs -> Files]
  /\ owed \in [Procs -> SUBSET Names]
  /\ sel \in [Names -> Names \cup {None}]
  /\ moved \subseteq Names
  /\ draft \in Seq(Entry)
  /\ undo \in Names \cup {None}
  /\ pick \in Nat
  /\ fresh \subseteq Refreshed
  /\ imp \in [pc : {"free", "write", "undo"}, plan : Files, orig : Files,
              done : SUBSET Names]

Held(c) == \E n \in Names : auth[n] = c \/ arch[n] = c

\* A credential goes by intent: the gateway refreshed it, an import replaced
\* what it had read there, or an import took back what it had written.
Replaced(c) ==
  \E n \in Names :
    /\ auth[n] = c
    /\ \/ auth'[n] \in fresh \ fresh'
       \/ n \in imp'.done \ imp.done /\ imp.orig[n] = c
       \/ n \in imp.done \ imp'.done /\ imp.plan[n] = c

\* No step of any transaction, of its rollback, of a restore or of a process
\* killed half-way destroys the last copy of a credential
\* (archive_candidates, restore_run).
NothingLost == [][\A c \in Creds : Held(c) => Held(c)' \/ Replaced(c)]_vars

\* An archived credential leaves the archive only into the active directory,
\* by a restore or a rollback: no later archiving takes its place, whatever
\* names were imported again in the meantime (_unique_target under the lock).
ArchiveKept ==
  [][\A t \in Names :
       arch[t] # None /\ arch'[t] # arch[t] => \E n \in Names : auth'[n] = arch[t]]_vars

\* Between transactions the manifest lists every archived file exactly once
\* and nothing else, so that every archived credential can be restored by its
\* exact name (archive_candidates against restore_run, under failed moves and
\* failed manifest writes).
ListedOnce ==
  lock = None =>
    \A t \in Names : Cardinality(Matches(t)) = IF arch[t] = None THEN 0 ELSE 1

\* A credential is never in two files at once: neither a rollback nor two
\* transactions in turn leave a copy behind that the gateway would go on using.
OneCopy ==
  \A m, n \in Names :
    /\ auth[m] # None => auth[m] # arch[n]
    /\ m # n /\ auth[m] # None => auth[m] # auth[n]
    /\ m # n /\ arch[m] # None => arch[m] # arch[n]

\* A credential the gateway has accused, and has not since cleared or
\* rewritten, leaves the active directory.
AccusedArchived ==
  \A n \in Names : Accused(n) ~> ~Accused(n)

-----------------------------------------------------------------------------
(* The inductive invariants behind the safety properties.                  *)

\* No two active names are given the same archive name.
DisjointVariants ==
  \A m, n \in Active : m # n =>
    \A i \in 1..Len(Variants[m]), j \in 1..Len(Variants[n]) :
      Variants[m][i] # Variants[n][j]

\* A process inside a transaction holds the lock, and nobody else does.
LockInv ==
  \A p \in Procs :
    lock = p <=> pc[p] \in {"select", "move", "sync", "undo", "restore", "restored"}

\* Whatever the active directory may come to hold lies at an active name.
ActiveInv ==
  \A n \in Names \ Active :
    auth[n] = None /\ imp.plan[n] = None /\ imp.orig[n] = None /\ sel[n] = None

\* Manifests on disk and in memory name active sources, and the entry being
\* restored exists; once it has moved, its place in the archive is free.
EntryInv ==
  /\ \A i \in 1..Len(manifest) : manifest[i].src \in Active
  /\ \A i \in 1..Len(draft) : draft[i].src \in Active
  /\ \A p \in Procs : pc[p] \in {"restore", "restored"} => pick \in 1..Len(draft)
  /\ \A p \in Procs : pc[p] = "restored" => arch[draft[pick].dst] = None

\* Selected files have targets of their own, free until they move, and the
\* digest they were judged by.
SelectInv ==
  /\ \A m, n \in Names : m # n /\ sel[m] # None => sel[m] # sel[n]
  /\ \A p \in Procs : pc[p] = "move" =>
       \A n \in Names : sel[n] # None =>
         cands[p][n] # None /\ (n \notin moved => arch[sel[n]] = None)

\* Rollback: what is recorded as moved was selected, and a decided rollback
\* belongs to the transaction that is being undone.
UndoInv ==
  /\ \A n \in moved : sel[n] # None
  /\ \A p \in Procs : pc[p] = "select" => moved = {}
  /\ undo # None => undo \in moved /\ \E p \in Procs : pc[p] = "undo"

PoolInv == TypeOK /\ LockInv /\ ActiveInv /\ EntryInv /\ SelectInv /\ UndoInv

\* Without imports nothing appears at a name that was found free.
QuietInv ==
  /\ imp = NoImport
  /\ undo # None => auth[undo] = None
  /\ \A p \in Procs : pc[p] = "restore" => auth[draft[pick].src] = None

\* The pool starts with different contents, and a refresh brings a new one.
DistinctContents ==
  \A m, n \in Names :
    /\ m # n /\ Initial[m] # None => Initial[m] # Initial[n]
    /\ Initial[n] \notin Refreshed

\* What the gateway has yet to write is nowhere in the pool.
FreshInv == \A c \in fresh, n \in Names : auth[n] # c /\ arch[n] # c

Listed(s, t) == \E i \in 1..Len(s) : s[i].dst = t

\* No archive name is listed twice.
Distinct(s) == \A i, j \in 1..Len(s) : s[i].dst = s[j].dst => i = j

\* Exactly the archived files are listed.
ListsArchive(s) == \A t \in Names : Listed(s, t) <=> arch[t] # None

\* Where the manifest on disk and the one in memory stand against the archive,
\* for a process at label l: a transaction of moves runs ahead of the manifest
\* by what it has moved and can take back, a restore is behind it by one entry.
PhaseOK(l) ==
  /\ l \in {"select", "restore"} => draft = manifest /\ ListsArchive(manifest)
  /\ l = "move" => Distinct(draft) /\ ListsArchive(draft)
  /\ l \in {"move", "undo"} =>
       /\ \A n \in moved : auth[n] = None /\ arch[sel[n]] # None
       /\ \A t \in Names :
            Listed(manifest, t) <=> arch[t] # None /\ \A n \in moved : sel[n] # t
  /\ l = "sync" => ListsArchive(manifest)
  /\ l = "restored" =>
       /\ draft = manifest
       /\ auth[draft[pick].src] # None
       /\ \A t \in Names :
            Listed(manifest, t) <=> arch[t] # None \/ t = draft[pick].dst

ListInv ==
  /\ Distinct(manifest)
  /\ lock = None => ListsArchive(manifest)
  /\ \A p \in Procs : PhaseOK(pc[p])
=============================================================================
