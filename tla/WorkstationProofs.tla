-------------------------- MODULE WorkstationProofs --------------------------
(***************************************************************************)
(* Two workstation components for all values of their constants: the       *)
(* quota-triggered sweep of the local pool (LocalSweep) and the retirement *)
(* of the legacy installation (LegacyControl). Each has an inductive       *)
(* invariant from which its safety properties follow.                      *)
(***************************************************************************)
EXTENDS LocalSweep, LegacyControl, TLAPS

-----------------------------------------------------------------------------
(***************************************************************************)
(* The sweep.                                                              *)
(***************************************************************************)

\* Where a run of the sweep can be, its record, and the types.
SweepPlace == {"idle", "read", "gate", "probe", "archive", "consume", "unlink"}

SweepRec ==
    [pc : SweepPlace, trigger : Nat, contexts : [File -> SUBSET Account],
     permanent : SUBSET (Token \X BOOLEAN), asked : SUBSET (Token \X BOOLEAN),
     candidates : SUBSET File]

SweepType ==
    /\ pool \in [File -> SUBSET Account]
    /\ tokens \in [Token -> {"good", "expired", "deleted"}]
    /\ trigger \in Nat /\ triggers \in Nat
    /\ sweep \in [Runs -> SweepRec]
    /\ moved_out \subseteq SUBSET Account

\* What a run has been told is permanently invalid is lost.
PermanentLost ==
    \A p \in Runs : \A a \in Account : ProbeKey(a) \in sweep[p].permanent => Lost(a)

\* Every account of a candidate, as it was read, is among them; before the
\* verdicts there is no candidate.
Judged(r) ==
    /\ r.pc \in {"read", "gate", "probe"} => r.candidates = {}
    /\ \A f \in r.candidates : \A a \in r.contexts[f] : ProbeKey(a) \in r.permanent

CandidatesJudged == \A p \in Runs : Judged(sweep[p])

\* The inductive invariant of the sweep.
SweepInv == SweepType /\ PermanentLost /\ CandidatesJudged /\ OnlyLostArchived

\* A run at rest knows nothing.
LEMMA NoSweepType ==
    /\ NoSweep \in SweepRec
    /\ NoSweep.permanent = {} /\ NoSweep.candidates = {} /\ Judged(NoSweep)
  BY DEF NoSweep, SweepRec, SweepPlace, Judged

\* It holds at the start.
LEMMA SweepInitInv == SweepInit => SweepInv
  <1> SUFFICES ASSUME SweepInit PROVE SweepInv
    OBVIOUS
  <1>1. SweepType
    BY NoSweepType, SweepAssumption DEF SweepInit, SweepType
  <1>2. PermanentLost /\ CandidatesJudged
    BY NoSweepType DEF SweepInit, PermanentLost, CandidatesJudged
  <1> QED
    BY <1>1, <1>2 DEF SweepInv, OnlyLostArchived, SweepInit

\* A permanent verdict is only given about an account that is lost.
LEMMA PermanentVerdict ==
    ASSUME SweepType, NEW a \in Account, "permanent" \in Verdicts(a)
    PROVE  Lost(a)
  <1>1. PICK x \in Answers(a.token) : Classified(a, x) = "permanent"
    BY DEF Verdicts
  <1>2. x = "marker" \/ (x = "401" /\ ~a.refresh)
    BY <1>1 DEF Classified
  <1>3. tokens[a.token] \in {"good", "expired", "deleted"}
    BY DEF SweepType, Account
  <1> QED
    BY <1>1, <1>2, <1>3 DEF Answers, Lost

\* What one run does to its record leaves the others alone.
LEMMA RunMoves ==
    ASSUME SweepInv, NEW p \in Runs, NEW r \in SweepRec, Sweeps(p, r),
           UNCHANGED <<tokens, moved_out>>,
           pool' \in [File -> SUBSET Account], trigger' \in Nat, triggers' \in Nat,
           \A a \in Account : ProbeKey(a) \in r.permanent => Lost(a),
           Judged(r)
    PROVE  SweepInv'
  <1>1. sweep' = [sweep EXCEPT ![p] = r] /\ sweep \in [Runs -> SweepRec]
    BY DEF Sweeps, SweepInv, SweepType
  <1>2. sweep' \in [Runs -> SweepRec] /\ sweep'[p] = r
        /\ \A q \in Runs : q # p => sweep'[q] = sweep[q]
    BY <1>1
  <1>3. SweepType'
    BY <1>2 DEF SweepInv, SweepType
  <1>4. \A a : Lost(a)' <=> Lost(a)
    BY DEF Lost
  <1>5. PermanentLost'
    BY <1>2, <1>4 DEF SweepInv, PermanentLost
  <1>6. CandidatesJudged'
    BY <1>2 DEF SweepInv, CandidatesJudged
  <1>7. OnlyLostArchived'
    BY <1>4 DEF SweepInv, OnlyLostArchived
  <1> QED
    BY <1>3, <1>5, <1>6, <1>7 DEF SweepInv

\* A step that changes no run and no archived file.
LEMMA RunsStay ==
    ASSUME SweepInv, UNCHANGED <<sweep, moved_out>>, SweepType',
           \A a \in Account : Lost(a) => Lost(a)'
    PROVE  SweepInv'
  <1>1. PermanentLost' /\ CandidatesJudged'
    BY DEF SweepInv, PermanentLost, CandidatesJudged
  <1>2. OnlyLostArchived'
    BY DEF SweepInv, OnlyLostArchived, SweepType
  <1> QED
    BY <1>1, <1>2 DEF SweepInv

\* One step of a maintenance run.
LEMMA LocalRunInv ==
    ASSUME SweepInv, NEW p \in Runs, LocalRun(p)
    PROVE  SweepInv'
  <1> DEFINE s == sweep[p]
  <1>0. /\ s \in SweepRec /\ pool \in [File -> SUBSET Account]
        /\ trigger \in Nat /\ triggers \in Nat
        /\ \A a \in Account : ProbeKey(a) \in s.permanent => Lost(a)
        /\ Judged(s)
    BY DEF SweepInv, SweepType, PermanentLost, CandidatesJudged
  <1>rest. ASSUME Sweeps(p, NoSweep), UNCHANGED <<pool, tokens, triggers, moved_out>>, trigger' \in Nat
           PROVE  SweepInv'
    BY <1>0, <1>rest, NoSweepType, RunMoves
  <1>goes. ASSUME NEW pc \in {"probe", "consume", "unlink"}, Sweeping(p, pc),
                  pc = "probe" => s.pc = "gate", UNCHANGED <<pool, tokens, trigger, triggers, moved_out>>
           PROVE  SweepInv'
    <2> DEFINE r == [s EXCEPT !.pc = pc]
    <2>1. r \in SweepRec /\ r.permanent = s.permanent /\ r.candidates = s.candidates
          /\ r.contexts = s.contexts
      BY <1>0, <1>goes DEF SweepRec, SweepPlace
    <2>3. Judged(r)
      BY <1>0, <1>goes DEF Judged, SweepRec
    <2>2. Sweeps(p, r)
      BY <1>goes DEF Sweeping, Sweeps, SweepInv, SweepType
    <2> QED
      BY <1>0, <1>goes, <2>1, <2>2, <2>3, RunMoves
  <1>1. CASE LoadTrigger(p)
    <2> DEFINE r == [NoSweep EXCEPT !.pc = "read", !.trigger = trigger]
    <2>1. r \in SweepRec /\ r.permanent = {} /\ Judged(r)
      BY <1>0, NoSweepType DEF SweepRec, SweepPlace, Judged
    <2> HIDE DEF r
    <2> QED
      BY <1>0, <1>1, <2>1, RunMoves DEF LoadTrigger, r
  <1>2. CASE ReadContexts(p)
    <2> DEFINE r == [s EXCEPT !.contexts = pool,
                       !.pc = IF \A f \in File : pool[f] = {} THEN "consume" ELSE "gate"]
    <2>1. Sweeps(p, r) /\ UNCHANGED <<pool, tokens, trigger, triggers, moved_out>> /\ s.pc = "read"
      BY <1>2 DEF ReadContexts
    <2>2. r \in SweepRec /\ r.permanent = s.permanent /\ r.candidates = s.candidates
      BY <1>0 DEF SweepRec, SweepPlace
    <2>3. Judged(r)
      BY <1>0, <2>1, <2>2 DEF Judged
    <2> HIDE DEF r
    <2> QED
      BY <1>0, <2>1, <2>2, <2>3, RunMoves
  <1>3. CASE TransportGate(p)
    BY <1>0, <1>3, <1>rest, <1>goes DEF TransportGate, SweepPlace
  <1>4. ASSUME NEW a \in Account, ProbeAccount(p, a)
        PROVE  SweepInv'
    <2>1. PICK v \in Verdicts(a) :
            Sweeps(p, [s EXCEPT !.asked = @ \cup {ProbeKey(a)},
                         !.permanent = IF v = "permanent" THEN @ \cup {ProbeKey(a)} ELSE @])
      BY <1>4 DEF ProbeAccount
    <2> DEFINE P == IF v = "permanent" THEN s.permanent \cup {ProbeKey(a)} ELSE s.permanent
               r == [s EXCEPT !.asked = s.asked \cup {ProbeKey(a)}, !.permanent = P]
    <2>2. ProbeKey(a) \in Token \X BOOLEAN
      BY DEF ProbeKey, Account
    <2>3. P \in SUBSET (Token \X BOOLEAN) /\ s.permanent \subseteq P
      BY <1>0, <2>2 DEF SweepRec
    <2>4. \A b \in Account : ProbeKey(b) \in P => Lost(b)
      <3>1. SUFFICES ASSUME NEW b \in Account, ProbeKey(b) = ProbeKey(a), v = "permanent"
                     PROVE  Lost(b)
        BY <1>0
      <3>2. Lost(a)
        BY <3>1, PermanentVerdict DEF SweepInv
      <3>3. b.token = a.token /\ b.refresh = a.refresh
        BY <3>1 DEF ProbeKey
      <3> QED
        BY <3>2, <3>3 DEF Lost
    <2>5. Sweeps(p, r)
      BY <2>1
    <2> HIDE DEF P
    <2>6. r \in SweepRec /\ r.permanent = P /\ r.candidates = s.candidates /\ r.contexts = s.contexts
      BY <1>0, <2>2, <2>3 DEF SweepRec
    <2>8. Judged(r)
      BY <1>0, <1>4, <2>3, <2>6 DEF Judged, SweepRec, ProbeAccount
    <2> HIDE DEF r
    <2>7. UNCHANGED <<pool, tokens, trigger, triggers, moved_out>>
      BY <1>4 DEF ProbeAccount
    <2> QED
      BY <1>0, <2>3, <2>4, <2>5, <2>6, <2>7, <2>8, RunMoves
  <1>5. CASE Judge(p)
    <2> DEFINE C == {f \in File : /\ s.contexts[f] # {}
                                  /\ \A a \in s.contexts[f] : ProbeKey(a) \in s.permanent
                                  /\ pool[f] = s.contexts[f]}
               r == [s EXCEPT !.pc = "archive", !.candidates = C]
    <2>1. Sweeps(p, r) /\ UNCHANGED <<pool, tokens, trigger, triggers, moved_out>>
      BY <1>5 DEF Judge
    <2>2. C \in SUBSET File /\ \A f \in C : \A a \in s.contexts[f] : ProbeKey(a) \in s.permanent
      OBVIOUS
    <2> HIDE DEF C
    <2>3. r \in SweepRec /\ r.permanent = s.permanent /\ r.candidates = C
          /\ r.contexts = s.contexts /\ r.pc = "archive"
      BY <1>0, <2>2 DEF SweepRec, SweepPlace
    <2>4. Judged(r)
      BY <2>2, <2>3 DEF Judged
    <2> HIDE DEF r
    <2> QED
      BY <1>0, <2>1, <2>3, <2>4, RunMoves
  <1>6. CASE ArchiveSwept(p)
    <2> DEFINE gone == {f \in s.candidates : pool[f] = s.contexts[f]}
               r == [s EXCEPT !.pc = "consume"]
    <2>1. /\ pool' = [f \in File |-> IF f \in gone THEN {} ELSE pool[f]]
          /\ moved_out' = moved_out \cup {pool[f] : f \in gone}
          /\ sweep' = [sweep EXCEPT ![p] = r]
          /\ UNCHANGED <<tokens, trigger, triggers>> /\ s.pc = "archive"
      BY <1>6 DEF ArchiveSwept, Sweeping, SweepInv, SweepType
    <2>2. gone \subseteq File /\ \A f \in gone : \A a \in pool[f] : Lost(a)
      BY <1>0 DEF SweepRec, Judged
    <2>3. r \in SweepRec /\ r.permanent = s.permanent /\ Judged(r)
      BY <1>0 DEF SweepRec, SweepPlace, Judged
    <2> HIDE DEF gone, r
    <2>4. sweep' \in [Runs -> SweepRec] /\ sweep'[p] = r
          /\ \A q \in Runs : q # p => sweep'[q] = sweep[q]
      BY <2>1, <2>3 DEF SweepInv, SweepType
    <2>5. pool' \in [File -> SUBSET Account] /\ moved_out' \subseteq SUBSET Account
      BY <1>0, <2>1, <2>2 DEF SweepInv, SweepType
    <2>6. SweepType'
      BY <2>1, <2>4, <2>5 DEF SweepInv, SweepType
    <2>7. \A a : Lost(a)' <=> Lost(a)
      BY <2>1 DEF Lost
    <2>8. PermanentLost' /\ CandidatesJudged'
      BY <2>3, <2>4, <2>7 DEF SweepInv, PermanentLost, CandidatesJudged
    <2>9. OnlyLostArchived'
      BY <2>1, <2>2, <2>7 DEF SweepInv, OnlyLostArchived
    <2> QED
      BY <2>6, <2>8, <2>9 DEF SweepInv
  <1>7. CASE ArchiveRaisesOut(p)
    BY <1>0, <1>7, <1>rest DEF ArchiveRaisesOut
  <1>8. CASE CompareTrigger(p)
    BY <1>0, <1>8, <1>rest, <1>goes DEF CompareTrigger, SweepPlace
  <1>9. CASE UnlinkTrigger(p)
    BY <1>0, <1>9, <1>rest DEF UnlinkTrigger
  <1> QED
    BY <1>1, <1>2, <1>3, <1>4, <1>5, <1>6, <1>7, <1>8, <1>9 DEF LocalRun

\* A token that fails never makes a lost account good again.
LEMMA TokenFailsInv ==
    ASSUME SweepInv, NEW t \in Token, TokenFails(t)
    PROVE  SweepInv'
  <1>1. SweepType'
    BY DEF TokenFails, SweepInv, SweepType
  <1>2. \A a \in Account : Lost(a) => Lost(a)'
    BY DEF TokenFails, SweepInv, SweepType, Lost, Account
  <1> QED
    BY <1>1, <1>2, RunsStay DEF TokenFails

\* Every step keeps it.
LEMMA SweepNextInv == SweepInv /\ [SweepNext]_sweep_vars => SweepInv'
  <1> SUFFICES ASSUME SweepInv, [SweepNext]_sweep_vars PROVE SweepInv'
    OBVIOUS
  <1>1. CASE \E p \in Runs : LocalRun(p)
    BY <1>1, LocalRunInv
  <1>2. CASE WriteTrigger
    <2>1. SweepType'
      BY <1>2 DEF WriteTrigger, SweepInv, SweepType
    <2> QED
      BY <1>2, <2>1, RunsStay DEF WriteTrigger, Lost
  <1>3. CASE TriggerAges
    <2>1. SweepType'
      BY <1>3 DEF TriggerAges, SweepInv, SweepType
    <2> QED
      BY <1>3, <2>1, RunsStay DEF TriggerAges, Lost
  <1>4. ASSUME NEW f \in File, NEW B \in Bundles, ReplaceFile(f, B)
        PROVE  SweepInv'
    <2>1. SweepType'
      BY <1>4, SweepAssumption DEF ReplaceFile, SweepInv, SweepType
    <2> QED
      BY <1>4, <2>1, RunsStay DEF ReplaceFile, Lost
  <1>5. CASE \E t \in Token : TokenFails(t)
    BY <1>5, TokenFailsInv
  <1>6. CASE UNCHANGED sweep_vars
    <2>1. SweepType'
      BY <1>6 DEF sweep_vars, SweepInv, SweepType
    <2> QED
      BY <1>6, <2>1, RunsStay DEF sweep_vars, Lost
  <1> QED
    BY <1>1, <1>2, <1>3, <1>4, <1>5, <1>6 DEF SweepNext

\* The inductive invariant of the sweep: what a run has been told is permanent
\* is lost, and so is every account of its candidates as it read them.
THEOREM SweepInvariance == SweepSpec => []SweepInv
  BY SweepInitInv, SweepNextInv, PTL DEF SweepSpec

\* OnlyLostArchived for any files, tokens, runs and number of triggers: the
\* maintenance never archives a credential file with an account that can still be
\* used (local_cpa_probe.probe_all and the archive after it).
THEOREM LostAlone == SweepSpec => []OnlyLostArchived
  <1>1. SweepInv => OnlyLostArchived
    BY DEF SweepInv
  <1> QED
    BY <1>1, SweepInvariance, PTL

-----------------------------------------------------------------------------
(***************************************************************************)
(* The legacy retirement.                                                  *)
(***************************************************************************)

\* The scripts, and where each of the three changes can be.
Script == Change \cup Recovery

MigratePlace ==
    {"idle", "decided", "bootout", "write", "bootstrap", "verify", "undo", "fallback", "restart", "done", "dead"}
RetirePlace ==
    {"idle", "decided", "bootout", "move", "verify", "put back", "restart", "bootstrap", "audit",
     "audit slow", "done", "dead"}
RemovePlace ==
    {"idle", "recheck", "move", "unmove", "verify", "undo", "audit", "audit stuck", "done", "dead"}

\* The types, with deaths: a script that was killed has been counted.
LegacyTypes ==
    /\ control \in {"live", "retained", "down"} /\ loaded \in BOOLEAN /\ deaths \in Nat
    /\ place \in [Path -> {"none", "live", "held", "lost"}]
    /\ DOMAIN script = Script /\ DOMAIN seen = Change \cup {"unpack"} /\ DOMAIN said = Change
    /\ script["migrate"] \in MigratePlace /\ script["retire"] \in RetirePlace
    /\ script["remove"] \in RemovePlace /\ script["unpack"] \in {"idle", "move", "undo", "done", "dead"}
    /\ \A s \in {"restart", "reinstate"} : script[s] \in {"idle", "bootstrap", "done", "dead"}
    /\ \A s \in Script : script[s] = "dead" => deaths # 0

\* Every package path is there.
AllAre(where) == \A p \in Path : place[p] = where

\* The package, by where its removal is.
Removal ==
    /\ script["remove"] = "idle" =>
           \A p \in Path : place[p] = "live" \/ (place[p] = "none" /\ p = "codexx-legacy")
    /\ script["remove"] = "recheck" => AllAre("live")
    /\ script["remove"] \in {"move", "unmove"} =>
           (\A p \in Path : place[p] \in {"live", "held"}) /\ ~AllAre("held")
    /\ script["remove"] = "move" => "removal" \in kept
    /\ script["remove"] \in {"idle", "recheck", "move", "unmove"} => script["unpack"] = "idle"
    /\ script["remove"] = "audit" =>
           /\ \A p \in Path : place[p] # "held"
           /\ script["unpack"] \in {"move", "undo"} => seen["unpack"] = <<>>
    /\ script["unpack"] = "idle" =>
           /\ script["remove"] \in {"verify", "undo"} => AllAre("held")
           /\ script["remove"] = "audit" => AllAre("live")
           /\ said["remove"] \in {"restored", "refused"} => AllAre("live")
           /\ said["remove"] = "quarantined" => AllAre("held")
    /\ script["remove"] # "done" => said["remove"] = "nothing"
    /\ script["remove"] = "done" =>
           said["remove"] \in {"refused", "quarantined", "incomplete", "restored",
                               "restored after stuck rollback"}

\* What the removal's recovery has moved is not held again behind its back.
Unpacking ==
    /\ seen["unpack"] \in {SubSeq(TARGETS, 1, k) : k \in 0..3}
    /\ script["unpack"] = "idle" => seen["unpack"] = <<>>
    /\ script["unpack"] \in {"move", "undo"} /\ seen["unpack"] # <<>> => place["codexx_app"] # "held"

\* A path is lost with the end of the removal only.
LostOnlyAtEnd == \A p \in Path : place[p] = "lost" => script["remove"] = "done"

\* The part about the package.
PackageInv == Removal /\ Unpacking /\ LostOnlyAtEnd /\ PackageKept

\* A recovery was run, a script killed, or a rollback reported failure.
Disturbed ==
    \/ deaths # 0 \/ \E s \in Recovery : script[s] # "idle"
    \/ \E s \in Change : said[s] \in {"incomplete", "restored after stuck rollback"}

\* Where the migration and the retirement are when the service is not up.
Justified ==
    \/ script["migrate"] \in {"write", "bootstrap", "undo", "fallback", "restart"}
    \/ script["retire"] \in {"move", "verify", "put back", "restart", "bootstrap", "audit slow"}
    \/ said["retire"] \in {"retired", "restored after slow stop"}

\* Where they are when the listener outlives its bootout.
Lingering ==
    \/ script["migrate"] = "undo" \/ script["retire"] = "audit slow"
    \/ said["retire"] = "restored after slow stop"

\* As long as nothing disturbed the scripts, a service that is not up has a
\* script, or a report, that answers for it; and after a migration that was
\* undone it runs from the live package.
Service ==
    ~Disturbed =>
        /\ control = "down" \/ ~loaded => Justified
        /\ control # "down" /\ ~loaded => Lingering
        /\ said["migrate"] = "restored" /\ Untouched("retire") =>
               /\ control = "live" /\ loaded /\ said["remove"] # "quarantined"

\* The retirement comes after the migration has started the retained runtime.
Past == {"verify", "undo", "fallback", "restart", "done", "dead"}

\* How far the scripts have come, each seen from the next one.
Sequence ==
    /\ script["restart"] = "idle" /\ (control = "retained" \/ script["retire"] # "idle") =>
           script["migrate"] \in Past
    /\ "retirement" \in kept \/ script["reinstate"] # "idle" => script["retire"] # "idle"
    /\ \A s \in {"migrate", "retire"} : script[s] # "done" => said[s] = "nothing"
    /\ said["retire"] = "retired" /\ script["restart"] = "idle" /\ script["reinstate"] = "idle" =>
           control = "down" \/ said["migrate"] = "restored"

\* The inductive invariant of the legacy retirement.
LegacyInv == LegacyTypes /\ PackageInv /\ Service /\ Sequence

-----------------------------------------------------------------------------
\* The paths the removal quarantines.
LEMMA PathIs == Path = {"codexx_app", "codexx.py", "codexx-legacy"}
  BY DEF Path, TARGETS

\* A script goes somewhere.
LEMMA GotoFacts ==
    ASSUME LegacyTypes, NEW s \in Script, NEW pc, Goto(s, pc)
    PROVE  /\ script'[s] = pc /\ (\A r \in Script : r # s => script'[r] = script[r])
           /\ DOMAIN script' = Script /\ said' = said /\ seen' = seen
  BY DEF LegacyTypes, Goto

\* A change script reports and ends.
LEMMA SaysFacts ==
    ASSUME LegacyTypes, NEW s \in Change, NEW what, Says(s, what)
    PROVE  /\ script'[s] = "done" /\ (\A r \in Script : r # s => script'[r] = script[r])
           /\ said'[s] = what /\ (\A r \in Change : r # s => said'[r] = said[r])
           /\ DOMAIN script' = Script /\ DOMAIN said' = Change /\ DOMAIN seen' = Change \cup {"unpack"}
           /\ seen'["unpack"] = seen["unpack"]
  BY DEF LegacyTypes, Says, Script, Change

\* A decision is made, or found again.
LEMMA DecisionFacts ==
    ASSUME LegacyTypes, NEW s \in Change, Decides(s) \/ Confirms(s)
    PROVE  /\ script'[s] = IF Decides(s) THEN "decided" ELSE "bootout"
           /\ (\A r \in Script : r # s => script'[r] = script[r])
           /\ DOMAIN script' = Script /\ said' = said /\ DOMAIN seen' = Change \cup {"unpack"}
           /\ seen'["unpack"] = seen["unpack"]
  BY DEF LegacyTypes, Decides, Confirms, Script, Change

\* It holds at the start.
LEMMA LegacyInitInv == LegacyInit => LegacyInv
  <1> SUFFICES ASSUME LegacyInit PROVE LegacyInv
    OBVIOUS
  <1>1. LegacyTypes
    BY PathIs DEF LegacyInit, LegacyTypes, Script, Change, Recovery, MigratePlace, RetirePlace,
       RemovePlace
  <1>2. /\ \A s \in Script : script[s] = "idle"
        /\ \A s \in Change : said[s] = "nothing"
        /\ seen["unpack"] = <<>> /\ deaths = 0
        /\ \A p \in Path : place[p] = IF p = "codexx-legacy" THEN "none" ELSE "live"
    BY DEF LegacyInit, Script
  <1>3. Removal /\ LostOnlyAtEnd /\ PackageKept
    BY <1>2, PathIs DEF Removal, LostOnlyAtEnd, PackageKept, Script, Change, Recovery, AllAre
  <1>4. Unpacking
    <2>1. SubSeq(TARGETS, 1, 0) = <<>>
      BY DEF TARGETS
    <2> QED
      BY <1>2, <2>1 DEF Unpacking
  <1>5. Service
    BY <1>2 DEF LegacyInit, Service, Change
  <1>6. Sequence
    BY <1>2 DEF LegacyInit, Sequence, Script, Change, Recovery
  <1> QED
    BY <1>1, <1>3, <1>4, <1>5, <1>6 DEF LegacyInv, PackageInv

\* A step that leaves the package, its removal and its recovery alone.
LEMMA PackageFrame ==
    ASSUME LegacyInv, place' = place, kept \subseteq kept', script'["remove"] = script["remove"],
           script'["unpack"] = script["unpack"], seen'["unpack"] = seen["unpack"],
           said'["remove"] = said["remove"]
    PROVE  PackageInv'
  <1>1. Removal'
    BY DEF LegacyInv, PackageInv, Removal, AllAre
  <1>2. Unpacking' /\ LostOnlyAtEnd' /\ PackageKept'
    BY DEF LegacyInv, PackageInv, Unpacking, LostOnlyAtEnd, PackageKept
  <1> QED
    BY <1>1, <1>2 DEF PackageInv

\* A step that leaves the control service and its two scripts alone: what has
\* gone wrong stays known, and the removal does not report a quarantine while
\* live control runs.
LEMMA ControlFrame ==
    ASSUME LegacyInv, control' = control, loaded' = loaded, deaths' = deaths,
           "retirement" \in kept' => "retirement" \in kept,
           \A s \in {"migrate", "retire", "restart", "reinstate"} : script'[s] = script[s],
           \A s \in {"migrate", "retire"} : said'[s] = said[s],
           script["unpack"] # "idle" => script'["unpack"] # "idle",
           \/ said'["remove"] = said["remove"]
           \/ /\ said["remove"] = "nothing"
              /\ said'["remove"] = "quarantined" => control # "live"
    PROVE  Service' /\ Sequence'
  <1>1. Sequence'
    BY DEF LegacyInv, Sequence
  <1>2. Disturbed => Disturbed'
    BY DEF Disturbed, Change, Recovery
  <1>3. Service'
    BY <1>2 DEF LegacyInv, Service, Justified, Lingering, Untouched
  <1> QED
    BY <1>1, <1>3

\* What the steps of the removal have in common.
LEMMA RemoveFacts ==
    ASSUME LegacyInv
    PROVE  /\ LegacyTypes /\ Removal /\ Unpacking /\ LostOnlyAtEnd /\ PackageKept
           /\ "remove" \in Script /\ "remove" \in Change /\ "unpack" \in Script
           /\ \A s \in {"migrate", "retire", "restart", "reinstate"} : s \in Script /\ s # "remove" /\ s # "unpack"
           /\ \A s \in {"migrate", "retire"} : s \in Change /\ s # "remove"
  BY DEF LegacyInv, PackageInv, Script, Change, Recovery

\* Types after a step of the removal.
LEMMA RemoveTypes ==
    ASSUME LegacyInv, control' = control, loaded' = loaded, deaths' = deaths,
           place' \in [Path -> {"none", "live", "held", "lost"}],
           script'["remove"] \in RemovePlace \ {"dead"}, \A r \in Script : r # "remove" => script'[r] = script[r],
           DOMAIN script' = Script, DOMAIN seen' = Change \cup {"unpack"}, DOMAIN said' = Change
    PROVE  LegacyTypes'
  BY DEF LegacyInv, LegacyTypes, Script, Change, Recovery

\* The removal has seen every path live and no legacy process.
LEMMA RemoveBeginsInv == ASSUME LegacyInv, RemoveBegins PROVE LegacyInv'
  <1>1. /\ script'["remove"] = "recheck" /\ (\A r \in Script : r # "remove" => script'[r] = script[r])
        /\ DOMAIN script' = Script /\ said' = said /\ seen' = seen
    BY GotoFacts, RemoveFacts DEF RemoveBegins
  <1>2. /\ UNCHANGED <<control, loaded, place, kept, deaths>> /\ script["remove"] = "idle" /\ AllAre("live")
    BY DEF RemoveBegins, RecoveryVerified, control_vars, package_vars, AllAre
  <1>3. LegacyTypes'
    BY <1>1, <1>2, RemoveTypes DEF LegacyInv, LegacyTypes, RemovePlace
  <1>4. Service' /\ Sequence'
    BY <1>1, <1>2, RemoveFacts, ControlFrame
  <1>5. PackageInv'
    BY <1>1, <1>2, RemoveFacts DEF PackageInv, Removal, Unpacking, LostOnlyAtEnd, PackageKept,
       AllAre
  <1> QED
    BY <1>3, <1>4, <1>5 DEF LegacyInv

\* The quarantine has its manifest before the first rename, or the removal is
\* refused.
LEMMA RemoveRechecksInv == ASSUME LegacyInv, RemoveRechecks PROVE LegacyInv'
  <1>1. /\ UNCHANGED <<control, loaded, place, deaths>> /\ script["remove"] = "recheck"
        /\ AllAre("live") /\ script["unpack"] = "idle"
    BY RemoveFacts DEF RemoveRechecks, control_vars, Removal
  <1>2. place' \in [Path -> {"none", "live", "held", "lost"}] /\ ~AllAre("held")
    BY <1>1, PathIs DEF LegacyInv, LegacyTypes, AllAre
  <1>3. CASE kept' = kept \cup {"removal"} /\ Goto("remove", "move")
    <2>1. /\ script'["remove"] = "move" /\ (\A r \in Script : r # "remove" => script'[r] = script[r])
          /\ DOMAIN script' = Script /\ said' = said /\ seen' = seen
      BY <1>3, GotoFacts, RemoveFacts
    <2>2. LegacyTypes'
      BY <1>1, <1>2, <2>1, RemoveTypes DEF LegacyInv, LegacyTypes, RemovePlace
    <2>3. Service' /\ Sequence'
      BY <1>1, <1>3, <2>1, RemoveFacts, ControlFrame
    <2>4. PackageInv'
      BY <1>1, <1>2, <1>3, <2>1, RemoveFacts DEF PackageInv, Removal, Unpacking, LostOnlyAtEnd,
         PackageKept, AllAre
    <2> QED
      BY <2>2, <2>3, <2>4 DEF LegacyInv
  <1>4. CASE Says("remove", "refused") /\ kept' = kept
    <2>1. /\ script'["remove"] = "done" /\ (\A r \in Script : r # "remove" => script'[r] = script[r])
          /\ said'["remove"] = "refused" /\ (\A r \in Change : r # "remove" => said'[r] = said[r])
          /\ DOMAIN script' = Script /\ DOMAIN said' = Change /\ DOMAIN seen' = Change \cup {"unpack"}
          /\ seen'["unpack"] = seen["unpack"]
      BY <1>4, SaysFacts, RemoveFacts
    <2>2. LegacyTypes'
      BY <1>1, <1>2, <2>1, RemoveTypes DEF RemovePlace
    <2>3. Service' /\ Sequence'
      BY <1>1, <1>4, <2>1, RemoveFacts, ControlFrame DEF Removal
    <2>4. PackageInv'
      BY <1>1, <1>4, <2>1, RemoveFacts DEF PackageInv, Removal, Unpacking, LostOnlyAtEnd,
         PackageKept, AllAre
    <2> QED
      BY <2>2, <2>3, <2>4 DEF LegacyInv
  <1> QED
    BY <1>3, <1>4 DEF RemoveRechecks

\* One path is renamed, the last one included, or a rename fails.
LEMMA RemoveMovesInv == ASSUME LegacyInv, RemoveMoves PROVE LegacyInv'
  <1> DEFINE next == First(Path \ MovedSoFar)
  <1>1. /\ UNCHANGED <<control, loaded, kept, deaths>> /\ script["remove"] = "move" /\ script["unpack"] = "idle"
        /\ "removal" \in kept /\ ~AllAre("held") /\ \A p \in Path : place[p] \in {"live", "held"}
    BY RemoveFacts DEF RemoveMoves, control_vars, Removal
  <1>2. place \in [Path -> {"none", "live", "held", "lost"}]
    BY DEF LegacyInv, LegacyTypes
  <1>3. CASE /\ Place(next, "held")
             /\ Goto("remove", IF MovedSoFar \cup {next} = Path THEN "verify" ELSE "move")
    <2>1. /\ script'["remove"] = IF MovedSoFar \cup {next} = Path THEN "verify" ELSE "move"
          /\ (\A r \in Script : r # "remove" => script'[r] = script[r])
          /\ DOMAIN script' = Script /\ said' = said /\ seen' = seen
      BY <1>3, GotoFacts, RemoveFacts
    <2>2. /\ place' \in [Path -> {"none", "live", "held", "lost"}]
          /\ \A p \in Path : place'[p] = IF p = next THEN "held" ELSE place[p]
      BY <1>2, <1>3 DEF Place
    <2>3. MovedSoFar \cup {next} = Path => \A p \in Path : place'[p] = "held"
      BY <2>2 DEF MovedSoFar
    <2>4. MovedSoFar \cup {next} # Path => ~\A p \in Path : place'[p] = "held"
      <3>1. ~AllAre("held") => Path \ MovedSoFar # {}
        BY DEF AllAre, MovedSoFar
      <3>2. next \in Path
        <4>1. \E i \in 1..3 : TARGETS[i] \in Path \ MovedSoFar /\ \A k \in 1..i - 1 : TARGETS[k] \notin Path \ MovedSoFar
          <5>1. CASE TARGETS[1] \in Path \ MovedSoFar
            BY <5>1
          <5>2. CASE TARGETS[1] \notin Path \ MovedSoFar /\ TARGETS[2] \in Path \ MovedSoFar
            BY <5>2
          <5>3. CASE /\ TARGETS[1] \notin Path \ MovedSoFar /\ TARGETS[2] \notin Path \ MovedSoFar
                     /\ TARGETS[3] \in Path \ MovedSoFar
            BY <5>3
          <5> QED
            BY <1>1, <3>1, <5>1, <5>2, <5>3 DEF Path
        <4> QED
          BY <4>1 DEF First
      <3> QED
        BY <2>2, <3>2 DEF MovedSoFar
    <2> HIDE DEF next
    <2>5. LegacyTypes'
      BY <1>1, <2>1, <2>2, RemoveTypes DEF LegacyInv, LegacyTypes, RemovePlace
    <2>6. Service' /\ Sequence'
      BY <1>1, <2>1, RemoveFacts, ControlFrame
    <2>7. PackageInv'
      <3>1. \A p \in Path : place'[p] \in {"live", "held"}
        BY <1>1, <2>2
      <3>2. Removal'
        BY <1>1, <2>1, <2>3, <2>4, <3>1, RemoveFacts DEF Removal, AllAre
      <3>3. Unpacking' /\ LostOnlyAtEnd' /\ PackageKept'
        BY <1>1, <2>1, <3>1, RemoveFacts DEF Unpacking, LostOnlyAtEnd, PackageKept
      <3> QED
        BY <3>2, <3>3 DEF PackageInv
    <2> QED
      BY <2>5, <2>6, <2>7 DEF LegacyInv
  <1>4. CASE UNCHANGED place /\ Goto("remove", "unmove")
    <2>1. /\ script'["remove"] = "unmove" /\ (\A r \in Script : r # "remove" => script'[r] = script[r])
          /\ DOMAIN script' = Script /\ said' = said /\ seen' = seen
      BY <1>4, GotoFacts, RemoveFacts
    <2>2. LegacyTypes'
      BY <1>1, <1>2, <1>4, <2>1, RemoveTypes DEF LegacyInv, LegacyTypes, RemovePlace
    <2>3. Service' /\ Sequence'
      BY <1>1, <2>1, RemoveFacts, ControlFrame
    <2>4. PackageInv'
      BY <1>1, <1>4, <2>1, RemoveFacts DEF PackageInv, Removal, Unpacking, LostOnlyAtEnd,
         PackageKept, AllAre
    <2> QED
      BY <2>2, <2>3, <2>4 DEF LegacyInv
  <1> QED
    BY <1>3, <1>4 DEF RemoveMoves

\* The rollback of the renames goes on, ends or gets stuck.
LEMMA RemoveUnmovesInv == ASSUME LegacyInv, RemoveUnmoves PROVE LegacyInv'
  <1>1. /\ UNCHANGED <<control, loaded, kept, deaths>> /\ script["remove"] = "unmove" /\ script["unpack"] = "idle"
        /\ ~AllAre("held") /\ \A p \in Path : place[p] \in {"live", "held"}
    BY RemoveFacts DEF RemoveUnmoves, control_vars, Removal
  <1>2. place \in [Path -> {"none", "live", "held", "lost"}]
    BY DEF LegacyInv, LegacyTypes
  <1>3. CASE Place(Last(MovedSoFar), "live") /\ UNCHANGED <<script, seen, said>>
    <2>1. /\ place' \in [Path -> {"none", "live", "held", "lost"}]
          /\ \A p \in Path : place'[p] \in {place[p], "live"}
      BY <1>2, <1>3 DEF Place
    <2>2. LegacyTypes'
      BY <1>1, <1>3, <2>1, RemoveTypes DEF LegacyInv, LegacyTypes
    <2>3. Service' /\ Sequence'
      BY <1>1, <1>3, RemoveFacts, ControlFrame
    <2>4. PackageInv'
      BY <1>1, <1>3, <2>1, RemoveFacts DEF PackageInv, Removal, Unpacking, LostOnlyAtEnd,
         PackageKept, AllAre
    <2> QED
      BY <2>2, <2>3, <2>4 DEF LegacyInv
  <1>4. CASE MovedSoFar = {} /\ UNCHANGED place /\ Goto("remove", "audit")
    <2>1. /\ script'["remove"] = "audit" /\ (\A r \in Script : r # "remove" => script'[r] = script[r])
          /\ DOMAIN script' = Script /\ said' = said /\ seen' = seen
      BY <1>4, GotoFacts, RemoveFacts
    <2>2. LegacyTypes'
      BY <1>1, <1>2, <1>4, <2>1, RemoveTypes DEF LegacyInv, LegacyTypes, RemovePlace
    <2>3. Service' /\ Sequence'
      BY <1>1, <1>2, <1>4, <2>1, RemoveFacts, ControlFrame
    <2>4. PackageInv'
      BY <1>1, <1>2, <1>4, <2>1, RemoveFacts DEF PackageInv, Removal, Unpacking, LostOnlyAtEnd,
         PackageKept, AllAre, MovedSoFar
    <2> QED
      BY <2>2, <2>3, <2>4 DEF LegacyInv
  <1>5. CASE UNCHANGED place /\ Goto("remove", "audit stuck")
    <2>1. /\ script'["remove"] = "audit stuck" /\ (\A r \in Script : r # "remove" => script'[r] = script[r])
          /\ DOMAIN script' = Script /\ said' = said /\ seen' = seen
      BY <1>5, GotoFacts, RemoveFacts
    <2>2. LegacyTypes'
      BY <1>1, <1>2, <1>5, <2>1, RemoveTypes DEF LegacyInv, LegacyTypes, RemovePlace
    <2>3. Service' /\ Sequence'
      BY <1>1, <1>2, <1>5, <2>1, RemoveFacts, ControlFrame
    <2>4. PackageInv'
      BY <1>1, <1>2, <1>5, <2>1, RemoveFacts DEF PackageInv, Removal, Unpacking, LostOnlyAtEnd,
         PackageKept, AllAre
    <2> QED
      BY <2>2, <2>3, <2>4 DEF LegacyInv
  <1> QED
    BY <1>3, <1>4, <1>5 DEF RemoveUnmoves

\* The quarantine is reported, or undone.
LEMMA RemoveVerifiesInv == ASSUME LegacyInv, RemoveVerifies PROVE LegacyInv'
  <1>1. /\ UNCHANGED <<control, loaded, place, kept, deaths>> /\ script["remove"] = "verify"
        /\ (script["unpack"] = "idle" => AllAre("held"))
    BY RemoveFacts DEF RemoveVerifies, control_vars, package_vars, Removal
  <1>2. place' \in [Path -> {"none", "live", "held", "lost"}]
    BY <1>1 DEF LegacyInv, LegacyTypes
  <1>3. CASE ~LegacyProcesses /\ Says("remove", "quarantined")
    <2>1. /\ script'["remove"] = "done" /\ (\A r \in Script : r # "remove" => script'[r] = script[r])
          /\ said'["remove"] = "quarantined" /\ (\A r \in Change : r # "remove" => said'[r] = said[r])
          /\ DOMAIN script' = Script /\ DOMAIN said' = Change /\ DOMAIN seen' = Change \cup {"unpack"}
          /\ seen'["unpack"] = seen["unpack"]
      BY <1>3, SaysFacts, RemoveFacts
    <2>2. LegacyTypes'
      BY <1>1, <1>2, <1>3, <2>1, RemoveTypes DEF RemovePlace
    <2>3. Service' /\ Sequence'
      BY <1>1, <1>2, <1>3, <2>1, RemoveFacts, ControlFrame DEF Removal, LegacyProcesses
    <2>4. PackageInv'
      BY <1>1, <1>2, <1>3, <2>1, RemoveFacts DEF PackageInv, Removal, Unpacking, LostOnlyAtEnd,
         PackageKept, AllAre
    <2> QED
      BY <2>2, <2>3, <2>4 DEF LegacyInv
  <1>4. CASE Goto("remove", "undo")
    <2>1. /\ script'["remove"] = "undo" /\ (\A r \in Script : r # "remove" => script'[r] = script[r])
          /\ DOMAIN script' = Script /\ said' = said /\ seen' = seen
      BY <1>4, GotoFacts, RemoveFacts
    <2>2. LegacyTypes'
      BY <1>1, <1>2, <1>4, <2>1, RemoveTypes DEF LegacyInv, LegacyTypes, RemovePlace
    <2>3. Service' /\ Sequence'
      BY <1>1, <1>2, <1>4, <2>1, RemoveFacts, ControlFrame
    <2>4. PackageInv'
      BY <1>1, <1>2, <1>4, <2>1, RemoveFacts DEF PackageInv, Removal, Unpacking, LostOnlyAtEnd,
         PackageKept, AllAre
    <2> QED
      BY <2>2, <2>3, <2>4 DEF LegacyInv
  <1> QED
    BY <1>3, <1>4 DEF RemoveVerifies

\* All paths go back, or those whose rename works.
LEMMA RemoveUndoesInv == ASSUME LegacyInv, RemoveUndoes PROVE LegacyInv'
  <1>1. /\ UNCHANGED <<control, loaded, kept, deaths>> /\ script["remove"] = "undo"
        /\ \A p \in Path : place[p] # "lost"
    BY RemoveFacts DEF RemoveUndoes, control_vars, LostOnlyAtEnd
  <1>2. place \in [Path -> {"none", "live", "held", "lost"}] /\ "codexx_app" \in Path
    BY PathIs DEF LegacyInv, LegacyTypes
  <1>3. CASE /\ \A p \in Path : place[p] = "held"
             /\ place' = [p \in Path |-> "live"] /\ Goto("remove", "audit")
    <2>1. /\ script'["remove"] = "audit" /\ (\A r \in Script : r # "remove" => script'[r] = script[r])
          /\ DOMAIN script' = Script /\ said' = said /\ seen' = seen
      BY <1>3, GotoFacts, RemoveFacts
    <2>2. LegacyTypes'
      BY <1>1, <1>2, <1>3, <2>1, RemoveTypes DEF LegacyInv, LegacyTypes, RemovePlace
    <2>3. Service' /\ Sequence'
      BY <1>1, <1>2, <1>3, <2>1, RemoveFacts, ControlFrame
    <2>4. PackageInv'
      BY <1>1, <1>2, <1>3, <2>1, RemoveFacts DEF PackageInv, Removal, Unpacking, LostOnlyAtEnd,
         PackageKept, AllAre
    <2> QED
      BY <2>2, <2>3, <2>4 DEF LegacyInv
  <1>4. CASE \E S \in SUBSET Path : /\ place' = [p \in Path |-> IF p \in S THEN place[p] ELSE "live"]
                                   /\ Says("remove", "incomplete")
    <2>1. /\ script'["remove"] = "done" /\ (\A r \in Script : r # "remove" => script'[r] = script[r])
          /\ said'["remove"] = "incomplete" /\ (\A r \in Change : r # "remove" => said'[r] = said[r])
          /\ DOMAIN script' = Script /\ DOMAIN said' = Change /\ DOMAIN seen' = Change \cup {"unpack"}
          /\ seen'["unpack"] = seen["unpack"]
      BY <1>4, SaysFacts, RemoveFacts
    <2>2. /\ place' \in [Path -> {"none", "live", "held", "lost"}]
          /\ \A p \in Path : place'[p] \in {place[p], "live"}
      BY <1>2, <1>4
    <2>3. LegacyTypes'
      BY <1>1, <2>1, <2>2, RemoveTypes DEF RemovePlace
    <2>4. Service' /\ Sequence'
      BY <1>1, <2>1, RemoveFacts, ControlFrame DEF Removal
    <2>5. PackageInv'
      BY <1>1, <1>2, <2>1, <2>2, RemoveFacts DEF PackageInv, Removal, Unpacking, LostOnlyAtEnd,
         PackageKept, AllAre
    <2> QED
      BY <2>3, <2>4, <2>5 DEF LegacyInv
  <1> QED
    BY <1>3, <1>4 DEF RemoveUndoes

\* The quarantine directory is deleted: what it held is lost, which is nothing
\* after an audit of a rollback that was complete.
LEMMA RemoveAuditsInv == ASSUME LegacyInv, RemoveAudits PROVE LegacyInv'
  <1>1. /\ UNCHANGED <<control, loaded, deaths>> /\ script["remove"] \in {"audit", "audit stuck"}
        /\ \A p \in Path : place[p] # "lost"
    BY RemoveFacts DEF RemoveAudits, control_vars, LostOnlyAtEnd
  <1>2. place \in [Path -> {"none", "live", "held", "lost"}] /\ "codexx_app" \in Path
    BY PathIs DEF LegacyInv, LegacyTypes
  <1>3. CASE Says("remove", "incomplete") /\ UNCHANGED <<place, kept>>
    <2>1. /\ script'["remove"] = "done" /\ (\A r \in Script : r # "remove" => script'[r] = script[r])
          /\ said'["remove"] = "incomplete" /\ (\A r \in Change : r # "remove" => said'[r] = said[r])
          /\ DOMAIN script' = Script /\ DOMAIN said' = Change /\ DOMAIN seen' = Change \cup {"unpack"}
          /\ seen'["unpack"] = seen["unpack"]
      BY <1>3, SaysFacts, RemoveFacts
    <2>2. LegacyTypes'
      BY <1>1, <1>2, <1>3, <2>1, RemoveTypes DEF RemovePlace
    <2>3. Service' /\ Sequence'
      BY <1>1, <1>2, <1>3, <2>1, RemoveFacts, ControlFrame DEF Removal
    <2>4. PackageInv'
      BY <1>1, <1>2, <1>3, <2>1, RemoveFacts DEF PackageInv, Removal, Unpacking, LostOnlyAtEnd,
         PackageKept, AllAre
    <2> QED
      BY <2>2, <2>3, <2>4 DEF LegacyInv
  <1>4. ASSUME NEW what, what \in {"restored", "restored after stuck rollback"},
               what = "restored" => script["remove"] = "audit",
               place' = [p \in Path |-> IF place[p] = "held" THEN "lost" ELSE place[p]],
               kept' = kept \ {"removal"}, Says("remove", what)
        PROVE  LegacyInv'
    <2>1. /\ script'["remove"] = "done" /\ (\A r \in Script : r # "remove" => script'[r] = script[r])
          /\ said'["remove"] = what /\ (\A r \in Change : r # "remove" => said'[r] = said[r])
          /\ DOMAIN script' = Script /\ DOMAIN said' = Change /\ DOMAIN seen' = Change \cup {"unpack"}
          /\ seen'["unpack"] = seen["unpack"]
      BY <1>4, SaysFacts, RemoveFacts
    <2>2. /\ place' \in [Path -> {"none", "live", "held", "lost"}]
          /\ \A p \in Path : place'[p] # "held" /\ (place'[p] = "lost" => place[p] = "held")
          /\ \A p \in Path : place[p] # "held" => place'[p] = place[p]
      BY <1>1, <1>2, <1>4
    <2>3. LegacyTypes'
      BY <1>1, <2>1, <2>2, RemoveTypes DEF RemovePlace
    <2>4. Service' /\ Sequence'
      BY <1>1, <1>4, <2>1, RemoveFacts, ControlFrame DEF Removal
    <2>5. Removal'
      BY <1>1, <1>4, <2>1, <2>2, RemoveFacts DEF Removal, AllAre
    <2>6. Unpacking' /\ LostOnlyAtEnd'
      BY <1>1, <1>2, <2>1, <2>2, RemoveFacts DEF Unpacking, LostOnlyAtEnd
    <2>7. PackageKept'
      BY <1>1, <1>4, <2>1, <2>2, RemoveFacts DEF Removal, PackageKept
    <2> QED
      BY <2>3, <2>4, <2>5, <2>6, <2>7 DEF LegacyInv, PackageInv
  <1>5. CASE script["remove"] = "audit"
    BY <1>3, <1>4, <1>5 DEF RemoveAudits
  <1>6. CASE script["remove"] = "audit stuck"
    BY <1>3, <1>4, <1>6 DEF RemoveAudits
  <1> QED
    BY <1>1, <1>5, <1>6

\* Types after a step of the removal's recovery.
LEMMA UnpackTypes ==
    ASSUME LegacyInv, control' = control, loaded' = loaded, deaths' = deaths,
           place' \in [Path -> {"none", "live", "held", "lost"}],
           script'["unpack"] \in {"move", "undo", "done"},
           \A r \in Script : r # "unpack" => script'[r] = script[r],
           DOMAIN script' = Script, DOMAIN seen' = Change \cup {"unpack"}, DOMAIN said' = Change
    PROVE  LegacyTypes'
  BY DEF LegacyInv, LegacyTypes, Script, Change, Recovery

\* The removal's recovery begins with every path held.
LEMMA UnpackInv == ASSUME LegacyInv, Unpack PROVE LegacyInv'
  <1>1. /\ script'["unpack"] = "move" /\ (\A r \in Script : r # "unpack" => script'[r] = script[r])
        /\ DOMAIN script' = Script /\ said' = said /\ seen' = seen
    BY GotoFacts, RemoveFacts DEF Unpack
  <1>2. /\ UNCHANGED <<control, loaded, place, kept, deaths>> /\ script["unpack"] = "idle" /\ AllAre("held")
        /\ "codexx_app" \in Path
    BY PathIs DEF Unpack, control_vars, package_vars, AllAre
  <1>3. LegacyTypes'
    BY <1>1, <1>2, UnpackTypes DEF LegacyInv, LegacyTypes
  <1>4. Service' /\ Sequence'
    BY <1>1, <1>2, RemoveFacts, ControlFrame
  <1>5. script["remove"] \notin {"idle", "recheck", "move", "unmove", "audit"}
    BY <1>2, RemoveFacts DEF Removal, AllAre
  <1>6. PackageInv'
    BY <1>1, <1>2, <1>5, RemoveFacts DEF PackageInv, Removal, Unpacking, LostOnlyAtEnd,
       PackageKept, AllAre
  <1> QED
    BY <1>3, <1>4, <1>6 DEF LegacyInv

\* What the recovery has moved so far.
LEMMA MovedIs ==
    ASSUME NEW k \in 0..3
    PROVE  LET moved == SubSeq(TARGETS, 1, k) IN
           /\ Len(moved) = k /\ (moved = <<>> <=> k = 0)
           /\ k < 3 => Append(moved, TARGETS[k + 1]) = SubSeq(TARGETS, 1, k + 1) /\ TARGETS[k + 1] \in Path
           /\ k = 0 => TARGETS[k + 1] = "codexx_app"
           /\ k > 0 => /\ SubSeq(moved, 1, Len(moved) - 1) = SubSeq(TARGETS, 1, k - 1)
                       /\ moved[k] = TARGETS[k] /\ TARGETS[k] \in Path
           /\ k > 1 => TARGETS[k] # "codexx_app"
  <1>1. k \in {0, 1, 2, 3}
    OBVIOUS
  <1>3. CASE k = 0
    BY <1>3, PathIs DEF TARGETS
  <1>4. CASE k = 1
    BY <1>4, PathIs DEF TARGETS
  <1>5. CASE k = 2
    BY <1>5, PathIs DEF TARGETS
  <1>6. CASE k = 3
    BY <1>6, PathIs DEF TARGETS
  <1> QED
    BY <1>1, <1>3, <1>4, <1>5, <1>6

\* It moves the next path, ends or turns back.
LEMMA UnpackMovesInv == ASSUME LegacyInv, UnpackMoves PROVE LegacyInv'
  <1>1. /\ UNCHANGED <<control, loaded, kept, deaths>> /\ script["unpack"] = "move"
        /\ script["remove"] \notin {"idle", "recheck", "move", "unmove"}
    BY RemoveFacts DEF UnpackMoves, control_vars, Removal
  <1>2. place \in [Path -> {"none", "live", "held", "lost"}] /\ "codexx_app" \in Path
    BY PathIs DEF LegacyInv, LegacyTypes
  <1>3. PICK k \in 0..3 : seen["unpack"] = SubSeq(TARGETS, 1, k)
    BY RemoveFacts DEF Unpacking
  <1>4. Len(seen["unpack"]) = k /\ Len(TARGETS) = 3
    BY <1>3, MovedIs DEF TARGETS
  <1>5. ASSUME NEW pc \in {"done", "undo"}, Goto("unpack", pc), place' = place PROVE LegacyInv'
    <2>1. /\ script'["unpack"] = pc /\ (\A r \in Script : r # "unpack" => script'[r] = script[r])
          /\ DOMAIN script' = Script /\ said' = said /\ seen' = seen
      BY <1>5, GotoFacts, RemoveFacts
    <2>2. LegacyTypes'
      BY <1>1, <1>2, <1>5, <2>1, UnpackTypes DEF LegacyInv, LegacyTypes
    <2>3. Service' /\ Sequence'
      BY <1>1, <2>1, RemoveFacts, ControlFrame
    <2>4. PackageInv'
      BY <1>1, <1>5, <2>1, RemoveFacts DEF PackageInv, Removal, Unpacking, LostOnlyAtEnd,
         PackageKept, AllAre
    <2> QED
      BY <2>2, <2>3, <2>4 DEF LegacyInv
  <1>6. CASE k < 3 /\ place[TARGETS[k + 1]] = "held" /\ Place(TARGETS[k + 1], "live")
             /\ Unpacked(Append(seen["unpack"], TARGETS[k + 1]))
    <2> DEFINE next == TARGETS[k + 1]
    <2>1. /\ next \in Path /\ (k = 0 => next = "codexx_app")
          /\ Append(seen["unpack"], next) = SubSeq(TARGETS, 1, k + 1) /\ (seen["unpack"] = <<>> => k = 0)
      BY <1>3, <1>6, MovedIs
    <2>2. /\ script' = script /\ said' = said /\ DOMAIN seen' = Change \cup {"unpack"}
          /\ seen'["unpack"] = SubSeq(TARGETS, 1, k + 1) /\ k + 1 \in 0..3
      BY <1>6, <2>1 DEF Unpacked, LegacyInv, LegacyTypes
    <2>3. /\ place' \in [Path -> {"none", "live", "held", "lost"}]
          /\ \A p \in Path : place'[p] = IF p = next THEN "live" ELSE place[p]
      BY <1>2, <1>6, <2>1 DEF Place
    <2>4. place[next] = "held"
      BY <1>6
    <2> HIDE DEF next
    <2>5. LegacyTypes'
      BY <1>1, <2>2, <2>3, UnpackTypes DEF LegacyInv, LegacyTypes
    <2>6. Service' /\ Sequence'
      BY <1>1, <2>2, ControlFrame
    <2>7. Removal'
      BY <1>1, <2>1, <2>2, <2>3, <2>4, RemoveFacts DEF Removal, AllAre
    <2>8. Unpacking'
      <3>1. place'["codexx_app"] # "held"
        <4>1. CASE k = 0
          BY <1>2, <2>1, <2>3, <4>1
        <4>2. CASE k # 0
          <5>1. seen["unpack"] # <<>>
            BY <2>1, <4>2
          <5> QED
            BY <1>1, <1>2, <2>3, <5>1, RemoveFacts DEF Unpacking
        <4> QED
          BY <4>1, <4>2
      <3> QED
        BY <1>1, <2>2, <3>1 DEF Unpacking
    <2>9. LostOnlyAtEnd' /\ PackageKept'
      BY <1>1, <2>2, <2>3, RemoveFacts DEF LostOnlyAtEnd, PackageKept
    <2> QED
      BY <2>5, <2>6, <2>7, <2>8, <2>9 DEF LegacyInv, PackageInv
  <1>7. CASE Goto("unpack", "done") /\ UNCHANGED place
    BY <1>5, <1>7
  <1>8. CASE Goto("unpack", "undo") /\ UNCHANGED place
    BY <1>5, <1>8
  <1> QED
    BY <1>4, <1>6, <1>7, <1>8 DEF UnpackMoves

\* It holds the last path again, or gives up.
LEMMA UnpackUndoesInv == ASSUME LegacyInv, UnpackUndoes PROVE LegacyInv'
  <1>1. /\ UNCHANGED <<control, loaded, kept, deaths>> /\ script["unpack"] = "undo"
        /\ script["remove"] \notin {"idle", "recheck", "move", "unmove"}
    BY RemoveFacts DEF UnpackUndoes, control_vars, Removal
  <1>2. place \in [Path -> {"none", "live", "held", "lost"}] /\ "codexx_app" \in Path
    BY PathIs DEF LegacyInv, LegacyTypes
  <1>3. PICK k \in 0..3 : seen["unpack"] = SubSeq(TARGETS, 1, k)
    BY RemoveFacts DEF Unpacking
  <1>4. Len(seen["unpack"]) = k
    BY <1>3, MovedIs
  <1>5. CASE Goto("unpack", "done") /\ UNCHANGED place
    <2>1. /\ script'["unpack"] = "done" /\ (\A r \in Script : r # "unpack" => script'[r] = script[r])
          /\ DOMAIN script' = Script /\ said' = said /\ seen' = seen
      BY <1>5, GotoFacts, RemoveFacts
    <2>2. LegacyTypes'
      BY <1>1, <1>2, <1>5, <2>1, UnpackTypes DEF LegacyInv, LegacyTypes
    <2>3. Service' /\ Sequence'
      BY <1>1, <2>1, RemoveFacts, ControlFrame
    <2>4. PackageInv'
      BY <1>1, <1>5, <2>1, RemoveFacts DEF PackageInv, Removal, Unpacking, LostOnlyAtEnd,
         PackageKept, AllAre
    <2> QED
      BY <2>2, <2>3, <2>4 DEF LegacyInv
  <1>6. CASE /\ seen["unpack"] # <<>> /\ place[seen["unpack"][k]] = "live" /\ "removal" \in kept
             /\ Place(seen["unpack"][k], "held") /\ Unpacked(SubSeq(seen["unpack"], 1, k - 1))
    <2> DEFINE last == seen["unpack"][k]
    <2>1. /\ k > 0 /\ last \in Path /\ (k > 1 => last # "codexx_app")
          /\ SubSeq(seen["unpack"], 1, k - 1) = SubSeq(TARGETS, 1, k - 1)
      BY <1>3, <1>4, <1>6, MovedIs
    <2>2. /\ script' = script /\ said' = said /\ DOMAIN seen' = Change \cup {"unpack"}
          /\ seen'["unpack"] = SubSeq(TARGETS, 1, k - 1) /\ k - 1 \in 0..3
      BY <1>6, <2>1 DEF Unpacked, LegacyInv, LegacyTypes
    <2>3. /\ place' \in [Path -> {"none", "live", "held", "lost"}]
          /\ \A p \in Path : place'[p] = IF p = last THEN "held" ELSE place[p]
      BY <1>2, <1>6, <2>1 DEF Place
    <2>4. "removal" \in kept /\ seen["unpack"] # <<>>
      BY <1>6
    <2>5. k = 1 => seen'["unpack"] = <<>>
      BY <2>2, MovedIs
    <2> HIDE DEF last
    <2>6. LegacyTypes'
      BY <1>1, <2>2, <2>3, UnpackTypes DEF LegacyInv, LegacyTypes
    <2>7. Service' /\ Sequence'
      BY <1>1, <2>2, ControlFrame
    <2>8. Removal'
      BY <1>1, <2>1, <2>2, <2>3, <2>4, RemoveFacts DEF Removal, AllAre
    <2>9. Unpacking'
      BY <1>1, <1>2, <2>1, <2>2, <2>3, <2>4, <2>5, RemoveFacts DEF Unpacking
    <2>10. LostOnlyAtEnd' /\ PackageKept'
      BY <1>1, <2>2, <2>3, <2>4, RemoveFacts DEF LostOnlyAtEnd, PackageKept
    <2> QED
      BY <2>6, <2>7, <2>8, <2>9, <2>10 DEF LegacyInv, PackageInv
  <1> QED
    BY <1>4, <1>5, <1>6 DEF UnpackUndoes

-----------------------------------------------------------------------------
\* When the run counts as disturbed, before and after a step.
LEMMA DisturbedIs ==
    LET D(sc, sd, d) ==
            \/ d # 0 \/ sc["restart"] # "idle" \/ sc["reinstate"] # "idle" \/ sc["unpack"] # "idle"
            \/ sd["migrate"] = "incomplete" \/ sd["retire"] = "incomplete" \/ sd["remove"] = "incomplete"
            \/ sd["migrate"] = "restored after stuck rollback" \/ sd["retire"] = "restored after stuck rollback"
            \/ sd["remove"] = "restored after stuck rollback"
    IN (Disturbed <=> D(script, said, deaths)) /\ (Disturbed' <=> D(script', said', deaths'))
  BY DEF Disturbed, Change, Recovery

\* The script s goes to pc, and what it has reported is now what.
Steps(s, pc, what) ==
    /\ script'[s] = pc /\ said'[s] = what
    /\ \A r \in {"migrate", "retire", "remove", "restart", "reinstate", "unpack"} : r # s => script'[r] = script[r]
    /\ \A r \in {"migrate", "retire", "remove"} : r # s => said'[r] = said[r]
    /\ DOMAIN script' = Script /\ DOMAIN said' = Change /\ DOMAIN seen' = Change \cup {"unpack"}
    /\ seen'["unpack"] = seen["unpack"]

\* A step of a script that handles the control service is such a step.
LEMMA ControlScript ==
    ASSUME LegacyInv, NEW s \in {"migrate", "retire"}, NEW pc, NEW what
    PROVE  /\ Goto(s, pc) => Steps(s, pc, said[s])
           /\ Says(s, what) => Steps(s, "done", what)
           /\ Decides(s) => Steps(s, "decided", said[s])
           /\ Confirms(s) => Steps(s, "bootout", said[s])
  <1>1. LegacyTypes /\ s \in Change /\ s \in Script
    BY DEF LegacyInv, Script, Change
  <1>2. Script = {"migrate", "retire", "remove", "restart", "reinstate", "unpack"}
    BY DEF Script, Change, Recovery
  <1>3. Change = {"migrate", "retire", "remove"} /\ DOMAIN said = Change /\ DOMAIN seen = Change \cup {"unpack"}
    BY <1>1 DEF Change, LegacyTypes
  <1>4. Goto(s, pc) => Steps(s, pc, said[s])
    BY <1>1, <1>2, <1>3, GotoFacts DEF Steps
  <1>5. Says(s, what) => Steps(s, "done", what)
    BY <1>1, <1>2, <1>3, SaysFacts DEF Steps
  <1>6. Decides(s) => Steps(s, "decided", said[s])
    BY <1>1, <1>2, <1>3 DEF Steps, Decides, LegacyTypes
  <1>7. Confirms(s) => Steps(s, "bootout", said[s])
    BY <1>1, <1>2, <1>3 DEF Steps, Confirms, LegacyTypes
  <1> QED
    BY <1>4, <1>5, <1>6, <1>7

\* Such a step leaves the package alone.
LEMMA ControlStep ==
    ASSUME LegacyInv, NEW s \in {"migrate", "retire"}, NEW pc, NEW what, Steps(s, pc, what),
           s = "migrate" => pc \in MigratePlace, s = "retire" => pc \in RetirePlace, pc # "dead",
           control' \in {"live", "retained", "down"}, loaded' \in BOOLEAN, deaths' = deaths,
           place' = place, kept \subseteq kept'
    PROVE  LegacyTypes' /\ PackageInv'
  <1>1. LegacyTypes'
    BY DEF LegacyInv, LegacyTypes, Steps, Script, Change, Recovery
  <1>2. PackageInv'
    BY PackageFrame DEF Steps
  <1> QED
    BY <1>1, <1>2

\* What launchd does keeps the types of the service.
LEMMA LaunchdTypes ==
    ASSUME LegacyInv, BootedOut \/ BootoutRefused \/ BootoutSlow \/ Started
    PROVE  control' \in {"live", "retained", "down"} /\ loaded' \in BOOLEAN
  BY DEF LegacyInv, LegacyTypes, BootedOut, BootoutRefused, BootoutSlow, Started, Names,
     control_vars

\* The migration reads the identity its decision names.
LEMMA MigrateDecidesInv == ASSUME LegacyInv, MigrateDecides PROVE LegacyInv'
  <1>1. /\ LegacyTypes /\ Service /\ Sequence /\ script["migrate"] = "idle"
        /\ place' = place /\ deaths' = deaths /\ kept \subseteq kept'
    BY DEF LegacyInv, MigrateDecides, package_vars, Decides
  <1>2. CASE MigrateContract /\ Decides("migrate") /\ UNCHANGED <<control_vars, package_vars>>
    <2>1. Steps("migrate", "decided", said["migrate"])
      BY <1>2, ControlScript
    <2>2. LegacyTypes' /\ PackageInv'
      BY <1>1, <1>2, <2>1, LaunchdTypes, ControlStep DEF LegacyTypes, control_vars, MigratePlace
    <2>3. Service'
      BY <1>1, <1>2, <2>1, DisturbedIs DEF Steps, Service, Justified, Lingering, Untouched,
         Sequence, MigrateContract, control_vars, package_vars
    <2>4. Sequence'
      BY <1>1, <1>2, <2>1 DEF Steps, Sequence, Past, MigrateContract, control_vars, package_vars
    <2> QED
      BY <2>2, <2>3, <2>4 DEF LegacyInv
  <1> QED
    BY <1>2 DEF MigrateDecides, package_vars, control_vars

\* The migration is confirmed or refused.
LEMMA MigrateBeginsInv == ASSUME LegacyInv, MigrateBegins PROVE LegacyInv'
  <1>1. /\ LegacyTypes /\ Service /\ Sequence /\ script["migrate"] = "decided"
        /\ place' = place /\ deaths' = deaths /\ kept \subseteq kept'
    BY DEF LegacyInv, MigrateBegins, package_vars, Decides
  <1>2. CASE MigrateContract /\ Confirms("migrate") /\ kept' = kept \cup {"migration"} /\ UNCHANGED control_vars
    <2>1. Steps("migrate", "bootout", said["migrate"])
      BY <1>2, ControlScript
    <2>2. LegacyTypes' /\ PackageInv'
      BY <1>1, <1>2, <2>1, LaunchdTypes, ControlStep DEF LegacyTypes, control_vars, MigratePlace
    <2>3. Service'
      BY <1>1, <1>2, <2>1, DisturbedIs DEF Steps, Service, Justified, Lingering, Untouched,
         Sequence, MigrateContract, control_vars
    <2>4. Sequence'
      BY <1>1, <1>2, <2>1 DEF Steps, Sequence, Past, MigrateContract, control_vars
    <2> QED
      BY <2>2, <2>3, <2>4 DEF LegacyInv
  <1>3. CASE Says("migrate", "refused") /\ UNCHANGED kept /\ UNCHANGED control_vars
    <2>1. Steps("migrate", "done", "refused")
      BY <1>3, ControlScript
    <2>2. LegacyTypes' /\ PackageInv'
      BY <1>1, <1>3, <2>1, LaunchdTypes, ControlStep DEF LegacyTypes, control_vars, MigratePlace
    <2>3. Service'
      BY <1>1, <1>3, <2>1, DisturbedIs DEF Steps, Service, Justified, Lingering, Untouched,
         Sequence, control_vars
    <2>4. Sequence'
      BY <1>1, <1>3, <2>1 DEF Steps, Sequence, Past, control_vars
    <2> QED
      BY <2>2, <2>3, <2>4 DEF LegacyInv
  <1> QED
    BY <1>2, <1>3 DEF MigrateBegins, package_vars, control_vars

\* Its bootout.
LEMMA MigrateStopsInv == ASSUME LegacyInv, MigrateStops PROVE LegacyInv'
  <1>1. /\ LegacyTypes /\ Service /\ Sequence /\ script["migrate"] = "bootout"
        /\ place' = place /\ deaths' = deaths /\ kept \subseteq kept'
    BY DEF LegacyInv, MigrateStops, package_vars, Decides
  <1>2. CASE BootedOut /\ Goto("migrate", "write") /\ UNCHANGED kept
    <2>1. Steps("migrate", "write", said["migrate"])
      BY <1>2, ControlScript
    <2>2. LegacyTypes' /\ PackageInv'
      BY <1>1, <1>2, <2>1, LaunchdTypes, ControlStep DEF LegacyTypes, control_vars, MigratePlace
    <2>3. Service'
      BY <1>1, <1>2, <2>1, DisturbedIs DEF Steps, Service, Justified, Lingering, Untouched,
         Sequence, BootedOut
    <2>4. Sequence'
      BY <1>1, <1>2, <2>1 DEF Steps, Sequence, Past, BootedOut
    <2> QED
      BY <2>2, <2>3, <2>4 DEF LegacyInv
  <1>3. CASE BootoutRefused /\ Goto("migrate", "undo") /\ UNCHANGED kept
    <2>1. Steps("migrate", "undo", said["migrate"])
      BY <1>3, ControlScript
    <2>2. LegacyTypes' /\ PackageInv'
      BY <1>1, <1>3, <2>1, LaunchdTypes, ControlStep DEF LegacyTypes, control_vars, MigratePlace
    <2>3. Service'
      BY <1>1, <1>3, <2>1, DisturbedIs DEF Steps, Service, Justified, Lingering, Untouched,
         Sequence, BootoutRefused, control_vars
    <2>4. Sequence'
      BY <1>1, <1>3, <2>1 DEF Steps, Sequence, Past, BootoutRefused, control_vars
    <2> QED
      BY <2>2, <2>3, <2>4 DEF LegacyInv
  <1>4. CASE BootoutSlow /\ Goto("migrate", "undo") /\ UNCHANGED kept
    <2>1. Steps("migrate", "undo", said["migrate"])
      BY <1>4, ControlScript
    <2>2. LegacyTypes' /\ PackageInv'
      BY <1>1, <1>4, <2>1, LaunchdTypes, ControlStep DEF LegacyTypes, control_vars, MigratePlace
    <2>3. Service'
      BY <1>1, <1>4, <2>1, DisturbedIs DEF Steps, Service, Justified, Lingering, Untouched,
         Sequence, BootoutSlow
    <2>4. Sequence'
      BY <1>1, <1>4, <2>1 DEF Steps, Sequence, Past, BootoutSlow
    <2> QED
      BY <2>2, <2>3, <2>4 DEF LegacyInv
  <1> QED
    BY <1>2, <1>3, <1>4 DEF MigrateStops, package_vars, control_vars

\* It writes its plist.
LEMMA MigrateWritesInv == ASSUME LegacyInv, MigrateWrites PROVE LegacyInv'
  <1>1. /\ LegacyTypes /\ Service /\ Sequence /\ script["migrate"] = "write"
        /\ place' = place /\ deaths' = deaths /\ kept \subseteq kept'
    BY DEF LegacyInv, MigrateWrites, package_vars, Decides
  <1>2. CASE Goto("migrate", "bootstrap") /\ UNCHANGED <<held, control, loaded, boots, kept>>
    <2>1. Steps("migrate", "bootstrap", said["migrate"])
      BY <1>2, ControlScript
    <2>2. LegacyTypes' /\ PackageInv'
      BY <1>1, <1>2, <2>1, LaunchdTypes, ControlStep DEF LegacyTypes, control_vars, MigratePlace
    <2>3. Service'
      BY <1>1, <1>2, <2>1, DisturbedIs DEF Steps, Service, Justified, Lingering, Untouched, Sequence
    <2>4. Sequence'
      BY <1>1, <1>2, <2>1 DEF Steps, Sequence, Past
    <2> QED
      BY <2>2, <2>3, <2>4 DEF LegacyInv
  <1> QED
    BY <1>2 DEF MigrateWrites, package_vars, control_vars

\* It starts the service from it.
LEMMA MigrateStartsInv == ASSUME LegacyInv, MigrateStarts PROVE LegacyInv'
  <1>1. /\ LegacyTypes /\ Service /\ Sequence /\ script["migrate"] = "bootstrap"
        /\ place' = place /\ deaths' = deaths /\ kept \subseteq kept'
    BY DEF LegacyInv, MigrateStarts, package_vars, Decides
  <1>2. CASE Started /\ Names(plist) = "retained" /\ Goto("migrate", "verify") /\ UNCHANGED kept
    <2>1. Steps("migrate", "verify", said["migrate"])
      BY <1>2, ControlScript
    <2>2. LegacyTypes' /\ PackageInv'
      BY <1>1, <1>2, <2>1, LaunchdTypes, ControlStep DEF LegacyTypes, control_vars, MigratePlace
    <2>3. Service'
      BY <1>1, <1>2, <2>1, DisturbedIs DEF Steps, Service, Justified, Lingering, Untouched,
         Sequence, Started
    <2>4. Sequence'
      BY <1>1, <1>2, <2>1 DEF Steps, Sequence, Past, Started
    <2> QED
      BY <2>2, <2>3, <2>4 DEF LegacyInv
  <1>3. CASE Started /\ Names(plist) # "retained" /\ Goto("migrate", "undo") /\ UNCHANGED kept
    <2>1. Steps("migrate", "undo", said["migrate"])
      BY <1>3, ControlScript
    <2>2. LegacyTypes' /\ PackageInv'
      BY <1>1, <1>3, <2>1, LaunchdTypes, ControlStep DEF LegacyTypes, control_vars, MigratePlace
    <2>3. Service'
      BY <1>1, <1>3, <2>1, DisturbedIs DEF Steps, Service, Justified, Lingering, Untouched,
         Sequence, Started
    <2>4. Sequence'
      BY <1>1, <1>3, <2>1 DEF Steps, Sequence, Past, Started
    <2> QED
      BY <2>2, <2>3, <2>4 DEF LegacyInv
  <1>4. CASE UNCHANGED control_vars /\ Goto("migrate", "undo") /\ UNCHANGED kept
    <2>1. Steps("migrate", "undo", said["migrate"])
      BY <1>4, ControlScript
    <2>2. LegacyTypes' /\ PackageInv'
      BY <1>1, <1>4, <2>1, LaunchdTypes, ControlStep DEF LegacyTypes, control_vars, MigratePlace
    <2>3. Service'
      BY <1>1, <1>4, <2>1, DisturbedIs DEF Steps, Service, Justified, Lingering, Untouched,
         Sequence, control_vars
    <2>4. Sequence'
      BY <1>1, <1>4, <2>1 DEF Steps, Sequence, Past, control_vars
    <2> QED
      BY <2>2, <2>3, <2>4 DEF LegacyInv
  <1> QED
    BY <1>2, <1>3, <1>4 DEF MigrateStarts, package_vars, control_vars

\* It verifies the new service.
LEMMA MigrateVerifiesInv == ASSUME LegacyInv, MigrateVerifies PROVE LegacyInv'
  <1>1. /\ LegacyTypes /\ Service /\ Sequence /\ script["migrate"] = "verify"
        /\ place' = place /\ deaths' = deaths /\ kept \subseteq kept'
    BY DEF LegacyInv, MigrateVerifies, package_vars, Decides
  <1>2. CASE loaded /\ control = "retained" /\ Says("migrate", "migrated") /\ UNCHANGED <<control_vars, kept>>
    <2>1. Steps("migrate", "done", "migrated")
      BY <1>2, ControlScript
    <2>2. LegacyTypes' /\ PackageInv'
      BY <1>1, <1>2, <2>1, LaunchdTypes, ControlStep DEF LegacyTypes, control_vars, MigratePlace
    <2>3. Service'
      BY <1>1, <1>2, <2>1, DisturbedIs DEF Steps, Service, Justified, Lingering, Untouched,
         Sequence, control_vars
    <2>4. Sequence'
      BY <1>1, <1>2, <2>1 DEF Steps, Sequence, Past, control_vars
    <2> QED
      BY <2>2, <2>3, <2>4 DEF LegacyInv
  <1>3. CASE Goto("migrate", "undo") /\ UNCHANGED <<control_vars, kept>>
    <2>1. Steps("migrate", "undo", said["migrate"])
      BY <1>3, ControlScript
    <2>2. LegacyTypes' /\ PackageInv'
      BY <1>1, <1>3, <2>1, LaunchdTypes, ControlStep DEF LegacyTypes, control_vars, MigratePlace
    <2>3. Service'
      BY <1>1, <1>3, <2>1, DisturbedIs DEF Steps, Service, Justified, Lingering, Untouched,
         Sequence, control_vars
    <2>4. Sequence'
      BY <1>1, <1>3, <2>1 DEF Steps, Sequence, Past, control_vars
    <2> QED
      BY <2>2, <2>3, <2>4 DEF LegacyInv
  <1> QED
    BY <1>2, <1>3 DEF MigrateVerifies, package_vars, control_vars

\* Its rollback stops the service.
LEMMA MigrateUndoesInv == ASSUME LegacyInv, MigrateUndoes PROVE LegacyInv'
  <1>1. /\ LegacyTypes /\ Service /\ Sequence /\ script["migrate"] = "undo"
        /\ place' = place /\ deaths' = deaths /\ kept \subseteq kept'
    BY DEF LegacyInv, MigrateUndoes, package_vars, Decides
  <1>2. CASE control = "down" /\ UNCHANGED <<control_vars, kept>> /\ Goto("migrate", "fallback")
    <2>1. Steps("migrate", "fallback", said["migrate"])
      BY <1>2, ControlScript
    <2>2. LegacyTypes' /\ PackageInv'
      BY <1>1, <1>2, <2>1, LaunchdTypes, ControlStep DEF LegacyTypes, control_vars, MigratePlace
    <2>3. Service'
      BY <1>1, <1>2, <2>1, DisturbedIs DEF Steps, Service, Justified, Lingering, Untouched,
         Sequence, control_vars
    <2>4. Sequence'
      BY <1>1, <1>2, <2>1 DEF Steps, Sequence, Past, control_vars
    <2> QED
      BY <2>2, <2>3, <2>4 DEF LegacyInv
  <1>3. CASE control # "down" /\ BootedOut /\ Goto("migrate", "fallback") /\ UNCHANGED kept
    <2>1. Steps("migrate", "fallback", said["migrate"])
      BY <1>3, ControlScript
    <2>2. LegacyTypes' /\ PackageInv'
      BY <1>1, <1>3, <2>1, LaunchdTypes, ControlStep DEF LegacyTypes, control_vars, MigratePlace
    <2>3. Service'
      BY <1>1, <1>3, <2>1, DisturbedIs DEF Steps, Service, Justified, Lingering, Untouched,
         Sequence, BootedOut
    <2>4. Sequence'
      BY <1>1, <1>3, <2>1 DEF Steps, Sequence, Past, BootedOut
    <2> QED
      BY <2>2, <2>3, <2>4 DEF LegacyInv
  <1>4. CASE control # "down" /\ BootoutRefused /\ Says("migrate", "incomplete") /\ UNCHANGED kept
    <2>1. Steps("migrate", "done", "incomplete")
      BY <1>4, ControlScript
    <2>2. LegacyTypes' /\ PackageInv'
      BY <1>1, <1>4, <2>1, LaunchdTypes, ControlStep DEF LegacyTypes, control_vars, MigratePlace
    <2>3. Service'
      BY <1>1, <1>4, <2>1, DisturbedIs DEF Steps, Service, Justified, Lingering, Untouched,
         Sequence, BootoutRefused, control_vars
    <2>4. Sequence'
      BY <1>1, <1>4, <2>1 DEF Steps, Sequence, Past, BootoutRefused, control_vars
    <2> QED
      BY <2>2, <2>3, <2>4 DEF LegacyInv
  <1> QED
    BY <1>2, <1>3, <1>4 DEF MigrateUndoes, package_vars, control_vars

\* It writes the fallback plist.
LEMMA MigrateFallsBackInv == ASSUME LegacyInv, MigrateFallsBack PROVE LegacyInv'
  <1>1. /\ LegacyTypes /\ Service /\ Sequence /\ script["migrate"] = "fallback"
        /\ place' = place /\ deaths' = deaths /\ kept \subseteq kept'
    BY DEF LegacyInv, MigrateFallsBack, package_vars, Decides
  <1>2. CASE Goto("migrate", "restart") /\ UNCHANGED <<held, control, loaded, boots, kept>>
    <2>1. Steps("migrate", "restart", said["migrate"])
      BY <1>2, ControlScript
    <2>2. LegacyTypes' /\ PackageInv'
      BY <1>1, <1>2, <2>1, LaunchdTypes, ControlStep DEF LegacyTypes, control_vars, MigratePlace
    <2>3. Service'
      BY <1>1, <1>2, <2>1, DisturbedIs DEF Steps, Service, Justified, Lingering, Untouched, Sequence
    <2>4. Sequence'
      BY <1>1, <1>2, <2>1 DEF Steps, Sequence, Past
    <2> QED
      BY <2>2, <2>3, <2>4 DEF LegacyInv
  <1> QED
    BY <1>2 DEF MigrateFallsBack, package_vars, control_vars

\* It starts the live runtime, which needs the package where it was.
LEMMA MigrateRestartsInv == ASSUME LegacyInv, MigrateRestarts PROVE LegacyInv'
  <1>1. /\ LegacyTypes /\ Service /\ Sequence /\ script["migrate"] = "restart"
        /\ place' = place /\ deaths' = deaths /\ kept \subseteq kept'
    BY DEF LegacyInv, MigrateRestarts, package_vars, Decides
  <1>2. CASE Started /\ Names(plist) = "live" /\ Says("migrate", "restored") /\ UNCHANGED kept
    <2>1. Steps("migrate", "done", "restored")
      BY <1>2, ControlScript
    <2>2. LegacyTypes' /\ PackageInv'
      BY <1>1, <1>2, <2>1, LaunchdTypes, ControlStep DEF LegacyTypes, control_vars, MigratePlace
    <2>3. ~Disturbed => said["remove"] # "quarantined"
      <3>1. "codexx.py" \in Path /\ place["codexx.py"] = "live"
        BY <1>2, PathIs DEF Started, Available
      <3> QED
        BY <3>1, DisturbedIs, RemoveFacts DEF Removal, AllAre
    <2>4. Service'
      BY <1>1, <1>2, <2>1, <2>3, DisturbedIs DEF Steps, Service, Justified, Lingering, Untouched,
         Sequence, Started
    <2>5. Sequence'
      BY <1>1, <1>2, <2>1 DEF Steps, Sequence, Past, Started
    <2> QED
      BY <2>2, <2>4, <2>5 DEF LegacyInv
  <1>3. CASE UNCHANGED control_vars /\ Says("migrate", "incomplete") /\ UNCHANGED kept
    <2>1. Steps("migrate", "done", "incomplete")
      BY <1>3, ControlScript
    <2>2. LegacyTypes' /\ PackageInv'
      BY <1>1, <1>3, <2>1, LaunchdTypes, ControlStep DEF LegacyTypes, control_vars, MigratePlace
    <2>3. Service'
      BY <1>1, <1>3, <2>1, DisturbedIs DEF Steps, Service, Justified, Lingering, Untouched,
         Sequence, control_vars
    <2>4. Sequence'
      BY <1>1, <1>3, <2>1 DEF Steps, Sequence, Past, control_vars
    <2> QED
      BY <2>2, <2>3, <2>4 DEF LegacyInv
  <1> QED
    BY <1>2, <1>3 DEF MigrateRestarts, package_vars, control_vars

\* The retirement reads the identity its decision names.
LEMMA RetireDecidesInv == ASSUME LegacyInv, RetireDecides PROVE LegacyInv'
  <1>1. /\ LegacyTypes /\ Service /\ Sequence /\ script["retire"] = "idle"
        /\ place' = place /\ deaths' = deaths /\ kept \subseteq kept'
    BY DEF LegacyInv, RetireDecides, package_vars, Decides
  <1>2. CASE RetireContract /\ Decides("retire") /\ UNCHANGED <<control_vars, package_vars>>
    <2>1. Steps("retire", "decided", said["retire"])
      BY <1>2, ControlScript
    <2>2. LegacyTypes' /\ PackageInv'
      BY <1>1, <1>2, <2>1, LaunchdTypes, ControlStep DEF LegacyTypes, control_vars, RetirePlace
    <2>3. Service'
      BY <1>1, <1>2, <2>1, DisturbedIs DEF Steps, Service, Justified, Lingering, Untouched,
         Sequence, RetireContract, control_vars, package_vars
    <2>4. Sequence'
      BY <1>1, <1>2, <2>1 DEF Steps, Sequence, Past, RetireContract, control_vars, package_vars
    <2> QED
      BY <2>2, <2>3, <2>4 DEF LegacyInv
  <1> QED
    BY <1>2 DEF RetireDecides, package_vars, control_vars

\* The retirement is confirmed or refused.
LEMMA RetireBeginsInv == ASSUME LegacyInv, RetireBegins PROVE LegacyInv'
  <1>1. /\ LegacyTypes /\ Service /\ Sequence /\ script["retire"] = "decided"
        /\ place' = place /\ deaths' = deaths /\ kept \subseteq kept'
    BY DEF LegacyInv, RetireBegins, package_vars, Decides
  <1>2. CASE RetireContract /\ Confirms("retire") /\ kept' = kept \cup {"retirement"} /\ UNCHANGED control_vars
    <2>1. Steps("retire", "bootout", said["retire"])
      BY <1>2, ControlScript
    <2>2. LegacyTypes' /\ PackageInv'
      BY <1>1, <1>2, <2>1, LaunchdTypes, ControlStep DEF LegacyTypes, control_vars, RetirePlace
    <2>3. Service'
      BY <1>1, <1>2, <2>1, DisturbedIs DEF Steps, Service, Justified, Lingering, Untouched,
         Sequence, RetireContract, control_vars
    <2>4. Sequence'
      BY <1>1, <1>2, <2>1 DEF Steps, Sequence, Past, RetireContract, control_vars
    <2> QED
      BY <2>2, <2>3, <2>4 DEF LegacyInv
  <1>3. CASE Says("retire", "refused") /\ UNCHANGED kept /\ UNCHANGED control_vars
    <2>1. Steps("retire", "done", "refused")
      BY <1>3, ControlScript
    <2>2. LegacyTypes' /\ PackageInv'
      BY <1>1, <1>3, <2>1, LaunchdTypes, ControlStep DEF LegacyTypes, control_vars, RetirePlace
    <2>3. Service'
      BY <1>1, <1>3, <2>1, DisturbedIs DEF Steps, Service, Justified, Lingering, Untouched,
         Sequence, control_vars
    <2>4. Sequence'
      BY <1>1, <1>3, <2>1 DEF Steps, Sequence, Past, control_vars
    <2> QED
      BY <2>2, <2>3, <2>4 DEF LegacyInv
  <1> QED
    BY <1>2, <1>3 DEF RetireBegins, package_vars, control_vars

\* Its bootout.
LEMMA RetireStopsInv == ASSUME LegacyInv, RetireStops PROVE LegacyInv'
  <1>1. /\ LegacyTypes /\ Service /\ Sequence /\ script["retire"] = "bootout"
        /\ place' = place /\ deaths' = deaths /\ kept \subseteq kept'
    BY DEF LegacyInv, RetireStops, package_vars, Decides
  <1>2. CASE BootedOut /\ Goto("retire", "move") /\ UNCHANGED kept
    <2>1. Steps("retire", "move", said["retire"])
      BY <1>2, ControlScript
    <2>2. LegacyTypes' /\ PackageInv'
      BY <1>1, <1>2, <2>1, LaunchdTypes, ControlStep DEF LegacyTypes, control_vars, RetirePlace
    <2>3. Service'
      BY <1>1, <1>2, <2>1, DisturbedIs DEF Steps, Service, Justified, Lingering, Untouched,
         Sequence, BootedOut
    <2>4. Sequence'
      BY <1>1, <1>2, <2>1 DEF Steps, Sequence, Past, BootedOut
    <2> QED
      BY <2>2, <2>3, <2>4 DEF LegacyInv
  <1>3. CASE BootoutRefused /\ Goto("retire", "audit") /\ UNCHANGED kept
    <2>1. Steps("retire", "audit", said["retire"])
      BY <1>3, ControlScript
    <2>2. LegacyTypes' /\ PackageInv'
      BY <1>1, <1>3, <2>1, LaunchdTypes, ControlStep DEF LegacyTypes, control_vars, RetirePlace
    <2>3. Service'
      BY <1>1, <1>3, <2>1, DisturbedIs DEF Steps, Service, Justified, Lingering, Untouched,
         Sequence, BootoutRefused, control_vars
    <2>4. Sequence'
      BY <1>1, <1>3, <2>1 DEF Steps, Sequence, Past, BootoutRefused, control_vars
    <2> QED
      BY <2>2, <2>3, <2>4 DEF LegacyInv
  <1>4. CASE BootoutSlow /\ Goto("retire", "audit slow") /\ UNCHANGED kept
    <2>1. Steps("retire", "audit slow", said["retire"])
      BY <1>4, ControlScript
    <2>2. LegacyTypes' /\ PackageInv'
      BY <1>1, <1>4, <2>1, LaunchdTypes, ControlStep DEF LegacyTypes, control_vars, RetirePlace
    <2>3. Service'
      BY <1>1, <1>4, <2>1, DisturbedIs DEF Steps, Service, Justified, Lingering, Untouched,
         Sequence, BootoutSlow
    <2>4. Sequence'
      BY <1>1, <1>4, <2>1 DEF Steps, Sequence, Past, BootoutSlow
    <2> QED
      BY <2>2, <2>3, <2>4 DEF LegacyInv
  <1> QED
    BY <1>2, <1>3, <1>4 DEF RetireStops, package_vars, control_vars

\* It takes the plist away.
LEMMA RetireMovesInv == ASSUME LegacyInv, RetireMoves PROVE LegacyInv'
  <1>1. /\ LegacyTypes /\ Service /\ Sequence /\ script["retire"] = "move"
        /\ place' = place /\ deaths' = deaths /\ kept \subseteq kept'
    BY DEF LegacyInv, RetireMoves, package_vars, Decides
  <1>2. CASE Goto("retire", "verify") /\ UNCHANGED <<control, loaded, boots, kept>>
    <2>1. Steps("retire", "verify", said["retire"])
      BY <1>2, ControlScript
    <2>2. LegacyTypes' /\ PackageInv'
      BY <1>1, <1>2, <2>1, LaunchdTypes, ControlStep DEF LegacyTypes, control_vars, RetirePlace
    <2>3. Service'
      BY <1>1, <1>2, <2>1, DisturbedIs DEF Steps, Service, Justified, Lingering, Untouched, Sequence
    <2>4. Sequence'
      BY <1>1, <1>2, <2>1 DEF Steps, Sequence, Past
    <2> QED
      BY <2>2, <2>3, <2>4 DEF LegacyInv
  <1>3. CASE Goto("retire", "restart") /\ UNCHANGED <<control, loaded, boots, kept>>
    <2>1. Steps("retire", "restart", said["retire"])
      BY <1>3, ControlScript
    <2>2. LegacyTypes' /\ PackageInv'
      BY <1>1, <1>3, <2>1, LaunchdTypes, ControlStep DEF LegacyTypes, control_vars, RetirePlace
    <2>3. Service'
      BY <1>1, <1>3, <2>1, DisturbedIs DEF Steps, Service, Justified, Lingering, Untouched, Sequence
    <2>4. Sequence'
      BY <1>1, <1>3, <2>1 DEF Steps, Sequence, Past
    <2> QED
      BY <2>2, <2>3, <2>4 DEF LegacyInv
  <1> QED
    BY <1>2, <1>3 DEF RetireMoves, package_vars, control_vars

\* It reports a service that is down.
LEMMA RetireVerifiesInv == ASSUME LegacyInv, RetireVerifies PROVE LegacyInv'
  <1>1. /\ LegacyTypes /\ Service /\ Sequence /\ script["retire"] = "verify"
        /\ place' = place /\ deaths' = deaths /\ kept \subseteq kept'
    BY DEF LegacyInv, RetireVerifies, package_vars, Decides
  <1>2. CASE ~loaded /\ control = "down" /\ Says("retire", "retired") /\ UNCHANGED <<control_vars, kept>>
    <2>1. Steps("retire", "done", "retired")
      BY <1>2, ControlScript
    <2>2. LegacyTypes' /\ PackageInv'
      BY <1>1, <1>2, <2>1, LaunchdTypes, ControlStep DEF LegacyTypes, control_vars, RetirePlace
    <2>3. Service'
      BY <1>1, <1>2, <2>1, DisturbedIs DEF Steps, Service, Justified, Lingering, Untouched,
         Sequence, control_vars
    <2>4. Sequence'
      BY <1>1, <1>2, <2>1 DEF Steps, Sequence, Past, control_vars
    <2> QED
      BY <2>2, <2>3, <2>4 DEF LegacyInv
  <1>3. CASE Goto("retire", "put back") /\ UNCHANGED <<control_vars, kept>>
    <2>1. Steps("retire", "put back", said["retire"])
      BY <1>3, ControlScript
    <2>2. LegacyTypes' /\ PackageInv'
      BY <1>1, <1>3, <2>1, LaunchdTypes, ControlStep DEF LegacyTypes, control_vars, RetirePlace
    <2>3. Service'
      BY <1>1, <1>3, <2>1, DisturbedIs DEF Steps, Service, Justified, Lingering, Untouched,
         Sequence, control_vars
    <2>4. Sequence'
      BY <1>1, <1>3, <2>1 DEF Steps, Sequence, Past, control_vars
    <2> QED
      BY <2>2, <2>3, <2>4 DEF LegacyInv
  <1> QED
    BY <1>2, <1>3 DEF RetireVerifies, package_vars, control_vars

\* Its rollback puts the plist back.
LEMMA RetirePutsBackInv == ASSUME LegacyInv, RetirePutsBack PROVE LegacyInv'
  <1>1. /\ LegacyTypes /\ Service /\ Sequence /\ script["retire"] = "put back"
        /\ place' = place /\ deaths' = deaths /\ kept \subseteq kept'
    BY DEF LegacyInv, RetirePutsBack, package_vars, Decides
  <1>2. CASE Goto("retire", "restart") /\ UNCHANGED <<control, loaded, boots, kept>>
    <2>1. Steps("retire", "restart", said["retire"])
      BY <1>2, ControlScript
    <2>2. LegacyTypes' /\ PackageInv'
      BY <1>1, <1>2, <2>1, LaunchdTypes, ControlStep DEF LegacyTypes, control_vars, RetirePlace
    <2>3. Service'
      BY <1>1, <1>2, <2>1, DisturbedIs DEF Steps, Service, Justified, Lingering, Untouched, Sequence
    <2>4. Sequence'
      BY <1>1, <1>2, <2>1 DEF Steps, Sequence, Past
    <2> QED
      BY <2>2, <2>3, <2>4 DEF LegacyInv
  <1> QED
    BY <1>2 DEF RetirePutsBack, package_vars, control_vars

\* It starts the service again unless a listener is there.
LEMMA RetireRestartsInv == ASSUME LegacyInv, RetireRestarts PROVE LegacyInv'
  <1>1. /\ LegacyTypes /\ Service /\ Sequence /\ script["retire"] = "restart"
        /\ place' = place /\ deaths' = deaths /\ kept \subseteq kept'
    BY DEF LegacyInv, RetireRestarts, package_vars, Decides
  <1>2. CASE UNCHANGED <<control, loaded, boots, kept>> /\ Goto("retire", "bootstrap")
    <2>1. Steps("retire", "bootstrap", said["retire"])
      BY <1>2, ControlScript
    <2>2. LegacyTypes' /\ PackageInv'
      BY <1>1, <1>2, <2>1, LaunchdTypes, ControlStep DEF LegacyTypes, control_vars, RetirePlace
    <2>3. Service'
      BY <1>1, <1>2, <2>1, DisturbedIs DEF Steps, Service, Justified, Lingering, Untouched, Sequence
    <2>4. Sequence'
      BY <1>1, <1>2, <2>1 DEF Steps, Sequence, Past
    <2> QED
      BY <2>2, <2>3, <2>4 DEF LegacyInv
  <1>3. CASE control # "down" /\ UNCHANGED control_vars /\ Goto("retire", "audit") /\ UNCHANGED kept
    <2>1. Steps("retire", "audit", said["retire"])
      BY <1>3, ControlScript
    <2>2. LegacyTypes' /\ PackageInv'
      BY <1>1, <1>3, <2>1, LaunchdTypes, ControlStep DEF LegacyTypes, control_vars, RetirePlace
    <2>3. Service'
      BY <1>1, <1>3, <2>1, DisturbedIs DEF Steps, Service, Justified, Lingering, Untouched,
         Sequence, control_vars
    <2>4. Sequence'
      BY <1>1, <1>3, <2>1 DEF Steps, Sequence, Past, control_vars
    <2> QED
      BY <2>2, <2>3, <2>4 DEF LegacyInv
  <1> QED
    BY <1>2, <1>3 DEF RetireRestarts, package_vars, control_vars

\* The retained runtime is up again, or the rollback incomplete.
LEMMA RetireStartsInv == ASSUME LegacyInv, RetireStarts PROVE LegacyInv'
  <1>1. /\ LegacyTypes /\ Service /\ Sequence /\ script["retire"] = "bootstrap"
        /\ place' = place /\ deaths' = deaths /\ kept \subseteq kept'
    BY DEF LegacyInv, RetireStarts, package_vars, Decides
  <1>2. CASE Started /\ Goto("retire", "audit") /\ Names(plist) = "retained" /\ UNCHANGED kept
    <2>1. Steps("retire", "audit", said["retire"])
      BY <1>2, ControlScript
    <2>2. LegacyTypes' /\ PackageInv'
      BY <1>1, <1>2, <2>1, LaunchdTypes, ControlStep DEF LegacyTypes, control_vars, RetirePlace
    <2>3. Service'
      BY <1>1, <1>2, <2>1, DisturbedIs DEF Steps, Service, Justified, Lingering, Untouched,
         Sequence, Started
    <2>4. Sequence'
      BY <1>1, <1>2, <2>1 DEF Steps, Sequence, Past, Started
    <2> QED
      BY <2>2, <2>3, <2>4 DEF LegacyInv
  <1>3. CASE UNCHANGED control_vars /\ Says("retire", "incomplete") /\ UNCHANGED kept
    <2>1. Steps("retire", "done", "incomplete")
      BY <1>3, ControlScript
    <2>2. LegacyTypes' /\ PackageInv'
      BY <1>1, <1>3, <2>1, LaunchdTypes, ControlStep DEF LegacyTypes, control_vars, RetirePlace
    <2>3. Service'
      BY <1>1, <1>3, <2>1, DisturbedIs DEF Steps, Service, Justified, Lingering, Untouched,
         Sequence, control_vars
    <2>4. Sequence'
      BY <1>1, <1>3, <2>1 DEF Steps, Sequence, Past, control_vars
    <2> QED
      BY <2>2, <2>3, <2>4 DEF LegacyInv
  <1> QED
    BY <1>2, <1>3 DEF RetireStarts, package_vars, control_vars

\* The rollback is reported.
LEMMA RetireAuditsInv == ASSUME LegacyInv, RetireAudits PROVE LegacyInv'
  <1>1. /\ LegacyTypes /\ Service /\ Sequence /\ script["retire"] \in {"audit", "audit slow"}
        /\ place' = place /\ deaths' = deaths /\ kept \subseteq kept'
    BY DEF LegacyInv, RetireAudits, package_vars, Decides
  <1>2. CASE script["retire"] = "audit" /\ Says("retire", "restored") /\ UNCHANGED <<control_vars, kept>>
    <2>1. Steps("retire", "done", "restored")
      BY <1>2, ControlScript
    <2>2. LegacyTypes' /\ PackageInv'
      BY <1>1, <1>2, <2>1, LaunchdTypes, ControlStep DEF LegacyTypes, control_vars, RetirePlace
    <2>3. Service'
      BY <1>1, <1>2, <2>1, DisturbedIs DEF Steps, Service, Justified, Lingering, Untouched,
         Sequence, control_vars
    <2>4. Sequence'
      BY <1>1, <1>2, <2>1 DEF Steps, Sequence, Past, control_vars
    <2> QED
      BY <2>2, <2>3, <2>4 DEF LegacyInv
  <1>3. CASE script["retire"] = "audit slow" /\ Says("retire", "restored after slow stop") /\ UNCHANGED <<control_vars, kept>>
    <2>1. Steps("retire", "done", "restored after slow stop")
      BY <1>3, ControlScript
    <2>2. LegacyTypes' /\ PackageInv'
      BY <1>1, <1>3, <2>1, LaunchdTypes, ControlStep DEF LegacyTypes, control_vars, RetirePlace
    <2>3. Service'
      BY <1>1, <1>3, <2>1, DisturbedIs DEF Steps, Service, Justified, Lingering, Untouched,
         Sequence, control_vars
    <2>4. Sequence'
      BY <1>1, <1>3, <2>1 DEF Steps, Sequence, Past, control_vars
    <2> QED
      BY <2>2, <2>3, <2>4 DEF LegacyInv
  <1>4. CASE Says("retire", "incomplete") /\ UNCHANGED <<control_vars, kept>>
    <2>1. Steps("retire", "done", "incomplete")
      BY <1>4, ControlScript
    <2>2. LegacyTypes' /\ PackageInv'
      BY <1>1, <1>4, <2>1, LaunchdTypes, ControlStep DEF LegacyTypes, control_vars, RetirePlace
    <2>3. Service'
      BY <1>1, <1>4, <2>1, DisturbedIs DEF Steps, Service, Justified, Lingering, Untouched,
         Sequence, control_vars
    <2>4. Sequence'
      BY <1>1, <1>4, <2>1 DEF Steps, Sequence, Past, control_vars
    <2> QED
      BY <2>2, <2>3, <2>4 DEF LegacyInv
  <1> QED
    BY <1>2, <1>3, <1>4, <1>1 DEF RetireAudits, package_vars, control_vars

-----------------------------------------------------------------------------
\* A step of the migration's or the retirement's recovery: from here on the run
\* counts as disturbed.
LEMMA RecoveryStep ==
    ASSUME LegacyInv, NEW s \in {"restart", "reinstate"}, NEW pc \in {"bootstrap", "done"}, Goto(s, pc),
           control' \in {"live", "retained", "down"}, loaded' \in BOOLEAN, deaths' = deaths,
           place' = place, kept' = kept,
           s = "reinstate" => script["retire"] # "idle"
    PROVE  LegacyInv'
  <1>1. /\ script'[s] = pc /\ (\A r \in Script : r # s => script'[r] = script[r])
        /\ DOMAIN script' = Script /\ said' = said /\ seen' = seen
    BY GotoFacts DEF LegacyInv, Script, Recovery
  <1>2. LegacyTypes'
    BY <1>1 DEF LegacyInv, LegacyTypes, Script, Change, Recovery
  <1>3. PackageInv'
    BY <1>1, PackageFrame DEF Script, Change, Recovery
  <1>4. Service'
    BY <1>1 DEF Service, Disturbed, Recovery
  <1>5. Sequence'
    BY <1>1 DEF LegacyInv, Sequence, Past, Script, Change, Recovery
  <1> QED
    BY <1>2, <1>3, <1>4, <1>5 DEF LegacyInv

\* The recovery of the migration.
LEMMA RestartInv == ASSUME LegacyInv, Restart \/ RestartStarts PROVE LegacyInv'
  <1>1. place' = place /\ kept' = kept /\ deaths' = deaths
    BY DEF Restart, RestartStarts, package_vars
  <1>2. LegacyTypes
    BY DEF LegacyInv
  <1>3. CASE Restart
    <2>1. control' \in {"live", "retained", "down"} /\ loaded' \in BOOLEAN
      BY <1>2, <1>3, LaunchdTypes DEF Restart
    <2>2. Goto("restart", "bootstrap") \/ Goto("restart", "done")
      BY <1>3 DEF Restart
    <2> QED
      BY <1>1, <2>1, <2>2, RecoveryStep
  <1>4. CASE RestartStarts
    <2>1. control' \in {"live", "retained", "down"} /\ loaded' \in BOOLEAN
      BY <1>2, <1>4, LaunchdTypes DEF RestartStarts, LegacyTypes, control_vars
    <2>2. Goto("restart", "done")
      BY <1>4 DEF RestartStarts
    <2> QED
      BY <1>1, <2>1, <2>2, RecoveryStep
  <1> QED
    BY <1>3, <1>4

\* The recovery of the retirement.
LEMMA ReinstateInv == ASSUME LegacyInv, Reinstate \/ ReinstateStarts PROVE LegacyInv'
  <1>1. place' = place /\ kept' = kept /\ deaths' = deaths
    BY DEF Reinstate, ReinstateStarts, package_vars
  <1>2. LegacyTypes /\ Sequence
    BY DEF LegacyInv
  <1>3. CASE Reinstate
    <2>1. control' \in {"live", "retained", "down"} /\ loaded' \in BOOLEAN
      BY <1>2, <1>3 DEF Reinstate, LegacyTypes
    <2>2. Goto("reinstate", "bootstrap") /\ script["retire"] # "idle"
      BY <1>2, <1>3 DEF Reinstate, Sequence
    <2> QED
      BY <1>1, <2>1, <2>2, RecoveryStep
  <1>4. CASE ReinstateStarts
    <2>1. control' \in {"live", "retained", "down"} /\ loaded' \in BOOLEAN
      BY <1>2, <1>4, LaunchdTypes DEF ReinstateStarts, LegacyTypes, Names
    <2>2. Goto("reinstate", "done") /\ script["retire"] # "idle"
      BY <1>2, <1>4 DEF ReinstateStarts, Sequence
    <2> QED
      BY <1>1, <2>1, <2>2, RecoveryStep
  <1> QED
    BY <1>3, <1>4

\* A listener that outlived its bootout stops: the script that waited for it
\* has given up on it.
LEMMA ListenerStopsInv == ASSUME LegacyInv, ListenerStops PROVE LegacyInv'
  <1>1. /\ UNCHANGED <<loaded, place, kept, script, seen, said, deaths>> /\ control' = "down"
        /\ control # "down" /\ ~loaded
    BY DEF ListenerStops, package_vars
  <1>2. LegacyTypes'
    BY <1>1 DEF LegacyInv, LegacyTypes
  <1>3. PackageInv'
    BY <1>1, PackageFrame
  <1>4. Service'
    BY <1>1 DEF LegacyInv, Service, Disturbed, Justified, Lingering, Untouched
  <1>5. Sequence'
    BY <1>1 DEF LegacyInv, Sequence
  <1> QED
    BY <1>2, <1>3, <1>4, <1>5 DEF LegacyInv

\* What the invariant does not mention: legacy processes and the first backup.
LEMMA ProcessesInv ==
    ASSUME LegacyInv, LegacyExec \/ LegacyExecEnds \/ RetireStale \/ CreateBackup PROVE LegacyInv'
  <1>1. UNCHANGED <<control, loaded, place, script, seen, said, deaths>> /\ kept' \in {kept, kept \cup {"bundle"}}
    BY DEF LegacyExec, LegacyExecEnds, RetireStale, CreateBackup, control_vars
  <1>2. LegacyTypes'
    BY <1>1 DEF LegacyInv, LegacyTypes
  <1>3. PackageInv'
    BY <1>1, PackageFrame
  <1>4. Service' /\ Sequence'
    BY <1>1, ControlFrame
  <1> QED
    BY <1>2, <1>3, <1>4 DEF LegacyInv

\* The recovery entrypoint appears before a removal may begin.
LEMMA ActivateRecoveryPathsInv == ASSUME LegacyInv, ActivateRecoveryPaths PROVE LegacyInv'
  <1>1. UNCHANGED <<control, loaded, kept, script, seen, said, deaths>> /\ place["codexx-legacy"] = "none"
    BY DEF ActivateRecoveryPaths, control_vars
  <1>2. /\ place' \in [Path -> {"none", "live", "held", "lost"}] /\ "codexx-legacy" \in Path
        /\ \A p \in Path : place'[p] = IF p = "codexx-legacy" THEN "live" ELSE place[p]
    BY PathIs DEF LegacyInv, LegacyTypes, ActivateRecoveryPaths
  <1>3. LegacyTypes'
    BY <1>1, <1>2 DEF LegacyInv, LegacyTypes
  <1>4. Removal'
    BY <1>1, <1>2, RemoveFacts DEF Removal, AllAre
  <1>5. Unpacking' /\ LostOnlyAtEnd' /\ PackageKept'
    BY <1>1, <1>2, PathIs, RemoveFacts DEF Unpacking, LostOnlyAtEnd, PackageKept
  <1>6. Service' /\ Sequence'
    BY <1>1, ControlFrame
  <1> QED
    BY <1>3, <1>4, <1>5, <1>6 DEF LegacyInv, PackageInv

\* A script is killed.
LEMMA ScriptDiesInv == ASSUME LegacyInv, NEW s \in Script, ScriptDies(s) PROVE LegacyInv'
  <1>1. /\ UNCHANGED <<control, loaded, place, kept>> /\ script[s] \notin {"idle", "done"}
        /\ deaths' \in Nat /\ deaths' # 0
    <2>1. deaths \in Nat /\ deaths' = deaths + 1
      BY DEF ScriptDies, LegacyInv, LegacyTypes
    <2> QED
      BY <2>1 DEF ScriptDies, control_vars, package_vars
  <1>2. /\ script'[s] = "dead" /\ (\A r \in Script : r # s => script'[r] = script[r])
        /\ DOMAIN script' = Script /\ said' = said /\ seen' = seen
    BY GotoFacts DEF ScriptDies, LegacyInv
  <1>3. \A r \in Script : script'[r] = script[r] \/ (script'[r] = "dead" /\ script[r] \notin {"idle", "done"})
    BY <1>1, <1>2
  <1>4. LegacyTypes'
    BY <1>1, <1>2, <1>3 DEF LegacyInv, LegacyTypes, Script, Change, Recovery, MigratePlace,
       RetirePlace, RemovePlace
  <1>5. "remove" \in Script /\ "unpack" \in Script
    BY DEF Script, Change, Recovery
  <1>6. Removal'
    BY <1>1, <1>2, <1>3, <1>5, RemoveFacts DEF Removal, AllAre
  <1>7. Unpacking' /\ LostOnlyAtEnd' /\ PackageKept'
    BY <1>1, <1>2, <1>3, <1>5, RemoveFacts DEF Unpacking, LostOnlyAtEnd, PackageKept
  <1>8. Service'
    BY <1>1 DEF Service, Disturbed
  <1>9. Sequence'
    BY <1>1, <1>2, <1>3 DEF LegacyInv, Sequence, Past, Script, Change, Recovery
  <1> QED
    BY <1>4, <1>6, <1>7, <1>8, <1>9 DEF LegacyInv, PackageInv

\* Every step keeps the invariant.
LEMMA LegacyNextInv == LegacyInv /\ [LegacyNext]_legacy_vars => LegacyInv'
  <1> SUFFICES ASSUME LegacyInv, [LegacyNext]_legacy_vars PROVE LegacyInv'
    OBVIOUS
  <1>1. CASE Migrate
    BY <1>1, MigrateDecidesInv, MigrateBeginsInv, MigrateStopsInv, MigrateWritesInv,
       MigrateStartsInv,
       MigrateVerifiesInv, MigrateUndoesInv, MigrateFallsBackInv, MigrateRestartsInv DEF Migrate
  <1>2. CASE Retire
    BY <1>2, RetireDecidesInv, RetireBeginsInv, RetireStopsInv, RetireMovesInv, RetireVerifiesInv,
       RetirePutsBackInv, RetireRestartsInv, RetireStartsInv, RetireAuditsInv DEF Retire
  <1>3. CASE RemovePackage
    BY <1>3, RemoveBeginsInv, RemoveRechecksInv, RemoveMovesInv, RemoveUnmovesInv,
       RemoveVerifiesInv,
       RemoveUndoesInv, RemoveAuditsInv DEF RemovePackage
  <1>4. CASE RecoverByHand
    BY <1>4, RestartInv, ReinstateInv, UnpackInv, UnpackMovesInv, UnpackUndoesInv DEF RecoverByHand
  <1>5. CASE \E s \in Change \cup Recovery : ScriptDies(s)
    BY <1>5, ScriptDiesInv DEF Script
  <1>6. CASE UNCHANGED legacy_vars
    <2>1. UNCHANGED <<control, loaded, place, kept, script, seen, said, deaths>>
      BY <1>6 DEF legacy_vars
    <2>2. LegacyTypes'
      BY <2>1 DEF LegacyInv, LegacyTypes
    <2>3. PackageInv' /\ Service' /\ Sequence'
      BY <2>1, PackageFrame, ControlFrame
    <2> QED
      BY <2>2, <2>3 DEF LegacyInv
  <1> QED
    BY <1>1, <1>2, <1>3, <1>4, <1>5, <1>6, ListenerStopsInv, ProcessesInv,
       ActivateRecoveryPathsInv DEF LegacyNext

\* The scripts' reports follow from the invariant.
LEMMA InvReports == LegacyInv => ReportsHold
  <1> SUFFICES ASSUME LegacyInv PROVE ReportsHold
    OBVIOUS
  <1>1. RetiredStays
    BY DEF LegacyInv, Sequence, RetiredStays
  <1>2. ASSUME \A s \in Change \cup Recovery : ~AtWork(s), \A s \in Recovery : Untouched(s),
               \A s \in Change : said[s] \notin {"incomplete", "restored after stuck rollback"}, deaths = 0
        PROVE  /\ said["migrate"] = "restored" /\ script["retire"] \in {"idle", "decided"} =>
                      control = "live" /\ place["codexx.py"] = "live"
               /\ said["retire"] = "restored" => control # "down"
               /\ said["remove"] = "restored" => \A p \in Path : place[p] = "live"
    <2>1. \A s \in Script : script[s] \in {"idle", "decided", "done"}
      BY <1>2 DEF LegacyInv, LegacyTypes, Script, AtWork
    <2>2. \A s \in Recovery : script[s] = "idle"
      BY <1>2 DEF LegacyInv, LegacyTypes, Recovery, Untouched
    <2>3. ~Disturbed /\ Service /\ Removal /\ "codexx.py" \in Path
      BY <1>2, <2>2, PathIs, RemoveFacts DEF LegacyInv, Disturbed
    <2>4. said["retire"] = "restored" => control # "down"
      BY <2>1, <2>3 DEF Service, Justified, Script, Change
    <2>5. said["remove"] \in {"restored", "refused"} => AllAre("live")
      BY <2>2, <2>3 DEF Removal, Recovery
    <2>6. said["migrate"] = "restored" /\ script["retire"] \in {"idle", "decided"} =>
              control = "live" /\ said["remove"] # "quarantined"
      BY <2>3 DEF Service, Untouched
    <2>7. script["remove"] \in {"idle", "done"}
      BY <2>1 DEF LegacyInv, LegacyTypes, RemovePlace, Script, Change
    <2>8. said["remove"] # "quarantined" => place["codexx.py"] = "live"
      BY <1>2, <2>3, <2>5, <2>7 DEF Removal, AllAre, Change
    <2> QED
      BY <2>4, <2>5, <2>6, <2>8 DEF AllAre
  <1>3. RestoredIsTrue
    BY <1>2 DEF RestoredIsTrue
  <1> QED
    BY <1>1, <1>3 DEF ReportsHold

\* The inductive invariant of the legacy retirement: where the package is
\* follows from where its removal and its recovery are, and a control service
\* that is down has a script to answer for it.
THEOREM LegacyInvariance == LegacySpec => []LegacyInv
  BY LegacyInitInv, LegacyNextInv, PTL DEF LegacySpec

\* PackageKept for any number of killed scripts: no package path is lost, but
\* for the rollback main does not know of (remove_legacy_local_package.py main).
THEOREM PackageAlwaysKept == LegacySpec => []PackageKept
  <1>1. LegacyInv => PackageKept
    BY DEF LegacyInv, PackageInv
  <1> QED
    BY <1>1, LegacyInvariance, PTL

\* ReportsHold for any number of killed scripts: what a finished script
\* reported holds, however the scripts interleave.
THEOREM ReportsAlwaysHold == LegacySpec => []ReportsHold
  BY InvReports, LegacyInvariance, PTL
=============================================================================
