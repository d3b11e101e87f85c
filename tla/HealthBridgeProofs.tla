------------------------- MODULE HealthBridgeProofs -------------------------
(***************************************************************************)
(* Proof that the legacy health bridge keeps a publisher, for any set of   *)
(* releases, number of attempts, accounts and kills.                       *)
(***************************************************************************)
EXTENDS HealthBridge, TLAPS

Release == Version \cup {"none"}
Whole == \A i, j \in UnitFile : unit_files[i] = unit_files[j]

Text == {
    "idle", "write", "reload", "restore", "restored", "canary",
    "canary output", "canary failed", "switch", "start", "validate",
    "compare", "recover", "recover output", "recover validate",
    "recover saved", "recover bridge", "recovered", "nothing", "accepted",
    "rolled back", "incomplete"}

Saved == {NoFiles} \cup [UnitFile -> Release]

ScriptRec ==
    [pc : Text, version : Release, saved : Saved, at : Nat,
     tries : Nat, clean : BOOLEAN, told : Text]

BType ==
    /\ unit_files \in [UnitFile -> Release]
    /\ timers \subseteq Publisher
    /\ bridge \in [BridgeScript -> ScriptRec]

CanarySteps == {"canary", "canary output", "canary failed"}
Early == {"idle"} \cup CanarySteps
Numbered == {"switch", "start", "validate"}

\* Canary and cutover exclude each other, and a cutover reports at its end.
ScriptInv ==
    /\ bridge["canary"].pc \in Early
    /\ bridge["canary"].pc = "idle" \/ bridge["cutover"].pc = "idle"
    /\ bridge["cutover"].pc # "idle" => bridge["cutover"].told = "nothing"
    /\ bridge["cutover"].pc \in CanarySteps => bridge["cutover"].at = 1
    /\ bridge["cutover"].pc \in Numbered => bridge["cutover"].at \in 1..6

\* The timers a cutover at pc, in phase at, finds: this is why no failure of
\* its next step can leave none.
TimersAt(pc, at, clean, T) ==
    /\ T # {}
    /\ pc \in CanarySteps => T = {"exporter"}
    /\ pc = "switch" /\ at \in {1, 5} => T = {"exporter"}
    /\ pc = "switch" /\ at \in {2, 4, 6} => T = Publisher
    /\ pc = "switch" /\ at = 3 => T = {"bridge"}
    /\ pc \in {"start", "validate"} => T = Phase[at].after
    /\ pc = "compare" => T = {"bridge"}
    /\ pc \in {"recover output", "recover validate", "recover saved", "recover bridge"} =>
          "exporter" \in T
    /\ pc = "recovered" /\ clean => T = {"exporter"}

TimerInv ==
    /\ TimersAt(bridge["cutover"].pc, bridge["cutover"].at, bridge["cutover"].clean, timers)
    /\ CutoverReported

\* What the installer has written at each place, and that a cutover has files
\* to run unless an installation was undone.
FilesInv ==
    LET w == bridge["install"] IN
    /\ w.pc \in {"idle", "write", "reload", "restore", "restored"}
    /\ w.pc # "idle" => w.version \in Version /\ w.saved \in [UnitFile -> Release]
    /\ w.pc \in {"write", "restore"} => w.at \in UnitFile
    /\ w.pc = "write" => \A i \in UnitFile : i < w.at => unit_files[i] = w.version
    /\ w.pc = "write" => \E i \in UnitFile : w.saved[i] # w.version
    /\ w.pc = "reload" => \A i \in UnitFile : unit_files[i] = w.version
    /\ w.pc = "idle" /\ w.told \notin {"incomplete", "rolled back"} =>
          /\ Whole
          /\ unit_files[1] = "none" => bridge["cutover"].pc = "idle" /\ timers = {"exporter"}

\* Once the canary of a cutover is over neither its unit nor its output is left.
CanaryInv ==
    /\ canary_output \/ "canary" \in running =>
          \/ bridge["canary"].pc # "idle" \/ bridge["canary"].told = "incomplete"
          \/ bridge["cutover"].pc # "idle" \/ bridge["cutover"].told = "incomplete"
    /\ bridge["cutover"].pc \notin Early => ~canary_output /\ "canary" \notin running

BridgeInv == BType /\ ScriptInv /\ TimerInv /\ FilesInv /\ CanaryInv

\* Any count of accounts that parses builds a document that validates: the
\* sums agree and the state is computed from the same counts.
LEMMA HealthIsBridged == EveryHealthBridged
  <1> SUFFICES ASSUME NEW c \in Formal
               PROVE  validate_legacy_health(build_legacy_health(c))
    BY DEF EveryHealthBridged
  <1>1. /\ c.total \in Nat /\ c.available \in Nat /\ c.limited \in Nat /\ c.unavailable \in Nat
        /\ c.available + c.limited + c.unavailable <= c.total
    BY BridgeAssumption DEF Formal, Count, parse_formal_health
  <1> QED
    BY <1>1 DEF validate_legacy_health, build_legacy_health

\* The table of the cutover's phases, row by row.
LEMMA PhaseTable ==
    /\ Phase[1].on = TRUE /\ Phase[1].timer = "bridge" /\ Phase[1].after = Publisher
    /\ Phase[2].on = FALSE /\ Phase[2].timer = "exporter" /\ Phase[2].after = {"bridge"}
    /\ Phase[3].on = TRUE /\ Phase[3].timer = "exporter" /\ Phase[3].after = Publisher
    /\ Phase[4].on = FALSE /\ Phase[4].timer = "bridge" /\ Phase[4].after = {"exporter"}
    /\ Phase[5].on = TRUE /\ Phase[5].timer = "bridge" /\ Phase[5].after = Publisher
    /\ Phase[6].on = FALSE /\ Phase[6].timer = "exporter" /\ Phase[6].after = {"bridge"}
  BY DEF Phase

\* The places and reports of the scripts.
LEMMA Texts ==
    /\ "idle" \in Text
    /\ "write" \in Text
    /\ "reload" \in Text
    /\ "restore" \in Text
    /\ "restored" \in Text
    /\ "canary" \in Text
    /\ "canary output" \in Text
    /\ "canary failed" \in Text
    /\ "switch" \in Text
    /\ "start" \in Text
    /\ "validate" \in Text
    /\ "compare" \in Text
    /\ "recover" \in Text
    /\ "recover output" \in Text
    /\ "recover validate" \in Text
    /\ "recover saved" \in Text
    /\ "recover bridge" \in Text
    /\ "recovered" \in Text
    /\ "nothing" \in Text
    /\ "accepted" \in Text
    /\ "rolled back" \in Text
    /\ "incomplete" \in Text
  BY DEF Text

\* A record at rest is a record.
LEMMA RestingType == Resting \in ScriptRec /\ \A how \in Text :
    /\ [Resting EXCEPT !.told = how] \in ScriptRec
    /\ [Resting EXCEPT !.told = how].pc = "idle"
    /\ [Resting EXCEPT !.told = how].told = how
  <1>1. NoFiles \in Saved /\ "none" \in Release
    BY DEF Saved, Release
  <1>2. Resting \in ScriptRec
    <2>1. 1 \in Nat /\ 0 \in Nat
      OBVIOUS
    <2>2. "idle" \in Text /\ "nothing" \in Text 
      BY Texts
    <2> QED
      BY <1>1, <2>1, <2>2, Zenon DEF Resting, ScriptRec
  <1>3. Resting.pc = "idle"
    BY DEF Resting
  <1> QED
    BY <1>2, <1>3 DEF ScriptRec

\* The unit files are numbered from one to three.
LEMMA UnitFiles ==
    /\ 1 \in UnitFile /\ \A k \in UnitFile : ~(k < 1) /\ k + 1 \in Nat
    /\ \A k \in UnitFile : k # 3 => k + 1 \in UnitFile
    /\ \A j, k \in UnitFile : k < j + 1 => k < j \/ k = j
    /\ \A k \in UnitFile : k < 3 + 1
  BY DEF UnitFile

\* The initial state satisfies the invariant.
LEMMA BridgeInitInv == BridgeInit => BridgeInv
  <1> SUFFICES ASSUME BridgeInit PROVE BridgeInv
    OBVIOUS
  <1>0. \A s \in BridgeScript : bridge[s] = Resting
    BY DEF BridgeInit
  <1>1. BType
    BY RestingType DEF BType, BridgeInit, Publisher, Release
  <1>2. ScriptInv
    <2>1. Resting.pc = "idle"
      BY DEF Resting
    <2> QED
      BY <1>0, <2>1 DEF ScriptInv, CanarySteps, Early, Numbered, BridgeScript
  <1>3. TimerInv
    BY <1>0 DEF TimerInv, TimersAt, CutoverReported, CanarySteps, BridgeInit, Resting, BridgeScript
  <1>4. FilesInv
    BY <1>0 DEF FilesInv, Whole, BridgeInit, Resting, BridgeScript, UnitFile
  <1>5. CanaryInv
    BY <1>0 DEF CanaryInv, Early, CanarySteps, BridgeInit, Resting, BridgeScript
  <1> QED
    BY <1>1, <1>2, <1>3, <1>4, <1>5 DEF BridgeInv

-----------------------------------------------------------------------------
(* What a step does to the scripts' records.                               *)

\* One script moves, the others stay.
Only(s) == \A r \in BridgeScript : r # s => bridge'[r] = bridge[r]

\* Steps changes the place of one script and nothing else.
LEMMA StepFacts ==
    ASSUME BType, NEW s \in BridgeScript, NEW pc \in Text, Steps(s, pc)
    PROVE  /\ bridge' \in [BridgeScript -> ScriptRec] /\ Only(s)
           /\ bridge'[s].pc = pc /\ bridge'[s].at = bridge[s].at
           /\ bridge'[s].told = bridge[s].told /\ bridge'[s].clean = bridge[s].clean
  BY DEF BType, Steps, Only, ScriptRec

\* Reports puts one script to rest.
LEMMA ReportFacts ==
    ASSUME BType, NEW s \in BridgeScript, NEW how \in Text, Reports(s, how)
    PROVE  /\ bridge' \in [BridgeScript -> ScriptRec] /\ Only(s)
           /\ bridge'[s].pc = "idle" /\ bridge'[s].told = how
  <1>1. bridge' = [bridge EXCEPT ![s] = [Resting EXCEPT !.told = how]]
    BY DEF Reports
  <1> QED
    BY <1>1, RestingType DEF BType, Only

\* Another attempt, or the end of them.
LEMMA AgainFacts ==
    ASSUME BType, NEW start \in Text, NEW otherwise \in Text, Again(start, otherwise)
    PROVE  /\ bridge' \in [BridgeScript -> ScriptRec] /\ Only("cutover")
           /\ bridge'["cutover"].pc \in {start, otherwise}
           /\ bridge'["cutover"].at = bridge["cutover"].at
           /\ bridge'["cutover"].told = bridge["cutover"].told
           /\ bridge'["cutover"].clean = bridge["cutover"].clean
  <1> DEFINE n == IF bridge["cutover"].tries + 1 < Attempts THEN bridge["cutover"].tries + 1 ELSE 0
             q == IF bridge["cutover"].tries + 1 < Attempts THEN start ELSE otherwise
  <1>1. bridge' = [bridge EXCEPT !["cutover"].tries = n, !["cutover"].pc = q]
    BY DEF Again, BType, BridgeScript
  <1>2. n \in Nat /\ q \in {start, otherwise}
    BY DEF BType, ScriptRec, BridgeScript
  <1> HIDE DEF n, q
  <1> QED
    BY <1>1, <1>2 DEF BType, Only, ScriptRec, BridgeScript

\* A recovery step that failed.
LEMMA UncleanFacts ==
    ASSUME BType, NEW pc \in Text,
           bridge' = [bridge EXCEPT !["cutover"].pc = pc, !["cutover"].clean = FALSE]
    PROVE  /\ bridge' \in [BridgeScript -> ScriptRec] /\ Only("cutover")
           /\ bridge'["cutover"].pc = pc /\ bridge'["cutover"].at = bridge["cutover"].at
           /\ bridge'["cutover"].told = bridge["cutover"].told
           /\ ~bridge'["cutover"].clean
  BY DEF BType, Only, ScriptRec, BridgeScript

-----------------------------------------------------------------------------
(* What is left to prove when only one script moves.                       *)

\* A cutover past its canary goes on: only the timers matter.
LEMMA CutoverMoves ==
    ASSUME BridgeInv, bridge' \in [BridgeScript -> ScriptRec], Only("cutover"),
           bridge["cutover"].pc \notin Early, bridge'["cutover"].pc \notin Early,
           bridge'["cutover"].told = bridge["cutover"].told,
           bridge'["cutover"].pc \in Numbered => bridge'["cutover"].at \in 1..6,
           UNCHANGED <<unit_files, canary_output>>,
           "canary" \in running' => "canary" \in running,
           timers' \subseteq Publisher,
           TimersAt(bridge'["cutover"].pc, bridge'["cutover"].at, bridge'["cutover"].clean, timers')
    PROVE  BridgeInv'
  <1>0. bridge'["canary"] = bridge["canary"] /\ bridge'["install"] = bridge["install"]
    BY DEF Only, BridgeScript
  <1>1. BType'
    BY DEF BridgeInv, BType
  <1>2. ScriptInv'
    BY <1>0 DEF BridgeInv, ScriptInv, Early
  <1>3. TimerInv'
    BY DEF BridgeInv, ScriptInv, TimerInv, CutoverReported, Early
  <1>4. FilesInv'
    BY <1>0 DEF BridgeInv, FilesInv, Whole, Early
  <1>5. CanaryInv'
    BY <1>0 DEF BridgeInv, CanaryInv, Early
  <1> QED
    BY <1>1, <1>2, <1>3, <1>4, <1>5 DEF BridgeInv

\* A cutover ends: its report has to be true.
LEMMA CutoverEnds ==
    ASSUME BridgeInv, bridge' \in [BridgeScript -> ScriptRec], Only("cutover"),
           bridge["cutover"].pc # "idle", bridge'["cutover"].pc = "idle",
           UNCHANGED <<unit_files, timers>>,
           bridge'["cutover"].told = "accepted" => timers = {"bridge"},
           bridge'["cutover"].told = "restored" => timers = {"exporter"},
           canary_output' \/ "canary" \in running' => bridge'["cutover"].told = "incomplete"
    PROVE  BridgeInv'
  <1>0. bridge'["canary"] = bridge["canary"] /\ bridge'["install"] = bridge["install"]
    BY DEF Only, BridgeScript
  <1>1. BType'
    BY DEF BridgeInv, BType
  <1>2. ScriptInv'
    BY <1>0 DEF BridgeInv, ScriptInv, Early, CanarySteps, Numbered
  <1>3. TimerInv'
    BY DEF BridgeInv, TimerInv, TimersAt, CutoverReported, CanarySteps
  <1>4. FilesInv'
    BY <1>0 DEF BridgeInv, FilesInv, Whole
  <1>5. CanaryInv'
    BY <1>0 DEF BridgeInv, CanaryInv, Early
  <1> QED
    BY <1>1, <1>2, <1>3, <1>4, <1>5 DEF BridgeInv

\* The installer moves: only the files matter.
LEMMA InstallMoves ==
    ASSUME BridgeInv, bridge' \in [BridgeScript -> ScriptRec], Only("install"),
           unit_files' \in [UnitFile -> Release],
           UNCHANGED <<timers, running, canary_output>>, FilesInv'
    PROVE  BridgeInv'
  <1>0. bridge'["canary"] = bridge["canary"] /\ bridge'["cutover"] = bridge["cutover"]
    BY DEF Only, BridgeScript
  <1>1. BType'
    BY DEF BridgeInv, BType
  <1>2. ScriptInv'
    BY <1>0 DEF BridgeInv, ScriptInv
  <1>3. TimerInv'
    BY <1>0 DEF BridgeInv, TimerInv, CutoverReported
  <1>5. CanaryInv'
    BY <1>0 DEF BridgeInv, CanaryInv
  <1> QED
    BY <1>1, <1>2, <1>3, <1>5 DEF BridgeInv

\* The canary moves, or a service does: only what is left of a canary matters.
LEMMA CanaryMoves ==
    ASSUME BridgeInv, bridge' \in [BridgeScript -> ScriptRec], Only("canary"),
           UNCHANGED <<unit_files, timers>>,
           bridge'["canary"].pc \in Early,
           bridge'["canary"].pc = "idle" \/ bridge["cutover"].pc = "idle",
           CanaryInv'
    PROVE  BridgeInv'
  <1>0. bridge'["install"] = bridge["install"] /\ bridge'["cutover"] = bridge["cutover"]
    BY DEF Only, BridgeScript
  <1>1. BType'
    BY DEF BridgeInv, BType
  <1>2. ScriptInv'
    BY <1>0 DEF BridgeInv, ScriptInv
  <1>3. TimerInv'
    BY <1>0 DEF BridgeInv, TimerInv, CutoverReported
  <1>4. FilesInv'
    BY <1>0 DEF BridgeInv, FilesInv, Whole
  <1> QED
    BY <1>1, <1>2, <1>3, <1>4 DEF BridgeInv

-----------------------------------------------------------------------------
(* systemd                                                                 *)

\* A timer starts a publisher.
LEMMA TimerFiresInv == ASSUME BridgeInv, NEW p \in Publisher, TimerFires(p) PROVE BridgeInv'
  <1>1. /\ bridge' \in [BridgeScript -> ScriptRec] /\ Only("canary")
        /\ bridge' = bridge /\ UNCHANGED <<unit_files, timers, canary_output>>
        /\ "canary" \in running' => "canary" \in running
    BY DEF TimerFires, BridgeInv, BType, Only, Publisher
  <1>2. CanaryInv'
    BY <1>1 DEF BridgeInv, CanaryInv
  <1> QED
    BY <1>1, <1>2, CanaryMoves DEF BridgeInv, ScriptInv

\* A service publishes or fails.
LEMMA ServicePublishesInv ==
    ASSUME BridgeInv, NEW p \in Publisher \cup {"canary"}, ServicePublishes(p) PROVE BridgeInv'
  <1>1. /\ bridge' \in [BridgeScript -> ScriptRec] /\ Only("canary")
        /\ bridge' = bridge /\ UNCHANGED <<unit_files, timers>>
    BY DEF ServicePublishes, BridgeInv, BType, Only
  <1>2. "canary" \in running' => "canary" \in running
    BY DEF ServicePublishes
  <1>4. canary_output' => canary_output \/ "canary" \in running
    BY Zenon DEF ServicePublishes
  <1>3. CanaryInv'
    BY <1>1, <1>2, <1>4 DEF BridgeInv, CanaryInv
  <1> QED
    BY <1>1, <1>3, CanaryMoves DEF BridgeInv, ScriptInv

-----------------------------------------------------------------------------
(* The installer                                                           *)

\* The installer begins.
LEMMA InstallChecksInv == ASSUME BridgeInv, NEW v \in Version, InstallChecks(v) PROVE BridgeInv'
  <1> DEFINE q == IF Changed(v) = {} THEN "reload" ELSE "write"
             w == [Resting EXCEPT !.pc = q, !.version = v, !.saved = unit_files]
  <1>1. /\ bridge' = [bridge EXCEPT !["install"] = w]
        /\ UNCHANGED <<unit_files, timers, running, canary_output>>
    BY DEF InstallChecks, systemd
  <1>2. unit_files \in Saved /\ unit_files \in [UnitFile -> Release] /\ v \in Release
    BY DEF BridgeInv, BType, Saved, Release
  <1>3. q \in Text /\ q \in {"reload", "write"}
    BY Texts
  <1>4. q = "reload" => \A i \in UnitFile : unit_files[i] = v
    BY DEF Changed
  <1>5. q = "write" => \E i \in UnitFile : unit_files[i] # v
    BY DEF Changed
  <1> HIDE DEF q
  <1>6. /\ w \in ScriptRec /\ w.pc = q /\ w.version = v /\ w.saved = unit_files /\ w.at = 1
    <2>1. Resting.at = 1
      BY DEF Resting
    <2> QED
      BY <1>2, <1>3, <2>1, RestingType DEF ScriptRec
  <1> HIDE DEF w
  <1>7. bridge' \in [BridgeScript -> ScriptRec] /\ Only("install") /\ bridge'["install"] = w
    BY <1>1, <1>6 DEF BridgeInv, BType, Only, BridgeScript
  <1>8. FilesInv'
    BY <1>1, <1>2, <1>3, <1>4, <1>5, <1>6, <1>7, UnitFiles DEF FilesInv
  <1> QED
    BY <1>1, <1>2, <1>7, <1>8, InstallMoves

\* The installer writes a file.
LEMMA WriteUnitInv == ASSUME BridgeInv, WriteUnit PROVE BridgeInv'
  <1> DEFINE i == bridge["install"].at
             v == bridge["install"].version
             q == IF i = 3 THEN "reload" ELSE "write"
  <1>1. /\ bridge["install"].pc = "write"
        /\ unit_files' = [unit_files EXCEPT ![i] = v]
        /\ bridge' = [bridge EXCEPT !["install"].at = i + 1, !["install"].pc = q]
        /\ UNCHANGED <<timers, running, canary_output>>
    BY DEF WriteUnit, systemd, At
  <1>2. /\ i \in UnitFile /\ v \in Version /\ unit_files \in [UnitFile -> Release]
        /\ \A k \in UnitFile : k < i => unit_files[k] = v
        /\ \E k \in UnitFile : bridge["install"].saved[k] # v
        /\ bridge["install"].saved \in [UnitFile -> Release]
    BY <1>1 DEF BridgeInv, FilesInv, BType
  <1>3. /\ i + 1 \in Nat /\ q \in Text /\ q \in {"reload", "write"}
        /\ q = "write" => i + 1 \in UnitFile
        /\ q = "reload" => i = 3
    BY <1>2, Texts, UnitFiles
  <1>4. /\ unit_files' \in [UnitFile -> Release]
        /\ \A k \in UnitFile : k < i + 1 => unit_files'[k] = v
    BY <1>1, <1>2 DEF UnitFile, Release
  <1> HIDE DEF q
  <1>5. /\ bridge' \in [BridgeScript -> ScriptRec] /\ Only("install")
        /\ bridge'["install"].pc = q /\ bridge'["install"].at = i + 1
        /\ bridge'["install"].version = v
        /\ bridge'["install"].saved = bridge["install"].saved
    BY <1>1, <1>3 DEF BridgeInv, BType, ScriptRec, Only, BridgeScript
  <1> HIDE DEF i, v
  <1>6. q = "reload" => \A k \in UnitFile : unit_files'[k] = v
    BY <1>3, <1>4, UnitFiles
  <1>7. FilesInv'
    <2>1. CASE q = "reload"
      BY <1>2, <1>5, <1>6, <2>1 DEF FilesInv
    <2>2. CASE q = "write"
      BY <1>2, <1>3, <1>4, <1>5, <2>2 DEF FilesInv
    <2> QED
      BY <1>3, <2>1, <2>2
  <1> QED
    BY <1>1, <1>4, <1>5, <1>7, InstallMoves

\* Everything is as it should be: the files are of one release.
LEMMA InstallVerifiedInv == ASSUME BridgeInv, InstallVerified PROVE BridgeInv'
  <1>1. /\ bridge["install"].pc = "reload" /\ Reports("install", "nothing")
        /\ UNCHANGED <<unit_files, timers, running, canary_output>>
    BY DEF InstallVerified, systemd, At
  <1>2. /\ bridge' \in [BridgeScript -> ScriptRec] /\ Only("install")
        /\ bridge'["install"].pc = "idle" /\ bridge'["install"].told = "nothing"
    BY <1>1, ReportFacts, Texts DEF BridgeInv, BridgeScript
  <1>3. Whole /\ unit_files[1] # "none"
    BY <1>1, BridgeAssumption DEF BridgeInv, FilesInv, Whole, UnitFile
  <1>4. FilesInv'
    BY <1>1, <1>2, <1>3 DEF FilesInv, Whole
  <1> QED
    BY <1>1, <1>2, <1>4, InstallMoves DEF BridgeInv, BType

\* A check fails, before or after the files were written.
LEMMA InstallFailsInv == ASSUME BridgeInv, InstallFails PROVE BridgeInv'
  <1>1. /\ bridge["install"].pc \in {"write", "reload"}
        /\ UNCHANGED <<unit_files, timers, running, canary_output>>
    BY DEF InstallFails, systemd
  <1>2. CASE \A i \in UnitFile : bridge["install"].saved[i] = bridge["install"].version
    <2>1. Reports("install", "nothing")
      BY <1>2 DEF InstallFails
    <2>2. /\ bridge' \in [BridgeScript -> ScriptRec] /\ Only("install")
          /\ bridge'["install"].pc = "idle" /\ bridge'["install"].told = "nothing"
      BY <2>1, ReportFacts, Texts DEF BridgeInv, BridgeScript
    <2>3. Whole /\ unit_files[1] # "none"
      <3>1. bridge["install"].pc = "reload"
        BY <1>1, <1>2 DEF BridgeInv, FilesInv
      <3> QED
        BY <3>1, BridgeAssumption, UnitFiles DEF BridgeInv, FilesInv, Whole
    <2>4. FilesInv'
      BY <1>1, <2>2, <2>3 DEF FilesInv, Whole
    <2> QED
      BY <1>1, <2>2, <2>4, InstallMoves DEF BridgeInv, BType
  <1>3. CASE ~ \A i \in UnitFile : bridge["install"].saved[i] = bridge["install"].version
    <2>1. bridge' = [bridge EXCEPT !["install"].pc = "restore", !["install"].at = 1]
      BY <1>3 DEF InstallFails
    <2>2. /\ bridge' \in [BridgeScript -> ScriptRec] /\ Only("install")
          /\ bridge'["install"].pc = "restore" /\ bridge'["install"].at = 1
          /\ bridge'["install"].version = bridge["install"].version
          /\ bridge'["install"].saved = bridge["install"].saved
      BY <2>1, Texts DEF BridgeInv, BType, ScriptRec, Only, BridgeScript
    <2>3. FilesInv'
      <3>1. /\ bridge["install"].version \in Version
            /\ bridge["install"].saved \in [UnitFile -> Release]
        BY <1>1 DEF BridgeInv, FilesInv
      <3> QED
        BY <2>2, <3>1, UnitFiles DEF FilesInv
    <2> QED
      BY <1>1, <2>2, <2>3, InstallMoves DEF BridgeInv, BType
  <1> QED
    BY <1>2, <1>3

\* One file is put back, or cannot be.
LEMMA RestoreUnitInv == ASSUME BridgeInv, RestoreUnit PROVE BridgeInv'
  <1> DEFINE i == bridge["install"].at
             q == IF i = 3 THEN "restored" ELSE "restore"
  <1>1. PICK fails \in BOOLEAN :
          /\ unit_files' = IF fails THEN unit_files
                           ELSE [unit_files EXCEPT ![i] = bridge["install"].saved[i]]
          /\ bridge' = [bridge EXCEPT !["install"].at = i + 1,
                                      !["install"].clean = bridge["install"].clean /\ ~fails,
                                      !["install"].pc = q]
    BY DEF RestoreUnit, BridgeInv, BType, BridgeScript
  <1>2. bridge["install"].pc = "restore" /\ UNCHANGED <<timers, running, canary_output>>
    BY DEF RestoreUnit, systemd, At
  <1>3. /\ i \in UnitFile /\ bridge["install"].version \in Version
        /\ bridge["install"].saved \in [UnitFile -> Release]
    BY <1>2 DEF BridgeInv, FilesInv
  <1>4. unit_files' \in [UnitFile -> Release]
    BY <1>1, <1>3 DEF BridgeInv, BType
  <1>5. /\ i + 1 \in Nat /\ q \in Text /\ q \in {"restored", "restore"}
        /\ q = "restore" => i + 1 \in UnitFile
    BY <1>3, Texts, UnitFiles
  <1> DEFINE c == bridge["install"].clean /\ ~fails
  <1>6. c \in BOOLEAN
    OBVIOUS
  <1> HIDE DEF q, c
  <1>7. /\ bridge' \in [BridgeScript -> ScriptRec] /\ Only("install")
        /\ bridge'["install"].pc = q /\ bridge'["install"].at = i + 1
        /\ bridge'["install"].version = bridge["install"].version
        /\ bridge'["install"].saved = bridge["install"].saved
    <2>1. bridge' = [bridge EXCEPT !["install"].at = i + 1, !["install"].clean = c,
                                   !["install"].pc = q]
      BY <1>1 DEF c, q
    <2> QED
      BY ZenonT(60), <2>1, <1>5, <1>6 DEF BridgeInv, BType, ScriptRec, Only, BridgeScript
  <1> HIDE DEF i
  <1>8. FilesInv'
    BY <1>3, <1>5, <1>7 DEF FilesInv
  <1> QED
    BY <1>2, <1>4, <1>7, <1>8, InstallMoves

\* The installer has undone itself, and says so.
LEMMA InstallRolledBackInv == ASSUME BridgeInv, InstallRolledBack PROVE BridgeInv'
  <1>1. PICK how \in {"rolled back", "incomplete"} : Reports("install", how)
    BY DEF InstallRolledBack
  <1>2. UNCHANGED <<unit_files, timers, running, canary_output>>
    BY DEF InstallRolledBack, systemd
  <1>3. /\ bridge' \in [BridgeScript -> ScriptRec] /\ Only("install")
        /\ bridge'["install"].pc = "idle" /\ bridge'["install"].told = how
    BY <1>1, ReportFacts, Texts DEF BridgeInv, BridgeScript
  <1>4. FilesInv'
    BY <1>3 DEF FilesInv
  <1> QED
    BY <1>2, <1>3, <1>4, InstallMoves DEF BridgeInv, BType

-----------------------------------------------------------------------------
(* The canary, of its own or inside the cutover                            *)

\* The canary begins, where neither it nor a cutover runs.
LEMMA CanaryBeginsInv == ASSUME BridgeInv, NEW v \in Version, CanaryBegins(v) PROVE BridgeInv'
  <1> DEFINE w == [Resting EXCEPT !.pc = "canary", !.version = v]
  <1>1. /\ bridge' = [bridge EXCEPT !["canary"] = w]
        /\ bridge["cutover"].pc = "idle" /\ ~canary_output /\ "canary" \notin running
        /\ UNCHANGED <<unit_files, timers, running, canary_output>>
    BY DEF CanaryBegins, canary_lock, At, require_runtime_boundaries, require_canary_quiescent,
           systemd
  <1>2. w \in ScriptRec /\ w.pc = "canary"
    BY RestingType, Texts DEF ScriptRec, Release
  <1> HIDE DEF w
  <1>3. /\ bridge' \in [BridgeScript -> ScriptRec] /\ Only("canary")
        /\ bridge'["canary"].pc = "canary" /\ bridge'["cutover"] = bridge["cutover"]
    BY <1>1, <1>2 DEF BridgeInv, BType, Only, BridgeScript
  <1>4. CanaryInv'
    BY <1>1, <1>3 DEF CanaryInv, Early
  <1> QED
    BY <1>1, <1>3, <1>4, CanaryMoves DEF Early, CanarySteps

\* A cutover begins where only the old timer is on and all files are there.
LEMMA CutoverBeginsInv == ASSUME BridgeInv, NEW v \in Version, CutoverBegins(v) PROVE BridgeInv'
  <1> DEFINE w == [Resting EXCEPT !.pc = "canary", !.version = v]
  <1>1. /\ bridge' = [bridge EXCEPT !["cutover"] = w]
        /\ bridge["canary"].pc = "idle" /\ ~canary_output /\ "canary" \notin running
        /\ timers = {"exporter"} /\ \A i \in UnitFile : unit_files[i] = v
        /\ UNCHANGED <<unit_files, timers, running, canary_output>>
    BY DEF CutoverBegins, canary_lock, At, require_runtime_boundaries, require_canary_quiescent,
           require_installed_files, systemd
  <1>2. w \in ScriptRec /\ w.pc = "canary" /\ w.at = 1 /\ w.told = "nothing"
    <2>1. Resting.at = 1 /\ Resting.told = "nothing"
      BY DEF Resting
    <2> QED
      BY <2>1, RestingType, Texts DEF ScriptRec, Release
  <1> HIDE DEF w
  <1>3. /\ bridge' \in [BridgeScript -> ScriptRec] /\ bridge'["cutover"] = w
        /\ bridge'["canary"] = bridge["canary"] /\ bridge'["install"] = bridge["install"]
    BY <1>1, <1>2 DEF BridgeInv, BType, BridgeScript
  <1>4. BType'
    BY <1>1, <1>3 DEF BridgeInv, BType
  <1>5. ScriptInv'
    BY <1>1, <1>2, <1>3 DEF ScriptInv, Early, CanarySteps, Numbered
  <1>6. TimerInv'
    BY <1>1, <1>2, <1>3 DEF TimerInv, TimersAt, CutoverReported, CanarySteps
  <1>7. FilesInv'
    <2>1. unit_files[1] # "none" /\ UNCHANGED Whole
      BY <1>1, BridgeAssumption, UnitFiles DEF Whole
    <2> QED
      BY <1>1, <1>3, <2>1 DEF BridgeInv, FilesInv
  <1>8. CanaryInv'
    BY <1>1, <1>2, <1>3 DEF CanaryInv, Early, CanarySteps
  <1> QED
    BY <1>4, <1>5, <1>6, <1>7, <1>8 DEF BridgeInv

\* The cutover's canary takes a step: it stays among the canary's steps.
LEMMA InnerCanary ==
    ASSUME BridgeInv, NEW pc \in CanarySteps, Steps("cutover", pc),
           bridge["cutover"].pc \in CanarySteps, UNCHANGED <<unit_files, timers>>
    PROVE  BridgeInv'
  <1>0. pc \in Text /\ pc \in Early /\ pc # "idle"
    BY Texts DEF CanarySteps, Early
  <1>1. /\ bridge' \in [BridgeScript -> ScriptRec] /\ Only("cutover")
        /\ bridge'["cutover"].pc = pc /\ bridge'["cutover"].at = bridge["cutover"].at
        /\ bridge'["cutover"].told = bridge["cutover"].told
    BY <1>0, StepFacts DEF BridgeInv, BridgeScript
  <1>2. bridge'["canary"] = bridge["canary"] /\ bridge'["install"] = bridge["install"]
    BY <1>1 DEF Only, BridgeScript
  <1>3. BType'
    BY <1>1 DEF BridgeInv, BType
  <1>4. ScriptInv'
    BY <1>0, <1>1, <1>2 DEF BridgeInv, ScriptInv, CanarySteps, Numbered
  <1>5. TimerInv'
    BY <1>1 DEF BridgeInv, ScriptInv, TimerInv, TimersAt, CutoverReported, CanarySteps
  <1>6. FilesInv'
    <2>1. bridge["cutover"].pc # "idle"
      BY DEF CanarySteps
    <2> QED
      BY <1>2, <2>1 DEF BridgeInv, FilesInv, Whole
  <1>7. CanaryInv'
    BY <1>0, <1>1 DEF CanaryInv
  <1> QED
    BY <1>3, <1>4, <1>5, <1>6, <1>7 DEF BridgeInv

\* The canary is started and publishes, or does not.
LEMMA CanaryRunsInv ==
    ASSUME BridgeInv, NEW s \in {"canary", "cutover"}, CanaryRuns(s) PROVE BridgeInv'
  <1>1. /\ bridge[s].pc = "canary" /\ UNCHANGED <<unit_files, timers>>
        /\ \E pc \in {"canary output", "canary failed"} : Steps(s, pc)
    BY DEF CanaryRuns, At
  <1>2. PICK pc \in {"canary output", "canary failed"} : Steps(s, pc)
    BY <1>1
  <1>3. CASE s = "cutover"
    BY <1>1, <1>2, <1>3, InnerCanary DEF CanarySteps
  <1>4. CASE s = "canary"
    <2>1. /\ bridge' \in [BridgeScript -> ScriptRec] /\ Only("canary") /\ bridge'["canary"].pc = pc
      BY <1>2, <1>4, StepFacts, Texts DEF BridgeInv, BridgeScript
    <2>2. bridge'["cutover"] = bridge["cutover"] /\ bridge["cutover"].pc = "idle"
      BY <1>1, <1>4, <2>1 DEF Only, BridgeScript, BridgeInv, ScriptInv
    <2>3. CanaryInv'
      BY <2>1, <2>2 DEF CanaryInv, Early
    <2> QED
      BY <1>1, <2>1, <2>2, <2>3, CanaryMoves DEF Early, CanarySteps
  <1> QED
    BY <1>3, <1>4

\* A script at rest reports that nothing, or something, is left of its canary.
LEMMA CanaryEnds ==
    ASSUME BridgeInv, NEW s \in {"canary", "cutover"}, NEW how \in {"nothing", "incomplete"},
           bridge[s].pc # "idle", Reports(s, how), UNCHANGED <<unit_files, timers>>,
           canary_output' \/ "canary" \in running' =>
               how = "incomplete" \/ (s = "canary" /\ (canary_output \/ "canary" \in running)
                                      /\ bridge["cutover"].told = "incomplete")
    PROVE  BridgeInv'
  <1>1. /\ bridge' \in [BridgeScript -> ScriptRec] /\ Only(s)
        /\ bridge'[s].pc = "idle" /\ bridge'[s].told = how
    BY ReportFacts, Texts DEF BridgeInv, BridgeScript
  <1>2. CASE s = "cutover"
    BY <1>1, <1>2, CutoverEnds
  <1>3. CASE s = "canary"
    <2>1. bridge'["cutover"] = bridge["cutover"] /\ bridge["cutover"].pc = "idle"
      BY <1>1, <1>3 DEF Only, BridgeScript, BridgeInv, ScriptInv
    <2>2. CanaryInv'
      BY <1>1, <1>3, <2>1 DEF CanaryInv, Early
    <2> QED
      BY <1>1, <1>3, <2>1, <2>2, CanaryMoves DEF Early
  <1> QED
    BY <1>2, <1>3

\* The canary's output is accepted; the cutover goes on with its first phase.
LEMMA CanaryAcceptedInv ==
    ASSUME BridgeInv, NEW s \in {"canary", "cutover"}, CanaryAccepted(s) PROVE BridgeInv'
  <1>1. /\ bridge[s].pc = "canary output" /\ UNCHANGED <<unit_files, timers, running>>
        /\ "canary" \notin running
    BY DEF CanaryAccepted, At, require_runtime_boundaries, require_canary_quiescent, systemd
  <1>2. ~canary_output'
    BY Zenon DEF CanaryAccepted
  <1>3. CASE Reports(s, "nothing")
    BY <1>1, <1>2, <1>3, CanaryEnds
  <1>4. CASE s = "cutover" /\ Steps("cutover", "switch")
    <2>1. /\ bridge' \in [BridgeScript -> ScriptRec] /\ Only("cutover")
          /\ bridge'["cutover"].pc = "switch" /\ bridge'["cutover"].at = bridge["cutover"].at
          /\ bridge'["cutover"].told = bridge["cutover"].told
      BY <1>4, StepFacts, Texts DEF BridgeInv, BridgeScript
    <2>2. /\ bridge'["canary"] = bridge["canary"] /\ bridge'["install"] = bridge["install"]
      BY <2>1 DEF Only, BridgeScript
    <2>3. /\ bridge["cutover"].pc \in CanarySteps /\ bridge["cutover"].pc # "idle"
          /\ bridge["cutover"].at = 1 /\ bridge["cutover"].told = "nothing"
          /\ timers = {"exporter"}
      BY <1>1, <1>4 DEF CanarySteps, BridgeInv, ScriptInv, TimerInv, TimersAt
    <2>4. BType'
      BY <1>1, <2>1 DEF BridgeInv, BType
    <2>5. ScriptInv'
      <3>1. 1 \in 1..6
        OBVIOUS
      <3>2. bridge'["cutover"].at \in 1..6
        BY <2>1, <2>3, <3>1
      <3>3. bridge["canary"].pc = "idle" /\ "idle" \in Early
        BY <2>3 DEF BridgeInv, ScriptInv, Early
      <3> QED
        BY <2>1, <2>2, <2>3, <3>2, <3>3 DEF ScriptInv, CanarySteps
    <2>6. TimerInv'
      <3>1. bridge'["cutover"].at \notin {2, 4, 6} /\ bridge'["cutover"].at # 3
        BY <2>1, <2>3
      <3> QED
        BY <1>1, <2>1, <2>3, <3>1 DEF TimerInv, TimersAt, CutoverReported, CanarySteps
    <2>7. FilesInv'
      BY <1>1, <2>2, <2>3 DEF BridgeInv, FilesInv, Whole
    <2>8. CanaryInv'
      BY <1>1, <1>2, <2>1 DEF CanaryInv
    <2> QED
      BY <2>4, <2>5, <2>6, <2>7, <2>8 DEF BridgeInv
  <1> QED
    BY <1>3, <1>4 DEF CanaryAccepted

\* The canary failed: its remains are removed, or the script says they are not.
LEMMA CanaryFailsInv ==
    ASSUME BridgeInv, NEW s \in {"canary", "cutover"}, CanaryFails(s) PROVE BridgeInv'
  <1>1. bridge[s].pc # "idle" /\ UNCHANGED <<unit_files, timers>>
    BY DEF CanaryFails
  <1>2. CASE Reports(s, "incomplete")
    BY <1>1, <1>2, CanaryEnds
  <1>3. CASE running' = running \ {"canary"} /\ canary_output' = FALSE /\ Reports(s, "nothing")
    BY <1>1, <1>3, CanaryEnds
  <1> QED
    BY <1>2, <1>3 DEF CanaryFails

\* Any script may be killed.
LEMMA BridgeScriptDiesInv ==
    ASSUME BridgeInv, NEW s \in BridgeScript, BridgeScriptDies(s) PROVE BridgeInv'
  <1>1. /\ bridge[s].pc # "idle" /\ Reports(s, "incomplete")
        /\ UNCHANGED <<unit_files, timers, running, canary_output>>
    BY DEF BridgeScriptDies, At, systemd
  <1>2. CASE s = "install"
    <2>1. /\ bridge' \in [BridgeScript -> ScriptRec] /\ Only("install")
          /\ bridge'["install"].pc = "idle" /\ bridge'["install"].told = "incomplete"
      BY <1>1, <1>2, ReportFacts, Texts DEF BridgeInv
    <2>2. FilesInv'
      BY <2>1 DEF FilesInv
    <2> QED
      BY <1>1, <2>1, <2>2, InstallMoves DEF BridgeInv, BType
  <1>3. CASE s \in {"canary", "cutover"}
    BY <1>1, <1>3, CanaryEnds
  <1> QED
    BY <1>2, <1>3 DEF BridgeScript

-----------------------------------------------------------------------------
(* The cutover                                                             *)

\* The phase's timer is switched, or the recovery begins with some timer on.
LEMMA SwitchTimerInv == ASSUME BridgeInv, SwitchTimer PROVE BridgeInv'
  <1> DEFINE at == bridge["cutover"].at
             T == Switched(Phase[at].on, Phase[at].timer)
  <1>1. /\ bridge["cutover"].pc = "switch"
        /\ UNCHANGED <<unit_files, running, canary_output>>
    BY DEF SwitchTimer, At
  <1>2. /\ at \in 1..6 /\ timers # {} /\ timers \subseteq Publisher
        /\ at \in {1, 5} => timers = {"exporter"}
        /\ at \in {2, 4, 6} => timers = Publisher
        /\ at = 3 => timers = {"bridge"}
    BY <1>1 DEF BridgeInv, BType, ScriptInv, TimerInv, TimersAt, Numbered
  <1>3. T # {} /\ T \subseteq Publisher
    <2>1. at \in {1, 2, 3, 4, 5, 6}
      BY <1>2
    <2>2. CASE at \in {1, 3, 5}
      BY <1>2, <2>2, PhaseTable DEF Switched, Publisher
    <2>3. CASE at \in {2, 4, 6}
      BY <1>2, <2>3, PhaseTable DEF Switched, Publisher
    <2> QED
      BY <2>1, <2>2, <2>3
  <1>4. CASE timers' = T /\ timers' = Phase[at].after /\ Steps("cutover", "start")
    <2>1. /\ bridge' \in [BridgeScript -> ScriptRec] /\ Only("cutover")
          /\ bridge'["cutover"].pc = "start" /\ bridge'["cutover"].at = at
          /\ bridge'["cutover"].told = bridge["cutover"].told
      BY <1>4, StepFacts, Texts DEF BridgeInv, BridgeScript
    <2>2. TimersAt(bridge'["cutover"].pc, bridge'["cutover"].at, bridge'["cutover"].clean, timers')
      BY <1>3, <1>4, <2>1 DEF TimersAt, CanarySteps
    <2> QED
      BY <1>1, <1>2, <1>3, <1>4, <2>1, <2>2, CutoverMoves DEF Early, CanarySteps
  <1>5. CASE timers' \in {timers, T} /\ Steps("cutover", "recover")
    <2>1. /\ bridge' \in [BridgeScript -> ScriptRec] /\ Only("cutover")
          /\ bridge'["cutover"].pc = "recover"
          /\ bridge'["cutover"].told = bridge["cutover"].told
      BY <1>5, StepFacts, Texts DEF BridgeInv, BridgeScript
    <2>2. TimersAt(bridge'["cutover"].pc, bridge'["cutover"].at, bridge'["cutover"].clean, timers')
      BY <1>2, <1>3, <1>5, <2>1 DEF TimersAt, CanarySteps
    <2> QED
      BY <1>1, <1>2, <1>3, <1>5, <2>1, <2>2, CutoverMoves DEF Early, CanarySteps, Numbered
  <1> QED
    BY <1>4, <1>5 DEF SwitchTimer

\* A step that leaves the timers alone and stays at places that want no more of
\* them than the place it came from.
LEMMA CutoverStays ==
    ASSUME BridgeInv, bridge' \in [BridgeScript -> ScriptRec], Only("cutover"),
           bridge["cutover"].pc \notin Early, bridge'["cutover"].pc \notin Early,
           bridge'["cutover"].told = bridge["cutover"].told,
           bridge'["cutover"].at = bridge["cutover"].at,
           UNCHANGED <<unit_files, canary_output, timers>>,
           "canary" \in running' => "canary" \in running,
           \/ bridge["cutover"].pc \in {"start", "validate"}
              /\ bridge'["cutover"].pc \in {"start", "validate", "recover"}
           \/ bridge["cutover"].pc \in {"recover output", "recover validate"}
              /\ bridge'["cutover"].pc \in
                    {"recover output", "recover validate", "recover saved", "recover bridge"}
           \/ bridge'["cutover"].pc = "recover"
    PROVE  BridgeInv'
  <1>1. timers # {} /\ timers' = timers /\ timers \subseteq Publisher
    BY DEF BridgeInv, BType, TimerInv, TimersAt
  <1>2. bridge'["cutover"].pc \in Numbered => bridge'["cutover"].at \in 1..6
    BY DEF BridgeInv, ScriptInv, Numbered
  <1>3. TimersAt(bridge'["cutover"].pc, bridge'["cutover"].at, bridge'["cutover"].clean, timers')
    BY <1>1 DEF BridgeInv, TimerInv, TimersAt, CanarySteps
  <1> QED
    BY <1>1, <1>2, <1>3, CutoverMoves

\* Neither a start that publishes nor one that fails brings a canary back.
LEMMA NoNewCanary ==
    ASSUME NEW p \in Publisher, Published(p) \/ NotPublished(p)
    PROVE  "canary" \in running' => "canary" \in running
  BY DEF Published, NotPublished, Publisher

\* The phase's publisher is started.
LEMMA StartPublisherInv == ASSUME BridgeInv, StartPublisher PROVE BridgeInv'
  <1> DEFINE p == Phase[bridge["cutover"].at].shows
  <1>1. bridge["cutover"].pc = "start" /\ UNCHANGED <<unit_files, timers, canary_output>>
    BY DEF StartPublisher, At
  <1>2. \/ Published(p) /\ Steps("cutover", "validate")
        \/ NotPublished(p) /\ Again("start", "recover")
    BY DEF StartPublisher
  <1>3. p \in Publisher
    <2>1. bridge["cutover"].at \in 1..6
      BY <1>1 DEF BridgeInv, ScriptInv, Numbered
    <2> QED
      BY <2>1 DEF Phase, Publisher
  <1>4. "canary" \in running' => "canary" \in running
    BY <1>2, <1>3, NoNewCanary
  <1>5. /\ bridge' \in [BridgeScript -> ScriptRec] /\ Only("cutover")
        /\ bridge'["cutover"].pc \in {"start", "validate", "recover"}
        /\ bridge'["cutover"].at = bridge["cutover"].at
        /\ bridge'["cutover"].told = bridge["cutover"].told
    BY <1>2, StepFacts, AgainFacts, Texts DEF BridgeInv, BridgeScript
  <1> QED
    BY <1>1, <1>4, <1>5, CutoverStays DEF Early, CanarySteps

\* The output is the phase's own, or another attempt is due.
LEMMA ValidateOutputInv == ASSUME BridgeInv, ValidateOutput PROVE BridgeInv'
  <1> DEFINE at == bridge["cutover"].at
             n == IF at = 6 THEN at ELSE at + 1
             q == IF at = 6 THEN "compare" ELSE "switch"
  <1>1. /\ bridge["cutover"].pc = "validate"
        /\ UNCHANGED <<unit_files, timers, running, canary_output>>
    BY DEF ValidateOutput, At, systemd
  <1>2. /\ at \in 1..6 /\ timers = Phase[at].after /\ timers # {} /\ timers \subseteq Publisher
    BY <1>1 DEF BridgeInv, BType, ScriptInv, TimerInv, TimersAt, Numbered
  <1>3. CASE Again("start", "recover")
    <2>1. /\ bridge' \in [BridgeScript -> ScriptRec] /\ Only("cutover")
          /\ bridge'["cutover"].pc \in {"start", "recover"}
          /\ bridge'["cutover"].at = at
          /\ bridge'["cutover"].told = bridge["cutover"].told
      BY <1>3, AgainFacts, Texts DEF BridgeInv
    <2> QED
      BY <1>1, <2>1, CutoverStays DEF Early, CanarySteps
  <1>4. CASE bridge' = [bridge EXCEPT !["cutover"].tries = 0, !["cutover"].at = n,
                                      !["cutover"].pc = q]
    <2>1. at \in {1, 2, 3, 4, 5, 6}
      BY <1>2
    <2>2. n \in Nat /\ n \in 1..6 /\ (at = 6 => q = "compare") /\ (at # 6 => n = at + 1)
      BY <2>1
    <2>3. q \in Text /\ q \in {"compare", "switch"} /\ (at # 6 <=> q = "switch")
      BY Texts
    <2>4. /\ q = "compare" => timers = {"bridge"}
          /\ q = "switch" /\ n \in {1, 5} => timers = {"exporter"}
          /\ q = "switch" /\ n \in {2, 4, 6} => timers = Publisher
          /\ q = "switch" /\ n = 3 => timers = {"bridge"}
      <3>1. CASE at = 6
        BY <1>2, <2>3, <3>1, PhaseTable
      <3>2. CASE at \in {1, 3, 5}
        BY <1>2, <2>2, <2>3, <3>2, PhaseTable
      <3>3. CASE at = 2
        BY <1>2, <2>2, <2>3, <3>3, PhaseTable
      <3>4. CASE at = 4
        BY <1>2, <2>2, <2>3, <3>4, PhaseTable
      <3> QED
        BY <2>1, <3>1, <3>2, <3>3, <3>4
    <2> HIDE DEF n, q
    <2>5. /\ bridge' \in [BridgeScript -> ScriptRec] /\ Only("cutover")
          /\ bridge'["cutover"].pc = q /\ bridge'["cutover"].at = n
          /\ bridge'["cutover"].told = bridge["cutover"].told
      BY <1>4, <2>2, <2>3 DEF BridgeInv, BType, ScriptRec, Only, BridgeScript
    <2>6. TimersAt(bridge'["cutover"].pc, bridge'["cutover"].at, bridge'["cutover"].clean, timers')
      BY <1>1, <1>2, <2>3, <2>4, <2>5 DEF TimersAt, CanarySteps
    <2> QED
      BY <1>1, <1>2, <2>2, <2>3, <2>5, <2>6, CutoverMoves DEF Early, CanarySteps
  <1> QED
    BY <1>3, <1>4 DEF ValidateOutput

\* Only the bridge is left: the cutover is accepted, or taken back.
LEMMA CompareContinuityInv == ASSUME BridgeInv, CompareContinuity PROVE BridgeInv'
  <1>1. /\ bridge["cutover"].pc = "compare" /\ timers = {"bridge"}
        /\ UNCHANGED <<unit_files, timers, running, canary_output>>
    BY DEF CompareContinuity, At, systemd, BridgeInv, TimerInv, TimersAt
  <1>2. CASE Reports("cutover", "accepted")
    <2>1. /\ bridge' \in [BridgeScript -> ScriptRec] /\ Only("cutover")
          /\ bridge'["cutover"].pc = "idle" /\ bridge'["cutover"].told = "accepted"
      BY <1>2, ReportFacts, Texts DEF BridgeInv, BridgeScript
    <2>2. ~canary_output /\ "canary" \notin running
      BY <1>1 DEF BridgeInv, CanaryInv, Early, CanarySteps
    <2> QED
      BY <1>1, <2>1, <2>2, CutoverEnds
  <1>3. CASE Steps("cutover", "recover")
    <2>1. /\ bridge' \in [BridgeScript -> ScriptRec] /\ Only("cutover")
          /\ bridge'["cutover"].pc = "recover" /\ bridge'["cutover"].at = bridge["cutover"].at
          /\ bridge'["cutover"].told = bridge["cutover"].told
      BY <1>3, StepFacts, Texts DEF BridgeInv, BridgeScript
    <2> QED
      BY <1>1, <2>1, CutoverStays DEF Early, CanarySteps
  <1> QED
    BY <1>2, <1>3 DEF CompareContinuity

\* A recovery step that reports a failure: whatever timers it leaves, it leaves one.
LEMMA RecoveryFailed ==
    ASSUME BridgeInv, NEW pc \in {"recover bridge", "recovered"},
           bridge' = [bridge EXCEPT !["cutover"].pc = pc, !["cutover"].clean = FALSE],
           bridge["cutover"].pc \notin Early, UNCHANGED <<unit_files, running, canary_output>>,
           timers' \subseteq Publisher, timers' # {},
           pc = "recover bridge" => "exporter" \in timers'
    PROVE  BridgeInv'
  <1>1. /\ bridge' \in [BridgeScript -> ScriptRec] /\ Only("cutover")
        /\ bridge'["cutover"].pc = pc /\ ~bridge'["cutover"].clean
        /\ bridge'["cutover"].told = bridge["cutover"].told
    BY UncleanFacts, Texts DEF BridgeInv
  <1>2. TimersAt(bridge'["cutover"].pc, bridge'["cutover"].at, bridge'["cutover"].clean, timers')
    BY <1>1 DEF TimersAt, CanarySteps
  <1> QED
    BY <1>1, <1>2, CutoverMoves DEF Early, CanarySteps, Numbered

\* The old timer is enabled, or the recovery stops with what there is.
LEMMA RecoverTimerInv == ASSUME BridgeInv, RecoverTimer PROVE BridgeInv'
  <1>1. /\ bridge["cutover"].pc = "recover" /\ bridge["cutover"].pc \notin Early
        /\ UNCHANGED <<unit_files, running, canary_output>>
        /\ timers # {} /\ timers \subseteq Publisher
    BY DEF RecoverTimer, At, Early, CanarySteps, BridgeInv, BType, TimerInv, TimersAt
  <1>2. CASE timers' = timers \cup {"exporter"} /\ Steps("cutover", "recover output")
    <2>1. /\ bridge' \in [BridgeScript -> ScriptRec] /\ Only("cutover")
          /\ bridge'["cutover"].pc = "recover output"
          /\ bridge'["cutover"].told = bridge["cutover"].told
      BY <1>2, StepFacts, Texts DEF BridgeInv, BridgeScript
    <2>2. TimersAt(bridge'["cutover"].pc, bridge'["cutover"].at, bridge'["cutover"].clean, timers')
      BY <1>2, <2>1 DEF TimersAt, CanarySteps
    <2> QED
      BY <1>1, <1>2, <2>1, <2>2, CutoverMoves DEF Early, CanarySteps, Numbered, Publisher
  <1>3. CASE /\ timers' \in {timers, timers \cup {"exporter"}}
             /\ bridge' = [bridge EXCEPT !["cutover"].pc = "recovered", !["cutover"].clean = FALSE]
    <2>1. timers' # {} /\ timers' \subseteq Publisher
      BY <1>1, <1>3 DEF Publisher
    <2> QED
      BY <1>1, <1>3, <2>1, RecoveryFailed
  <1> QED
    BY <1>2, <1>3 DEF RecoverTimer

\* The old exporter is started.
LEMMA RecoverOutputInv == ASSUME BridgeInv, RecoverOutput PROVE BridgeInv'
  <1>1. bridge["cutover"].pc = "recover output" /\ UNCHANGED <<unit_files, timers, canary_output>>
    BY DEF RecoverOutput, At
  <1>2. \/ Published("exporter") /\ Steps("cutover", "recover validate")
        \/ NotPublished("exporter") /\ Again("recover output", "recover saved")
    BY DEF RecoverOutput
  <1>3. "canary" \in running' => "canary" \in running
    BY <1>2, NoNewCanary DEF Publisher
  <1>4. /\ bridge' \in [BridgeScript -> ScriptRec] /\ Only("cutover")
        /\ bridge'["cutover"].pc \in {"recover output", "recover validate", "recover saved"}
        /\ bridge'["cutover"].at = bridge["cutover"].at
        /\ bridge'["cutover"].told = bridge["cutover"].told
    BY ZenonT(60), <1>2, StepFacts, AgainFacts, Texts DEF BridgeInv, BridgeScript
  <1> QED
    BY <1>1, <1>3, <1>4, CutoverStays DEF Early, CanarySteps

\* Its output is the contract file, or another attempt is due.
LEMMA RecoverValidateInv == ASSUME BridgeInv, RecoverValidate PROVE BridgeInv'
  <1>1. /\ bridge["cutover"].pc = "recover validate"
        /\ UNCHANGED <<unit_files, timers, running, canary_output>>
    BY DEF RecoverValidate, At, systemd
  <1>2. Steps("cutover", "recover bridge") \/ Again("recover output", "recover saved")
    BY DEF RecoverValidate
  <1>3. /\ bridge' \in [BridgeScript -> ScriptRec] /\ Only("cutover")
        /\ bridge'["cutover"].pc \in {"recover output", "recover bridge", "recover saved"}
        /\ bridge'["cutover"].at = bridge["cutover"].at
        /\ bridge'["cutover"].told = bridge["cutover"].told
    BY ZenonT(60), <1>2, StepFacts, AgainFacts, Texts DEF BridgeInv, BridgeScript
  <1> QED
    BY <1>1, <1>3, CutoverStays DEF Early, CanarySteps

\* The contract file as it was found.
LEMMA RecoverSavedInv == ASSUME BridgeInv, RecoverSaved PROVE BridgeInv'
  <1>1. /\ bridge["cutover"].pc = "recover saved" /\ bridge["cutover"].pc \notin Early
        /\ UNCHANGED <<unit_files, timers, running, canary_output>>
        /\ "exporter" \in timers /\ timers \subseteq Publisher
    BY DEF RecoverSaved, At, Early, CanarySteps, BridgeInv, BType, TimerInv, TimersAt
  <1>2. PICK pc \in {"recover bridge", "recovered"} :
          bridge' = [bridge EXCEPT !["cutover"].pc = pc, !["cutover"].clean = FALSE]
    BY DEF RecoverSaved
  <1> QED
    BY <1>1, <1>2, RecoveryFailed

\* The bridge's timer is disabled once the old one is there.
LEMMA RecoverBridgeInv == ASSUME BridgeInv, RecoverBridge PROVE BridgeInv'
  <1>1. /\ bridge["cutover"].pc = "recover bridge" /\ bridge["cutover"].pc \notin Early
        /\ UNCHANGED <<unit_files, running, canary_output>>
        /\ "exporter" \in timers /\ timers \subseteq Publisher
    BY DEF RecoverBridge, At, Early, CanarySteps, BridgeInv, BType, TimerInv, TimersAt
  <1>2. timers \ {"bridge"} = {"exporter"}
    BY <1>1 DEF Publisher
  <1>3. CASE timers' = timers \ {"bridge"} /\ Steps("cutover", "recovered")
    <2>1. /\ bridge' \in [BridgeScript -> ScriptRec] /\ Only("cutover")
          /\ bridge'["cutover"].pc = "recovered"
          /\ bridge'["cutover"].told = bridge["cutover"].told
      BY <1>3, StepFacts, Texts DEF BridgeInv, BridgeScript
    <2>2. TimersAt(bridge'["cutover"].pc, bridge'["cutover"].at, bridge'["cutover"].clean, timers')
      BY <1>2, <1>3, <2>1 DEF TimersAt, CanarySteps
    <2> QED
      BY <1>1, <1>2, <1>3, <2>1, <2>2, CutoverMoves DEF Early, CanarySteps, Numbered, Publisher
  <1>4. CASE /\ timers' \in {timers, timers \ {"bridge"}}
             /\ bridge' = [bridge EXCEPT !["cutover"].pc = "recovered", !["cutover"].clean = FALSE]
    <2>1. timers' # {} /\ timers' \subseteq Publisher
      BY <1>1, <1>2, <1>4
    <2> QED
      BY <1>1, <1>4, <2>1, RecoveryFailed
  <1> QED
    BY <1>3, <1>4 DEF RecoverBridge

\* The recovery reports: restored only when every step of it succeeded.
LEMMA CutoverRecoveredInv == ASSUME BridgeInv, CutoverRecovered PROVE BridgeInv'
  <1>1. /\ bridge["cutover"].pc = "recovered"
        /\ UNCHANGED <<unit_files, timers, running, canary_output>>
        /\ bridge["cutover"].clean => timers = {"exporter"}
    BY DEF CutoverRecovered, At, systemd, BridgeInv, TimerInv, TimersAt
  <1>2. ~canary_output /\ "canary" \notin running
    BY <1>1 DEF BridgeInv, CanaryInv, Early, CanarySteps
  <1>3. PICK how \in {"restored", "incomplete"} :
          Reports("cutover", how) /\ (how = "restored" => bridge["cutover"].clean)
    BY DEF CutoverRecovered
  <1>4. /\ bridge' \in [BridgeScript -> ScriptRec] /\ Only("cutover")
        /\ bridge'["cutover"].pc = "idle" /\ bridge'["cutover"].told = how
    BY <1>3, ReportFacts, Texts DEF BridgeInv, BridgeScript
  <1> QED
    BY <1>1, <1>2, <1>3, <1>4, CutoverEnds

-----------------------------------------------------------------------------
(* The theorem                                                             *)

\* Every step preserves the invariant.
LEMMA BridgeNextInv == BridgeInv /\ [BridgeNext]_bridge_vars => BridgeInv'
  <1> SUFFICES ASSUME BridgeInv, [BridgeNext]_bridge_vars PROVE BridgeInv'
    OBVIOUS
  <1>1. CASE InstallUnits
    BY <1>1, InstallChecksInv, WriteUnitInv, InstallVerifiedInv, InstallFailsInv, RestoreUnitInv,
       InstallRolledBackInv DEF InstallUnits
  <1>2. CASE RunCanary
    BY <1>2, CanaryBeginsInv, CanaryRunsInv, CanaryAcceptedInv, CanaryFailsInv DEF RunCanary
  <1>3. CASE Cutover
    BY <1>3, CutoverBeginsInv, SwitchTimerInv, StartPublisherInv, ValidateOutputInv,
       CompareContinuityInv, RecoverTimerInv, RecoverOutputInv, RecoverValidateInv,
       RecoverSavedInv, RecoverBridgeInv, CutoverRecoveredInv DEF Cutover
  <1>4. CASE \E p \in Publisher : TimerFires(p)
    BY <1>4, TimerFiresInv
  <1>5. CASE \E p \in Publisher \cup {"canary"} : ServicePublishes(p)
    BY <1>5, ServicePublishesInv
  <1>6. CASE \E s \in BridgeScript : BridgeScriptDies(s)
    BY <1>6, BridgeScriptDiesInv
  <1>7. CASE UNCHANGED bridge_vars
    BY ZenonT(60), <1>7 DEF bridge_vars, BridgeInv, BType, ScriptInv, TimerInv, CutoverReported, FilesInv,
                Whole, CanaryInv
  <1> QED
    BY <1>1, <1>2, <1>3, <1>4, <1>5, <1>6, <1>7 DEF BridgeNext

\* The invariant says what PublisherKept asks.
LEMMA BridgeInvEnough == BridgeInv => PublisherKept
  <1> SUFFICES ASSUME BridgeInv PROVE PublisherKept
    OBVIOUS
  <1>1. NoGap
    BY DEF BridgeInv, TimerInv, TimersAt, FilesInv, NoGap, InstallUndone, At, Whole
  <1>2. CutoverReported
    BY DEF BridgeInv, TimerInv
  <1>3. CanaryCleared
    BY DEF BridgeInv, CanaryInv, CanaryCleared, At
  <1> QED
    BY <1>1, <1>2, <1>3, HealthIsBridged DEF PublisherKept

\* The inductive invariant of the health bridge holds in every behaviour.
THEOREM BridgeInvariance == BridgeSpec => []BridgeInv
  BY BridgeInitInv, BridgeNextInv, PTL DEF BridgeSpec

\* Through installation, canary, cutover, rehearsal, recovery and kills, for any
\* set of releases and any number of attempts, a timer publishes the contract
\* file, reports are true and nothing of a canary is left unsaid.
THEOREM PublisherAlways == BridgeSpec => []PublisherKept
  BY BridgeInvariance, BridgeInvEnough, PTL

=============================================================================
