----------------------------- MODULE LocalSweep -----------------------------
(***************************************************************************)
(* The incident sweep of the local CPA pool (refresh_document with         *)
(* local_cpa_sweep.py and local_cpa_probe.py). The gateway leaves a        *)
(* trigger when it finds no usable account; a maintenance run that loads   *)
(* it reads every auth file, asks whether the provider is reachable at     *)
(* all, asks it about every distinct credential and archives the files all *)
(* of whose accounts are permanently invalid. Meanwhile the gateway        *)
(* refreshes tokens, the importer replaces files, the provider changes its *)
(* mind, and a second run may be at work: only the move into the archive   *)
(* (CredentialPool) is locked.                                             *)
(* A file's bytes, and their digest, are the set of its accounts; an       *)
(* account is an access token with or without a refresh token.             *)
(***************************************************************************)
EXTENDS Naturals, FiniteSets

CONSTANTS
    File,         \* names in the auth directory
    Token,        \* access tokens
    Bundles,      \* what a file may hold: sets of accounts
    Runs,         \* maintenance runs
    MaxTriggers   \* bound: triggers the gateway writes

Account == [token : Token, refresh : BOOLEAN]

ASSUME SweepAssumption ==
    /\ \A B \in Bundles : B # {} /\ B \subseteq Account
    /\ MaxTriggers \in Nat

VARIABLES
    pool,      \* the auth directory: the bytes of each file, {} without it
    tokens,    \* the provider: each token is "good", "expired" (or about to be,
               \* REFRESH_SKEW_SECONDS) or of a "deleted" account
    trigger,   \* trigger.json: which one, 0 without it
    stale,     \* it is older than MAX_AGE_SECONDS
    triggers,  \* triggers written so far
    sweep,     \* the runs
    moved_out  \* the files archived: what they held, as they were judged

sweep_vars == <<pool, tokens, trigger, stale, triggers, sweep, moved_out>>

NoSweep == [pc |-> "idle", trigger |-> 0, contexts |-> [f \in File |-> {}],
            permanent |-> {}, asked |-> {}, candidates |-> {}]

SweepInit ==
    /\ pool \in [File -> Bundles]
    /\ tokens \in [Token -> {"good", "expired"}]
    /\ trigger = 0 /\ stale = FALSE /\ triggers = 0
    /\ sweep = [p \in Runs |-> NoSweep]
    /\ moved_out = {}

Sweeps(p, r) == sweep' = [sweep EXCEPT ![p] = r]
Sweeping(p, pc) == sweep' = [sweep EXCEPT ![p].pc = pc]

-----------------------------------------------------------------------------
(***************************************************************************)
(* What the provider says, and how it is read                              *)
(***************************************************************************)

\* What one endpoint may answer for a token: a quota text or 429, the marker of
\* a deleted account, 401, a usage document, or nothing that can be read.
Answers(t) ==
    {"none", "quota"} \cup
    (IF tokens[t] = "good" THEN {"usage"}
     ELSE IF tokens[t] = "expired" THEN {"401"}
     ELSE {"401", "marker", "quota and marker"})

\* _classified_failure: quota before any marker, a marker before 401.
Classified(a, answer) ==
    IF answer \in {"quota", "quota and marker"} THEN "limited"
    ELSE IF answer = "marker" THEN "permanent"
    ELSE IF answer = "401" THEN (IF a.refresh THEN "login" ELSE "permanent")
    ELSE IF answer = "usage" THEN "ready"
    ELSE "unclassified"

\* _probe: the second endpoint counts only when the first says nothing.
Verdicts(a) ==
    {IF Classified(a, x) # "unclassified" THEN Classified(a, x) ELSE Classified(a, y) :
        x \in Answers(a.token), y \in Answers(a.token)}

\* Mutant: accounts that differ only in their refresh token are asked about once.
ProbeTokenOnly(a) == a.token

\* _probe_key: the same token with and without a refresh token is asked about
\* twice.
ProbeKey(a) == <<a.token, a.refresh>>

-----------------------------------------------------------------------------
(***************************************************************************)
(* refresh_document                                                        *)
(***************************************************************************)

\* local_cpa_sweep.load: a stale trigger is left where it is.
LoadTrigger(p) ==
    /\ sweep[p].pc = "idle" /\ trigger # 0 /\ ~stale
    /\ Sweeps(p, [NoSweep EXCEPT !.pc = "read", !.trigger = trigger])
    /\ UNCHANGED <<pool, tokens, trigger, stale, triggers, moved_out>>

\* contexts: bytes and digest of every file; without any, the gate is
\* "no_accounts" and nothing is asked.
ReadContexts(p) ==
    /\ sweep[p].pc = "read"
    /\ Sweeps(p, [sweep[p] EXCEPT !.contexts = pool,
                    !.pc = IF \A f \in File : pool[f] = {} THEN "consume" ELSE "gate"])
    /\ UNCHANGED <<pool, tokens, trigger, stale, triggers, moved_out>>

\* transport_status: unreachable, nothing is archived and the trigger stays.
TransportGate(p) ==
    /\ sweep[p].pc = "gate"
    /\ \/ Sweeping(p, "probe")
       \/ Sweeps(p, NoSweep)
    /\ UNCHANGED <<pool, tokens, trigger, stale, triggers, moved_out>>

Contexts(p) == UNION {sweep[p].contexts[f] : f \in File}

\* probe_all asks about each distinct key once, in any order, for the first
\* account that has it.
ProbeAccount(p, a) ==
    /\ sweep[p].pc = "probe" /\ a \in Contexts(p) /\ ProbeKey(a) \notin sweep[p].asked
    /\ \E v \in Verdicts(a) :
          Sweeps(p, [sweep[p] EXCEPT !.asked = @ \cup {ProbeKey(a)},
                       !.permanent = IF v = "permanent" THEN @ \cup {ProbeKey(a)} ELSE @])
    /\ UNCHANGED <<pool, tokens, trigger, stale, triggers, moved_out>>

\* A file is a candidate when every account in it is permanently invalid and
\* scan_active_auth finds it with the digest it was read with.
Judge(p) ==
    /\ sweep[p].pc = "probe" /\ \A a \in Contexts(p) : ProbeKey(a) \in sweep[p].asked
    /\ Sweeps(p, [sweep[p] EXCEPT !.pc = "archive", !.candidates =
          {f \in File : /\ sweep[p].contexts[f] # {}
                        /\ \A a \in sweep[p].contexts[f] : ProbeKey(a) \in sweep[p].permanent
                        /\ pool[f] = sweep[p].contexts[f]}])
    /\ UNCHANGED <<pool, tokens, trigger, stale, triggers, moved_out>>

\* archive_candidates under its lock: the digest is compared once more.
ArchiveSwept(p) ==
    LET gone == {f \in sweep[p].candidates : pool[f] = sweep[p].contexts[f]} IN
    /\ sweep[p].pc = "archive"
    /\ pool' = [f \in File |-> IF f \in gone THEN {} ELSE pool[f]]
    /\ moved_out' = moved_out \cup {pool[f] : f \in gone}
    /\ Sweeping(p, "consume")
    /\ UNCHANGED <<tokens, trigger, stale, triggers>>

\* archive_candidates raises: the run ends, and the trigger stays.
ArchiveRaisesOut(p) ==
    /\ sweep[p].pc = "archive"
    /\ Sweeps(p, NoSweep)
    /\ UNCHANGED <<pool, tokens, trigger, stale, triggers, moved_out>>

\* consume: the trigger on disk must be the one that was loaded ...
CompareTrigger(p) ==
    /\ sweep[p].pc = "consume"
    /\ IF trigger = sweep[p].trigger THEN Sweeping(p, "unlink") ELSE Sweeps(p, NoSweep)
    /\ UNCHANGED <<pool, tokens, trigger, stale, triggers, moved_out>>

\* ... and is then unlinked by its name, whatever is there by now.
UnlinkTrigger(p) ==
    /\ sweep[p].pc = "unlink"
    /\ trigger' = 0 /\ stale' = FALSE
    /\ Sweeps(p, NoSweep)
    /\ UNCHANGED <<pool, tokens, triggers, moved_out>>

-----------------------------------------------------------------------------
(***************************************************************************)
(* The gateway, the importer and the provider (external)                   *)
(***************************************************************************)
WriteTrigger ==
    /\ triggers < MaxTriggers
    /\ triggers' = triggers + 1 /\ trigger' = triggers' /\ stale' = FALSE
    /\ UNCHANGED <<pool, tokens, sweep, moved_out>>

TriggerAges ==
    /\ trigger # 0 /\ ~stale
    /\ stale' = TRUE
    /\ UNCHANGED <<pool, tokens, trigger, triggers, sweep, moved_out>>

\* A refresh replaces the token of an account, an import the whole file.
ReplaceFile(f, B) ==
    /\ pool[f] # B
    /\ pool' = [pool EXCEPT ![f] = B]
    /\ UNCHANGED <<tokens, trigger, stale, triggers, sweep, moved_out>>

\* A token runs out; an account is deleted, and stays so.
TokenFails(t) ==
    /\ tokens[t] # "deleted"
    /\ tokens' = [tokens EXCEPT ![t] = IF tokens[t] = "good" THEN "expired" ELSE "deleted"]
    /\ UNCHANGED <<pool, trigger, stale, triggers, sweep, moved_out>>

LocalRun(p) ==
    \/ LoadTrigger(p) \/ ReadContexts(p) \/ TransportGate(p)
    \/ (\E a \in Account : ProbeAccount(p, a))
    \/ Judge(p) \/ ArchiveSwept(p) \/ ArchiveRaisesOut(p) \/ CompareTrigger(p) \/ UnlinkTrigger(p)

SweepNext ==
    \/ \E p \in Runs : LocalRun(p)
    \/ WriteTrigger \/ TriggerAges
    \/ \E f \in File, B \in Bundles : ReplaceFile(f, B)
    \/ \E t \in Token : TokenFails(t)

SweepSpec == SweepInit /\ [][SweepNext]_sweep_vars
-----------------------------------------------------------------------------
\* An account nothing can bring back: deleted, or unauthorized for good.
Lost(a) == tokens[a.token] = "deleted" \/ (tokens[a.token] = "expired" /\ ~a.refresh)

\* A sweep archives a file only when every account in it is lost, in the bytes
\* that are moved: whatever was refreshed, imported or answered in between, and
\* however the accounts are bundled (local_cpa_probe.probe_all, refresh_document).
OnlyLostArchived == \A B \in moved_out : \A a \in B : Lost(a)
=============================================================================
