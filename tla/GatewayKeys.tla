---------------------------- MODULE GatewayKeys ----------------------------
(***************************************************************************)
(* The keys the cloud gateway accepts and the scripts that change them:    *)
(* install_scoped_gateway_key.py gives Cloudx a new key beside its old one,*)
(* revoke_scoped_gateway_key.py takes the old one of one such rotation     *)
(* away, install_phi_consumer_gateway_key.py gives Phi a key of its own.   *)
(* Each holds one lock, changes config, credential and environment file by *)
(* file, restarts the gateway, probes it and takes everything back when a  *)
(* step fails. A key is a number; a rotation is named by its new key, and  *)
(* a config by the set of its api-keys, which stands for its digest too.   *)
(***************************************************************************)
EXTENDS Naturals

CONSTANTS
    MaxKeys,      \* bound: keys ever made
    MaxKeyKills   \* bound: scripts that are killed

ASSUME KeysAssumption == MaxKeys \in Nat \ {0} /\ MaxKeyKills \in Nat

VARIABLES
    config,       \* the api-keys of the gateway's config.yaml
    credential,   \* the key in the Cloudx client credential
    phi,          \* the key in the Phi consumer credential, 0 without one
    environment,  \* the rotation that wrote the shadow environment
    accepted,     \* the keys the running gateway accepts, none while it is down
    manifests,    \* the rotation manifests
    minted,       \* the newest key
    work,         \* where each script is, and what it found
    outcome,      \* how the last script ended
    torn,         \* a script ended between the two files of its rollback
    key_kills     \* scripts killed so far

files == <<config, credential, phi, environment>>
key_vars == <<config, credential, phi, environment, accepted, manifests, minted, work,
              outcome, torn, key_kills>>

KeyScript == {"install", "revoke", "phi"}
Key == 1..MaxKeys

Absent == [status |-> "none", old |-> 0, after |-> {}, artifacts |-> FALSE]
AtRest == [pc |-> "idle", config |-> {}, credential |-> 0, phi |-> 0,
           environment |-> 0, key |-> 0]

KeysInit ==
    /\ config = {1} /\ credential = 1 /\ phi = 0 /\ environment = 0
    /\ accepted = {1} /\ minted = 1
    /\ manifests = [k \in Key |-> Absent]
    /\ work = [s \in KeyScript |-> AtRest]
    /\ outcome = "none" /\ torn = FALSE /\ key_kills = 0

Goes(s, pc) == work' = [work EXCEPT ![s].pc = pc]

\* The snapshots a script restores from.
Takes(s, k) ==
    work' = [work EXCEPT ![s] =
        [pc |-> "config", config |-> config, credential |-> credential, phi |-> phi,
         environment |-> environment, key |-> k]]

Ends(s, how) == work' = [work EXCEPT ![s] = AtRest] /\ outcome' = how

\* Mutant: the lock is not taken.
scoped_key_unlocked(s) == work[s].pc = "idle"

\* The non-blocking flock, which a killed script gives up.
scoped_key_lock(s) == \A t \in KeyScript : work[t].pc = "idle"

\* Keys are made at random: an appended key is nowhere else in the block list.
append_api_key(keys, k) == keys \cup {k}

\* Exactly one entry has the digest; the others keep their order.
remove_api_key_by_digest(keys, k) == keys \ {k}

\* The config a script writes, from the one it found.
Written(s) ==
    IF s = "revoke"
    THEN remove_api_key_by_digest(work[s].config, manifests[work[s].key].old)
    ELSE append_api_key(work[s].config, work[s].key)

\* HTTP 200 for a key, asked until a deadline.
probe(k) == k \in accepted

\* HTTP 401 for a key: the gateway answers, and not with 200.
Rejected(k) == accepted # {} /\ k \notin accepted

\* An accepted rotation nobody has revoked.
Authorizes(k) == manifests[k].status = "rotated"

\* A Phi credential that exists is retained by the gateway.
previous_key_is_retained == phi # 0 => phi \in config

-----------------------------------------------------------------------------
(***************************************************************************)
(* What each script checks and prepares before its first change            *)
(***************************************************************************)

\* The client's key is in the config; backup and manifest come first.
InstallBegins ==
    /\ scoped_key_lock("install") /\ minted < MaxKeys
    /\ credential \in config
    /\ minted' = minted + 1
    /\ manifests' = [manifests EXCEPT ![minted + 1] =
          [status |-> "prepared", old |-> credential,
           after |-> append_api_key(config, minted + 1), artifacts |-> FALSE]]
    /\ Takes("install", minted + 1)
    /\ UNCHANGED <<files, accepted, outcome, torn, key_kills>>

\* An accepted rotation that is the last change to credential and config, and
\* no backup or receipt of an earlier revocation.
RevokeBegins(k) ==
    /\ scoped_key_lock("revoke")
    /\ Authorizes(k) /\ ~manifests[k].artifacts
    /\ credential = k /\ config = manifests[k].after
    /\ credential \in config /\ manifests[k].old \in config /\ manifests[k].old # credential
    /\ manifests' = [manifests EXCEPT ![k].artifacts = TRUE]
    /\ Takes("revoke", k)
    /\ UNCHANGED <<files, accepted, minted, outcome, torn, key_kills>>

\* Neither manifest nor rotation directory: the backup alone.
PhiBegins ==
    /\ scoped_key_lock("phi") /\ minted < MaxKeys
    /\ previous_key_is_retained
    /\ minted' = minted + 1
    /\ Takes("phi", minted + 1)
    /\ UNCHANGED <<files, accepted, manifests, outcome, torn, key_kills>>

-----------------------------------------------------------------------------
(***************************************************************************)
(* The change                                                              *)
(***************************************************************************)

WriteConfig(s) ==
    /\ work[s].pc = "config"
    /\ config' = Written(s)
    /\ Goes(s, IF s = "revoke" THEN "restart" ELSE "credential")
    /\ UNCHANGED <<credential, phi, environment, accepted, manifests, minted, outcome, torn,
                   key_kills>>

InstallCredential ==
    /\ work["install"].pc = "credential"
    /\ credential' = work["install"].key
    /\ Goes("install", "environment")
    /\ UNCHANGED <<config, phi, environment, accepted, manifests, minted, outcome, torn,
                   key_kills>>

InstallEnvironment ==
    /\ work["install"].pc = "environment"
    /\ environment' = work["install"].key
    /\ Goes("install", "restart")
    /\ UNCHANGED <<config, credential, phi, accepted, manifests, minted, outcome, torn,
                   key_kills>>

PhiCredential ==
    /\ work["phi"].pc = "credential"
    /\ phi' = work["phi"].key
    /\ Goes("phi", "restart")
    /\ UNCHANGED <<config, credential, environment, accepted, manifests, minted, outcome, torn,
                   key_kills>>

RestartCliproxy(s) ==
    /\ work[s].pc = "restart"
    /\ accepted' = config
    /\ Goes(s, "probe")
    /\ UNCHANGED <<files, manifests, minted, outcome, torn, key_kills>>

\* 200 for the new key, the watches, and the files as they were written.
InstallProbes ==
    /\ work["install"].pc = "probe"
    /\ probe(work["install"].key)
    /\ config = Written("install")
    /\ credential = work["install"].key /\ environment = work["install"].key
    /\ manifests' = [manifests EXCEPT ![work["install"].key].status = "rotated"]
    /\ Ends("install", "installed")
    /\ UNCHANGED <<files, accepted, minted, torn, key_kills>>

\* 200 for the current key, 401 for the old one; the receipt, then the manifest.
RevokeProbes ==
    /\ work["revoke"].pc = "probe"
    /\ probe(work["revoke"].key) /\ Rejected(manifests[work["revoke"].key].old)
    /\ credential = work["revoke"].credential /\ config = Written("revoke")
    /\ manifests' = [manifests EXCEPT ![work["revoke"].key].status = "revoked"]
    /\ Ends("revoke", "revoked")
    /\ UNCHANGED <<files, accepted, minted, torn, key_kills>>

\* 200 for Phi's key; of the files only the client's credential is compared.
PhiProbes ==
    /\ work["phi"].pc = "probe"
    /\ probe(work["phi"].key)
    /\ credential = work["phi"].credential
    /\ Ends("phi", "installed")
    /\ UNCHANGED <<files, accepted, manifests, minted, torn, key_kills>>

\* Any step may raise; a restart that does may leave the gateway down.
ChangeFails(s) ==
    /\ work[s].pc \in {"config", "credential", "environment", "restart", "probe"}
    /\ \/ UNCHANGED accepted
       \/ work[s].pc = "restart" /\ accepted' = {}
    /\ Goes(s, "restore config")
    /\ UNCHANGED <<files, manifests, minted, outcome, torn, key_kills>>

-----------------------------------------------------------------------------
(***************************************************************************)
(* The rollback                                                            *)
(***************************************************************************)

RestoreConfig(s) ==
    /\ work[s].pc = "restore config"
    /\ config' = work[s].config
    /\ Goes(s, IF s = "revoke" THEN "restart restored" ELSE "restore credential")
    /\ UNCHANGED <<credential, phi, environment, accepted, manifests, minted, outcome, torn,
                   key_kills>>

RestoreCredential ==
    /\ work["install"].pc = "restore credential"
    /\ credential' = work["install"].credential
    /\ Goes("install", "restore environment")
    /\ UNCHANGED <<config, phi, environment, accepted, manifests, minted, outcome, torn,
                   key_kills>>

RestoreEnvironment ==
    /\ work["install"].pc = "restore environment"
    /\ environment' = work["install"].environment
    /\ Goes("install", "restart restored")
    /\ UNCHANGED <<config, credential, phi, accepted, manifests, minted, outcome, torn,
                   key_kills>>

RestorePhi ==
    /\ work["phi"].pc = "restore credential"
    /\ phi' = work["phi"].phi
    /\ Goes("phi", "restart restored")
    /\ UNCHANGED <<config, credential, environment, accepted, manifests, minted, outcome, torn,
                   key_kills>>

RestartRestored(s) ==
    /\ work[s].pc = "restart restored"
    /\ accepted' = config
    /\ Goes(s, "audit")
    /\ UNCHANGED <<files, manifests, minted, outcome, torn, key_kills>>

\* The rotation directory goes; the manifest is as it was, without artifacts.
Cleaned(s) ==
    /\ s = "install" => manifests' = [manifests EXCEPT ![work[s].key] = Absent]
    /\ s = "revoke" => manifests' = [manifests EXCEPT ![work[s].key].artifacts = FALSE]
    /\ s = "phi" => UNCHANGED manifests

\* The canaries of the restored keys, and for a rotation the exact files. The
\* Phi installer only waits for the unit.
RolledBack(s) ==
    /\ s = "install" =>
          /\ probe(work[s].credential) /\ Rejected(work[s].key)
          /\ config = work[s].config /\ credential = work[s].credential
          /\ environment = work[s].environment
    /\ s = "revoke" => probe(work[s].key) /\ probe(manifests[work[s].key].old)

AuditRestored(s) ==
    /\ work[s].pc = "audit" /\ RolledBack(s)
    /\ Cleaned(s)
    /\ Ends(s, "rolled back")
    /\ UNCHANGED <<files, accepted, minted, torn, key_kills>>

\* A rollback that fails still cleans up, unless that fails too.
RollbackFails(s) ==
    /\ work[s].pc \in {"restore config", "restore credential", "restore environment",
                       "restart restored", "audit"}
    /\ \/ UNCHANGED accepted
       \/ work[s].pc = "restart restored" /\ accepted' = {}
    /\ Cleaned(s) \/ UNCHANGED manifests
    /\ torn' = (torn \/ work[s].pc = "restore credential")
    /\ Ends(s, "incomplete")
    /\ UNCHANGED <<files, minted, key_kills>>

-----------------------------------------------------------------------------
KeyScriptDies(s) ==
    /\ work[s].pc # "idle" /\ key_kills < MaxKeyKills
    /\ key_kills' = key_kills + 1
    /\ torn' = (torn \/ work[s].pc = "restore credential")
    /\ Ends(s, "killed")
    /\ UNCHANGED <<files, accepted, manifests, minted>>

\* The gateway reads its config again, on its watch or when another script
\* restarts it (external).
GatewayReloads ==
    /\ accepted # config
    /\ accepted' = config
    /\ UNCHANGED <<files, manifests, minted, work, outcome, torn, key_kills>>

\* An operator adds a key by hand (external).
ConfigEdited ==
    /\ minted < MaxKeys
    /\ minted' = minted + 1 /\ config' = config \cup {minted + 1}
    /\ UNCHANGED <<credential, phi, environment, accepted, manifests, work, outcome, torn,
                   key_kills>>

Rotate ==
    \/ InstallBegins \/ InstallCredential \/ InstallEnvironment \/ InstallProbes
    \/ RestoreCredential \/ RestoreEnvironment
Revoke == (\E k \in Key : RevokeBegins(k)) \/ RevokeProbes
GivePhi == PhiBegins \/ PhiCredential \/ PhiProbes \/ RestorePhi

KeysNext ==
    \/ Rotate \/ Revoke \/ GivePhi
    \/ \E s \in KeyScript :
          \/ WriteConfig(s) \/ RestartCliproxy(s) \/ ChangeFails(s)
          \/ RestoreConfig(s) \/ RestartRestored(s) \/ AuditRestored(s) \/ RollbackFails(s)
          \/ KeyScriptDies(s)
    \/ GatewayReloads \/ ConfigEdited

KeysSpec == KeysInit /\ [][KeysNext]_key_vars
-----------------------------------------------------------------------------
Quiet == \A s \in KeyScript : work[s].pc = "idle"

\* The credentials name keys of the config: through every rotation, revocation,
\* failure and kill, except between the two files of a rollback.
InConfig ==
    torn \/ (\E s \in KeyScript : work[s].pc = "restore credential")
    \/ (credential \in config /\ phi \in config \cup {0})

\* Once the last script ended with its result or its rollback, the running
\* gateway accepts both.
Accepted ==
    Quiet /\ ~torn /\ outcome \notin {"incomplete", "killed"} =>
        credential \in accepted /\ phi \in accepted \cup {0}

\* A key reported as revoked never comes back, not by another's rollback either.
RevokedStaysOut ==
    \A k \in Key : manifests[k].status = "revoked" =>
        manifests[k].old \notin config \cup accepted

\* The scripts' own promise to the clients of the gateway
\* (install_scoped_gateway_key.py, revoke_scoped_gateway_key.py and
\* install_phi_consumer_gateway_key.py, _apply).
KeysServed == InConfig /\ Accepted /\ RevokedStaysOut
=============================================================================
