------------------------- MODULE MCOperatorScripts -------------------------
(***************************************************************************)
(* The operator's scripts, and the sweep one of them installs, for TLC.    *)
(* They fall into six groups that share no state (activation jobs on the   *)
(* workstation, the legacy installation there, the incident sweep there,   *)
(* the services of the cloud host, the keys of its gateway, its legacy     *)
(* health bridge); each behaviour is one of one group, so that the run is  *)
(* the sum and not the product of the six.                                 *)
(***************************************************************************)
EXTENDS LocalPolicy, LegacyControl, CloudEndpoint, GatewayKeys, LocalSweep, HealthBridge

CONSTANTS j1, j2, f1, f2, t1, t2

VARIABLE group

MCJob == {j1, j2}
MCFirst == {j1}
MCFile == {f1, f2}
MCToken == {t1, t2}

\* A file with two accounts, and one whose only account lacks the refresh
\* token that the other file has for it.
MCBundles ==
    {{[token |-> t1, refresh |-> TRUE], [token |-> t2, refresh |-> FALSE]},
     {[token |-> t1, refresh |-> FALSE]}}
MCRuns == {"maintenance"}

all == <<group, vars, legacy_vars, cloud_vars, key_vars, sweep_vars, bridge_vars>>

MCInit ==
    /\ group \in {"policy", "legacy", "cloud", "keys", "sweep", "bridge"}
    /\ Init /\ LegacyInit /\ CloudInit /\ KeysInit /\ SweepInit /\ BridgeInit
    /\ (group # "policy" => ~busy) /\ (group # "legacy" => stray = "none")
    /\ group # "cloud" => dropin = "base"
    /\ group # "bridge" => unit_files[1] = "none"
    /\ group # "sweep" => \A t \in Token : tokens[t] = "good"
    /\ group # "sweep" => \A f, g \in File : pool[f] = pool[g] /\ Cardinality(pool[f]) = 1

MCNext ==
    \/ group = "policy" /\ Next
       /\ UNCHANGED <<group, legacy_vars, cloud_vars, key_vars, sweep_vars, bridge_vars>>
    \/ group = "legacy" /\ LegacyNext
       /\ UNCHANGED <<group, vars, cloud_vars, key_vars, sweep_vars, bridge_vars>>
    \/ group = "cloud" /\ CloudNext
       /\ UNCHANGED <<group, vars, legacy_vars, key_vars, sweep_vars, bridge_vars>>
    \/ group = "keys" /\ KeysNext
       /\ UNCHANGED <<group, vars, legacy_vars, cloud_vars, sweep_vars, bridge_vars>>
    \/ group = "sweep" /\ SweepNext
       /\ UNCHANGED <<group, vars, legacy_vars, cloud_vars, key_vars, bridge_vars>>
    \/ group = "bridge" /\ BridgeNext
       /\ UNCHANGED <<group, vars, legacy_vars, cloud_vars, key_vars, sweep_vars>>

\* Outside its group no job is ever scheduled, and Fairness asks for nothing.
MCSpec == MCInit /\ [][MCNext]_all /\ Fairness

(***************************************************************************)
(* The second job is scheduled after the first; the two run together       *)
(* without connections, kills, the follower and the operator's recovery,   *)
(* which one job meets alone. The legacy scripts meet one recovery or one  *)
(* kill, or the removal's recovery that is killed; of the bridge's scripts *)
(* two meet, or one and a kill, and one service at a time is late. None of *)
(* the actions this leaves out is one Fairness is about.                   *)
(***************************************************************************)
Recoveries == Cardinality({s \in Recovery : script[s] # "idle"})

Bound ==
    /\ job[j2].pc # "none" =>
          /\ job[j1].pc # "none" /\ ~busy /\ kills = 0
          /\ fol[j1] = "none" /\ rec[<<j1, "operator">>].pc = "idle"
    /\ \/ Recoveries + deaths <= 1
       \/ script["unpack"] = "dead" /\ Recoveries = 1
    /\ Cardinality({s \in BridgeScript : bridge[s] # Resting}) + bridge_kills <= 2
    /\ Cardinality(running) <= 1
=============================================================================
