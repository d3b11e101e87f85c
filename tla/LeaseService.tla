---------------------------- MODULE LeaseService ----------------------------
(***************************************************************************)
(* What the tunnel broker promises, without sockets, children, timers or   *)
(* client states: one endpoint at a time, a lease granted only together    *)
(* with a tunnel to the endpoint it was asked for, and an endpoint that    *)
(* stays put while anybody holds a lease.                                  *)
(***************************************************************************)
CONSTANTS Sessions, Specs, None, SpecOf

VARIABLES
  open,      \* the service still runs
  granted,   \* leases
  endpoint,  \* the endpoint of the service, None before the first acquire
  tunnel     \* where the tunnel leads, None while it is down

vars == <<open, granted, endpoint, tunnel>>

Init ==
  /\ open = TRUE
  /\ granted = {}
  /\ endpoint = None
  /\ tunnel = None

\* A lease comes with a tunnel: the one that is up, or one brought up for it.
Grant(s) ==
  /\ open
  /\ SpecOf[s] = endpoint
  /\ granted' = granted \cup {s}
  /\ tunnel' = endpoint
  /\ UNCHANGED <<open, endpoint>>

\* Released by its session, or reclaimed from a dead owner.
Withdraw(S) ==
  /\ open
  /\ granted' = granted \ S
  /\ UNCHANGED <<open, endpoint, tunnel>>

Up ==
  /\ open
  /\ endpoint # None
  /\ tunnel' = endpoint
  /\ UNCHANGED <<open, granted, endpoint>>

Down ==
  /\ open
  /\ tunnel' = None
  /\ UNCHANGED <<open, granted, endpoint>>

Retarget(e) ==
  /\ open
  /\ granted = {}
  /\ endpoint' = e
  /\ tunnel' = None
  /\ UNCHANGED <<open, granted>>

Close ==
  /\ open
  /\ open' = FALSE
  /\ granted' = {}
  /\ tunnel' = None
  /\ UNCHANGED endpoint

Next ==
  \/ \E s \in Sessions : Grant(s)
  \/ \E S \in SUBSET Sessions : Withdraw(S)
  \/ Up \/ Down \/ Close
  \/ \E e \in Specs : Retarget(e)

Spec == Init /\ [][Next]_vars
=============================================================================
