------------------------- MODULE TunnelBrokerProofs -------------------------
(***************************************************************************)
(* Proofs that the tunnel broker keeps its safety properties for every set *)
(* of sessions, owners, endpoints and children, and every bound.           *)
(***************************************************************************)
EXTENDS TunnelBroker, TLAPS

Phases == {"new", "asking", "held", "refused", "gaveup", "releasing", "done",
           "querying"}

\* The oldest request of a non-empty socket queue, and the queue behind it.
LEMMA QueueFacts ==
  ASSUME NEW q \in Seq(Request), q # <<>>
  PROVE  /\ Head(q) \in Request
         /\ Head(q) = q[1]
         /\ 1 \in 1..Len(q)
         /\ Tail(q) \in Seq(Request)
         /\ Len(Tail(q)) = Len(q) - 1
         /\ \A i \in 1..Len(Tail(q)) : i + 1 \in 1..Len(q) /\ Tail(q)[i] = q[i + 1]
OBVIOUS

\* A reply changes the phase of its client only, and makes a session hold a
\* lease only when that client was asking and the answer was positive.
LEMMA AnsweredFacts ==
  ASSUME phase \in [Clients -> Phases], NEW c \in Clients, NEW ok \in BOOLEAN
  PROVE  /\ Answered(c, ok) \in [Clients -> Phases]
         /\ \A d \in Clients : d # c => Answered(c, ok)[d] = phase[d]
         /\ Answered(c, ok)[c] = "held" => phase[c] = "held" \/ (phase[c] = "asking" /\ ok)
         /\ \A d \in Clients : phase[d] \in {"releasing", "done"}
                                 => Answered(c, ok)[d] \in {"releasing", "done"}
  BY DEF Answered, Settled, Phases

LEMMA DisconnectedFacts ==
  ASSUME phase \in [Clients -> Phases]
  PROVE  /\ Disconnected \in [Clients -> Phases]
         /\ \A d \in Clients : Disconnected[d] = "held" => phase[d] = "held"
  BY DEF Disconnected, Settled, Phases

\* The delay stays within its cap when it is doubled.
LEMMA DoubledFacts ==
  ASSUME delay \in 1..MaxDelay
  PROVE  Doubled \in 1..MaxDelay
  BY BoundAssumption DEF Doubled

\* An outcome is a truth value.
LEMMA OutcomeFacts == \A ok \in Outcome : ok \in BOOLEAN
  BY BoundAssumption DEF Outcome

\* A failed _start_ssh answers the pending acquire with an error, or backs off.
LEMMA RaisesFacts ==
  ASSUME TypeOK, StartRaises
  PROVE  /\ phase' \in [Clients -> Phases]
         /\ restartIn' \in 0..MaxDelay /\ delay' \in 1..MaxDelay
         /\ \A d \in Clients : phase'[d] = "held" => phase[d] = "held"
         /\ \A d \in Clients : phase[d] \in {"releasing", "done"}
                                 => phase'[d] \in {"releasing", "done"}
<1>1. CASE req = None
  <2>1. phase' = phase /\ restartIn' = delay /\ delay' = Doubled
    BY <1>1 DEF StartRaises, BackOff
  <2>. QED
    BY <2>1, DoubledFacts, BoundAssumption DEF TypeOK, Phases
<1>2. CASE req # None
  <2>1. phase' = Answered(req, FALSE) /\ restartIn' = restartIn /\ delay' = delay
    BY <1>2 DEF StartRaises
  <2>2. req \in Clients
    BY <1>2 DEF TypeOK, Clients
  <2>3. phase \in [Clients -> Phases] /\ FALSE \in BOOLEAN
    BY DEF TypeOK, Phases
  <2>4. /\ Answered(req, FALSE) \in [Clients -> Phases]
        /\ \A d \in Clients : d # req => Answered(req, FALSE)[d] = phase[d]
        /\ Answered(req, FALSE)[req] = "held" => phase[req] = "held"
        /\ \A d \in Clients : phase[d] \in {"releasing", "done"}
                                 => Answered(req, FALSE)[d] \in {"releasing", "done"}
    BY <2>2, <2>3, AnsweredFacts
  <2>. QED
    BY <2>1, <2>2, <2>4 DEF TypeOK
<1>. QED
  BY <1>1, <1>2

\* The request being served: who sent it and what is left in the queue.
LEMMA ServingFacts ==
  ASSUME TypeOK, InboxInv, NEW cmd, Serving(cmd)
  PROVE  /\ Client \in Clients
         /\ cmd \in {"acquire", "release"} <=> Client \in Sessions
         /\ cmd = "release" => phase[Client] \in {"releasing", "done"}
         /\ inbox' \in Seq(Request)
         /\ \A i \in 1..Len(inbox') : i + 1 \in 1..Len(inbox) /\ inbox'[i] = inbox[i + 1]
  BY QueueFacts DEF TypeOK, InboxInv, Serving, Client, Request

\* Whatever the answer, only an acquire can make a session hold a lease, and
\* the queue stays honest about releases.
LEMMA ReplyFacts ==
  ASSUME TypeOK, InboxInv, NEW cmd, Serving(cmd), NEW ok \in BOOLEAN,
         phase' = Answered(Client, ok)
  PROVE  /\ \A s \in Sessions : phase'[s] = "held"
              => phase[s] = "held" \/ (s = Client /\ cmd = "acquire" /\ ok)
         /\ InboxInv'
<1>1. phase \in [Clients -> Phases] /\ Client \in Clients
  BY ServingFacts DEF TypeOK, Phases
<1>2. /\ \A d \in Clients : d # Client => phase'[d] = phase[d]
      /\ phase'[Client] = "held" => phase[Client] = "held" \/ (phase[Client] = "asking" /\ ok)
      /\ \A d \in Clients : phase[d] \in {"releasing", "done"}
                              => phase'[d] \in {"releasing", "done"}
  BY <1>1, AnsweredFacts
<1>3. Client \in Sessions => cmd \in {"acquire", "release"}
  BY ServingFacts
<1>4. cmd = "release" => phase[Client] \in {"releasing", "done"}
  BY ServingFacts
<1>5. \A s \in Sessions : phase'[s] = "held"
         => phase[s] = "held" \/ (s = Client /\ cmd = "acquire" /\ ok)
  BY <1>1, <1>2, <1>3, <1>4 DEF Clients
<1>6. \A i \in 1..Len(inbox') : i + 1 \in 1..Len(inbox) /\ inbox'[i] = inbox[i + 1]
  BY ServingFacts
<1>7. InboxInv'
  BY <1>2, <1>6 DEF InboxInv, Clients
<1>. QED
  BY <1>5, <1>7

\* Every step keeps the types.
LEMMA TypeStep ==
  ASSUME TypeOK, ControlInv, InboxInv, [Next]_vars
  PROVE  TypeOK'
<1>1. CASE LoopEnds
  BY <1>1, SetsAssumption, SessionAssumption, BoundAssumption
  DEF LoopEnds, LeaveLoop, TypeOK, Phases, Outcome, brokerVars, childVars, relayVars
<1>2. CASE ReapLeases
  BY <1>2, SetsAssumption, SessionAssumption, BoundAssumption
  DEF ReapLeases, LeaveLoop, TypeOK, Phases, Outcome, brokerVars, childVars, relayVars
<1>3. CASE PollChild
  <2> pc' \in {"restart", "closing"} /\ cause' \in {cause, "error"}
    BY <1>3 DEF PollChild, LeaveLoop
  <2> restartIn' \in 0..MaxDelay /\ delay' \in 1..MaxDelay
    BY <1>3, DoubledFacts, BoundAssumption DEF PollChild, BackOff, TypeOK
  <2> ssh' \in Children \cup {None} /\ backend' \in Children \cup {None}
    BY <1>3 DEF PollChild, TypeOK
  <2>. QED
    BY <1>3 DEF PollChild, TypeOK, childVars, relayVars
<1>4. CASE NoRestart
  BY <1>4, SetsAssumption, SessionAssumption, BoundAssumption
  DEF NoRestart, TypeOK, Phases, Outcome, brokerVars, childVars, relayVars
<1>5. ASSUME NEW c \in Children, Restart(c) PROVE TypeOK'
  BY <1>5, SetsAssumption, SessionAssumption, BoundAssumption
  DEF Restart, RestartDue, TypeOK, Phases, Outcome, brokerVars, childVars, relayVars
<1>6. CASE RestartNotForked
  BY <1>6, SetsAssumption, SessionAssumption, BoundAssumption, DoubledFacts
  DEF RestartNotForked, RestartDue, LeaveLoop, BackOff, TypeOK, Phases, Outcome, brokerVars, childVars, relayVars
<1>7. CASE IdleCheck
  BY <1>7, SetsAssumption, SessionAssumption, BoundAssumption
  DEF IdleCheck, Idle, LeaveLoop, TypeOK, Phases, Outcome, brokerVars, childVars, relayVars
<1>8. CASE AcceptTimeout
  BY <1>8, SetsAssumption, SessionAssumption, BoundAssumption
  DEF AcceptTimeout, TypeOK, Phases, Outcome, brokerVars, childVars, relayVars
<1>9. CASE StartReady
  <2>1. phase' \in [Clients -> Phases] /\ leases' \subseteq Sessions
    <3>1. CASE req = None
      BY <1>9, <3>1 DEF StartReady, ResetBackoff, TypeOK, Phases
    <3>2. CASE req # None
      <4>1. PICK ok \in BOOLEAN : phase' = Answered(req, ok)
        BY <1>9, <3>2, OutcomeFacts DEF StartReady
      <4>2. req \in Sessions /\ leases' = leases \cup {req}
        BY <1>9, <3>2 DEF StartReady, ResetBackoff, TypeOK
      <4>. QED
        BY <4>1, <4>2, AnsweredFacts DEF TypeOK, Phases, Clients
    <3>. QED
      BY <3>1, <3>2
  <2>. QED
    BY <1>9, <2>1, BoundAssumption DEF StartReady, ResetBackoff, Resume, TypeOK, Phases, childVars, relayVars
<1>10. CASE StartReadyUnwritten
  BY <1>10, SetsAssumption, SessionAssumption, BoundAssumption
  DEF StartReadyUnwritten, ResetBackoff, TypeOK, Phases, Outcome, brokerVars, childVars, relayVars
<1>11. CASE StartExited
  <2>1. StartRaises
    BY <1>11 DEF StartExited
  <2>2. phase' \in [Clients -> Phases] /\ restartIn' \in 0..MaxDelay /\ delay' \in 1..MaxDelay
    BY <2>1, RaisesFacts DEF TypeOK, Phases
  <2>. QED
    BY <1>11, <2>2 DEF StartExited, StartRaises, Resume, EndChildren, TypeOK, Phases
<1>12. CASE StartTimeout
  <2>1. StartRaises
    BY <1>12 DEF StartTimeout
  <2>2. phase' \in [Clients -> Phases] /\ restartIn' \in 0..MaxDelay /\ delay' \in 1..MaxDelay
    BY <2>1, RaisesFacts DEF TypeOK, Phases
  <2>. QED
    BY <1>12, <2>2 DEF StartTimeout, StartRaises, Resume, EndChildren, TypeOK, Phases
<1>13. CASE ServeStatus
  BY <1>13, SetsAssumption, SessionAssumption, BoundAssumption, QueueFacts, AnsweredFacts
  DEF ServeStatus, Serving, Client, TypeOK, Phases, Outcome, brokerVars, childVars, relayVars, Request, Clients
<1>14. CASE ServeShutdown
  BY <1>14, SetsAssumption, SessionAssumption, BoundAssumption, QueueFacts, AnsweredFacts
  DEF ServeShutdown, MayStop, Serving, Client, TypeOK, Phases, Outcome, brokerVars, childVars, relayVars, Request, Clients
<1>15. CASE ServeRelease
  <2> Client \in Sessions /\ inbox' \in Seq(Request)
    BY <1>15, ServingFacts DEF ServeRelease
  <2> phase' \in [Clients -> Phases]
    BY <1>15, AnsweredFacts DEF ServeRelease, TypeOK, Phases, Clients
  <2> idleFor' \in 0..IdleLimit
    BY <1>15, BoundAssumption DEF ServeRelease, TypeOK
  <2> leases' \subseteq Sessions
    BY <1>15 DEF ServeRelease, TypeOK
  <2>. QED
    BY <1>15 DEF ServeRelease, TypeOK, Phases, childVars, relayVars
<1>16. CASE AcquireRefused
  BY <1>16, SetsAssumption, SessionAssumption, BoundAssumption, QueueFacts, AnsweredFacts
  DEF AcquireRefused, Serving, Client, TypeOK, Phases, Outcome, brokerVars, childVars, relayVars, Request, Clients
<1>17. CASE AcquireShared
  <2> Client \in Sessions /\ inbox' \in Seq(Request)
    BY <1>17, ServingFacts DEF AcquireShared
  <2> phase' \in [Clients -> Phases]
    <3>1. PICK ok \in BOOLEAN : phase' = Answered(Client, ok)
      BY <1>17, OutcomeFacts DEF AcquireShared
    <3>. QED
      BY <3>1, AnsweredFacts DEF TypeOK, Phases, Clients
  <2>. QED
    BY <1>17, SessionAssumption DEF AcquireShared, TypeOK, Phases, childVars, relayVars
<1>18. ASSUME NEW c \in Children, AcquireStarts(c) PROVE TypeOK'
  <2> Client \in Sessions /\ inbox' \in Seq(Request)
    BY <1>18, ServingFacts DEF AcquireStarts, Retarget
  <2> phase' \in [Clients -> Phases]
    BY <1>18, AnsweredFacts DEF AcquireStarts, Retarget, Outcome, TypeOK, Phases, Clients
  <2>. QED
    BY <1>18, SessionAssumption DEF AcquireStarts, Retarget, Stopped, TypeOK, Phases, childVars, relayVars
<1>19. CASE AcquireNotForked
  <2> Client \in Sessions /\ inbox' \in Seq(Request)
    BY <1>19, ServingFacts DEF AcquireNotForked, Retarget
  <2> phase' \in [Clients -> Phases]
    BY <1>19, AnsweredFacts DEF AcquireNotForked, Retarget, Outcome, TypeOK, Phases, Clients
  <2>. QED
    BY <1>19, SessionAssumption DEF AcquireNotForked, Retarget, EndChildren, Stopped, TypeOK, Phases, childVars, relayVars
<1>20. CASE CloseTunnel
  BY <1>20, SetsAssumption, SessionAssumption, BoundAssumption
  DEF CloseTunnel, EndChildren, TypeOK, Phases, Outcome, brokerVars, childVars, relayVars
<1>21. CASE CloseControl
  BY <1>21, SetsAssumption, SessionAssumption, BoundAssumption, DisconnectedFacts
  DEF CloseControl, TypeOK, Phases, Outcome, brokerVars, childVars, relayVars
<1>22. CASE Crash
  BY <1>22, SetsAssumption, SessionAssumption, BoundAssumption, DisconnectedFacts
  DEF Crash, TypeOK, Phases, Outcome, brokerVars, childVars, relayVars
<1>23. ASSUME NEW s \in Sessions, Ask(s) PROVE TypeOK'
  BY <1>23, SetsAssumption, SessionAssumption, BoundAssumption
  DEF Ask, Send, TypeOK, Phases, Outcome, brokerVars, childVars, relayVars, Request, Clients
<1>24. ASSUME NEW s \in Sessions, Release(s) PROVE TypeOK'
  BY <1>24, SetsAssumption, SessionAssumption, BoundAssumption
  DEF Release, Send, TypeOK, Phases, Outcome, brokerVars, childVars, relayVars, Request, Clients
<1>25. ASSUME NEW cmd \in {"status", "shutdown"}, Query(cmd) PROVE TypeOK'
  BY <1>25, SetsAssumption, SessionAssumption, BoundAssumption
  DEF Query, Send, TypeOK, Phases, Outcome, brokerVars, childVars, relayVars, Request, Clients
<1>26. ASSUME NEW s \in Sessions, GiveUp(s) PROVE TypeOK'
  <2> phase' \in [Clients -> Phases]
    BY <1>26 DEF GiveUp, TypeOK, Phases, Clients
  <2>. QED
    BY <1>26 DEF GiveUp, TypeOK, Phases, brokerVars, childVars, relayVars
<1>27. ASSUME NEW o \in Owners, OwnerDies(o) PROVE TypeOK'
  BY <1>27, SetsAssumption, SessionAssumption, BoundAssumption
  DEF OwnerDies, TypeOK, Phases, Outcome, brokerVars, childVars, relayVars
<1>28. ASSUME NEW c \in Children, ChildExits(c) PROVE TypeOK'
  BY <1>28, SetsAssumption, SessionAssumption, BoundAssumption
  DEF ChildExits, EndChildren, TypeOK, Phases, Outcome, brokerVars, childVars, relayVars
<1>29. ASSUME NEW c \in Children, ForwardLost(c) PROVE TypeOK'
  BY <1>29, SetsAssumption, SessionAssumption, BoundAssumption
  DEF ForwardLost, TypeOK, Phases, Outcome, brokerVars, childVars, relayVars
<1>30. ASSUME NEW s \in Dialers, Connect(s) PROVE TypeOK'
  BY <1>30, SetsAssumption, SessionAssumption, BoundAssumption
  DEF Connect, TypeOK, Phases, Outcome, brokerVars, childVars, relayVars
<1>31. ASSUME NEW s \in Dialers, Attach(s) PROVE TypeOK'
  BY <1>31, SetsAssumption, SessionAssumption, BoundAssumption
  DEF Attach, TypeOK, Phases, Outcome, brokerVars, childVars, relayVars
<1>32. ASSUME NEW s \in Dialers, AttachTimeout(s) PROVE TypeOK'
  BY <1>32, SetsAssumption, SessionAssumption, BoundAssumption
  DEF AttachTimeout, TypeOK, Phases, Outcome, brokerVars, childVars, relayVars
<1>33. ASSUME NEW s \in Dialers, Hangup(s) PROVE TypeOK'
  BY <1>33, SetsAssumption, SessionAssumption, BoundAssumption
  DEF Hangup, TypeOK, Phases, Outcome, brokerVars, childVars, relayVars
<1>34. CASE Tick
  BY <1>34, SetsAssumption, SessionAssumption, BoundAssumption
  DEF Tick, TypeOK, Phases, Outcome, brokerVars, childVars, relayVars
<1>35. CASE UNCHANGED vars
  BY <1>35
  DEF vars, TypeOK, Phases, Outcome, brokerVars, childVars, relayVars
<1>. QED
  BY <1>1, <1>2, <1>3, <1>4, <1>5, <1>6, <1>7, <1>8, <1>9, <1>10, <1>11,
     <1>12, <1>13, <1>14, <1>15, <1>16, <1>17, <1>18, <1>19, <1>20, <1>21, <1>22,
     <1>23, <1>24, <1>25, <1>26, <1>27, <1>28, <1>29, <1>30, <1>31, <1>32, <1>33,
     <1>34, <1>35
  DEF Next, BrokerStep, LoopHead, StartEnds, Serve, Environment

\* Every step keeps the control invariant.
LEMMA ControlStep ==
  ASSUME TypeOK, ControlInv, InboxInv, [Next]_vars
  PROVE  ControlInv'
<1>1. CASE LoopEnds
  BY <1>1, SetsAssumption
  DEF LoopEnds, LeaveLoop, TypeOK, ControlInv, brokerVars, childVars, relayVars
<1>2. CASE ReapLeases
  BY <1>2, SetsAssumption
  DEF ReapLeases, LeaveLoop, TypeOK, ControlInv, brokerVars, childVars, relayVars
<1>3. CASE PollChild
  BY <1>3, SetsAssumption
  DEF PollChild, LeaveLoop, BackOff, TypeOK, ControlInv, brokerVars, childVars, relayVars
<1>4. CASE NoRestart
  BY <1>4, SetsAssumption
  DEF NoRestart, TypeOK, ControlInv, brokerVars, childVars, relayVars
<1>5. ASSUME NEW c \in Children, Restart(c) PROVE ControlInv'
  BY <1>5, SetsAssumption
  DEF Restart, RestartDue, TypeOK, ControlInv, brokerVars, childVars, relayVars
<1>6. CASE RestartNotForked
  BY <1>6, SetsAssumption
  DEF RestartNotForked, RestartDue, LeaveLoop, BackOff, TypeOK, ControlInv, brokerVars, childVars, relayVars
<1>7. CASE IdleCheck
  BY <1>7, SetsAssumption
  DEF IdleCheck, Idle, LeaveLoop, TypeOK, ControlInv, brokerVars, childVars, relayVars
<1>8. CASE AcceptTimeout
  BY <1>8, SetsAssumption
  DEF AcceptTimeout, TypeOK, ControlInv, brokerVars, childVars, relayVars
<1>9. CASE StartReady
  BY <1>9, SetsAssumption
  DEF StartReady, ResetBackoff, Resume, TypeOK, ControlInv, brokerVars, childVars, relayVars
<1>10. CASE StartReadyUnwritten
  BY <1>10, SetsAssumption
  DEF StartReadyUnwritten, ResetBackoff, TypeOK, ControlInv, brokerVars, childVars, relayVars
<1>11. CASE StartExited
  BY <1>11, SetsAssumption
  DEF StartExited, StartRaises, Resume, BackOff, TypeOK, ControlInv, brokerVars, childVars, relayVars
<1>12. CASE StartTimeout
  BY <1>12, SetsAssumption
  DEF StartTimeout, StartRaises, EndChildren, Resume, BackOff, TypeOK, ControlInv, brokerVars, childVars, relayVars
<1>13. CASE ServeStatus
  BY <1>13, SetsAssumption, ServingFacts
  DEF ServeStatus, Serving, Client, TypeOK, ControlInv, brokerVars, childVars, relayVars
<1>14. CASE ServeShutdown
  BY <1>14, SetsAssumption, ServingFacts
  DEF ServeShutdown, MayStop, Serving, Client, TypeOK, ControlInv, brokerVars, childVars, relayVars
<1>15. CASE ServeRelease
  BY <1>15, SetsAssumption, ServingFacts
  DEF ServeRelease, Serving, Client, TypeOK, ControlInv, brokerVars, childVars, relayVars
<1>16. CASE AcquireRefused
  BY <1>16, SetsAssumption, ServingFacts
  DEF AcquireRefused, Serving, Client, TypeOK, ControlInv, brokerVars, childVars, relayVars
<1>17. CASE AcquireShared
  BY <1>17, SetsAssumption, ServingFacts
  DEF AcquireShared, Serving, Client, TypeOK, ControlInv, brokerVars, childVars, relayVars
<1>18. ASSUME NEW c \in Children, AcquireStarts(c) PROVE ControlInv'
  BY <1>18, SetsAssumption, ServingFacts
  DEF AcquireStarts, Retarget, Stopped, Serving, Client, TypeOK, ControlInv, brokerVars, childVars, relayVars
<1>19. CASE AcquireNotForked
  BY <1>19, SetsAssumption, ServingFacts
  DEF AcquireNotForked, Retarget, Stopped, EndChildren, Serving, Client, TypeOK, ControlInv, brokerVars, childVars, relayVars
<1>20. CASE CloseTunnel
  BY <1>20, SetsAssumption
  DEF CloseTunnel, EndChildren, TypeOK, ControlInv, brokerVars, childVars, relayVars
<1>21. CASE CloseControl
  BY <1>21, SetsAssumption
  DEF CloseControl, TypeOK, ControlInv, brokerVars, childVars, relayVars
<1>22. CASE Crash
  BY <1>22, SetsAssumption
  DEF Crash, TypeOK, ControlInv, brokerVars, childVars, relayVars
<1>23. ASSUME NEW s \in Sessions, Ask(s) PROVE ControlInv'
  BY <1>23, SetsAssumption
  DEF Ask, Send, TypeOK, ControlInv, brokerVars, childVars, relayVars
<1>24. ASSUME NEW s \in Sessions, Release(s) PROVE ControlInv'
  BY <1>24, SetsAssumption
  DEF Release, Send, TypeOK, ControlInv, brokerVars, childVars, relayVars
<1>25. ASSUME NEW cmd \in {"status", "shutdown"}, Query(cmd) PROVE ControlInv'
  BY <1>25, SetsAssumption
  DEF Query, Send, TypeOK, ControlInv, brokerVars, childVars, relayVars
<1>26. ASSUME NEW s \in Sessions, GiveUp(s) PROVE ControlInv'
  BY <1>26, SetsAssumption
  DEF GiveUp, TypeOK, ControlInv, brokerVars, childVars, relayVars
<1>27. ASSUME NEW o \in Owners, OwnerDies(o) PROVE ControlInv'
  BY <1>27, SetsAssumption
  DEF OwnerDies, TypeOK, ControlInv, brokerVars, childVars, relayVars
<1>28. ASSUME NEW c \in Children, ChildExits(c) PROVE ControlInv'
  BY <1>28, SetsAssumption
  DEF ChildExits, EndChildren, TypeOK, ControlInv, brokerVars, childVars, relayVars
<1>29. ASSUME NEW c \in Children, ForwardLost(c) PROVE ControlInv'
  BY <1>29, SetsAssumption
  DEF ForwardLost, TypeOK, ControlInv, brokerVars, childVars, relayVars
<1>30. ASSUME NEW s \in Dialers, Connect(s) PROVE ControlInv'
  BY <1>30, SetsAssumption
  DEF Connect, TypeOK, ControlInv, brokerVars, childVars, relayVars
<1>31. ASSUME NEW s \in Dialers, Attach(s) PROVE ControlInv'
  BY <1>31, SetsAssumption
  DEF Attach, TypeOK, ControlInv, brokerVars, childVars, relayVars
<1>32. ASSUME NEW s \in Dialers, AttachTimeout(s) PROVE ControlInv'
  BY <1>32, SetsAssumption
  DEF AttachTimeout, TypeOK, ControlInv, brokerVars, childVars, relayVars
<1>33. ASSUME NEW s \in Dialers, Hangup(s) PROVE ControlInv'
  BY <1>33, SetsAssumption
  DEF Hangup, TypeOK, ControlInv, brokerVars, childVars, relayVars
<1>34. CASE Tick
  BY <1>34, SetsAssumption
  DEF Tick, TypeOK, ControlInv, brokerVars, childVars, relayVars
<1>35. CASE UNCHANGED vars
  BY <1>35
  DEF vars, TypeOK, ControlInv, brokerVars, childVars, relayVars
<1>. QED
  BY <1>1, <1>2, <1>3, <1>4, <1>5, <1>6, <1>7, <1>8, <1>9, <1>10, <1>11,
     <1>12, <1>13, <1>14, <1>15, <1>16, <1>17, <1>18, <1>19, <1>20, <1>21, <1>22,
     <1>23, <1>24, <1>25, <1>26, <1>27, <1>28, <1>29, <1>30, <1>31, <1>32, <1>33,
     <1>34, <1>35
  DEF Next, BrokerStep, LoopHead, StartEnds, Serve, Environment

\* Every step keeps track of the children.
LEMMA ChildStep ==
  ASSUME TypeOK, ControlInv, ChildInv, LeaseInv, InboxInv, [Next]_vars
  PROVE  ChildInv'
<1>1. CASE LoopEnds
  BY <1>1, SetsAssumption, SessionAssumption
  DEF LoopEnds, LeaveLoop, TypeOK, ControlInv, ChildInv, brokerVars, childVars, relayVars
<1>2. CASE ReapLeases
  BY <1>2, SetsAssumption, SessionAssumption
  DEF ReapLeases, LeaveLoop, TypeOK, ControlInv, ChildInv, brokerVars, childVars, relayVars
<1>3. CASE PollChild
  BY <1>3, SetsAssumption, SessionAssumption
  DEF PollChild, LeaveLoop, BackOff, TypeOK, ControlInv, ChildInv, brokerVars, childVars, relayVars
<1>4. CASE NoRestart
  BY <1>4, SetsAssumption, SessionAssumption
  DEF NoRestart, TypeOK, ControlInv, ChildInv, brokerVars, childVars, relayVars
<1>5. ASSUME NEW c \in Children, Restart(c) PROVE ChildInv'
  BY <1>5, SetsAssumption, SessionAssumption
  DEF Restart, RestartDue, TypeOK, ControlInv, ChildInv, LeaseInv, brokerVars, childVars, relayVars
<1>6. CASE RestartNotForked
  BY <1>6, SetsAssumption, SessionAssumption
  DEF RestartNotForked, RestartDue, LeaveLoop, BackOff, TypeOK, ControlInv, ChildInv, brokerVars, childVars, relayVars
<1>7. CASE IdleCheck
  BY <1>7, SetsAssumption, SessionAssumption
  DEF IdleCheck, Idle, LeaveLoop, TypeOK, ControlInv, ChildInv, brokerVars, childVars, relayVars
<1>8. CASE AcceptTimeout
  BY <1>8, SetsAssumption, SessionAssumption
  DEF AcceptTimeout, TypeOK, ControlInv, ChildInv, brokerVars, childVars, relayVars
<1>9. CASE StartReady
  BY <1>9, SetsAssumption, SessionAssumption
  DEF StartReady, ResetBackoff, Resume, TypeOK, ControlInv, ChildInv, brokerVars, childVars, relayVars
<1>10. CASE StartReadyUnwritten
  BY <1>10, SetsAssumption, SessionAssumption
  DEF StartReadyUnwritten, ResetBackoff, TypeOK, ControlInv, ChildInv, brokerVars, childVars, relayVars
<1>11. CASE StartExited
  BY <1>11, SetsAssumption, SessionAssumption
  DEF StartExited, StartRaises, Resume, BackOff, TypeOK, ControlInv, ChildInv, brokerVars, childVars, relayVars
<1>12. CASE StartTimeout
  BY <1>12, SetsAssumption, SessionAssumption
  DEF StartTimeout, StartRaises, EndChildren, Resume, BackOff, TypeOK, ControlInv, ChildInv, brokerVars, childVars, relayVars
<1>13. CASE ServeStatus
  BY <1>13, SetsAssumption, SessionAssumption, ServingFacts
  DEF ServeStatus, Serving, Client, TypeOK, ControlInv, ChildInv, brokerVars, childVars, relayVars
<1>14. CASE ServeShutdown
  BY <1>14, SetsAssumption, SessionAssumption, ServingFacts
  DEF ServeShutdown, MayStop, Serving, Client, TypeOK, ControlInv, ChildInv, brokerVars, childVars, relayVars
<1>15. CASE ServeRelease
  BY <1>15, SetsAssumption, SessionAssumption, ServingFacts
  DEF ServeRelease, Serving, Client, TypeOK, ControlInv, ChildInv, brokerVars, childVars, relayVars
<1>16. CASE AcquireRefused
  BY <1>16, SetsAssumption, SessionAssumption, ServingFacts
  DEF AcquireRefused, Serving, Client, TypeOK, ControlInv, ChildInv, brokerVars, childVars, relayVars
<1>17. CASE AcquireShared
  BY <1>17, SetsAssumption, SessionAssumption, ServingFacts
  DEF AcquireShared, Serving, Client, TypeOK, ControlInv, ChildInv, brokerVars, childVars, relayVars
<1>18. ASSUME NEW c \in Children, AcquireStarts(c) PROVE ChildInv'
  BY <1>18, SetsAssumption, SessionAssumption, ServingFacts
  DEF AcquireStarts, Retarget, Stopped, Serving, Client, TypeOK, ControlInv, ChildInv, brokerVars, childVars, relayVars
<1>19. CASE AcquireNotForked
  BY <1>19, SetsAssumption, SessionAssumption, ServingFacts
  DEF AcquireNotForked, Retarget, Stopped, EndChildren, Serving, Client, TypeOK, ControlInv, ChildInv, brokerVars, childVars, relayVars
<1>20. CASE CloseTunnel
  BY <1>20, SetsAssumption, SessionAssumption
  DEF CloseTunnel, EndChildren, TypeOK, ControlInv, ChildInv, brokerVars, childVars, relayVars
<1>21. CASE CloseControl
  BY <1>21, SetsAssumption, SessionAssumption
  DEF CloseControl, TypeOK, ControlInv, ChildInv, brokerVars, childVars, relayVars
<1>22. CASE Crash
  BY <1>22, SetsAssumption, SessionAssumption
  DEF Crash, TypeOK, ControlInv, ChildInv, brokerVars, childVars, relayVars
<1>23. ASSUME NEW s \in Sessions, Ask(s) PROVE ChildInv'
  BY <1>23, SetsAssumption, SessionAssumption
  DEF Ask, Send, TypeOK, ControlInv, ChildInv, brokerVars, childVars, relayVars
<1>24. ASSUME NEW s \in Sessions, Release(s) PROVE ChildInv'
  BY <1>24, SetsAssumption, SessionAssumption
  DEF Release, Send, TypeOK, ControlInv, ChildInv, brokerVars, childVars, relayVars
<1>25. ASSUME NEW cmd \in {"status", "shutdown"}, Query(cmd) PROVE ChildInv'
  BY <1>25, SetsAssumption, SessionAssumption
  DEF Query, Send, TypeOK, ControlInv, ChildInv, brokerVars, childVars, relayVars
<1>26. ASSUME NEW s \in Sessions, GiveUp(s) PROVE ChildInv'
  BY <1>26, SetsAssumption, SessionAssumption
  DEF GiveUp, TypeOK, ControlInv, ChildInv, brokerVars, childVars, relayVars
<1>27. ASSUME NEW o \in Owners, OwnerDies(o) PROVE ChildInv'
  BY <1>27, SetsAssumption, SessionAssumption
  DEF OwnerDies, TypeOK, ControlInv, ChildInv, brokerVars, childVars, relayVars
<1>28. ASSUME NEW c \in Children, ChildExits(c) PROVE ChildInv'
  BY <1>28, SetsAssumption, SessionAssumption
  DEF ChildExits, EndChildren, TypeOK, ControlInv, ChildInv, brokerVars, childVars, relayVars
<1>29. ASSUME NEW c \in Children, ForwardLost(c) PROVE ChildInv'
  BY <1>29, SetsAssumption, SessionAssumption
  DEF ForwardLost, TypeOK, ControlInv, ChildInv, brokerVars, childVars, relayVars
<1>30. ASSUME NEW s \in Dialers, Connect(s) PROVE ChildInv'
  BY <1>30, SetsAssumption, SessionAssumption
  DEF Connect, TypeOK, ControlInv, ChildInv, brokerVars, childVars, relayVars
<1>31. ASSUME NEW s \in Dialers, Attach(s) PROVE ChildInv'
  BY <1>31, SetsAssumption, SessionAssumption
  DEF Attach, TypeOK, ControlInv, ChildInv, brokerVars, childVars, relayVars
<1>32. ASSUME NEW s \in Dialers, AttachTimeout(s) PROVE ChildInv'
  BY <1>32, SetsAssumption, SessionAssumption
  DEF AttachTimeout, TypeOK, ControlInv, ChildInv, brokerVars, childVars, relayVars
<1>33. ASSUME NEW s \in Dialers, Hangup(s) PROVE ChildInv'
  BY <1>33, SetsAssumption, SessionAssumption
  DEF Hangup, TypeOK, ControlInv, ChildInv, brokerVars, childVars, relayVars
<1>34. CASE Tick
  BY <1>34, SetsAssumption, SessionAssumption
  DEF Tick, TypeOK, ControlInv, ChildInv, brokerVars, childVars, relayVars
<1>35. CASE UNCHANGED vars
  BY <1>35
  DEF vars, TypeOK, ControlInv, ChildInv, brokerVars, childVars, relayVars
<1>. QED
  BY <1>1, <1>2, <1>3, <1>4, <1>5, <1>6, <1>7, <1>8, <1>9, <1>10, <1>11,
     <1>12, <1>13, <1>14, <1>15, <1>16, <1>17, <1>18, <1>19, <1>20, <1>21, <1>22,
     <1>23, <1>24, <1>25, <1>26, <1>27, <1>28, <1>29, <1>30, <1>31, <1>32, <1>33,
     <1>34, <1>35
  DEF Next, BrokerStep, LoopHead, StartEnds, Serve, Environment

\* Every step keeps leases on the present endpoint.
LEMMA LeaseStep ==
  ASSUME TypeOK, ControlInv, LeaseInv, InboxInv, [Next]_vars
  PROVE  LeaseInv'
<1>1. CASE LoopEnds
  BY <1>1, SetsAssumption, SessionAssumption
  DEF LoopEnds, LeaveLoop, TypeOK, ControlInv, LeaseInv, LeasesShareEndpoint, Acceptable, brokerVars, childVars, relayVars
<1>2. CASE ReapLeases
  BY <1>2, SetsAssumption, SessionAssumption
  DEF ReapLeases, LeaveLoop, TypeOK, ControlInv, LeaseInv, LeasesShareEndpoint, Acceptable, brokerVars, childVars, relayVars
<1>3. CASE PollChild
  BY <1>3, SetsAssumption, SessionAssumption
  DEF PollChild, LeaveLoop, BackOff, TypeOK, ControlInv, LeaseInv, LeasesShareEndpoint, Acceptable, brokerVars, childVars, relayVars
<1>4. CASE NoRestart
  BY <1>4, SetsAssumption, SessionAssumption
  DEF NoRestart, TypeOK, ControlInv, LeaseInv, LeasesShareEndpoint, Acceptable, brokerVars, childVars, relayVars
<1>5. ASSUME NEW c \in Children, Restart(c) PROVE LeaseInv'
  BY <1>5, SetsAssumption, SessionAssumption
  DEF Restart, RestartDue, TypeOK, ControlInv, LeaseInv, LeasesShareEndpoint, Acceptable, brokerVars, childVars, relayVars
<1>6. CASE RestartNotForked
  BY <1>6, SetsAssumption, SessionAssumption
  DEF RestartNotForked, RestartDue, LeaveLoop, BackOff, TypeOK, ControlInv, LeaseInv, LeasesShareEndpoint, Acceptable, brokerVars, childVars, relayVars
<1>7. CASE IdleCheck
  BY <1>7, SetsAssumption, SessionAssumption
  DEF IdleCheck, Idle, LeaveLoop, TypeOK, ControlInv, LeaseInv, LeasesShareEndpoint, Acceptable, brokerVars, childVars, relayVars
<1>8. CASE AcceptTimeout
  BY <1>8, SetsAssumption, SessionAssumption
  DEF AcceptTimeout, TypeOK, ControlInv, LeaseInv, LeasesShareEndpoint, Acceptable, brokerVars, childVars, relayVars
<1>9. CASE StartReady
  BY <1>9, SetsAssumption, SessionAssumption
  DEF StartReady, ResetBackoff, Resume, TypeOK, ControlInv, LeaseInv, LeasesShareEndpoint, Acceptable, brokerVars, childVars, relayVars
<1>10. CASE StartReadyUnwritten
  BY <1>10, SetsAssumption, SessionAssumption
  DEF StartReadyUnwritten, ResetBackoff, TypeOK, ControlInv, LeaseInv, LeasesShareEndpoint, Acceptable, brokerVars, childVars, relayVars
<1>11. CASE StartExited
  BY <1>11, SetsAssumption, SessionAssumption
  DEF StartExited, StartRaises, Resume, BackOff, TypeOK, ControlInv, LeaseInv, LeasesShareEndpoint, Acceptable, brokerVars, childVars, relayVars
<1>12. CASE StartTimeout
  BY <1>12, SetsAssumption, SessionAssumption
  DEF StartTimeout, StartRaises, EndChildren, Resume, BackOff, TypeOK, ControlInv, LeaseInv, LeasesShareEndpoint, Acceptable, brokerVars, childVars, relayVars
<1>13. CASE ServeStatus
  BY <1>13, SetsAssumption, SessionAssumption, ServingFacts
  DEF ServeStatus, Serving, Client, TypeOK, ControlInv, LeaseInv, LeasesShareEndpoint, Acceptable, brokerVars, childVars, relayVars
<1>14. CASE ServeShutdown
  BY <1>14, SetsAssumption, SessionAssumption, ServingFacts
  DEF ServeShutdown, MayStop, Serving, Client, TypeOK, ControlInv, LeaseInv, LeasesShareEndpoint, Acceptable, brokerVars, childVars, relayVars
<1>15. CASE ServeRelease
  BY <1>15, SetsAssumption, SessionAssumption, ServingFacts
  DEF ServeRelease, Serving, Client, TypeOK, ControlInv, LeaseInv, LeasesShareEndpoint, Acceptable, brokerVars, childVars, relayVars
<1>16. CASE AcquireRefused
  BY <1>16, SetsAssumption, SessionAssumption, ServingFacts
  DEF AcquireRefused, Serving, Client, TypeOK, ControlInv, LeaseInv, LeasesShareEndpoint, Acceptable, brokerVars, childVars, relayVars
<1>17. CASE AcquireShared
  BY <1>17, SetsAssumption, SessionAssumption, ServingFacts
  DEF AcquireShared, Serving, Client, TypeOK, ControlInv, LeaseInv, LeasesShareEndpoint, Acceptable, brokerVars, childVars, relayVars
<1>18. ASSUME NEW c \in Children, AcquireStarts(c) PROVE LeaseInv'
  BY <1>18, SetsAssumption, SessionAssumption, ServingFacts
  DEF AcquireStarts, Retarget, Stopped, Serving, Client, TypeOK, ControlInv, LeaseInv, LeasesShareEndpoint, Acceptable, brokerVars, childVars, relayVars
<1>19. CASE AcquireNotForked
  BY <1>19, SetsAssumption, SessionAssumption, ServingFacts
  DEF AcquireNotForked, Retarget, Stopped, EndChildren, Serving, Client, TypeOK, ControlInv, LeaseInv, LeasesShareEndpoint, Acceptable, brokerVars, childVars, relayVars
<1>20. CASE CloseTunnel
  BY <1>20, SetsAssumption, SessionAssumption
  DEF CloseTunnel, EndChildren, TypeOK, ControlInv, LeaseInv, LeasesShareEndpoint, Acceptable, brokerVars, childVars, relayVars
<1>21. CASE CloseControl
  BY <1>21, SetsAssumption, SessionAssumption
  DEF CloseControl, TypeOK, ControlInv, LeaseInv, LeasesShareEndpoint, Acceptable, brokerVars, childVars, relayVars
<1>22. CASE Crash
  BY <1>22, SetsAssumption, SessionAssumption
  DEF Crash, TypeOK, ControlInv, LeaseInv, LeasesShareEndpoint, Acceptable, brokerVars, childVars, relayVars
<1>23. ASSUME NEW s \in Sessions, Ask(s) PROVE LeaseInv'
  BY <1>23, SetsAssumption, SessionAssumption
  DEF Ask, Send, TypeOK, ControlInv, LeaseInv, LeasesShareEndpoint, Acceptable, brokerVars, childVars, relayVars
<1>24. ASSUME NEW s \in Sessions, Release(s) PROVE LeaseInv'
  BY <1>24, SetsAssumption, SessionAssumption
  DEF Release, Send, TypeOK, ControlInv, LeaseInv, LeasesShareEndpoint, Acceptable, brokerVars, childVars, relayVars
<1>25. ASSUME NEW cmd \in {"status", "shutdown"}, Query(cmd) PROVE LeaseInv'
  BY <1>25, SetsAssumption, SessionAssumption
  DEF Query, Send, TypeOK, ControlInv, LeaseInv, LeasesShareEndpoint, Acceptable, brokerVars, childVars, relayVars
<1>26. ASSUME NEW s \in Sessions, GiveUp(s) PROVE LeaseInv'
  BY <1>26, SetsAssumption, SessionAssumption
  DEF GiveUp, TypeOK, ControlInv, LeaseInv, LeasesShareEndpoint, Acceptable, brokerVars, childVars, relayVars
<1>27. ASSUME NEW o \in Owners, OwnerDies(o) PROVE LeaseInv'
  BY <1>27, SetsAssumption, SessionAssumption
  DEF OwnerDies, TypeOK, ControlInv, LeaseInv, LeasesShareEndpoint, Acceptable, brokerVars, childVars, relayVars
<1>28. ASSUME NEW c \in Children, ChildExits(c) PROVE LeaseInv'
  BY <1>28, SetsAssumption, SessionAssumption
  DEF ChildExits, EndChildren, TypeOK, ControlInv, LeaseInv, LeasesShareEndpoint, Acceptable, brokerVars, childVars, relayVars
<1>29. ASSUME NEW c \in Children, ForwardLost(c) PROVE LeaseInv'
  BY <1>29, SetsAssumption, SessionAssumption
  DEF ForwardLost, TypeOK, ControlInv, LeaseInv, LeasesShareEndpoint, Acceptable, brokerVars, childVars, relayVars
<1>30. ASSUME NEW s \in Dialers, Connect(s) PROVE LeaseInv'
  BY <1>30, SetsAssumption, SessionAssumption
  DEF Connect, TypeOK, ControlInv, LeaseInv, LeasesShareEndpoint, Acceptable, brokerVars, childVars, relayVars
<1>31. ASSUME NEW s \in Dialers, Attach(s) PROVE LeaseInv'
  BY <1>31, SetsAssumption, SessionAssumption
  DEF Attach, TypeOK, ControlInv, LeaseInv, LeasesShareEndpoint, Acceptable, brokerVars, childVars, relayVars
<1>32. ASSUME NEW s \in Dialers, AttachTimeout(s) PROVE LeaseInv'
  BY <1>32, SetsAssumption, SessionAssumption
  DEF AttachTimeout, TypeOK, ControlInv, LeaseInv, LeasesShareEndpoint, Acceptable, brokerVars, childVars, relayVars
<1>33. ASSUME NEW s \in Dialers, Hangup(s) PROVE LeaseInv'
  BY <1>33, SetsAssumption, SessionAssumption
  DEF Hangup, TypeOK, ControlInv, LeaseInv, LeasesShareEndpoint, Acceptable, brokerVars, childVars, relayVars
<1>34. CASE Tick
  BY <1>34, SetsAssumption, SessionAssumption
  DEF Tick, TypeOK, ControlInv, LeaseInv, LeasesShareEndpoint, Acceptable, brokerVars, childVars, relayVars
<1>35. CASE UNCHANGED vars
  BY <1>35
  DEF vars, TypeOK, ControlInv, LeaseInv, LeasesShareEndpoint, Acceptable, brokerVars, childVars, relayVars
<1>. QED
  BY <1>1, <1>2, <1>3, <1>4, <1>5, <1>6, <1>7, <1>8, <1>9, <1>10, <1>11,
     <1>12, <1>13, <1>14, <1>15, <1>16, <1>17, <1>18, <1>19, <1>20, <1>21, <1>22,
     <1>23, <1>24, <1>25, <1>26, <1>27, <1>28, <1>29, <1>30, <1>31, <1>32, <1>33,
     <1>34, <1>35
  DEF Next, BrokerStep, LoopHead, StartEnds, Serve, Environment

\* Every step keeps the backoff of a running child at its minimum.
LEMMA BackoffStep ==
  ASSUME TypeOK, ControlInv, ChildInv, BackoffOnlyWhileDown, [Next]_vars
  PROVE  BackoffOnlyWhileDown'
<1>1. CASE LoopEnds
  BY <1>1, SetsAssumption
  DEF LoopEnds, LeaveLoop, TypeOK, ControlInv, ChildInv, BackoffOnlyWhileDown, brokerVars, childVars, relayVars
<1>2. CASE ReapLeases
  BY <1>2, SetsAssumption
  DEF ReapLeases, LeaveLoop, TypeOK, ControlInv, ChildInv, BackoffOnlyWhileDown, brokerVars, childVars, relayVars
<1>3. CASE PollChild
  BY <1>3, SetsAssumption
  DEF PollChild, LeaveLoop, BackOff, TypeOK, ControlInv, ChildInv, BackoffOnlyWhileDown, brokerVars, childVars, relayVars
<1>4. CASE NoRestart
  BY <1>4, SetsAssumption
  DEF NoRestart, TypeOK, ControlInv, ChildInv, BackoffOnlyWhileDown, brokerVars, childVars, relayVars
<1>5. ASSUME NEW c \in Children, Restart(c) PROVE BackoffOnlyWhileDown'
  BY <1>5, SetsAssumption
  DEF Restart, RestartDue, TypeOK, ControlInv, ChildInv, BackoffOnlyWhileDown, brokerVars, childVars, relayVars
<1>6. CASE RestartNotForked
  BY <1>6, SetsAssumption
  DEF RestartNotForked, RestartDue, LeaveLoop, BackOff, TypeOK, ControlInv, ChildInv, BackoffOnlyWhileDown, brokerVars, childVars, relayVars
<1>7. CASE IdleCheck
  BY <1>7, SetsAssumption
  DEF IdleCheck, Idle, LeaveLoop, TypeOK, ControlInv, ChildInv, BackoffOnlyWhileDown, brokerVars, childVars, relayVars
<1>8. CASE AcceptTimeout
  BY <1>8, SetsAssumption
  DEF AcceptTimeout, TypeOK, ControlInv, ChildInv, BackoffOnlyWhileDown, brokerVars, childVars, relayVars
<1>9. CASE StartReady
  BY <1>9, SetsAssumption
  DEF StartReady, ResetBackoff, Resume, TypeOK, ControlInv, ChildInv, BackoffOnlyWhileDown, brokerVars, childVars, relayVars
<1>10. CASE StartReadyUnwritten
  BY <1>10, SetsAssumption
  DEF StartReadyUnwritten, ResetBackoff, TypeOK, ControlInv, ChildInv, BackoffOnlyWhileDown, brokerVars, childVars, relayVars
<1>11. CASE StartExited
  BY <1>11, SetsAssumption
  DEF StartExited, StartRaises, Resume, BackOff, TypeOK, ControlInv, ChildInv, BackoffOnlyWhileDown, brokerVars, childVars, relayVars
<1>12. CASE StartTimeout
  BY <1>12, SetsAssumption
  DEF StartTimeout, StartRaises, EndChildren, Resume, BackOff, TypeOK, ControlInv, ChildInv, BackoffOnlyWhileDown, brokerVars, childVars, relayVars
<1>13. CASE ServeStatus
  BY <1>13, SetsAssumption
  DEF ServeStatus, Serving, Client, TypeOK, ControlInv, ChildInv, BackoffOnlyWhileDown, brokerVars, childVars, relayVars
<1>14. CASE ServeShutdown
  BY <1>14, SetsAssumption
  DEF ServeShutdown, MayStop, Serving, Client, TypeOK, ControlInv, ChildInv, BackoffOnlyWhileDown, brokerVars, childVars, relayVars
<1>15. CASE ServeRelease
  BY <1>15, SetsAssumption
  DEF ServeRelease, Serving, Client, TypeOK, ControlInv, ChildInv, BackoffOnlyWhileDown, brokerVars, childVars, relayVars
<1>16. CASE AcquireRefused
  BY <1>16, SetsAssumption
  DEF AcquireRefused, Serving, Client, TypeOK, ControlInv, ChildInv, BackoffOnlyWhileDown, brokerVars, childVars, relayVars
<1>17. CASE AcquireShared
  BY <1>17, SetsAssumption
  DEF AcquireShared, Serving, Client, TypeOK, ControlInv, ChildInv, BackoffOnlyWhileDown, brokerVars, childVars, relayVars
<1>18. ASSUME NEW c \in Children, AcquireStarts(c) PROVE BackoffOnlyWhileDown'
  BY <1>18, SetsAssumption
  DEF AcquireStarts, Retarget, Stopped, Serving, Client, TypeOK, ControlInv, ChildInv, BackoffOnlyWhileDown, brokerVars, childVars, relayVars
<1>19. CASE AcquireNotForked
  BY <1>19, SetsAssumption
  DEF AcquireNotForked, Retarget, Stopped, EndChildren, Serving, Client, TypeOK, ControlInv, ChildInv, BackoffOnlyWhileDown, brokerVars, childVars, relayVars
<1>20. CASE CloseTunnel
  BY <1>20, SetsAssumption
  DEF CloseTunnel, EndChildren, TypeOK, ControlInv, ChildInv, BackoffOnlyWhileDown, brokerVars, childVars, relayVars
<1>21. CASE CloseControl
  BY <1>21, SetsAssumption
  DEF CloseControl, TypeOK, ControlInv, ChildInv, BackoffOnlyWhileDown, brokerVars, childVars, relayVars
<1>22. CASE Crash
  BY <1>22, SetsAssumption
  DEF Crash, TypeOK, ControlInv, ChildInv, BackoffOnlyWhileDown, brokerVars, childVars, relayVars
<1>23. ASSUME NEW s \in Sessions, Ask(s) PROVE BackoffOnlyWhileDown'
  BY <1>23, SetsAssumption
  DEF Ask, Send, TypeOK, ControlInv, ChildInv, BackoffOnlyWhileDown, brokerVars, childVars, relayVars
<1>24. ASSUME NEW s \in Sessions, Release(s) PROVE BackoffOnlyWhileDown'
  BY <1>24, SetsAssumption
  DEF Release, Send, TypeOK, ControlInv, ChildInv, BackoffOnlyWhileDown, brokerVars, childVars, relayVars
<1>25. ASSUME NEW cmd \in {"status", "shutdown"}, Query(cmd) PROVE BackoffOnlyWhileDown'
  BY <1>25, SetsAssumption
  DEF Query, Send, TypeOK, ControlInv, ChildInv, BackoffOnlyWhileDown, brokerVars, childVars, relayVars
<1>26. ASSUME NEW s \in Sessions, GiveUp(s) PROVE BackoffOnlyWhileDown'
  BY <1>26, SetsAssumption
  DEF GiveUp, TypeOK, ControlInv, ChildInv, BackoffOnlyWhileDown, brokerVars, childVars, relayVars
<1>27. ASSUME NEW o \in Owners, OwnerDies(o) PROVE BackoffOnlyWhileDown'
  BY <1>27, SetsAssumption
  DEF OwnerDies, TypeOK, ControlInv, ChildInv, BackoffOnlyWhileDown, brokerVars, childVars, relayVars
<1>28. ASSUME NEW c \in Children, ChildExits(c) PROVE BackoffOnlyWhileDown'
  BY <1>28, SetsAssumption
  DEF ChildExits, EndChildren, TypeOK, ControlInv, ChildInv, BackoffOnlyWhileDown, brokerVars, childVars, relayVars
<1>29. ASSUME NEW c \in Children, ForwardLost(c) PROVE BackoffOnlyWhileDown'
  BY <1>29, SetsAssumption
  DEF ForwardLost, TypeOK, ControlInv, ChildInv, BackoffOnlyWhileDown, brokerVars, childVars, relayVars
<1>30. ASSUME NEW s \in Dialers, Connect(s) PROVE BackoffOnlyWhileDown'
  BY <1>30, SetsAssumption
  DEF Connect, TypeOK, ControlInv, ChildInv, BackoffOnlyWhileDown, brokerVars, childVars, relayVars
<1>31. ASSUME NEW s \in Dialers, Attach(s) PROVE BackoffOnlyWhileDown'
  BY <1>31, SetsAssumption
  DEF Attach, TypeOK, ControlInv, ChildInv, BackoffOnlyWhileDown, brokerVars, childVars, relayVars
<1>32. ASSUME NEW s \in Dialers, AttachTimeout(s) PROVE BackoffOnlyWhileDown'
  BY <1>32, SetsAssumption
  DEF AttachTimeout, TypeOK, ControlInv, ChildInv, BackoffOnlyWhileDown, brokerVars, childVars, relayVars
<1>33. ASSUME NEW s \in Dialers, Hangup(s) PROVE BackoffOnlyWhileDown'
  BY <1>33, SetsAssumption
  DEF Hangup, TypeOK, ControlInv, ChildInv, BackoffOnlyWhileDown, brokerVars, childVars, relayVars
<1>34. CASE Tick
  BY <1>34, SetsAssumption
  DEF Tick, TypeOK, ControlInv, ChildInv, BackoffOnlyWhileDown, brokerVars, childVars, relayVars
<1>35. CASE UNCHANGED vars
  BY <1>35
  DEF vars, TypeOK, ControlInv, ChildInv, BackoffOnlyWhileDown, brokerVars, childVars, relayVars
<1>. QED
  BY <1>1, <1>2, <1>3, <1>4, <1>5, <1>6, <1>7, <1>8, <1>9, <1>10, <1>11,
     <1>12, <1>13, <1>14, <1>15, <1>16, <1>17, <1>18, <1>19, <1>20, <1>21, <1>22,
     <1>23, <1>24, <1>25, <1>26, <1>27, <1>28, <1>29, <1>30, <1>31, <1>32, <1>33,
     <1>34, <1>35
  DEF Next, BrokerStep, LoopHead, StartEnds, Serve, Environment

\* Every step keeps the queue honest about releases.
LEMMA InboxStep ==
  ASSUME TypeOK, InboxInv, [Next]_vars
  PROVE  InboxInv'
<1>1. CASE LoopEnds
  BY <1>1
  DEF LoopEnds, LeaveLoop, TypeOK, InboxInv, Request, brokerVars, childVars, relayVars
<1>2. CASE ReapLeases
  BY <1>2
  DEF ReapLeases, LeaveLoop, TypeOK, InboxInv, Request, brokerVars, childVars, relayVars
<1>3. CASE PollChild
  BY <1>3
  DEF PollChild, LeaveLoop, BackOff, TypeOK, InboxInv, Request, brokerVars, childVars, relayVars
<1>4. CASE NoRestart
  BY <1>4
  DEF NoRestart, TypeOK, InboxInv, Request, brokerVars, childVars, relayVars
<1>5. ASSUME NEW c \in Children, Restart(c) PROVE InboxInv'
  BY <1>5
  DEF Restart, RestartDue, TypeOK, InboxInv, Request, brokerVars, childVars, relayVars
<1>6. CASE RestartNotForked
  BY <1>6
  DEF RestartNotForked, RestartDue, LeaveLoop, BackOff, TypeOK, InboxInv, Request, brokerVars, childVars, relayVars
<1>7. CASE IdleCheck
  BY <1>7
  DEF IdleCheck, Idle, LeaveLoop, TypeOK, InboxInv, Request, brokerVars, childVars, relayVars
<1>8. CASE AcceptTimeout
  BY <1>8
  DEF AcceptTimeout, TypeOK, InboxInv, Request, brokerVars, childVars, relayVars
<1>9. CASE StartReady
  BY <1>9, AnsweredFacts, OutcomeFacts
  DEF StartReady, ResetBackoff, Resume, TypeOK, InboxInv, Request, brokerVars, childVars, relayVars, Phases, Clients
<1>10. CASE StartReadyUnwritten
  BY <1>10
  DEF StartReadyUnwritten, ResetBackoff, TypeOK, InboxInv, Request, brokerVars, childVars, relayVars
<1>11. CASE StartExited
  <2>1. StartRaises /\ inbox' = inbox
    BY <1>11 DEF StartExited, StartRaises
  <2>. QED
    BY <2>1, RaisesFacts DEF InboxInv, Clients
<1>12. CASE StartTimeout
  <2>1. StartRaises /\ inbox' = inbox
    BY <1>12 DEF StartTimeout, StartRaises
  <2>. QED
    BY <2>1, RaisesFacts DEF InboxInv, Clients
<1>13. CASE ServeStatus
  <2>1. PICK ok \in BOOLEAN : phase' = Answered(Client, ok)
    BY <1>13 DEF ServeStatus
  <2>2. Serving("status")
    BY <1>13 DEF ServeStatus
  <2>. QED
    BY <2>1, <2>2, ReplyFacts
<1>14. CASE ServeShutdown
  <2>1. PICK ok \in BOOLEAN : ok = (leases = {}) /\ phase' = Answered(Client, ok)
    BY <1>14 DEF ServeShutdown, MayStop
  <2>2. Serving("shutdown")
    BY <1>14 DEF ServeShutdown, MayStop
  <2>. QED
    BY <2>1, <2>2, ReplyFacts
<1>15. CASE ServeRelease
  <2>1. PICK ok \in BOOLEAN : phase' = Answered(Client, ok)
    BY <1>15 DEF ServeRelease
  <2>2. Serving("release")
    BY <1>15 DEF ServeRelease
  <2>. QED
    BY <2>1, <2>2, ReplyFacts
<1>16. CASE AcquireRefused
  <2>1. PICK ok \in BOOLEAN : ok = (FALSE) /\ phase' = Answered(Client, ok)
    BY <1>16 DEF AcquireRefused
  <2>2. Serving("acquire")
    BY <1>16 DEF AcquireRefused
  <2>. QED
    BY <2>1, <2>2, ReplyFacts
<1>17. CASE AcquireShared
  <2>1. PICK ok \in BOOLEAN : phase' = Answered(Client, ok)
    BY <1>17, OutcomeFacts DEF AcquireShared
  <2>2. Serving("acquire")
    BY <1>17 DEF AcquireShared
  <2>. QED
    BY <2>1, <2>2, ReplyFacts
<1>18. ASSUME NEW c \in Children, AcquireStarts(c) PROVE InboxInv'
  BY <1>18, ServingFacts
  DEF AcquireStarts, Retarget, Stopped, Serving, Client, TypeOK, InboxInv, Request, brokerVars, childVars, relayVars, Clients
<1>19. CASE AcquireNotForked
  <2>1. PICK ok \in BOOLEAN : ok = (FALSE) /\ phase' = Answered(Client, ok)
    BY <1>19 DEF AcquireNotForked, Retarget
  <2>2. Serving("acquire")
    BY <1>19 DEF AcquireNotForked, Retarget
  <2>. QED
    BY <2>1, <2>2, ReplyFacts
<1>20. CASE CloseTunnel
  BY <1>20
  DEF CloseTunnel, EndChildren, TypeOK, InboxInv, Request, brokerVars, childVars, relayVars
<1>21. CASE CloseControl
  BY <1>21, DisconnectedFacts
  DEF CloseControl, TypeOK, InboxInv, Request, brokerVars, childVars, relayVars, Phases, Clients
<1>22. CASE Crash
  BY <1>22, DisconnectedFacts
  DEF Crash, TypeOK, InboxInv, Request, brokerVars, childVars, relayVars, Phases, Clients
<1>23. ASSUME NEW s \in Sessions, Ask(s) PROVE InboxInv'
  BY <1>23, SetsAssumption
  DEF Ask, Send, TypeOK, InboxInv, Request, brokerVars, childVars, relayVars, Clients
<1>24. ASSUME NEW s \in Sessions, Release(s) PROVE InboxInv'
  <2>1. /\ Len(inbox') = Len(inbox) + 1
        /\ \A i \in 1..Len(inbox) : inbox'[i] = inbox[i]
        /\ inbox'[Len(inbox) + 1] = [cmd |-> "release", from |-> s]
    BY <1>24 DEF Release, Send, TypeOK
  <2>2. /\ phase'[s] = "releasing"
        /\ \A d \in Clients : phase[d] \in {"releasing", "done"} => phase'[d] = phase[d]
    BY <1>24 DEF Release, Send, TypeOK, Clients
  <2>3. Len(inbox) \in Nat
    BY DEF TypeOK
  <2>. QED
    BY <2>1, <2>2, <2>3 DEF InboxInv, Clients
<1>25. ASSUME NEW cmd \in {"status", "shutdown"}, Query(cmd) PROVE InboxInv'
  BY <1>25, SetsAssumption
  DEF Query, Send, TypeOK, InboxInv, Request, brokerVars, childVars, relayVars, Clients
<1>26. ASSUME NEW s \in Sessions, GiveUp(s) PROVE InboxInv'
  BY <1>26
  DEF GiveUp, TypeOK, InboxInv, Request, brokerVars, childVars, relayVars
<1>27. ASSUME NEW o \in Owners, OwnerDies(o) PROVE InboxInv'
  BY <1>27
  DEF OwnerDies, TypeOK, InboxInv, Request, brokerVars, childVars, relayVars
<1>28. ASSUME NEW c \in Children, ChildExits(c) PROVE InboxInv'
  BY <1>28
  DEF ChildExits, EndChildren, TypeOK, InboxInv, Request, brokerVars, childVars, relayVars
<1>29. ASSUME NEW c \in Children, ForwardLost(c) PROVE InboxInv'
  BY <1>29
  DEF ForwardLost, TypeOK, InboxInv, Request, brokerVars, childVars, relayVars
<1>30. ASSUME NEW s \in Dialers, Connect(s) PROVE InboxInv'
  BY <1>30
  DEF Connect, TypeOK, InboxInv, Request, brokerVars, childVars, relayVars
<1>31. ASSUME NEW s \in Dialers, Attach(s) PROVE InboxInv'
  BY <1>31
  DEF Attach, TypeOK, InboxInv, Request, brokerVars, childVars, relayVars
<1>32. ASSUME NEW s \in Dialers, AttachTimeout(s) PROVE InboxInv'
  BY <1>32
  DEF AttachTimeout, TypeOK, InboxInv, Request, brokerVars, childVars, relayVars
<1>33. ASSUME NEW s \in Dialers, Hangup(s) PROVE InboxInv'
  BY <1>33
  DEF Hangup, TypeOK, InboxInv, Request, brokerVars, childVars, relayVars
<1>34. CASE Tick
  BY <1>34
  DEF Tick, TypeOK, InboxInv, Request, brokerVars, childVars, relayVars
<1>35. CASE UNCHANGED vars
  BY <1>35
  DEF vars, TypeOK, InboxInv, Request, brokerVars, childVars, relayVars
<1>. QED
  BY <1>1, <1>2, <1>3, <1>4, <1>5, <1>6, <1>7, <1>8, <1>9, <1>10, <1>11,
     <1>12, <1>13, <1>14, <1>15, <1>16, <1>17, <1>18, <1>19, <1>20, <1>21, <1>22,
     <1>23, <1>24, <1>25, <1>26, <1>27, <1>28, <1>29, <1>30, <1>31, <1>32, <1>33,
     <1>34, <1>35
  DEF Next, BrokerStep, LoopHead, StartEnds, Serve, Environment

\* Every step honours the leases clients hold.
LEMMA HeldStep ==
  ASSUME TypeOK, ControlInv, InboxInv, HeldLeaseHonoured, [Next]_vars
  PROVE  HeldLeaseHonoured'
<1>1. CASE LoopEnds
  BY <1>1, SetsAssumption, SessionAssumption
  DEF LoopEnds, LeaveLoop, TypeOK, ControlInv, HeldLeaseHonoured, Stale, brokerVars, childVars, relayVars
<1>2. CASE ReapLeases
  BY <1>2, SetsAssumption, SessionAssumption
  DEF ReapLeases, LeaveLoop, TypeOK, ControlInv, HeldLeaseHonoured, Stale, brokerVars, childVars, relayVars
<1>3. CASE PollChild
  BY <1>3, SetsAssumption, SessionAssumption
  DEF PollChild, LeaveLoop, BackOff, TypeOK, ControlInv, HeldLeaseHonoured, Stale, brokerVars, childVars, relayVars
<1>4. CASE NoRestart
  BY <1>4, SetsAssumption, SessionAssumption
  DEF NoRestart, TypeOK, ControlInv, HeldLeaseHonoured, Stale, brokerVars, childVars, relayVars
<1>5. ASSUME NEW c \in Children, Restart(c) PROVE HeldLeaseHonoured'
  BY <1>5, SetsAssumption, SessionAssumption
  DEF Restart, RestartDue, TypeOK, ControlInv, HeldLeaseHonoured, Stale, brokerVars, childVars, relayVars
<1>6. CASE RestartNotForked
  BY <1>6, SetsAssumption, SessionAssumption
  DEF RestartNotForked, RestartDue, LeaveLoop, BackOff, TypeOK, ControlInv, HeldLeaseHonoured, Stale, brokerVars, childVars, relayVars
<1>7. CASE IdleCheck
  BY <1>7, SetsAssumption, SessionAssumption
  DEF IdleCheck, Idle, LeaveLoop, TypeOK, ControlInv, HeldLeaseHonoured, Stale, brokerVars, childVars, relayVars
<1>8. CASE AcceptTimeout
  BY <1>8, SetsAssumption, SessionAssumption
  DEF AcceptTimeout, TypeOK, ControlInv, HeldLeaseHonoured, Stale, brokerVars, childVars, relayVars
<1>9. CASE StartReady
  BY <1>9, SetsAssumption, SessionAssumption, AnsweredFacts, OutcomeFacts
  DEF StartReady, ResetBackoff, Resume, TypeOK, ControlInv, HeldLeaseHonoured, Stale, brokerVars, childVars, relayVars, Phases, Clients
<1>10. CASE StartReadyUnwritten
  BY <1>10, SetsAssumption, SessionAssumption
  DEF StartReadyUnwritten, ResetBackoff, TypeOK, ControlInv, HeldLeaseHonoured, Stale, brokerVars, childVars, relayVars
<1>11. CASE StartExited
  <2>1. StartRaises /\ UNCHANGED <<leases, alive, cause>>
    BY <1>11 DEF StartExited, StartRaises
  <2>. QED
    BY <2>1, RaisesFacts DEF HeldLeaseHonoured, Clients
<1>12. CASE StartTimeout
  <2>1. StartRaises /\ UNCHANGED <<leases, alive, cause>>
    BY <1>12 DEF StartTimeout, StartRaises
  <2>. QED
    BY <2>1, RaisesFacts DEF HeldLeaseHonoured, Clients
<1>13. CASE ServeStatus
  <2>1. PICK ok \in BOOLEAN : phase' = Answered(Client, ok)
    BY <1>13 DEF ServeStatus
  <2>2. Serving("status")
    BY <1>13 DEF ServeStatus
  <2>3. \A s \in Sessions : phase'[s] = "held" => phase[s] = "held"
    <3>1. \A s \in Sessions : phase'[s] = "held"
             => phase[s] = "held" \/ (s = Client /\ "status" = "acquire" /\ ok)
      BY <2>1, <2>2, ReplyFacts, Zenon
    <3>. QED
      BY <3>1
  <2>. QED
    BY <1>13, <2>3 DEF ServeStatus, HeldLeaseHonoured, brokerVars, childVars, relayVars
<1>14. CASE ServeShutdown
  <2>1. PICK ok \in BOOLEAN : ok = (leases = {}) /\ phase' = Answered(Client, ok)
    BY <1>14 DEF ServeShutdown, MayStop
  <2>2. Serving("shutdown")
    BY <1>14 DEF ServeShutdown, MayStop
  <2>3. \A s \in Sessions : phase'[s] = "held" => phase[s] = "held"
    <3>1. \A s \in Sessions : phase'[s] = "held"
             => phase[s] = "held" \/ (s = Client /\ "shutdown" = "acquire" /\ ok)
      BY <2>1, <2>2, ReplyFacts, Zenon
    <3>. QED
      BY <3>1
  <2>. QED
    BY <1>14, <2>3 DEF ServeShutdown, MayStop, HeldLeaseHonoured, brokerVars, childVars, relayVars
<1>15. CASE ServeRelease
  <2>1. PICK ok \in BOOLEAN : phase' = Answered(Client, ok)
    BY <1>15 DEF ServeRelease
  <2>2. Serving("release")
    BY <1>15 DEF ServeRelease
  <2>3. \A s \in Sessions : phase'[s] = "held" => phase[s] = "held"
    <3>1. \A s \in Sessions : phase'[s] = "held"
             => phase[s] = "held" \/ (s = Client /\ "release" = "acquire" /\ ok)
      BY <2>1, <2>2, ReplyFacts, Zenon
    <3>. QED
      BY <3>1
  <2>4. phase'[Client] # "held"
    BY <2>2, <2>3, ServingFacts
  <2>. QED
    BY <1>15, <2>3, <2>4 DEF ServeRelease, HeldLeaseHonoured, brokerVars, childVars, relayVars
<1>16. CASE AcquireRefused
  <2>1. PICK ok \in BOOLEAN : ok = (FALSE) /\ phase' = Answered(Client, ok)
    BY <1>16 DEF AcquireRefused
  <2>2. Serving("acquire")
    BY <1>16 DEF AcquireRefused
  <2>3. \A s \in Sessions : phase'[s] = "held" => phase[s] = "held"
    BY <1>16, <2>1, <2>2, ReplyFacts DEF AcquireRefused
  <2>. QED
    BY <1>16, <2>3 DEF AcquireRefused, HeldLeaseHonoured, brokerVars, childVars, relayVars
<1>17. CASE AcquireShared
  <2>1. PICK ok \in BOOLEAN : phase' = Answered(Client, ok)
    BY <1>17, OutcomeFacts DEF AcquireShared
  <2>2. Serving("acquire")
    BY <1>17 DEF AcquireShared
  <2>3. \A s \in Sessions : phase'[s] = "held" => phase[s] = "held" \/ (s = Client /\ s \in leases')
    BY <1>17, <2>1, <2>2, ReplyFacts DEF AcquireShared
  <2>. QED
    BY <1>17, <2>3 DEF AcquireShared, HeldLeaseHonoured, brokerVars, childVars, relayVars
<1>18. ASSUME NEW c \in Children, AcquireStarts(c) PROVE HeldLeaseHonoured'
  BY <1>18, SetsAssumption, SessionAssumption, ServingFacts
  DEF AcquireStarts, Retarget, Stopped, Serving, Client, TypeOK, ControlInv, HeldLeaseHonoured, Stale, brokerVars, childVars, relayVars, Clients
<1>19. CASE AcquireNotForked
  <2>1. PICK ok \in BOOLEAN : ok = (FALSE) /\ phase' = Answered(Client, ok)
    BY <1>19 DEF AcquireNotForked, Retarget
  <2>2. Serving("acquire")
    BY <1>19 DEF AcquireNotForked, Retarget
  <2>3. \A s \in Sessions : phase'[s] = "held" => phase[s] = "held"
    BY <1>19, <2>1, <2>2, ReplyFacts DEF AcquireNotForked, Retarget
  <2>. QED
    BY <1>19, <2>3 DEF AcquireNotForked, Retarget, HeldLeaseHonoured, brokerVars, childVars, relayVars
<1>20. CASE CloseTunnel
  BY <1>20, SetsAssumption, SessionAssumption
  DEF CloseTunnel, EndChildren, TypeOK, ControlInv, HeldLeaseHonoured, Stale, brokerVars, childVars, relayVars
<1>21. CASE CloseControl
  BY <1>21, SetsAssumption, SessionAssumption, DisconnectedFacts
  DEF CloseControl, TypeOK, ControlInv, HeldLeaseHonoured, Stale, brokerVars, childVars, relayVars, Phases, Clients
<1>22. CASE Crash
  BY <1>22, SetsAssumption, SessionAssumption, DisconnectedFacts
  DEF Crash, TypeOK, ControlInv, HeldLeaseHonoured, Stale, brokerVars, childVars, relayVars, Phases, Clients
<1>23. ASSUME NEW s \in Sessions, Ask(s) PROVE HeldLeaseHonoured'
  BY <1>23, SetsAssumption, SessionAssumption
  DEF Ask, Send, TypeOK, ControlInv, HeldLeaseHonoured, Stale, brokerVars, childVars, relayVars, Clients
<1>24. ASSUME NEW s \in Sessions, Release(s) PROVE HeldLeaseHonoured'
  BY <1>24, SetsAssumption, SessionAssumption
  DEF Release, Send, TypeOK, ControlInv, HeldLeaseHonoured, Stale, brokerVars, childVars, relayVars
<1>25. ASSUME NEW cmd \in {"status", "shutdown"}, Query(cmd) PROVE HeldLeaseHonoured'
  BY <1>25, SetsAssumption, SessionAssumption
  DEF Query, Send, TypeOK, ControlInv, HeldLeaseHonoured, Stale, brokerVars, childVars, relayVars, Clients
<1>26. ASSUME NEW s \in Sessions, GiveUp(s) PROVE HeldLeaseHonoured'
  BY <1>26, SetsAssumption, SessionAssumption
  DEF GiveUp, TypeOK, ControlInv, HeldLeaseHonoured, Stale, brokerVars, childVars, relayVars
<1>27. ASSUME NEW o \in Owners, OwnerDies(o) PROVE HeldLeaseHonoured'
  BY <1>27, SetsAssumption, SessionAssumption
  DEF OwnerDies, TypeOK, ControlInv, HeldLeaseHonoured, Stale, brokerVars, childVars, relayVars
<1>28. ASSUME NEW c \in Children, ChildExits(c) PROVE HeldLeaseHonoured'
  BY <1>28, SetsAssumption, SessionAssumption
  DEF ChildExits, EndChildren, TypeOK, ControlInv, HeldLeaseHonoured, Stale, brokerVars, childVars, relayVars
<1>29. ASSUME NEW c \in Children, ForwardLost(c) PROVE HeldLeaseHonoured'
  BY <1>29, SetsAssumption, SessionAssumption
  DEF ForwardLost, TypeOK, ControlInv, HeldLeaseHonoured, Stale, brokerVars, childVars, relayVars
<1>30. ASSUME NEW s \in Dialers, Connect(s) PROVE HeldLeaseHonoured'
  BY <1>30, SetsAssumption, SessionAssumption
  DEF Connect, TypeOK, ControlInv, HeldLeaseHonoured, Stale, brokerVars, childVars, relayVars
<1>31. ASSUME NEW s \in Dialers, Attach(s) PROVE HeldLeaseHonoured'
  BY <1>31, SetsAssumption, SessionAssumption
  DEF Attach, TypeOK, ControlInv, HeldLeaseHonoured, Stale, brokerVars, childVars, relayVars
<1>32. ASSUME NEW s \in Dialers, AttachTimeout(s) PROVE HeldLeaseHonoured'
  BY <1>32, SetsAssumption, SessionAssumption
  DEF AttachTimeout, TypeOK, ControlInv, HeldLeaseHonoured, Stale, brokerVars, childVars, relayVars
<1>33. ASSUME NEW s \in Dialers, Hangup(s) PROVE HeldLeaseHonoured'
  BY <1>33, SetsAssumption, SessionAssumption
  DEF Hangup, TypeOK, ControlInv, HeldLeaseHonoured, Stale, brokerVars, childVars, relayVars
<1>34. CASE Tick
  BY <1>34, SetsAssumption, SessionAssumption
  DEF Tick, TypeOK, ControlInv, HeldLeaseHonoured, Stale, brokerVars, childVars, relayVars
<1>35. CASE UNCHANGED vars
  BY <1>35
  DEF vars, TypeOK, ControlInv, HeldLeaseHonoured, Stale, brokerVars, childVars, relayVars
<1>. QED
  BY <1>1, <1>2, <1>3, <1>4, <1>5, <1>6, <1>7, <1>8, <1>9, <1>10, <1>11,
     <1>12, <1>13, <1>14, <1>15, <1>16, <1>17, <1>18, <1>19, <1>20, <1>21, <1>22,
     <1>23, <1>24, <1>25, <1>26, <1>27, <1>28, <1>29, <1>30, <1>31, <1>32, <1>33,
     <1>34, <1>35
  DEF Next, BrokerStep, LoopHead, StartEnds, Serve, Environment

-----------------------------------------------------------------------------
\* The inductive invariant holds initially.
LEMMA InitInv == Init => IInv
<1> SUFFICES ASSUME Init PROVE IInv
  OBVIOUS
<1>1. TypeOK
  <2>1. inbox \in Seq(Request)
    BY DEF Init
  <2>2. restartIn \in 0..MaxDelay /\ delay \in 1..MaxDelay /\ idleFor \in 0..IdleLimit
    BY BoundAssumption DEF Init
  <2>3. /\ phase \in [Clients -> Phases]
        /\ childSpec \in [Children -> Specs \cup {None}]
        /\ link \in [Sessions -> Children \cup {None}]
    BY DEF Init, Phases
  <2>. QED
    BY <2>1, <2>2, <2>3 DEF Init, TypeOK, Phases
<1>2. ControlInv /\ ChildInv /\ LeaseInv /\ BackoffOnlyWhileDown
  BY SetsAssumption DEF Init, ControlInv, ChildInv, LeaseInv,
     LeasesShareEndpoint, BackoffOnlyWhileDown
<1>3. InboxInv
  BY DEF Init, InboxInv
<1>4. HeldLeaseHonoured
  BY DEF Init, HeldLeaseHonoured, Clients
<1>. QED
  BY <1>1, <1>2, <1>3, <1>4 DEF IInv

\* Every step keeps the inductive invariant.
LEMMA NextInv == IInv /\ [Next]_vars => IInv'
<1> SUFFICES ASSUME IInv, [Next]_vars PROVE IInv'
  OBVIOUS
<1>1. /\ TypeOK /\ ControlInv /\ ChildInv /\ LeaseInv /\ InboxInv
      /\ HeldLeaseHonoured /\ BackoffOnlyWhileDown
  BY DEF IInv
<1>2. TypeOK' BY <1>1, TypeStep
<1>3. ControlInv' BY <1>1, ControlStep
<1>4. ChildInv' BY <1>1, ChildStep
<1>5. LeaseInv' BY <1>1, LeaseStep
<1>6. InboxInv' BY <1>1, InboxStep
<1>7. HeldLeaseHonoured' BY <1>1, HeldStep
<1>8. BackoffOnlyWhileDown' BY <1>1, BackoffStep
<1>. QED
  BY <1>2, <1>3, <1>4, <1>5, <1>6, <1>7, <1>8 DEF IInv

\* The inductive invariant of the broker holds in every reachable state.
THEOREM Invariance == Spec => []IInv
  BY InitInv, NextInv, PTL DEF Spec

\* The broker's fields keep their types: in particular the restart delay never
\* leaves 1..MaxDelay and no queue ever holds a malformed request.
THEOREM TypeCorrect == Spec => []TypeOK
<1>1. IInv => TypeOK
  BY DEF IInv
<1>. QED
  BY <1>1, Invariance, PTL

\* All leases were asked for the endpoint the broker forwards to.
THEOREM OneEndpoint == Spec => []LeasesShareEndpoint
<1>1. IInv => LeasesShareEndpoint
  BY DEF IInv, LeaseInv
<1>. QED
  BY <1>1, Invariance, PTL

\* The broker never loses track of an SSH child, and an orderly exit leaves
\* none behind.
THEOREM ChildrenTracked == Spec => []NoStrayChild
<1>1. IInv => NoStrayChild
  BY SetsAssumption DEF IInv, TypeOK, ControlInv, ChildInv, NoStrayChild
<1>. QED
  BY <1>1, Invariance, PTL

\* Relay connections of lease holders run to the endpoint they leased.
THEOREM LinksCorrect == Spec => []LinkReachesLeasedEndpoint
<1>1. IInv => LinkReachesLeasedEndpoint
  BY DEF IInv, TypeOK, ChildInv, LeaseInv, LeasesShareEndpoint,
     LinkReachesLeasedEndpoint
<1>. QED
  BY <1>1, Invariance, PTL

\* A lease a live client was told it holds is recorded, unless the broker
\* failed.
THEOREM LeasesHonoured == Spec => []HeldLeaseHonoured
<1>1. IInv => HeldLeaseHonoured
  BY DEF IInv
<1>. QED
  BY <1>1, Invariance, PTL

\* A running child has no backoff left over.
THEOREM BackoffReset == Spec => []BackoffOnlyWhileDown
<1>1. IInv => BackoffOnlyWhileDown
  BY DEF IInv
<1>. QED
  BY <1>1, Invariance, PTL


\* What a lease may be lost to, for one step.
LeaseLoss == \A s \in leases \ leases' :
  \/ phase[s] \in {"releasing", "done"}
  \/ OwnerOf[s] \notin alive
  \/ pc' \in {"exited", "crashed"}

\* No step loses a lease for another reason.
LEMMA LeaseLossStep ==
  ASSUME IInv, [Next]_vars
  PROVE  LeaseLoss
<1> USE DEF IInv
<1>1. CASE LoopEnds
  BY <1>1
  DEF LoopEnds, LeaveLoop, LeaseLoss, Stale, brokerVars, childVars, relayVars
<1>2. CASE ReapLeases
  BY <1>2
  DEF ReapLeases, LeaveLoop, LeaseLoss, Stale, brokerVars, childVars, relayVars
<1>3. CASE PollChild
  BY <1>3
  DEF PollChild, LeaveLoop, BackOff, LeaseLoss, Stale, brokerVars, childVars, relayVars
<1>4. CASE NoRestart
  BY <1>4
  DEF NoRestart, LeaseLoss, Stale, brokerVars, childVars, relayVars
<1>5. ASSUME NEW c \in Children, Restart(c) PROVE LeaseLoss
  BY <1>5
  DEF Restart, RestartDue, LeaseLoss, Stale, brokerVars, childVars, relayVars
<1>6. CASE RestartNotForked
  BY <1>6
  DEF RestartNotForked, RestartDue, LeaveLoop, BackOff, LeaseLoss, Stale, brokerVars, childVars, relayVars
<1>7. CASE IdleCheck
  BY <1>7
  DEF IdleCheck, Idle, LeaveLoop, LeaseLoss, Stale, brokerVars, childVars, relayVars
<1>8. CASE AcceptTimeout
  BY <1>8
  DEF AcceptTimeout, LeaseLoss, Stale, brokerVars, childVars, relayVars
<1>9. CASE StartReady
  BY <1>9
  DEF StartReady, ResetBackoff, Resume, LeaseLoss, Stale, brokerVars, childVars, relayVars
<1>10. CASE StartReadyUnwritten
  BY <1>10
  DEF StartReadyUnwritten, ResetBackoff, LeaseLoss, Stale, brokerVars, childVars, relayVars
<1>11. CASE StartExited
  BY <1>11
  DEF StartExited, StartRaises, Resume, BackOff, LeaseLoss, Stale, brokerVars, childVars, relayVars
<1>12. CASE StartTimeout
  BY <1>12
  DEF StartTimeout, StartRaises, EndChildren, Resume, BackOff, LeaseLoss, Stale, brokerVars, childVars, relayVars
<1>13. CASE ServeStatus
  BY <1>13
  DEF ServeStatus, Serving, Client, LeaseLoss, Stale, brokerVars, childVars, relayVars
<1>14. CASE ServeShutdown
  BY <1>14
  DEF ServeShutdown, MayStop, Serving, Client, LeaseLoss, Stale, brokerVars, childVars, relayVars
<1>15. CASE ServeRelease
  BY <1>15, ServingFacts
  DEF ServeRelease, Serving, Client, LeaseLoss, Stale, brokerVars, childVars, relayVars, TypeOK, InboxInv
<1>16. CASE AcquireRefused
  BY <1>16
  DEF AcquireRefused, Serving, Client, LeaseLoss, Stale, brokerVars, childVars, relayVars
<1>17. CASE AcquireShared
  BY <1>17
  DEF AcquireShared, Serving, Client, LeaseLoss, Stale, brokerVars, childVars, relayVars
<1>18. ASSUME NEW c \in Children, AcquireStarts(c) PROVE LeaseLoss
  BY <1>18
  DEF AcquireStarts, Retarget, Stopped, Serving, Client, LeaseLoss, Stale, brokerVars, childVars, relayVars
<1>19. CASE AcquireNotForked
  BY <1>19
  DEF AcquireNotForked, Retarget, Stopped, EndChildren, Serving, Client, LeaseLoss, Stale, brokerVars, childVars, relayVars
<1>20. CASE CloseTunnel
  BY <1>20
  DEF CloseTunnel, EndChildren, LeaseLoss, Stale, brokerVars, childVars, relayVars
<1>21. CASE CloseControl
  BY <1>21
  DEF CloseControl, LeaseLoss, Stale, brokerVars, childVars, relayVars
<1>22. CASE Crash
  BY <1>22
  DEF Crash, LeaseLoss, Stale, brokerVars, childVars, relayVars
<1>23. ASSUME NEW s \in Sessions, Ask(s) PROVE LeaseLoss
  BY <1>23
  DEF Ask, Send, LeaseLoss, Stale, brokerVars, childVars, relayVars
<1>24. ASSUME NEW s \in Sessions, Release(s) PROVE LeaseLoss
  BY <1>24
  DEF Release, Send, LeaseLoss, Stale, brokerVars, childVars, relayVars
<1>25. ASSUME NEW cmd \in {"status", "shutdown"}, Query(cmd) PROVE LeaseLoss
  BY <1>25
  DEF Query, Send, LeaseLoss, Stale, brokerVars, childVars, relayVars
<1>26. ASSUME NEW s \in Sessions, GiveUp(s) PROVE LeaseLoss
  BY <1>26
  DEF GiveUp, LeaseLoss, Stale, brokerVars, childVars, relayVars
<1>27. ASSUME NEW o \in Owners, OwnerDies(o) PROVE LeaseLoss
  BY <1>27
  DEF OwnerDies, LeaseLoss, Stale, brokerVars, childVars, relayVars
<1>28. ASSUME NEW c \in Children, ChildExits(c) PROVE LeaseLoss
  BY <1>28
  DEF ChildExits, EndChildren, LeaseLoss, Stale, brokerVars, childVars, relayVars
<1>29. ASSUME NEW c \in Children, ForwardLost(c) PROVE LeaseLoss
  BY <1>29
  DEF ForwardLost, LeaseLoss, Stale, brokerVars, childVars, relayVars
<1>30. ASSUME NEW s \in Dialers, Connect(s) PROVE LeaseLoss
  BY <1>30
  DEF Connect, LeaseLoss, Stale, brokerVars, childVars, relayVars
<1>31. ASSUME NEW s \in Dialers, Attach(s) PROVE LeaseLoss
  BY <1>31
  DEF Attach, LeaseLoss, Stale, brokerVars, childVars, relayVars
<1>32. ASSUME NEW s \in Dialers, AttachTimeout(s) PROVE LeaseLoss
  BY <1>32
  DEF AttachTimeout, LeaseLoss, Stale, brokerVars, childVars, relayVars
<1>33. ASSUME NEW s \in Dialers, Hangup(s) PROVE LeaseLoss
  BY <1>33
  DEF Hangup, LeaseLoss, Stale, brokerVars, childVars, relayVars
<1>34. CASE Tick
  BY <1>34
  DEF Tick, LeaseLoss, Stale, brokerVars, childVars, relayVars
<1>35. CASE UNCHANGED vars
  BY <1>35
  DEF vars, LeaseLoss, Stale, brokerVars, childVars, relayVars
<1>. QED
  BY <1>1, <1>2, <1>3, <1>4, <1>5, <1>6, <1>7, <1>8, <1>9, <1>10, <1>11,
     <1>12, <1>13, <1>14, <1>15, <1>16, <1>17, <1>18, <1>19, <1>20, <1>21, <1>22,
     <1>23, <1>24, <1>25, <1>26, <1>27, <1>28, <1>29, <1>30, <1>31, <1>32, <1>33,
     <1>34, <1>35
  DEF Next, BrokerStep, LoopHead, StartEnds, Serve, Environment


\* A recorded lease disappears only when its session released it, its owner
\* died, or the broker stops.
THEOREM LeaseLossJustified == Spec => LeaseLeavesForAReason
<1>1. IInv /\ [Next]_vars => [LeaseLoss]_vars
  BY LeaseLossStep
<1>. QED
  BY <1>1, Invariance, PTL DEF Spec, LeaseLeavesForAReason, LeaseLoss

\* What a step may do to the endpoint and to the child it starts.
EndpointStep ==
  /\ spec' # spec => leases = {}
  /\ starting' # starting /\ starting' # None => childSpec'[starting'] = spec'

\* No step retargets a leased broker or starts a child for another endpoint.
LEMMA EndpointStepHolds ==
  ASSUME IInv, [Next]_vars
  PROVE  EndpointStep
<1> USE DEF IInv
<1>1. CASE LoopEnds
  BY <1>1, SetsAssumption
  DEF LoopEnds, LeaveLoop, EndpointStep, TypeOK, LeaseInv, brokerVars, childVars, relayVars
<1>2. CASE ReapLeases
  BY <1>2, SetsAssumption
  DEF ReapLeases, LeaveLoop, EndpointStep, TypeOK, LeaseInv, brokerVars, childVars, relayVars
<1>3. CASE PollChild
  BY <1>3, SetsAssumption
  DEF PollChild, LeaveLoop, BackOff, EndpointStep, TypeOK, LeaseInv, brokerVars, childVars, relayVars
<1>4. CASE NoRestart
  BY <1>4, SetsAssumption
  DEF NoRestart, EndpointStep, TypeOK, LeaseInv, brokerVars, childVars, relayVars
<1>5. ASSUME NEW c \in Children, Restart(c) PROVE EndpointStep
  BY <1>5, SetsAssumption
  DEF Restart, RestartDue, EndpointStep, TypeOK, LeaseInv, brokerVars, childVars, relayVars
<1>6. CASE RestartNotForked
  BY <1>6, SetsAssumption
  DEF RestartNotForked, RestartDue, LeaveLoop, BackOff, EndpointStep, TypeOK, LeaseInv, brokerVars, childVars, relayVars
<1>7. CASE IdleCheck
  BY <1>7, SetsAssumption
  DEF IdleCheck, Idle, LeaveLoop, EndpointStep, TypeOK, LeaseInv, brokerVars, childVars, relayVars
<1>8. CASE AcceptTimeout
  BY <1>8, SetsAssumption
  DEF AcceptTimeout, EndpointStep, TypeOK, LeaseInv, brokerVars, childVars, relayVars
<1>9. CASE StartReady
  BY <1>9, SetsAssumption
  DEF StartReady, ResetBackoff, Resume, EndpointStep, TypeOK, LeaseInv, brokerVars, childVars, relayVars
<1>10. CASE StartReadyUnwritten
  BY <1>10, SetsAssumption
  DEF StartReadyUnwritten, ResetBackoff, EndpointStep, TypeOK, LeaseInv, brokerVars, childVars, relayVars
<1>11. CASE StartExited
  BY <1>11, SetsAssumption
  DEF StartExited, StartRaises, Resume, BackOff, EndpointStep, TypeOK, LeaseInv, brokerVars, childVars, relayVars
<1>12. CASE StartTimeout
  BY <1>12, SetsAssumption
  DEF StartTimeout, StartRaises, EndChildren, Resume, BackOff, EndpointStep, TypeOK, LeaseInv, brokerVars, childVars, relayVars
<1>13. CASE ServeStatus
  BY <1>13, SetsAssumption
  DEF ServeStatus, Serving, Client, EndpointStep, TypeOK, LeaseInv, brokerVars, childVars, relayVars
<1>14. CASE ServeShutdown
  BY <1>14, SetsAssumption
  DEF ServeShutdown, MayStop, Serving, Client, EndpointStep, TypeOK, LeaseInv, brokerVars, childVars, relayVars
<1>15. CASE ServeRelease
  BY <1>15, SetsAssumption
  DEF ServeRelease, Serving, Client, EndpointStep, TypeOK, LeaseInv, brokerVars, childVars, relayVars
<1>16. CASE AcquireRefused
  BY <1>16, SetsAssumption
  DEF AcquireRefused, Serving, Client, EndpointStep, TypeOK, LeaseInv, brokerVars, childVars, relayVars
<1>17. CASE AcquireShared
  BY <1>17, SetsAssumption
  DEF AcquireShared, Serving, Client, EndpointStep, TypeOK, LeaseInv, brokerVars, childVars, relayVars
<1>18. ASSUME NEW c \in Children, AcquireStarts(c) PROVE EndpointStep
  BY <1>18, SetsAssumption, ServingFacts
  DEF AcquireStarts, Retarget, Stopped, Serving, Client, EndpointStep, TypeOK, LeaseInv, brokerVars, childVars, relayVars, Acceptable
<1>19. CASE AcquireNotForked
  BY <1>19, SetsAssumption, ServingFacts
  DEF AcquireNotForked, Retarget, Stopped, EndChildren, Serving, Client, EndpointStep, TypeOK, LeaseInv, brokerVars, childVars, relayVars, Acceptable
<1>20. CASE CloseTunnel
  BY <1>20, SetsAssumption
  DEF CloseTunnel, EndChildren, EndpointStep, TypeOK, LeaseInv, brokerVars, childVars, relayVars
<1>21. CASE CloseControl
  BY <1>21, SetsAssumption
  DEF CloseControl, EndpointStep, TypeOK, LeaseInv, brokerVars, childVars, relayVars
<1>22. CASE Crash
  BY <1>22, SetsAssumption
  DEF Crash, EndpointStep, TypeOK, LeaseInv, brokerVars, childVars, relayVars
<1>23. ASSUME NEW s \in Sessions, Ask(s) PROVE EndpointStep
  BY <1>23, SetsAssumption
  DEF Ask, Send, EndpointStep, TypeOK, LeaseInv, brokerVars, childVars, relayVars
<1>24. ASSUME NEW s \in Sessions, Release(s) PROVE EndpointStep
  BY <1>24, SetsAssumption
  DEF Release, Send, EndpointStep, TypeOK, LeaseInv, brokerVars, childVars, relayVars
<1>25. ASSUME NEW cmd \in {"status", "shutdown"}, Query(cmd) PROVE EndpointStep
  BY <1>25, SetsAssumption
  DEF Query, Send, EndpointStep, TypeOK, LeaseInv, brokerVars, childVars, relayVars
<1>26. ASSUME NEW s \in Sessions, GiveUp(s) PROVE EndpointStep
  BY <1>26, SetsAssumption
  DEF GiveUp, EndpointStep, TypeOK, LeaseInv, brokerVars, childVars, relayVars
<1>27. ASSUME NEW o \in Owners, OwnerDies(o) PROVE EndpointStep
  BY <1>27, SetsAssumption
  DEF OwnerDies, EndpointStep, TypeOK, LeaseInv, brokerVars, childVars, relayVars
<1>28. ASSUME NEW c \in Children, ChildExits(c) PROVE EndpointStep
  BY <1>28, SetsAssumption
  DEF ChildExits, EndChildren, EndpointStep, TypeOK, LeaseInv, brokerVars, childVars, relayVars
<1>29. ASSUME NEW c \in Children, ForwardLost(c) PROVE EndpointStep
  BY <1>29, SetsAssumption
  DEF ForwardLost, EndpointStep, TypeOK, LeaseInv, brokerVars, childVars, relayVars
<1>30. ASSUME NEW s \in Dialers, Connect(s) PROVE EndpointStep
  BY <1>30, SetsAssumption
  DEF Connect, EndpointStep, TypeOK, LeaseInv, brokerVars, childVars, relayVars
<1>31. ASSUME NEW s \in Dialers, Attach(s) PROVE EndpointStep
  BY <1>31, SetsAssumption
  DEF Attach, EndpointStep, TypeOK, LeaseInv, brokerVars, childVars, relayVars
<1>32. ASSUME NEW s \in Dialers, AttachTimeout(s) PROVE EndpointStep
  BY <1>32, SetsAssumption
  DEF AttachTimeout, EndpointStep, TypeOK, LeaseInv, brokerVars, childVars, relayVars
<1>33. ASSUME NEW s \in Dialers, Hangup(s) PROVE EndpointStep
  BY <1>33, SetsAssumption
  DEF Hangup, EndpointStep, TypeOK, LeaseInv, brokerVars, childVars, relayVars
<1>34. CASE Tick
  BY <1>34, SetsAssumption
  DEF Tick, EndpointStep, TypeOK, LeaseInv, brokerVars, childVars, relayVars
<1>35. CASE UNCHANGED vars
  BY <1>35
  DEF vars, EndpointStep, TypeOK, LeaseInv, brokerVars, childVars, relayVars
<1>. QED
  BY <1>1, <1>2, <1>3, <1>4, <1>5, <1>6, <1>7, <1>8, <1>9, <1>10, <1>11,
     <1>12, <1>13, <1>14, <1>15, <1>16, <1>17, <1>18, <1>19, <1>20, <1>21, <1>22,
     <1>23, <1>24, <1>25, <1>26, <1>27, <1>28, <1>29, <1>30, <1>31, <1>32, <1>33,
     <1>34, <1>35
  DEF Next, BrokerStep, LoopHead, StartEnds, Serve, Environment

\* The endpoint is fixed while leased, and every child is started for it.
THEOREM EndpointFixed == Spec => EndpointFixedWhileLeased
<1>1. IInv /\ [Next]_vars => [EndpointStep]_vars
  BY EndpointStepHolds
<1>. QED
  BY <1>1, Invariance, PTL DEF Spec, EndpointFixedWhileLeased, EndpointStep

-----------------------------------------------------------------------------
(* Refinement.                                                             *)

\* What the lease service sees of a step that is invisible to it.
ServiceStutter == UNCHANGED <<Running, leases, spec, Tunnel>>

ServiceStep == Service!Next \/ ServiceStutter

\* Every step of the broker is a step of the lease service, or invisible.
LEMMA RefinementStep ==
  ASSUME IInv, [Next]_vars
  PROVE  ServiceStep
<1>1. CASE LoopEnds
  BY <1>1, SetsAssumption
  DEF LoopEnds, LeaveLoop, ServiceStep, ServiceStutter, Running, Tunnel, brokerVars, childVars, relayVars
<1>2. CASE ReapLeases
  <2>1. Running /\ Running' /\ UNCHANGED <<spec, Tunnel>>
    BY <1>2 DEF ReapLeases, LeaveLoop, Running, Tunnel, brokerVars, childVars, relayVars
  <2>2. leases' = leases \ Stale /\ Stale \in SUBSET Sessions
    BY <1>2 DEF ReapLeases, Stale, IInv, TypeOK
  <2>3. Service!Withdraw(Stale)
    BY <2>1, <2>2 DEF Service!Withdraw
  <2>. QED
    BY <2>2, <2>3 DEF ServiceStep, Service!Next
<1>3. CASE PollChild
  BY <1>3, SetsAssumption
  DEF PollChild, LeaveLoop, BackOff, ServiceStep, ServiceStutter, Running, Tunnel, IInv, TypeOK, brokerVars, childVars, relayVars
<1>4. CASE NoRestart
  BY <1>4, SetsAssumption
  DEF NoRestart, ServiceStep, ServiceStutter, Running, Tunnel, brokerVars, childVars, relayVars
<1>5. ASSUME NEW c \in Children, Restart(c) PROVE ServiceStep
  BY <1>5, SetsAssumption
  DEF Restart, RestartDue, ServiceStep, ServiceStutter, Running, Tunnel, IInv, TypeOK, brokerVars, childVars, relayVars
<1>6. CASE RestartNotForked
  BY <1>6, SetsAssumption
  DEF RestartNotForked, RestartDue, LeaveLoop, BackOff, ServiceStep, ServiceStutter, Running, Tunnel, brokerVars, childVars, relayVars
<1>7. CASE IdleCheck
  BY <1>7, SetsAssumption
  DEF IdleCheck, Idle, LeaveLoop, ServiceStep, ServiceStutter, Running, Tunnel, brokerVars, childVars, relayVars
<1>8. CASE AcceptTimeout
  BY <1>8, SetsAssumption
  DEF AcceptTimeout, ServiceStep, ServiceStutter, Running, Tunnel, brokerVars, childVars, relayVars
<1>9. CASE StartReady
  <2>1. Running /\ Running' /\ spec' = spec /\ spec # None /\ Tunnel' = spec
    BY <1>9, SetsAssumption
    DEF StartReady, ResetBackoff, Resume, Running, Tunnel, IInv, TypeOK, ChildInv, ControlInv, childVars
  <2>2. CASE req = None
    <3>1. leases' = leases
      BY <1>9, <2>2 DEF StartReady
    <3>2. Service!Up
      BY <2>1, <3>1 DEF Service!Up
    <3>. QED
      BY <3>2 DEF ServiceStep, Service!Next
  <2>3. CASE req # None
    <3>1. leases' = leases \cup {req} /\ req \in Sessions /\ SpecOf[req] = spec
      BY <1>9, <2>3 DEF StartReady, ResetBackoff, IInv, TypeOK, LeaseInv
    <3>2. Service!Grant(req)
      BY <2>1, <3>1 DEF Service!Grant
    <3>. QED
      BY <3>1, <3>2 DEF ServiceStep, Service!Next
  <2>. QED
    BY <2>2, <2>3
<1>10. CASE StartReadyUnwritten
  <2>1. Running /\ Running' /\ spec' = spec /\ spec # None /\ Tunnel' = spec
    BY <1>10, SetsAssumption
    DEF StartReadyUnwritten, ResetBackoff, Resume, Running, Tunnel, IInv, TypeOK, ChildInv, ControlInv, childVars
  <2>2. Service!Up
    BY <1>10, <2>1 DEF StartReadyUnwritten, ResetBackoff, Service!Up
  <2>. QED
    BY <2>2 DEF ServiceStep, Service!Next
<1>11. CASE StartExited
  BY <1>11, SetsAssumption
  DEF StartExited, StartRaises, Resume, BackOff, ServiceStep, ServiceStutter, Running, Tunnel, brokerVars, childVars, relayVars
<1>12. CASE StartTimeout
  <2>1. Running /\ Running' /\ UNCHANGED <<leases, spec>> /\ Tunnel' = None
    BY <1>12, SetsAssumption
    DEF StartTimeout, StartRaises, EndChildren, Resume, Running, Tunnel, IInv, TypeOK, ControlInv, ChildInv, brokerVars, childVars, relayVars
  <2>2. Service!Down
    BY <2>1 DEF Service!Down
  <2>. QED
    BY <2>2 DEF ServiceStep, Service!Next
<1>13. CASE ServeStatus
  BY <1>13, SetsAssumption
  DEF ServeStatus, Serving, Client, ServiceStep, ServiceStutter, Running, Tunnel, brokerVars, childVars, relayVars
<1>14. CASE ServeShutdown
  BY <1>14, SetsAssumption
  DEF ServeShutdown, MayStop, Serving, Client, ServiceStep, ServiceStutter, Running, Tunnel, brokerVars, childVars, relayVars
<1>15. CASE ServeRelease
  <2>1. Running /\ Running' /\ UNCHANGED <<spec, Tunnel>>
    BY <1>15 DEF ServeRelease, Serving, Running, Tunnel, brokerVars, childVars, relayVars
  <2>2. leases' = leases \ {Client} /\ {Client} \in SUBSET Sessions
    BY <1>15, ServingFacts DEF ServeRelease, IInv
  <2>3. Service!Withdraw({Client})
    BY <2>1, <2>2 DEF Service!Withdraw
  <2>. QED
    BY <2>2, <2>3 DEF ServiceStep, Service!Next
<1>16. CASE AcquireRefused
  BY <1>16, SetsAssumption
  DEF AcquireRefused, Serving, Client, ServiceStep, ServiceStutter, Running, Tunnel, brokerVars, childVars, relayVars
<1>17. CASE AcquireShared
  <2>1. Running /\ Running' /\ spec' = spec /\ Tunnel' = spec
    BY <1>17, SetsAssumption DEF AcquireShared, Serving, Running, Tunnel, IInv, TypeOK, ChildInv, brokerVars, childVars, relayVars
  <2>2. leases' = leases \cup {Client} /\ Client \in Sessions /\ SpecOf[Client] = spec
    BY <1>17, ServingFacts DEF AcquireShared, IInv
  <2>3. Service!Grant(Client)
    BY <2>1, <2>2 DEF Service!Grant
  <2>. QED
    BY <2>2, <2>3 DEF ServiceStep, Service!Next
<1>18. ASSUME NEW c \in Children, AcquireStarts(c) PROVE ServiceStep
  <2>1. /\ Running /\ Running' /\ leases' = leases /\ spec' = SpecOf[Client]
        /\ ssh' = None /\ children' \subseteq Children
        /\ spec # None /\ SpecOf[Client] # spec => leases = {}
    BY <1>18 DEF AcquireStarts, Retarget, Serving, Acceptable, Running, IInv, TypeOK, Stopped, EndChildren, brokerVars, childVars, relayVars
  <2>2. Tunnel' = None
    BY <2>1, SetsAssumption DEF Tunnel
  <2>3. Client \in Sessions /\ SpecOf[Client] \in Specs
    BY <1>18, ServingFacts, SessionAssumption DEF AcquireStarts, Retarget, IInv
  <2>4. CASE spec' = spec
    <3>1. Service!Down
      BY <2>1, <2>2, <2>4 DEF Service!Down
    <3>. QED
      BY <3>1 DEF ServiceStep, Service!Next
  <2>5. CASE spec' # spec
    <3>1. leases = {}
      BY <2>1, <2>5 DEF IInv, LeaseInv
    <3>2. Service!Retarget(SpecOf[Client])
      BY <2>1, <2>2, <3>1 DEF Service!Retarget
    <3>. QED
      BY <2>3, <3>2 DEF ServiceStep, Service!Next
  <2>. QED
    BY <2>4, <2>5
<1>19. CASE AcquireNotForked
  <2>1. /\ Running /\ Running' /\ leases' = leases /\ spec' = SpecOf[Client]
        /\ ssh' = None /\ children' \subseteq Children
        /\ spec # None /\ SpecOf[Client] # spec => leases = {}
    BY <1>19 DEF AcquireNotForked, Retarget, Serving, Acceptable, Running, IInv, TypeOK, Stopped, EndChildren, brokerVars, childVars, relayVars
  <2>2. Tunnel' = None
    BY <2>1, SetsAssumption DEF Tunnel
  <2>3. Client \in Sessions /\ SpecOf[Client] \in Specs
    BY <1>19, ServingFacts, SessionAssumption DEF AcquireNotForked, Retarget, IInv
  <2>4. CASE spec' = spec
    <3>1. Service!Down
      BY <2>1, <2>2, <2>4 DEF Service!Down
    <3>. QED
      BY <3>1 DEF ServiceStep, Service!Next
  <2>5. CASE spec' # spec
    <3>1. leases = {}
      BY <2>1, <2>5 DEF IInv, LeaseInv
    <3>2. Service!Retarget(SpecOf[Client])
      BY <2>1, <2>2, <3>1 DEF Service!Retarget
    <3>. QED
      BY <2>3, <3>2 DEF ServiceStep, Service!Next
  <2>. QED
    BY <2>4, <2>5
<1>20. CASE CloseTunnel
  <2>1. Running /\ Running' /\ UNCHANGED <<leases, spec>> /\ Tunnel' = None
    BY <1>20, SetsAssumption
    DEF CloseTunnel, EndChildren, Running, Tunnel, IInv, TypeOK, ControlInv, ChildInv, brokerVars, childVars, relayVars
  <2>2. Service!Down
    BY <2>1 DEF Service!Down
  <2>. QED
    BY <2>2 DEF ServiceStep, Service!Next
<1>21. CASE CloseControl
  <2>1. Running /\ ~Running' /\ leases' = {} /\ spec' = spec /\ Tunnel' = None
    BY <1>21, SetsAssumption DEF CloseControl, Running, Tunnel, IInv, TypeOK, ChildInv, brokerVars, childVars, relayVars
  <2>2. Service!Close
    BY <2>1 DEF Service!Close
  <2>. QED
    BY <2>2 DEF ServiceStep, Service!Next
<1>22. CASE Crash
  <2>1. Running /\ ~Running' /\ leases' = {} /\ spec' = spec /\ Tunnel' = None
    BY <1>22, SetsAssumption DEF Crash, Running, Tunnel, IInv, TypeOK, ChildInv, brokerVars, childVars, relayVars
  <2>2. Service!Close
    BY <2>1 DEF Service!Close
  <2>. QED
    BY <2>2 DEF ServiceStep, Service!Next
<1>23. ASSUME NEW s \in Sessions, Ask(s) PROVE ServiceStep
  BY <1>23, SetsAssumption
  DEF Ask, Send, ServiceStep, ServiceStutter, Running, Tunnel, brokerVars, childVars, relayVars
<1>24. ASSUME NEW s \in Sessions, Release(s) PROVE ServiceStep
  BY <1>24, SetsAssumption
  DEF Release, Send, ServiceStep, ServiceStutter, Running, Tunnel, brokerVars, childVars, relayVars
<1>25. ASSUME NEW cmd \in {"status", "shutdown"}, Query(cmd) PROVE ServiceStep
  BY <1>25, SetsAssumption
  DEF Query, Send, ServiceStep, ServiceStutter, Running, Tunnel, brokerVars, childVars, relayVars
<1>26. ASSUME NEW s \in Sessions, GiveUp(s) PROVE ServiceStep
  BY <1>26, SetsAssumption
  DEF GiveUp, ServiceStep, ServiceStutter, Running, Tunnel, brokerVars, childVars, relayVars
<1>27. ASSUME NEW o \in Owners, OwnerDies(o) PROVE ServiceStep
  BY <1>27, SetsAssumption
  DEF OwnerDies, ServiceStep, ServiceStutter, Running, Tunnel, brokerVars, childVars, relayVars
<1>28. ASSUME NEW c \in Children, ChildExits(c) PROVE ServiceStep
  <2>1. Running /\ Running' /\ UNCHANGED <<leases, spec>>
    BY <1>28 DEF ChildExits, Running, brokerVars, childVars, relayVars
  <2>2. CASE c = ssh
    <3>1. Tunnel' = None
      BY <1>28, <2>2 DEF ChildExits, EndChildren, Tunnel, brokerVars, childVars, relayVars
    <3>2. Service!Down
      BY <2>1, <3>1 DEF Service!Down
    <3>. QED
      BY <3>2 DEF ServiceStep, Service!Next
  <2>3. CASE c # ssh
    <3>1. Tunnel' = Tunnel
      BY <1>28, <2>3 DEF ChildExits, EndChildren, Tunnel, brokerVars, childVars, relayVars
    <3>. QED
      BY <2>1, <3>1 DEF ServiceStep, ServiceStutter
  <2>. QED
    BY <2>2, <2>3
<1>29. ASSUME NEW c \in Children, ForwardLost(c) PROVE ServiceStep
  BY <1>29, SetsAssumption
  DEF ForwardLost, ServiceStep, ServiceStutter, Running, Tunnel, brokerVars, childVars, relayVars
<1>30. ASSUME NEW s \in Dialers, Connect(s) PROVE ServiceStep
  BY <1>30, SetsAssumption
  DEF Connect, ServiceStep, ServiceStutter, Running, Tunnel, brokerVars, childVars, relayVars
<1>31. ASSUME NEW s \in Dialers, Attach(s) PROVE ServiceStep
  BY <1>31, SetsAssumption
  DEF Attach, ServiceStep, ServiceStutter, Running, Tunnel, brokerVars, childVars, relayVars
<1>32. ASSUME NEW s \in Dialers, AttachTimeout(s) PROVE ServiceStep
  BY <1>32, SetsAssumption
  DEF AttachTimeout, ServiceStep, ServiceStutter, Running, Tunnel, brokerVars, childVars, relayVars
<1>33. ASSUME NEW s \in Dialers, Hangup(s) PROVE ServiceStep
  BY <1>33, SetsAssumption
  DEF Hangup, ServiceStep, ServiceStutter, Running, Tunnel, brokerVars, childVars, relayVars
<1>34. CASE Tick
  BY <1>34, SetsAssumption
  DEF Tick, ServiceStep, ServiceStutter, Running, Tunnel, brokerVars, childVars, relayVars
<1>35. CASE UNCHANGED vars
  BY <1>35
  DEF vars, ServiceStep, ServiceStutter, Running, Tunnel, brokerVars, childVars, relayVars
<1>. QED
  BY <1>1, <1>2, <1>3, <1>4, <1>5, <1>6, <1>7, <1>8, <1>9, <1>10, <1>11,
     <1>12, <1>13, <1>14, <1>15, <1>16, <1>17, <1>18, <1>19, <1>20, <1>21, <1>22,
     <1>23, <1>24, <1>25, <1>26, <1>27, <1>28, <1>29, <1>30, <1>31, <1>32, <1>33,
     <1>34, <1>35
  DEF Next, BrokerStep, LoopHead, StartEnds, Serve, Environment

\* The broker implements the lease service: one endpoint at a time, a lease
\* only together with a tunnel to it, and no retargeting under a lease.
THEOREM Refinement == Spec => ImplementsLeaseService
<1>1. Init => Service!Init
  BY SetsAssumption DEF Init, Service!Init, Running, Tunnel
<1>2. IInv /\ [Next]_vars => [Service!Next]_(Service!vars)
  BY RefinementStep DEF ServiceStep, ServiceStutter, Service!vars
<1>. QED
  BY <1>1, <1>2, Invariance, PTL DEF Spec, ImplementsLeaseService, Service!Spec
=============================================================================
