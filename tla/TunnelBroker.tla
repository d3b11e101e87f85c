---------------------------- MODULE TunnelBroker ----------------------------
(***************************************************************************)
(* One incarnation of BrokerServer (local/cloudx_local/broker.py): the     *)
(* single-threaded serve loop that reaps leases, keeps one SSH child alive *)
(* and answers control requests, together with what surrounds it: the      *)
(* sessions that ask for leases, the processes that own them, the SSH      *)
(* child, the threads of the TCP relay, the clock.                         *)
(*                                                                         *)
(* A session is one acquisition: the lease identifier is a fresh UUID, so  *)
(* the session itself names the lease.  OwnerOf and SpecOf give the owner  *)
(* PID and the tunnel specification its request carries.                   *)
(*                                                                         *)
(* Deadlines are kept as distances from now.  restartIn is                 *)
(* next_restart_at - now, never below 0; idleFor is now - last_release,    *)
(* never above IdleLimit; a Tick moves both.                               *)
(***************************************************************************)
EXTENDS Integers, Sequences

CONSTANTS
  Sessions,   \* lease identifiers, one per acquisition
  Owners,     \* PIDs of shells and of cloud processes
  Specs,      \* TunnelSpec values: SSH host, forward host, forward port
  Children,   \* SSH child processes; a child is also its backend port
  None,
  Operator,   \* the client that sends status and shutdown
  OwnerOf,    \* the ownerPid of a session's acquire request
  SpecOf,     \* the TunnelSpec of a session's acquire request
  Dialers,    \* the sessions that open connections to the public port
  MaxDelay,   \* cap of the restart delay (20 seconds in the code)
  IdleLimit,  \* broker_idle_seconds
  OsMayFail   \* whether writing broker.json or forking may raise OSError

ASSUME SetsAssumption ==
  /\ None \notin Children \cup Specs \cup Sessions
  /\ Operator \notin Sessions \cup {None}

ASSUME SessionAssumption ==
  /\ OwnerOf \in [Sessions -> Owners]
  /\ SpecOf \in [Sessions -> Specs]
  /\ Dialers \subseteq Sessions

ASSUME BoundAssumption ==
  /\ MaxDelay \in Nat \ {0}
  /\ IdleLimit \in Nat \ {0}
  /\ OsMayFail \in BOOLEAN

VARIABLES
  pc,         \* where serve() stands
  leases,     \* self.leases
  spec,       \* self.spec
  ssh,        \* self.ssh_process
  starting,   \* the local `process` of a running _start_ssh
  req,        \* the session whose acquire waits for that _start_ssh
  backend,    \* relay.backend_port
  restartIn,  \* next_restart_at, from now
  delay,      \* restart_delay
  idleFor,    \* time since last_release
  stop,       \* stop_requested
  cause,      \* why the loop ended
  inbox,      \* requests in the control socket, oldest first
  phase,      \* what each client believes
  alive,      \* owner processes that still run
  children,   \* SSH processes that still run
  deaf,       \* running SSH processes whose forward no longer listens
  childSpec,  \* the specification each SSH process was started with
  waiting,    \* relay threads inside _connect_backend
  link        \* the SSH process a session's relay connection runs through

brokerVars == <<pc, leases, spec, ssh, starting, req, backend, restartIn,
                delay, idleFor, stop, cause>>
childVars == <<children, deaf, childSpec>>
relayVars == <<waiting, link>>
vars == <<brokerVars, inbox, phase, alive, childVars, relayVars>>

Clients == Sessions \cup {Operator}
Request == [cmd : {"acquire", "release", "status", "shutdown"}, from : Clients]
Running == pc \notin {"exited", "crashed"}

Init ==
  /\ pc = "loop"
  /\ leases = {}
  /\ spec = None
  /\ ssh = None
  /\ starting = None
  /\ req = None
  /\ backend = None
  /\ restartIn = 0
  /\ delay = 1
  /\ idleFor = 0
  /\ stop = FALSE
  /\ cause = "none"
  /\ inbox = <<>>
  /\ phase = [c \in Clients |-> "new"]
  /\ alive = Owners
  /\ children = {}
  /\ deaf = {}
  /\ childSpec = [c \in Children |-> None]
  /\ waiting = {}
  /\ link = [s \in Sessions |-> None]

-----------------------------------------------------------------------------
(* Pieces shared by the handlers.                                          *)

\* The outcomes of an operating-system call that may raise OSError.
Outcome == IF OsMayFail THEN BOOLEAN ELSE {TRUE}

\* Mutant: an acquire that fails is never answered.
SettledSilently(p, ok) ==
  IF p = "asking" THEN (IF ok THEN "held" ELSE p)
  ELSE IF p = "releasing" THEN "done"
  ELSE IF p = "querying" THEN "new" ELSE p

\* A client after the end of its request, positive or not.
Settled(p, ok) ==
  IF p = "asking" THEN (IF ok THEN "held" ELSE "refused")
  ELSE IF p = "releasing" THEN "done"
  ELSE IF p = "querying" THEN "new" ELSE p

\* The reply to client c: it counts only while the client still waits.
Answered(c, ok) == [phase EXCEPT ![c] = Settled(phase[c], ok)]

\* SSH processes in C end: their connections break, their ports close.
EndChildren(C) ==
  /\ children' = children \ C
  /\ deaf' = deaf \ C
  /\ link' = [s \in Sessions |-> IF link[s] \in C THEN None ELSE link[s]]

\* Mutant: the delay is not capped.
DoubledUncapped == 2 * delay

\* restart_delay after a failure.
Doubled == IF 2 * delay > MaxDelay THEN MaxDelay ELSE 2 * delay

BackOff ==
  /\ restartIn' = delay
  /\ delay' = Doubled

\* Mutant: the postponed restart is kept.
ResetBackoffPartly == delay' = 1 /\ UNCHANGED restartIn

\* A started child clears the delay and the postponed restart.
ResetBackoff == delay' = 1 /\ restartIn' = 0

\* The loop ends and the finally block of serve() begins.
LeaveLoop(why) ==
  /\ pc' = "closing"
  /\ cause' = why

-----------------------------------------------------------------------------
(* The head of the loop: stop_requested, _reap_leases, _maintain_tunnel,   *)
(* the idle check.                                                         *)

LoopEnds ==
  /\ pc = "loop"
  /\ stop
  /\ LeaveLoop("shutdown")
  /\ UNCHANGED <<leases, spec, ssh, starting, req, backend, restartIn, delay,
                 idleFor, stop, inbox, phase, alive, childVars, relayVars>>

\* Mutant: the test of pid_alive is inverted.
StaleInverted == {s \in leases : OwnerOf[s] \in alive}

\* Mutant: nothing is ever reaped.
StaleNever == {}

Stale == {s \in leases : OwnerOf[s] \notin alive}

\* Leases of dead owners go; last_release moves only when none is left.
\* broker.json is rewritten, and a failed write ends the loop.
ReapLeases ==
  /\ pc = "loop"
  /\ ~stop
  /\ leases' = leases \ Stale
  /\ idleFor' = IF Stale # {} /\ leases' = {} THEN 0 ELSE idleFor
  /\ \E written \in IF Stale # {} THEN Outcome ELSE {TRUE} :
       IF written THEN pc' = "maintain" /\ UNCHANGED cause
                  ELSE LeaveLoop("error")
  /\ UNCHANGED <<spec, ssh, starting, req, backend, restartIn, delay, stop,
                 inbox, phase, alive, childVars, relayVars>>

\* First half of _maintain_tunnel: an exited child is noticed.
PollChild ==
  /\ pc = "maintain"
  /\ IF ssh # None /\ ssh \notin children
       THEN /\ ssh' = None
            /\ backend' = None
            /\ BackOff
            /\ \E written \in Outcome :
                 IF written THEN pc' = "restart" /\ UNCHANGED cause
                            ELSE LeaveLoop("error")
       ELSE /\ pc' = "restart"
            /\ UNCHANGED <<ssh, backend, restartIn, delay, cause>>
  /\ UNCHANGED <<leases, spec, starting, req, idleFor, stop, inbox, phase,
                 alive, childVars, relayVars>>

\* Mutant: restarts end once the delay has reached its cap.
RestartDueBelowCap ==
  leases # {} /\ ssh = None /\ restartIn = 0 /\ delay < MaxDelay

RestartDue == leases # {} /\ ssh = None /\ restartIn = 0

NoRestart ==
  /\ pc = "restart"
  /\ ~RestartDue
  /\ pc' = "idle"
  /\ UNCHANGED <<leases, spec, ssh, starting, req, backend, restartIn, delay,
                 idleFor, stop, cause, inbox, phase, alive, childVars,
                 relayVars>>

\* Second half of _maintain_tunnel enters _start_ssh: the relay loses its
\* backend and ssh is forked.
Restart(c) ==
  /\ pc = "restart"
  /\ RestartDue
  /\ c \notin children
  /\ pc' = "starting"
  /\ starting' = c
  /\ backend' = None
  /\ children' = children \cup {c}
  /\ childSpec' = [childSpec EXCEPT ![c] = spec]
  /\ UNCHANGED <<leases, spec, ssh, req, restartIn, delay, idleFor, stop,
                 cause, inbox, phase, alive, deaf, relayVars>>

\* ssh cannot be forked.  A missing executable is a RuntimeError, which
\* _maintain_tunnel turns into a longer delay; any other OSError ends the
\* loop.
RestartNotForked ==
  /\ pc = "restart"
  /\ RestartDue
  /\ backend' = None
  /\ \/ pc' = "idle" /\ BackOff /\ UNCHANGED cause
     \/ OsMayFail /\ LeaveLoop("error") /\ UNCHANGED <<restartIn, delay>>
  /\ UNCHANGED <<leases, spec, ssh, starting, req, idleFor, stop, inbox,
                 phase, alive, childVars, relayVars>>

\* Mutant: a broker whose tunnel is up does not count as idle.
IdleWithoutTunnel == leases = {} /\ ssh = None /\ idleFor >= IdleLimit

Idle == leases = {} /\ idleFor >= IdleLimit

IdleCheck ==
  /\ pc = "idle"
  /\ IF Idle
       THEN LeaveLoop("idle")
       ELSE pc' = "accept" /\ UNCHANGED cause
  /\ UNCHANGED <<leases, spec, ssh, starting, req, backend, restartIn, delay,
                 idleFor, stop, inbox, phase, alive, childVars, relayVars>>

\* accept() times out after a second without a connection.
AcceptTimeout ==
  /\ pc = "accept"
  /\ inbox = <<>>
  /\ pc' = "loop"
  /\ UNCHANGED <<leases, spec, ssh, starting, req, backend, restartIn, delay,
                 idleFor, stop, cause, inbox, phase, alive, childVars,
                 relayVars>>

-----------------------------------------------------------------------------
(* _start_ssh waits for the forward, at most START_TIMEOUT_SECONDS.  It    *)
(* runs for _maintain_tunnel when req = None, else for an acquire.         *)

\* Where the loop goes on once _start_ssh has returned or raised.
Resume == IF req = None THEN "idle" ELSE "loop"

\* The port accepts: the child becomes ssh_process and the relay's backend,
\* the delay is reset, and broker.json is written.  An acquire then records
\* its lease and writes broker.json again; when that write fails the lease
\* stays although the client is told of an error.
StartReady ==
  /\ pc = "starting"
  /\ starting \in children \ deaf
  /\ ssh' = starting
  /\ backend' = starting
  /\ ResetBackoff
  /\ pc' = Resume
  /\ starting' = None
  /\ req' = None
  /\ IF req = None
       THEN UNCHANGED <<leases, phase>>
       ELSE /\ leases' = leases \cup {req}
            /\ \E written \in Outcome : phase' = Answered(req, written)
  /\ UNCHANGED <<spec, idleFor, stop, cause, inbox, alive, childVars,
                 relayVars>>

\* The same, but writing broker.json raises OSError inside the try block
\* that was meant for the connect: the loop goes round again.
StartReadyUnwritten ==
  /\ pc = "starting"
  /\ OsMayFail
  /\ starting \in children \ deaf
  /\ ssh' = starting
  /\ backend' = starting
  /\ ResetBackoff
  /\ UNCHANGED <<pc, leases, spec, starting, req, idleFor, stop, cause, inbox,
                 phase, alive, childVars, relayVars>>

\* The RuntimeError of a failed start: a longer delay, or an error reply.
StartRaises ==
  /\ pc' = Resume
  /\ starting' = None
  /\ req' = None
  /\ IF req = None
       THEN BackOff /\ UNCHANGED phase
       ELSE phase' = Answered(req, FALSE) /\ UNCHANGED <<restartIn, delay>>
  /\ UNCHANGED <<leases, spec, ssh, backend, idleFor, stop, cause, inbox,
                 alive, childSpec, waiting>>

StartExited ==
  /\ pc = "starting"
  /\ starting \notin children
  /\ StartRaises
  /\ UNCHANGED <<children, deaf, link>>

\* The deadline passes: the child is terminated, and killed if it lingers.
StartTimeout ==
  /\ pc = "starting"
  /\ starting \in children
  /\ EndChildren({starting})
  /\ StartRaises

-----------------------------------------------------------------------------
(* _serve_connection: one request is read, handled and answered.           *)

Serving(cmd) ==
  /\ pc = "accept"
  /\ inbox # <<>>
  /\ Head(inbox).cmd = cmd
  /\ inbox' = Tail(inbox)

Client == Head(inbox).from

ServeStatus ==
  /\ Serving("status")
  /\ pc' = "loop"
  /\ phase' = Answered(Client, TRUE)
  /\ UNCHANGED <<leases, spec, ssh, starting, req, backend, restartIn, delay,
                 idleFor, stop, cause, alive, childVars, relayVars>>

\* Mutant: shutdown does not look at the leases.
MayStopAlways == TRUE

MayStop == leases = {}

\* Refused while leases are active.
ServeShutdown ==
  /\ Serving("shutdown")
  /\ pc' = "loop"
  /\ stop' = (stop \/ MayStop)
  /\ phase' = Answered(Client, MayStop)
  /\ UNCHANGED <<leases, spec, ssh, starting, req, backend, restartIn, delay,
                 idleFor, cause, alive, childVars, relayVars>>

\* An unknown identifier is ignored, and the idle clock restarts whenever no
\* lease is left.  A failed write only changes the reply.
ServeRelease ==
  /\ Serving("release")
  /\ pc' = "loop"
  /\ leases' = leases \ {Client}
  /\ idleFor' = IF leases' = {} THEN 0 ELSE idleFor
  /\ phase' = Answered(Client, TRUE)
  /\ UNCHANGED <<spec, ssh, starting, req, backend, restartIn, delay, stop,
                 cause, alive, childVars, relayVars>>

\* Mutant: active leases do not protect their endpoint.
AcceptableAnyEndpoint(s) == OwnerOf[s] \in alive

Acceptable(s) ==
  /\ OwnerOf[s] \in alive
  /\ spec # None /\ SpecOf[s] # spec => leases = {}

AcquireRefused ==
  /\ Serving("acquire")
  /\ ~Acceptable(Client)
  /\ pc' = "loop"
  /\ phase' = Answered(Client, FALSE)
  /\ UNCHANGED <<leases, spec, ssh, starting, req, backend, restartIn, delay,
                 idleFor, stop, cause, alive, childVars, relayVars>>

\* _ensure_ssh finds a running child for the same specification.
AcquireShared ==
  /\ Serving("acquire")
  /\ Acceptable(Client)
  /\ SpecOf[Client] = spec
  /\ ssh \in children
  /\ pc' = "loop"
  /\ leases' = leases \cup {Client}
  /\ \E written \in Outcome : phase' = Answered(Client, written)
  /\ UNCHANGED <<spec, ssh, starting, req, backend, restartIn, delay, idleFor,
                 stop, cause, alive, childVars, relayVars>>

\* What an acquire does before _start_ssh forks: _stop_ssh and the new
\* specification when the request asks for another endpoint, then
\* _ensure_ssh drops a dead child.  The backoff delay is not consulted.
Retarget ==
  /\ Serving("acquire")
  /\ Acceptable(Client)
  /\ SpecOf[Client] # spec \/ ssh \notin children
  /\ spec' = SpecOf[Client]
  /\ ssh' = None
  /\ backend' = None

\* Mutant: the child of the old endpoint is forgotten, not stopped.
StoppedNothing == {}

Stopped == IF SpecOf[Client] # spec THEN {ssh} \cap children ELSE {}

AcquireStarts(c) ==
  /\ Retarget
  /\ c \notin children \ Stopped
  /\ pc' = "starting"
  /\ starting' = c
  /\ req' = Client
  /\ children' = (children \ Stopped) \cup {c}
  /\ deaf' = deaf \ Stopped
  /\ link' = [s \in Sessions |-> IF link[s] \in Stopped THEN None ELSE link[s]]
  /\ childSpec' = [childSpec EXCEPT ![c] = SpecOf[Client]]
  /\ UNCHANGED <<leases, restartIn, delay, idleFor, stop, cause, phase, alive,
                 waiting>>

\* ssh cannot be forked: the client is told, and the new specification stays.
AcquireNotForked ==
  /\ Retarget
  /\ pc' = "loop"
  /\ EndChildren(Stopped)
  /\ phase' = Answered(Client, FALSE)
  /\ UNCHANGED <<leases, starting, req, restartIn, delay, idleFor, stop, cause,
                 alive, childSpec, waiting>>

-----------------------------------------------------------------------------
(* The finally block of serve(), and a broker killed outright.             *)

\* _stop_ssh and relay.close: relay threads that still wait return.
CloseTunnel ==
  /\ pc = "closing"
  /\ pc' = "closed"
  /\ EndChildren({ssh} \cap children)
  /\ ssh' = None
  /\ backend' = None
  /\ waiting' = {}
  /\ UNCHANGED <<leases, spec, starting, req, restartIn, delay, idleFor, stop,
                 cause, inbox, phase, alive, childSpec>>

\* Every client with a request in the socket sees its connection reset.
Disconnected == [c \in Clients |-> Settled(phase[c], FALSE)]

\* The control socket closes, the files go and the process ends.
CloseControl ==
  /\ pc = "closed"
  /\ pc' = "exited"
  /\ leases' = {}
  /\ inbox' = <<>>
  /\ phase' = Disconnected
  /\ link' = [s \in Sessions |-> None]
  /\ UNCHANGED <<spec, ssh, starting, req, backend, restartIn, delay, idleFor,
                 stop, cause, alive, childVars, waiting>>

\* The process is killed.  Its SSH child runs in a session of its own and
\* survives.
Crash ==
  /\ Running
  /\ pc' = "crashed"
  /\ cause' = "crash"
  /\ leases' = {}
  /\ inbox' = <<>>
  /\ phase' = Disconnected
  /\ waiting' = {}
  /\ link' = [s \in Sessions |-> None]
  /\ ssh' = None
  /\ starting' = None
  /\ req' = None
  /\ backend' = None
  /\ UNCHANGED <<spec, restartIn, delay, idleFor, stop, alive, childVars>>

-----------------------------------------------------------------------------
(* Clients, owners, the SSH child, relay threads and time.                 *)

Send(c, cmd, next) ==
  /\ Running
  /\ inbox' = Append(inbox, [cmd |-> cmd, from |-> c])
  /\ phase' = [phase EXCEPT ![c] = next]
  /\ UNCHANGED <<brokerVars, alive, childVars, relayVars>>

Ask(s) ==
  /\ phase[s] = "new"
  /\ OwnerOf[s] \in alive
  /\ Send(s, "acquire", "asking")

Release(s) ==
  /\ phase[s] = "held"
  /\ OwnerOf[s] \in alive
  /\ Send(s, "release", "releasing")

Query(cmd) ==
  /\ phase[Operator] = "new"
  /\ cmd \in {"status", "shutdown"}
  /\ Send(Operator, cmd, "querying")

\* request() times out: the request stays in the socket and is still served.
GiveUp(s) ==
  /\ Running
  /\ phase[s] \in {"asking", "releasing"}
  /\ phase' = [phase EXCEPT ![s] = IF @ = "asking" THEN "gaveup" ELSE "done"]
  /\ UNCHANGED <<brokerVars, inbox, alive, childVars, relayVars>>

OwnerDies(o) ==
  /\ Running
  /\ o \in alive
  /\ alive' = alive \ {o}
  /\ UNCHANGED <<brokerVars, inbox, phase, childVars, relayVars>>

\* ssh exits by itself: the network failed, the server went away.
ChildExits(c) ==
  /\ Running
  /\ c \in children
  /\ EndChildren({c})
  /\ UNCHANGED <<brokerVars, inbox, phase, alive, childSpec, waiting>>

\* ssh keeps running but its local forward no longer listens.
ForwardLost(c) ==
  /\ Running
  /\ c \in children \ deaf
  /\ deaf' = deaf \cup {c}
  /\ UNCHANGED <<brokerVars, inbox, phase, alive, children, childSpec,
                 relayVars>>

\* Codex opens a connection to the public port; a relay thread takes it.
Connect(s) ==
  /\ Running
  /\ pc # "closed"
  /\ phase[s] = "held"
  /\ s \notin waiting
  /\ link[s] = None
  /\ waiting' = waiting \cup {s}
  /\ UNCHANGED <<brokerVars, inbox, phase, alive, childVars, link>>

\* _connect_backend: the thread reads the backend port and dials it.
Attach(s) ==
  /\ s \in waiting
  /\ backend \in children \ deaf
  /\ waiting' = waiting \ {s}
  /\ link' = [link EXCEPT ![s] = backend]
  /\ UNCHANGED <<brokerVars, inbox, phase, alive, childVars>>

\* BACKEND_WAIT_SECONDS pass without a backend.
AttachTimeout(s) ==
  /\ s \in waiting
  /\ waiting' = waiting \ {s}
  /\ UNCHANGED <<brokerVars, inbox, phase, alive, childVars, link>>

Hangup(s) ==
  /\ link[s] # None
  /\ link' = [link EXCEPT ![s] = None]
  /\ UNCHANGED <<brokerVars, inbox, phase, alive, childVars, waiting>>

Tick ==
  /\ Running
  /\ restartIn > 0 \/ idleFor < IdleLimit
  /\ restartIn' = IF restartIn > 0 THEN restartIn - 1 ELSE 0
  /\ idleFor' = IF idleFor < IdleLimit THEN idleFor + 1 ELSE IdleLimit
  /\ UNCHANGED <<pc, leases, spec, ssh, starting, req, backend, delay, stop,
                 cause, inbox, phase, alive, childVars, relayVars>>

-----------------------------------------------------------------------------
StartEnds == StartReady \/ StartExited \/ StartTimeout

LoopHead ==
  \/ LoopEnds \/ ReapLeases \/ PollChild
  \/ NoRestart \/ (\E c \in Children : Restart(c)) \/ RestartNotForked
  \/ IdleCheck \/ AcceptTimeout

Serve ==
  \/ ServeStatus \/ ServeShutdown \/ ServeRelease
  \/ AcquireRefused \/ AcquireShared
  \/ (\E c \in Children : AcquireStarts(c)) \/ AcquireNotForked

BrokerStep == LoopHead \/ StartEnds \/ Serve \/ CloseTunnel \/ CloseControl

Environment ==
  \/ \E s \in Sessions : Ask(s) \/ Release(s) \/ GiveUp(s)
  \/ \E cmd \in {"status", "shutdown"} : Query(cmd)
  \/ \E o \in Owners : OwnerDies(o)
  \/ \E c \in Children : ChildExits(c) \/ ForwardLost(c)
  \/ \E s \in Dialers :
       Connect(s) \/ Attach(s) \/ AttachTimeout(s) \/ Hangup(s)
  \/ Tick

Next == BrokerStep \/ StartReadyUnwritten \/ Crash \/ Environment

Spec == Init /\ [][Next]_vars

\* The broker process runs, time passes, and a remote that is tried again
\* and again is reached at last.
Fairness ==
  /\ WF_vars(BrokerStep)
  /\ WF_vars(Tick)
  /\ SF_vars(\E c \in Children : Restart(c) \/ AcquireStarts(c))
  /\ SF_vars(StartReady)

FairSpec == Spec /\ Fairness

-----------------------------------------------------------------------------
(* Properties.                                                             *)

\* Types of the broker's fields, of the client phases and of the processes
\* and relay connections around them.
TypeOK ==
  /\ pc \in {"loop", "maintain", "restart", "starting", "idle", "accept",
             "closing", "closed", "exited", "crashed"}
  /\ leases \subseteq Sessions
  /\ spec \in Specs \cup {None}
  /\ ssh \in Children \cup {None}
  /\ starting \in Children \cup {None}
  /\ req \in Sessions \cup {None}
  /\ backend \in Children \cup {None}
  /\ restartIn \in 0..MaxDelay
  /\ delay \in 1..MaxDelay
  /\ idleFor \in 0..IdleLimit
  /\ stop \in BOOLEAN
  /\ cause \in {"none", "idle", "shutdown", "error", "crash"}
  /\ inbox \in Seq(Request)
  /\ phase \in [Clients -> {"new", "asking", "held", "refused", "gaveup",
                            "releasing", "done", "querying"}]
  /\ alive \subseteq Owners
  /\ children \subseteq Children
  /\ deaf \subseteq children
  /\ childSpec \in [Children -> Specs \cup {None}]
  /\ waiting \subseteq Sessions
  /\ link \in [Sessions -> Children \cup {None}]

\* Leases never mix endpoints: whatever refusals, failed starts and
\* retargetings came before, every recorded lease was asked for the endpoint
\* the broker now forwards to (_response, the "different remote endpoint"
\* refusal together with the assignment of self.spec before _ensure_ssh).
LeasesShareEndpoint == \A s \in leases : SpecOf[s] = spec

\* The broker loses track of no SSH child: one it has not itself stopped is
\* ssh_process or the child of the running _start_ssh, these two are never
\* different children, and an orderly exit leaves none (_start_ssh,
\* _stop_ssh, _ensure_ssh, the finally block of serve).  Only a kill orphans
\* a child.
NoStrayChild ==
  cause # "crash" =>
    /\ children \subseteq {ssh, starting} \ {None}
    /\ ssh # None /\ starting # None => ssh = starting
    /\ pc = "exited" => children = {}

\* A relay connection of a session that holds its lease runs to the endpoint
\* the session asked for, even when the connection waited in _connect_backend
\* while tunnels were stopped, restarted or retargeted by other sessions.
LinkReachesLeasedEndpoint ==
  \A s \in leases : link[s] # None => childSpec[link[s]] = SpecOf[s]

\* A session told that it holds a lease does hold it as long as its owner
\* lives: it cannot be reaped for another owner's death, lost in a restart,
\* or thrown away by an idle exit or a shutdown (_reap_leases, serve,
\* shutdown).  Only an error or a kill of the broker breaks the promise.
HeldLeaseHonoured ==
  \A s \in Sessions :
    phase[s] = "held" /\ OwnerOf[s] \in alive /\ cause \notin {"error", "crash"}
      => s \in leases

\* Backoff belongs to a tunnel that is down: while the child runs the delay is
\* back at its minimum and no restart is postponed, however many failures,
\* refused acquires or bypassed delays came before (_start_ssh against
\* _maintain_tunnel).
BackoffOnlyWhileDown == ssh \in children => delay = 1 /\ restartIn = 0

\* A lease leaves the broker only because its session released it, because
\* its owner died, or because the broker itself stops.
LeaseLeavesForAReason ==
  [][\A s \in leases \ leases' :
       \/ phase[s] \in {"releasing", "done"}
       \/ OwnerOf[s] \notin alive
       \/ pc' \in {"exited", "crashed"}]_vars

\* The endpoint changes only while nobody holds a lease, and no restart by
\* _maintain_tunnel ever starts a child for an endpoint other than the leased
\* one.
EndpointFixedWhileLeased ==
  [][/\ spec' # spec => leases = {}
     /\ starting' # starting /\ starting' # None => childSpec'[starting'] = spec'
    ]_vars

Stops == pc \in {"exited", "crashed"}

\* Stale leases are reclaimed: the lease of a dead owner goes, even one that
\* was granted to a client that had given up.
StaleLeaseReclaimed ==
  \A s \in Sessions :
    (s \in leases /\ OwnerOf[s] \notin alive) ~> (s \notin leases)

\* A tunnel whose child exited while leases are held comes back.
TunnelRebuilt ==
  (leases # {} /\ ssh \notin children /\ Running)
    ~> (ssh \in children \/ leases = {} \/ Stops)

\* Every request that reached the socket is answered or its connection reset.
RequestsAnswered ==
  \A c \in Clients :
    (phase[c] \in {"asking", "releasing", "querying"})
      ~> (phase[c] \notin {"asking", "releasing", "querying"})

\* A broker that nobody leases any more exits, whatever status requests and
\* refused or failed acquires keep arriving.
IdleBrokerExits == <>[](leases = {}) => <>Stops

\* The tunnel as its users see it: the endpoint of the running child.
Tunnel == IF ssh \in children THEN childSpec[ssh] ELSE None

Service == INSTANCE LeaseService WITH
  open <- Running, granted <- leases, endpoint <- spec, tunnel <- Tunnel

\* The broker implements the lease service: every step of the loop, of the
\* handlers and of the processes around them is a grant, a withdrawal, the
\* tunnel going up or down, a retargeting or the close of the service, or is
\* invisible to it.
ImplementsLeaseService == Service!Spec

\* architecture.md: "The broker rebuilds only when its SSH child exits or the
\* local forward is no longer listening."  A leased tunnel whose forward stops
\* listening while ssh runs on is rebuilt.
DeafTunnelRebuilt ==
  (leases # {} /\ ssh \in deaf) ~> (ssh \notin deaf \/ leases = {} \/ Stops)

-----------------------------------------------------------------------------
(* The inductive invariant behind the safety properties.                   *)

\* Control: _start_ssh has a child exactly while it runs, only it serves a
\* pending acquire, and the reason to stop is recorded when the loop is left.
ControlInv ==
  /\ pc = "starting" <=> starting # None
  /\ req # None => pc = "starting"
  /\ cause = "none" <=> pc \notin {"closing", "closed", "exited", "crashed"}
  /\ pc = "crashed" <=> cause = "crash"
  /\ stop => leases = {} /\ pc \in {"loop", "closing", "closed", "exited", "crashed"}
  /\ cause \in {"idle", "shutdown"} => leases = {}

\* Children: what runs is tracked, what is tracked was started for the
\* present endpoint, and the relay only ever points at it.
ChildInv ==
  /\ cause # "crash" => children \subseteq {ssh, starting}
  /\ ssh # None /\ starting # None => ssh = starting
  /\ ssh # None => pc \notin {"closed", "exited", "crashed"} /\ childSpec[ssh] = spec /\ spec # None
  /\ starting # None => childSpec[starting] = spec /\ spec # None
  /\ backend # None => backend = ssh
  /\ \A s \in Sessions : link[s] # None => link[s] = ssh /\ link[s] \in children

\* Leases: they and a pending acquire share the present endpoint.
LeaseInv ==
  /\ LeasesShareEndpoint
  /\ req # None => SpecOf[req] = spec
  /\ leases # {} => spec # None

\* Requests: sessions acquire and release, the operator asks the rest, and a
\* session whose release is on its way no longer counts on its lease.
InboxInv ==
  \A i \in 1..Len(inbox) :
    /\ inbox[i].cmd \in {"acquire", "release"} <=> inbox[i].from \in Sessions
    /\ inbox[i].cmd = "release" => phase[inbox[i].from] \in {"releasing", "done"}

\* The inductive invariant.
IInv ==
  /\ TypeOK
  /\ ControlInv
  /\ ChildInv
  /\ LeaseInv
  /\ InboxInv
  /\ HeldLeaseHonoured
  /\ BackoffOnlyWhileDown
=============================================================================
