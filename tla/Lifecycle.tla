------------------------------ MODULE Lifecycle -----------------------------
(***************************************************************************)
(* start() and stop() of one node, called by several tasks of the          *)
(* application: the `running` flag, the two shared promises #startPromise  *)
(* and #stopPromise, the sockets and their read loops (#consume), and      *)
(* #teardown.  A step is one run of the event loop up to the next `await`; *)
(* the promise of a start or a stop is named after the task that created   *)
(* it.                                                                     *)
(***************************************************************************)
EXTENDS FiniteSets

CONSTANTS
    Roles,       \* the roles a node may be constructed with
    Heartbeats,  \* heartbeatInterval > 0
    Starters,    \* tasks that call start(), one call at a time
    Stoppers,    \* tasks that call stop(), one call at a time
    Sockets,     \* socket objects (bound: a free one is reused)
    Patient,     \* assumption: no second start() waits for the same stop()
    None

ASSUME LifecycleAssumption ==
    /\ Roles \subseteq {"slave", "master"}
    /\ Heartbeats \in BOOLEAN
    /\ Patient \in BOOLEAN
    /\ Starters \cap Stoppers = {}
    /\ None \notin Starters \cup Stoppers \cup Sockets

Tasks == Starters \cup Stoppers

VARIABLES
    role,         \* "slave" or "master", fixed
    running,      \* this.running
    startPromise, \* #startPromise: None or the task whose #doStart it follows
    stopPromise,  \* #stopPromise: None or the task whose #doStop it follows
    pc,           \* where each task stands in start() or stop()
    awaits,       \* the task whose promise it awaits, or None
    own,          \* the Router a #doStart is binding, or None
    current,      \* #sockets: the router or the dealer, or None
    open,         \* sockets that are not closed
    readLoops,    \* #readLoops: the loops registered since the last teardown
    alive,        \* read loops that have not ended
    awaited       \* the read loops the teardown of each task waits for

vars == <<role, running, startPromise, stopPromise, pc, awaits, own, current, open,
          readLoops, alive, awaited>>

promises == <<startPromise, stopPromise>>
sockets == <<current, open, readLoops, alive>>

\* A socket that is closed and whose loop has ended can stand for a new one.
Free == Sockets \ (open \cup alive \cup {current}
                   \cup {own[c] : c \in Tasks} \cup UNION {awaited[c] : c \in Tasks})

Init ==
    /\ role \in Roles
    /\ running = FALSE
    /\ startPromise = None
    /\ stopPromise = None
    /\ pc = [c \in Tasks |-> "idle"]
    /\ awaits = [c \in Tasks |-> None]
    /\ own = [c \in Tasks |-> None]
    /\ current = None
    /\ open = {}
    /\ readLoops = {}
    /\ alive = {}
    /\ awaited = [c \in Tasks |-> {}]

\* The promise of task d is settled; who awaits it goes on before d does.
Over(d) == pc[d] \in {"started", "rejected", "stopped"}
Awaited(c) == \E d \in Tasks : awaits[d] = c

\* Continuations that are due run before the application makes its next call:
\* first those of #teardown and #doStop, then those of the shared promises, which
\* settle a few microtasks later.
LoopsEnded(c) == awaited[c] \cap alive = {}
TeardownDue ==
    \E d \in Tasks :
        \/ pc[d] \in {"teardown", "failing"} /\ LoopsEnded(d)
        \/ pc[d] = "unregister" /\ current \notin open
PromiseDue ==
    \E d \in Tasks :
        pc[d] \in {"joinStart", "awaitStop", "joinStop", "awaitStart"} /\ Over(awaits[d])

Called(c) == pc[c] = "idle" /\ ~TeardownDue /\ ~PromiseDue

Goto(c, label, of) ==
    /\ pc' = [pc EXCEPT ![c] = label]
    /\ awaits' = [awaits EXCEPT ![c] = of]

(***************************************************************************)
(* start().                                                                *)
(***************************************************************************)

\* `if (this.running) return` comes before any look at the promises.
StartAtOnce(c) ==
    /\ Called(c)
    /\ running
    /\ pc' = [pc EXCEPT ![c] = "started"]
    /\ UNCHANGED <<role, running, promises, awaits, own, sockets, awaited>>

\* #startPromise is met only while a failed bind() tears down, which takes a few
\* microtasks: a call from another microtask finds it.
StartJoins(c) ==
    /\ pc[c] = "idle"
    /\ ~running
    /\ startPromise # None
    /\ Goto(c, "joinStart", startPromise)
    /\ UNCHANGED <<role, running, promises, own, sockets, awaited>>

StartAwaitsStop(c) ==
    /\ Called(c)
    /\ ~running
    /\ startPromise = None
    /\ stopPromise # None
    /\ Patient => \A d \in Tasks : pc[d] # "awaitStop"
    /\ Goto(c, "awaitStop", stopPromise)
    /\ UNCHANGED <<role, running, promises, own, sockets, awaited>>

\* A new socket enters #sockets and gets its read loop.
Opened(s) ==
    /\ current' = s
    /\ open' = open \cup {s}
    /\ readLoops' = readLoops \cup {s}
    /\ alive' = alive \cup {s}

\* #doStart up to its first await: a slave creates its Dealer at once, a
\* master waits for bind().
DoStart(c) ==
    /\ running' = TRUE
    /\ startPromise' = c
    /\ Goto(c, "starting", None)
    /\ \E s \in Free :
         IF role = "slave"
         THEN Opened(s) /\ own' = own
         ELSE own' = [own EXCEPT ![c] = s] /\ UNCHANGED sockets
    /\ UNCHANGED <<role, stopPromise, awaited>>

StartFresh(c) ==
    /\ Called(c)
    /\ ~running
    /\ startPromise = None
    /\ stopPromise = None
    /\ DoStart(c)

\* The stop it waited for is over: it starts, with no second look at the state.
StartResumes(c) ==
    /\ pc[c] = "awaitStop"
    /\ Over(awaits[c])
    /\ ~TeardownDue
    /\ DoStart(c)

StartJoined(c) ==
    /\ pc[c] = "joinStart"
    /\ Over(awaits[c])
    /\ Goto(c, pc[awaits[c]], None)
    /\ UNCHANGED <<role, running, promises, own, sockets, awaited>>

\* bind() succeeded, so the address was free, or the slave's synchronous part is
\* over; `finally` clears #startPromise, whoever it belongs to.
StartSucceeds(c) ==
    /\ pc[c] = "starting"
    /\ role = "master" => open = {}
    /\ IF role = "master"
       THEN Opened(own[c]) /\ own' = [own EXCEPT ![c] = None]
       ELSE UNCHANGED <<sockets, own>>
    /\ startPromise' = None
    /\ pc' = [pc EXCEPT ![c] = "started"]
    /\ UNCHANGED <<role, running, stopPromise, awaits, awaited>>

(***************************************************************************)
(* #teardown: close what #sockets holds, wait for the read loops, forget.  *)
(***************************************************************************)
Closed_Off == open
Closed == open \ {current}

AwaitedLoops_Current == {current}
AwaitedLoops == readLoops

TeardownBegin(c) ==
    /\ running' = FALSE
    /\ open' = Closed
    /\ awaited' = [awaited EXCEPT ![c] = AwaitedLoops]
    /\ UNCHANGED <<current, readLoops, alive>>

Forgotten == None

TeardownEnd(c) ==
    /\ LoopsEnded(c)
    /\ awaited' = [awaited EXCEPT ![c] = {}]
    /\ readLoops' = {}
    /\ current' = Forgotten
    /\ UNCHANGED <<open, alive>>

\* bind() failed: #doStart tears down what it finds and rejects.
StartFails(c) ==
    /\ role = "master"
    /\ pc[c] = "starting"
    /\ own' = [own EXCEPT ![c] = None]
    /\ TeardownBegin(c)
    /\ pc' = [pc EXCEPT ![c] = "failing"]
    /\ UNCHANGED <<role, promises, awaits>>

StartRejected(c) ==
    /\ pc[c] = "failing"
    /\ TeardownEnd(c)
    /\ startPromise' = None
    /\ pc' = [pc EXCEPT ![c] = "rejected"]
    /\ UNCHANGED <<role, running, stopPromise, awaits, own>>

\* start() has returned to its caller.
StartReturned(c) ==
    /\ pc[c] \in {"started", "rejected"}
    /\ ~Awaited(c)
    /\ pc' = [pc EXCEPT ![c] = "idle"]
    /\ UNCHANGED <<role, running, promises, awaits, own, sockets, awaited>>

(***************************************************************************)
(* stop().                                                                 *)
(***************************************************************************)
StopJoins(c) ==
    /\ Called(c)
    /\ stopPromise # None
    /\ Goto(c, "joinStop", stopPromise)
    /\ UNCHANGED <<role, running, promises, own, sockets, awaited>>

\* The start that stop() lets end first.
StartToAwait_Off == None
StartToAwait == startPromise

StopAwaitsStart(c) ==
    /\ Called(c)
    /\ stopPromise = None
    /\ StartToAwait # None
    /\ Goto(c, "awaitStart", StartToAwait)
    /\ UNCHANGED <<role, running, promises, own, sockets, awaited>>

\* Nothing runs and no socket is left: nothing to do.
StopIdle(c) ==
    /\ \/ Called(c) /\ stopPromise = None /\ StartToAwait = None
       \/ pc[c] = "awaitStart" /\ Over(awaits[c])
    /\ ~running /\ current = None
    /\ Goto(c, "stopped", None)
    /\ UNCHANGED <<role, running, promises, own, sockets, awaited>>

\* #doStop: a slave with a Dealer first awaits its unregister frame and is
\* still running meanwhile.
StopBegins(c) ==
    /\ \/ Called(c) /\ stopPromise = None /\ StartToAwait = None
       \/ pc[c] = "awaitStart" /\ Over(awaits[c])
    /\ running \/ current # None
    /\ stopPromise' = c
    /\ IF role = "slave" /\ current # None
       THEN /\ Goto(c, "unregister", None)
            /\ UNCHANGED <<running, sockets, awaited>>
       ELSE /\ Goto(c, "teardown", None)
            /\ TeardownBegin(c)
    /\ UNCHANGED <<role, startPromise, own>>

StopUnregistered(c) ==
    /\ pc[c] = "unregister"
    /\ Goto(c, "teardown", None)
    /\ TeardownBegin(c)
    /\ UNCHANGED <<role, promises, own>>

StopCompletes(c) ==
    /\ pc[c] = "teardown"
    /\ TeardownEnd(c)
    /\ stopPromise' = None
    /\ pc' = [pc EXCEPT ![c] = "stopped"]
    /\ UNCHANGED <<role, running, startPromise, awaits, own>>

StopJoined(c) ==
    /\ pc[c] = "joinStop"
    /\ Over(awaits[c])
    /\ Goto(c, "stopped", None)
    /\ UNCHANGED <<role, running, promises, own, sockets, awaited>>

StopReturned(c) ==
    /\ pc[c] = "stopped"
    /\ ~Awaited(c)
    /\ pc' = [pc EXCEPT ![c] = "idle"]
    /\ UNCHANGED <<role, running, promises, awaits, own, sockets, awaited>>

(***************************************************************************)
(* Read loops and the rebuild of the Dealer.                               *)
(***************************************************************************)

\* The loop of a closed socket ends when the handler it is in returns; a loop
\* that gets a frame while the node does not run returns as well.
LoopEnds(s) ==
    /\ s \in alive
    /\ s \notin open \/ ~running
    /\ alive' = alive \ {s}
    /\ UNCHANGED <<role, running, promises, pc, awaits, own, current, open, readLoops, awaited>>

\* #restartDealer, on a heartbeat timeout: the timers are cleared by stop().
RestartDealer ==
    /\ role = "slave"
    /\ Heartbeats
    /\ ~TeardownDue /\ ~PromiseDue
    /\ running
    /\ current # None
    /\ \A c \in Tasks : pc[c] # "unregister"
    /\ \E s \in Free :
         /\ current' = s
         /\ open' = Closed \cup {s}
         /\ readLoops' = readLoops \cup {s}
         /\ alive' = alive \cup {s}
    /\ UNCHANGED <<role, running, promises, pc, awaits, own, awaited>>

StartStep(c) ==
    \/ StartAtOnce(c) \/ StartJoins(c) \/ StartAwaitsStop(c) \/ StartFresh(c)
    \/ StartResumes(c) \/ StartJoined(c) \/ StartSucceeds(c) \/ StartFails(c)
    \/ StartRejected(c) \/ StartReturned(c)

StopStep(c) ==
    \/ StopJoins(c) \/ StopAwaitsStart(c) \/ StopIdle(c) \/ StopBegins(c)
    \/ StopUnregistered(c) \/ StopCompletes(c) \/ StopJoined(c) \/ StopReturned(c)

Next ==
    \/ \E c \in Starters : StartStep(c)
    \/ \E c \in Stoppers : StopStep(c)
    \/ \E s \in Sockets : LoopEnds(s)
    \/ RestartDealer

Spec == Init /\ [][Next]_vars

\* What a task has begun goes on: bind() answers, the unregister frame is
\* written (RpcChannel says when), handlers return, waiting tasks resume.
Fairness ==
    /\ \A c \in Starters :
         /\ WF_vars(StartSucceeds(c) \/ StartFails(c))
         /\ WF_vars(StartResumes(c) \/ StartJoined(c) \/ StartRejected(c))
         /\ WF_vars(StartReturned(c))
    /\ \A c \in Stoppers :
         /\ WF_vars(StopUnregistered(c))
         /\ WF_vars(StopCompletes(c))
         /\ WF_vars(pc[c] # "idle" /\ (StopIdle(c) \/ StopBegins(c) \/ StopJoined(c)))
         /\ WF_vars(StopReturned(c))
    /\ \A s \in Sockets : WF_vars(s \notin open /\ LoopEnds(s))

FairSpec == Spec /\ Fairness

(***************************************************************************)
(* Properties.                                                             *)
(***************************************************************************)
Labels == {"idle", "joinStart", "awaitStop", "starting", "failing", "started",
           "rejected", "joinStop", "awaitStart", "unregister", "teardown", "stopped"}

\* The shape of the state.
TypeOK ==
    /\ role \in {"slave", "master"}
    /\ running \in BOOLEAN
    /\ startPromise \in Tasks \cup {None}
    /\ stopPromise \in Tasks \cup {None}
    /\ pc \in [Tasks -> Labels]
    /\ awaits \in [Tasks -> Tasks \cup {None}]
    /\ own \in [Tasks -> Sockets \cup {None}]
    /\ current \in Sockets \cup {None}
    /\ open \subseteq Sockets
    /\ readLoops \subseteq Sockets
    /\ alive \subseteq Sockets
    /\ awaited \in [Tasks -> SUBSET Sockets]

\* No start and no stop is under way.
Quiet ==
    \A c \in Tasks : pc[c] \in {"idle", "started", "rejected", "stopped"}

\* However starts, failed binds, rebuilds and stops overlap, no socket escapes:
\* whatever is open is the one #sockets names, so that teardown will close it;
\* and when nothing is under way the flag, the socket and its read loop agree.
Consistent ==
    /\ open \subseteq {current}
    /\ Quiet =>
        /\ running <=> current # None
        /\ running => current \in open \cap alive

Returns(S) == \A c \in S : pc[c] # "idle" ~> pc[c] = "idle"

\* Every start() and every stop() comes back to its caller (src/ZNL.js:357: stop()
\* may be called again and again).
StopReturns == Returns(Stoppers)
CallsReturn == Returns(Starters \cup Stoppers)
=============================================================================
