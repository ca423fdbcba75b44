----------------------------- MODULE RpcChannel -----------------------------
(***************************************************************************)
(* The outgoing RPC of one node: PendingManager (the map of calls that     *)
(* wait for an answer, with their timers), SendQueue (one FIFO channel     *)
(* with one task running at a time), #request / #requestTo, the rebuild of *)
(* the Dealer (#restartDealer) and stop().  The peer, the ZeroMQ socket    *)
(* and the network are the environment.                                    *)
(*                                                                         *)
(* An action is one synchronous run of the event loop, with the microtasks *)
(* that follow it: code up to an `await` cannot be interleaved.            *)
(***************************************************************************)
EXTENDS Naturals, FiniteSets, SequenceOrder

CONSTANTS
    Calls,       \* the calls the application makes (one randomUUID() each)
    Roles,       \* the roles a node may be constructed with
    MaxPending,  \* the maxPending option, 0 = no limit
    HeartbeatOn, \* heartbeatInterval > 0
    MayStop,     \* whether the application ever calls stop()
    MaxOther,    \* bound: other frames (replies, heartbeats, ...) queued at once
    Other,       \* the send task of any other frame
    Unregister,  \* the send task of the unregister frame of stop()
    Idle         \* no task is running

ASSUME RpcAssumption ==
    /\ Roles \subseteq {"slave", "master"}
    /\ MaxPending \in Nat
    /\ HeartbeatOn \in BOOLEAN
    /\ MayStop \in BOOLEAN
    /\ MaxOther \in Nat
    /\ Other \notin Calls
    /\ Unregister \notin Calls
    /\ Idle \notin Calls
    /\ Idle # Other /\ Idle # Unregister /\ Other # Unregister
    /\ IsFiniteSet(Calls)

Task == Calls \cup {Other, Unregister}

VARIABLES
    role,     \* "slave" (Dealer, may be rebuilt) or "master" (Router), fixed
    node,     \* "up", "stopping" (unregister being sent), "closing" (sockets
              \* closed, teardown waits for the read loops) or "down"
    queue,    \* SendQueue: tasks of the channel that have not started
    sending,  \* SendQueue: the task whose socket.send is awaited, or Idle
    pend,     \* PendingManager.#map: calls with an entry
    timer,    \* calls with an armed timeout
    call,     \* what the caller sees of its promise
    sent,     \* calls whose frame the socket accepted, in that order
    inbox,    \* request frames on their way to the peer
    served,   \* calls whose handler has run on the peer
    replies,  \* response frames on their way back
    peer,     \* the peer is connected
    issued,   \* history: calls in the order they were queued
    leaked    \* history: calls whose sealing or key lookup threw

chan == <<queue, sending, sent, issued>>
book == <<pend, timer, call, leaked>>
net  == <<role, inbox, served, replies, peer>>
vars == <<node, chan, book, net>>

Waiting == {r \in Calls : call[r] = "waiting"}

(***************************************************************************)
(* PendingManager and SendQueue, as operators on the state.  A name with a *)
(* suffix _Off is a variant used to show that a property can fail.         *)
(***************************************************************************)

\* ensureCapacity.
HasCapacity == MaxPending = 0 \/ Cardinality(pend) < MaxPending

\* key(): a response settles the entry of its own requestId (and slave).
Key_Off(r) == pend
Key(r) == {r}

\* resolve, reject and rejectAll act only on keys that are in the map: a late
\* answer or error is dropped.  A promise that is settled stays as it is.
Settled(S, how) ==
    [r \in Calls |-> IF r \in S \cap pend /\ call[r] = "waiting" THEN how ELSE call[r]]

\* The entry leaves the map with its timer.
Unmapped_Off(S) == pend
Unmapped(S) == pend \ S

\* startTimer: the timeout runs only once the send task starts.
ArmedBy_Off(t) == {}
ArmedBy_Any(t) == {t}
ArmedBy(t) == {t} \cap Calls

\* enqueue: the task is appended, and started at once if nothing runs.
Appended_Off(t) == <<t>> \o queue
Appended(t) == Append(queue, t)

Enqueue(t) ==
    IF sending = Idle
    THEN sending' = t /\ queue' = queue
    ELSE sending' = sending /\ queue' = Appended(t)

StartedBy(t) == IF sending = Idle THEN ArmedBy(t) ELSE {}

\* #drain, when the running task ends: take the next one, in order.
NextTask == IF queue = <<>> THEN Idle ELSE Head(queue)
RestOfQueue == IF queue = <<>> THEN <<>> ELSE Tail(queue)

\* clear(): the tasks that have not started are rejected.
Cleared_Off == queue
Cleared == <<>>

\* A Dealer with immediate: true writes only to a completed connection;
\* a Router drops what it cannot route.
Writable == role = "master" \/ peer

\* The frame of task t reaches the socket, and the peer if it is there.
Transmit(t) ==
    /\ sent' = IF t \in Calls THEN Append(sent, t) ELSE sent
    /\ inbox' = IF t \in Calls /\ peer THEN inbox \cup {t} ELSE inbox

Unsent == UNCHANGED <<sent, inbox>>

Init ==
    /\ role \in Roles
    /\ node = "up"
    /\ queue = <<>>
    /\ sending = Idle
    /\ pend = {}
    /\ timer = {}
    /\ call = [r \in Calls |-> "idle"]
    /\ sent = <<>>
    /\ inbox = {}
    /\ served = {}
    /\ replies = {}
    /\ peer \in BOOLEAN
    /\ issued = <<>>
    /\ leaked = {}

(***************************************************************************)
(* #request and #requestTo.  requireSocket still answers during "closing": *)
(* the closed socket leaves #sockets only at the end of teardown.          *)
(***************************************************************************)
CallRefused(r) ==
    /\ call[r] = "idle"
    /\ node = "down" \/ ~HasCapacity
    /\ call' = [call EXCEPT ![r] = "failed"]
    /\ UNCHANGED <<node, chan, pend, timer, leaked, net>>

Call(r) ==
    /\ call[r] = "idle"
    /\ node # "down"
    /\ HasCapacity
    /\ call' = [call EXCEPT ![r] = "waiting"]
    /\ pend' = pend \cup {r}
    /\ timer' = timer \cup StartedBy(r)
    /\ Enqueue(r)
    /\ issued' = Append(issued, r)
    /\ UNCHANGED <<node, leaked, sent, net>>

\* The entry is created before the payload is sealed: when the key lookup or
\* the sealing throws, the caller sees the error and the entry stays.
CallUnsealed(r) ==
    /\ call[r] = "idle"
    /\ node # "down"
    /\ HasCapacity
    /\ call' = [call EXCEPT ![r] = "failed"]
    /\ pend' = pend \cup {r}
    /\ leaked' = leaked \cup {r}
    /\ UNCHANGED <<node, chan, timer, net>>

\* #reply, #replyTo, PUBLISH, PUSH, heartbeats and service frames share the channel.
SendOther ==
    /\ node # "down"
    /\ Cardinality({i \in 1..Len(queue) : queue[i] = Other}) < MaxOther
    /\ Enqueue(Other)
    /\ UNCHANGED <<node, book, sent, issued, net>>

(***************************************************************************)
(* The running task ends and #drain starts the next one.  The unregister   *)
(* task is awaited by stop() and ends in StopClose.                        *)
(***************************************************************************)
SendOk ==
    /\ sending \notin {Idle, Unregister}
    /\ node \in {"up", "stopping"}
    /\ Writable
    /\ Transmit(sending)
    /\ sending' = NextTask
    /\ queue' = RestOfQueue
    /\ timer' = timer \cup ArmedBy(NextTask)
    /\ UNCHANGED <<role, node, pend, call, leaked, issued, served, replies, peer>>

\* socket.send rejects; `.catch` of the request then rejects its entry.
SendFail ==
    /\ sending \notin {Idle, Unregister}
    /\ call' = Settled({sending}, "failed")
    /\ pend' = Unmapped({sending})
    /\ timer' = (timer \ ({sending} \cap pend)) \cup ArmedBy(NextTask)
    /\ sending' = NextTask
    /\ queue' = RestOfQueue
    /\ UNCHANGED <<node, leaked, sent, issued, net>>

\* The timer callback deletes the key and rejects the promise.
Timeout(r) ==
    /\ r \in timer
    /\ timer' = timer \ {r}
    /\ pend' = Unmapped({r})
    /\ call' = Settled({r}, "failed")
    /\ UNCHANGED <<node, chan, leaked, net>>

\* A response frame: resolve(key, event) hits or misses.
Receive(r) ==
    /\ node \in {"up", "stopping"}
    /\ r \in replies
    /\ replies' = replies \ {r}
    /\ call' = Settled(Key(r), "ok")
    /\ pend' = Unmapped(Key(r))
    /\ timer' = timer \ (Key(r) \cap pend)
    /\ UNCHANGED <<role, node, chan, leaked, inbox, served, peer>>

(***************************************************************************)
(* #restartDealer, one synchronous body: rejectAll, clear the queue, close *)
(* the old Dealer (its running send settles there and then), connect a new *)
(* one, queue the register frame, restart the heartbeat.                   *)
(***************************************************************************)
RestartDealer ==
    /\ role = "slave"
    /\ HeartbeatOn
    /\ node = "up"
    /\ call' = Settled(pend, "failed")
    /\ pend' = Unmapped(pend)
    /\ timer' = timer \ pend
    /\ Unsent \/ (Writable /\ Transmit(sending))
    /\ IF Cleared = <<>>
       THEN sending' = Other /\ queue' = <<>>
       ELSE sending' = Head(Cleared) /\ queue' = Append(Tail(Cleared), Other)
    /\ UNCHANGED <<role, node, leaked, issued, served, replies, peer>>

(***************************************************************************)
(* stop().  A slave first queues its unregister frame behind everything    *)
(* else and awaits it, still running but with its heartbeat timers cleared;*)
(* then rejectAll, and teardown closes the socket, waits for the read      *)
(* loops and only then clears the queue.                                   *)
(***************************************************************************)
StopBegin ==
    /\ MayStop
    /\ role = "slave"
    /\ node = "up"
    /\ node' = "stopping"
    /\ Enqueue(Unregister)
    /\ UNCHANGED <<book, sent, issued, net>>

\* running = false, rejectAll, close(): t is the task that runs meanwhile.
CancelAll(t) ==
    /\ node' = "closing"
    /\ call' = Settled(pend, "failed")
    /\ pend' = Unmapped(pend)
    /\ timer' = timer \ pend
    /\ Unsent \/ (Writable /\ Transmit(t))
    /\ UNCHANGED <<role, leaked, issued, served, replies, peer>>

\* The unregister frame is written or fails; #drain has already started the
\* next task when stop() goes on.
StopClose ==
    /\ node = "stopping"
    /\ sending = Unregister
    /\ sending' = NextTask
    /\ queue' = RestOfQueue
    /\ CancelAll(NextTask)

StopMaster ==
    /\ MayStop
    /\ role = "master"
    /\ node = "up"
    /\ CancelAll(sending)
    /\ UNCHANGED <<queue, sending>>

\* The read loops have ended: sendQueue.clear() rejects what has not started.
TeardownEnd ==
    /\ node = "closing"
    /\ node' = "down"
    /\ call' = Settled(Elements(queue), "failed")
    /\ pend' = Unmapped(Elements(queue))
    /\ timer' = timer \ (Elements(queue) \cap pend)
    /\ queue' = Cleared
    /\ UNCHANGED <<sending, sent, issued, leaked, net>>

\* start() again: a send that failed at close() has long settled.
Start ==
    /\ node = "down"
    /\ sending = Idle
    /\ node' = "up"
    /\ sending' = IF role = "slave" THEN Other ELSE Idle
    /\ UNCHANGED <<queue, sent, issued, book, net>>

(***************************************************************************)
(* The environment: the peer runs its handler once per frame it receives   *)
(* and answers unless the handler throws; frames are lost with connections.*)
(***************************************************************************)
Serve(r) ==
    /\ r \in inbox
    /\ inbox' = inbox \ {r}
    /\ served' = served \cup {r}
    /\ replies' \in {replies, replies \cup {r}}
    /\ UNCHANGED <<role, node, chan, book, peer>>

LoseReply(r) ==
    /\ r \in replies
    /\ replies' = replies \ {r}
    /\ UNCHANGED <<role, node, chan, book, inbox, served, peer>>

PeerUp ==
    /\ ~peer
    /\ peer' = TRUE
    /\ UNCHANGED <<role, node, chan, book, inbox, served, replies>>

PeerDown ==
    /\ peer
    /\ peer' = FALSE
    /\ inbox' = {}
    /\ UNCHANGED <<role, node, chan, book, served, replies>>

Next ==
    \/ \E r \in Calls : CallRefused(r) \/ Call(r) \/ CallUnsealed(r)
                        \/ Timeout(r) \/ Receive(r) \/ Serve(r) \/ LoseReply(r)
    \/ SendOther \/ SendOk \/ SendFail
    \/ RestartDealer
    \/ StopBegin \/ StopClose \/ StopMaster \/ TeardownEnd \/ Start
    \/ PeerUp \/ PeerDown

Spec == Init /\ [][Next]_vars

(***************************************************************************)
(* Fairness.  Timers fire; a write goes through when the connection is     *)
(* there again and again; what stop() and close() started goes on; and a   *)
(* slave with a heartbeat rebuilds a Dealer whose sends are stuck, because *)
(* the ack timer of the heartbeat is armed before the heartbeat is queued. *)
(***************************************************************************)
RestartWhenStuck == ~Writable /\ sending # Idle /\ RestartDealer

SendFailClosed == node \in {"closing", "down"} /\ SendFail

Fairness ==
    /\ \A r \in Calls : WF_vars(Timeout(r))
    /\ SF_vars(SendOk)
    /\ SF_vars(Writable /\ StopClose)
    /\ WF_vars(SendFailClosed)
    /\ WF_vars(TeardownEnd)
    /\ WF_vars(RestartWhenStuck)

FairSpec == Spec /\ Fairness

(***************************************************************************)
(* Properties.                                                             *)
(***************************************************************************)

\* The shape of the state.
TypeOK ==
    /\ role \in {"slave", "master"}
    /\ node \in {"up", "stopping", "closing", "down"}
    /\ queue \in Seq(Task)
    /\ sending \in Task \cup {Idle}
    /\ pend \subseteq Calls
    /\ timer \subseteq Calls
    /\ call \in [Calls -> {"idle", "waiting", "ok", "failed"}]
    /\ sent \in Seq(Calls)
    /\ inbox \subseteq Calls
    /\ served \subseteq Calls
    /\ replies \subseteq Calls
    /\ peer \in BOOLEAN
    /\ issued \in Seq(Calls)
    /\ leaked \subseteq Calls

\* No promise is forgotten: a call that waits has its entry in the map, and
\* either its task has not started or its timeout is armed.  Queue, map, timers
\* and promises are changed by different handlers (PendingManager, SendQueue).
Tracked ==
    \A r \in Waiting : r \in pend /\ (r \in Elements(queue) \/ r \in timer)

\* Apart from entries whose sealing threw, the map holds exactly the calls that
\* wait: whatever settles a promise also frees its slot of maxPending.
OnlySealLeaks == pend \subseteq Waiting \cup leaked

\* ensureCapacity: the map never holds more than maxPending entries.
CapacityBound == MaxPending = 0 \/ Cardinality(pend) <= MaxPending

\* The channel is FIFO: frames are written in the order of the calls, whatever
\* fails, is cancelled or is rebuilt in between.
FifoWire ==
    \A a, b \in Calls : Before(sent, a, b) => ~Before(issued, b, a)

\* A call that was rejected while its task waited in the queue (rejectAll, clear)
\* is not written afterwards: while there is a socket to write to, #drain only
\* starts the tasks of calls that still wait.
NoZombieSend ==
    [][\A r \in Calls :
         sending' = r /\ sending # r /\ node' \in {"up", "stopping"}
            => call'[r] = "waiting"]_vars

\* The channel implements the abstract promise.
Promise == INSTANCE RpcPromise WITH Calls <- Calls, call <- call, served <- served
PromiseSpec == Promise!Spec

\* Every call settles: whatever happens to sockets, peer and frames, some timer,
\* error, rebuild or stop() reaches it (docs/README.api.md:529-531: a request
\* without an answer in time is rejected).  The one exception is a slave whose
\* stop() hangs because its peer stays away.
Stranded == node = "stopping" /\ ~peer
EverySettles ==
    ~<>[]Stranded =>
        \A r \in Calls : call[r] = "waiting" ~> call[r] \in {"ok", "failed"}

\* stop() terminates.
StopCompletes == node \in {"stopping", "closing"} ~> node = "down"

\* stop() terminates as long as the peer comes back again and again: nothing that
\* the application queues in front of or behind the unregister frame starves it.
StopsIfReachable == []<>peer => StopCompletes
=============================================================================
