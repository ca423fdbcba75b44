------------------------------ MODULE Dispatch ------------------------------
(***************************************************************************)
(* The read loops of a master and a slave (#consume), which await the      *)
(* handler of each frame: RPC handlers of both sides, the service channel  *)
(* (ServiceManager) with its own table of calls, PUBLISH handlers, the     *)
(* acknowledgement of heartbeats, and the send queues their answers wait   *)
(* in.  A handler may itself call the other side and await the answer,     *)
(* which the loop it runs in cannot read.  When no ack is read in time the *)
(* slave rebuilds its Dealer and a second loop begins.                     *)
(***************************************************************************)
EXTENDS Naturals, FiniteSets, Sequences, SequencesExt

CONSTANTS
    MasterCalls,    \* calls of ROUTER(id, payload)
    ServiceCalls,   \* calls of the service channel, by the master
    SlaveCalls,     \* calls of DEALER(payload)
    MaxWork,        \* bound: calls made and messages published
    MaxRebuilds,    \* bound: rebuilds of the Dealer
    None

ASSUME DispatchAssumption ==
    /\ MasterCalls \cap ServiceCalls = {}
    /\ SlaveCalls \cap (MasterCalls \cup ServiceCalls) = {}
    /\ None \notin MasterCalls \cup ServiceCalls \cup SlaveCalls
    /\ IsFiniteSet(MasterCalls \cup ServiceCalls \cup SlaveCalls)
    /\ MaxWork \in Nat /\ MaxRebuilds \in Nat

Calls == MasterCalls \cup ServiceCalls \cup SlaveCalls
Nodes == {"master", "slave"}
Caller(c) == IF c \in SlaveCalls THEN "slave" ELSE "master"
Peer(n) == IF n = "slave" THEN "master" ELSE "slave"

VARIABLES
    call,       \* call[c]: "idle", "waiting", "ok" or "failed"; in #pending while it waits
    served,     \* calls that have reached their handler
    running,    \* handlers awaited: [node, gen, op, call, at, waits]
    out,        \* send queue of each node
    wire,       \* frames sent by each node and not read yet
    dealer,     \* how often the Dealer was rebuilt: the loop of generation `dealer` reads
    waiting,    \* the slave waits for an ack (#heartbeatWaitingAck)
    published

vars == <<call, served, running, out, wire, dealer, waiting, published>>

Frame(op, c) == [op |-> op, call |-> c]
Gen(n) == IF n = "slave" THEN dealer ELSE 0

\* at: "app" in code of the application, "reply" or "error" until an answer,
\* or an error answer of the service channel, is sent.  waits: the call the
\* application awaits.
Handler(n, op, c, at) ==
    [node |-> n, gen |-> Gen(n), op |-> op, call |-> c, at |-> at, waits |-> None]

Init ==
    /\ call = [c \in Calls |-> "idle"]
    /\ served = {}
    /\ running = {}
    /\ out = [n \in Nodes |-> <<>>]
    /\ wire = [n \in Nodes |-> <<>>]
    /\ dealer = 0
    /\ waiting = FALSE
    /\ published = 0

Work == published + Cardinality({c \in Calls : call[c] # "idle"})

Enqueue(n, f) == out' = [out EXCEPT ![n] = Append(@, f)]
Becomes(h, g) == running' = (running \ {h}) \cup {g}
Ends(h) == running' = running \ {h}

(***************************************************************************)
(* Calls: #request, #requestTo, ServiceManager.requestTo.                  *)
(***************************************************************************)
Issue(c) ==
    /\ call[c] = "idle" /\ Work < MaxWork
    /\ call' = [call EXCEPT ![c] = "waiting"]
    /\ Enqueue(Caller(c), Frame("req", c))
    /\ UNCHANGED <<served, wire, dealer, waiting, published>>

Call(c) == Issue(c) /\ UNCHANGED running

CallInHandler(h, c) ==
    /\ h.node = Caller(c) /\ h.at = "app" /\ h.waits = None
    /\ Issue(c)
    /\ Becomes(h, [h EXCEPT !.waits = c])

\* The timer starts when the send queue begins to send the request.
Armed_Off(c) == c \notin ServiceCalls
Armed(c) ==
    \A i \in DOMAIN out[Caller(c)] : i > 1 => out[Caller(c)][i] # Frame("req", c)

Timeout(c) ==
    /\ call[c] = "waiting" /\ Armed(c)
    /\ call' = [call EXCEPT ![c] = "failed"]
    /\ UNCHANGED <<served, running, out, wire, dealer, waiting, published>>

(***************************************************************************)
(* The code of the application in a handler.                               *)
(***************************************************************************)
Resume(h) ==
    /\ h.waits # None /\ call[h.waits] \in {"ok", "failed"}
    /\ Becomes(h, [h EXCEPT !.waits = None])
    /\ UNCHANGED <<call, served, out, wire, dealer, waiting, published>>

Answer(h, at) ==
    /\ Becomes(h, [h EXCEPT !.at = at])
    /\ Enqueue(h.node, Frame("res", h.call))

\* It returns: the answer is queued and awaited.
Return(h) ==
    /\ h.at = "app" /\ h.waits = None
    /\ IF h.op = "req" THEN Answer(h, "reply") ELSE Ends(h) /\ UNCHANGED out
    /\ UNCHANGED <<call, served, wire, dealer, waiting, published>>

\* It throws: only the service channel answers.
Throw(h) ==
    /\ h.at = "app" /\ h.waits = None
    /\ IF h.call \in ServiceCalls THEN Answer(h, "error") ELSE Ends(h) /\ UNCHANGED out
    /\ UNCHANGED <<call, served, wire, dealer, waiting, published>>

(***************************************************************************)
(* Sending, and the other frames.                                          *)
(***************************************************************************)
Awaiting(n, f) == {h \in running : h.node = n /\ h.at \in {"reply", "error"} /\ h.call = f.call
                                   /\ f.op \in {"res", "ack"}}

Send(n) ==
    /\ out[n] # <<>>
    /\ out' = [out EXCEPT ![n] = Tail(@)]
    /\ wire' = [wire EXCEPT ![n] = Append(@, Head(out[n]))]
    /\ running' = running \ Awaiting(n, Head(out[n]))
    /\ UNCHANGED <<call, served, dealer, waiting, published>>

Heartbeat ==
    /\ ~waiting
    /\ waiting' = TRUE
    /\ Enqueue("slave", Frame("hb", None))
    /\ UNCHANGED <<call, served, running, wire, dealer, published>>

Publish ==
    /\ Work < MaxWork
    /\ published' = published + 1
    /\ Enqueue("master", Frame("pub", None))
    /\ UNCHANGED <<call, served, running, wire, dealer, waiting>>

(***************************************************************************)
(* Reading.  Whether a handler is set, registered or subscribed is the     *)
(* application's choice at any time.                                       *)
(***************************************************************************)
Free_Off(n) == TRUE
Free(n) == \A h \in running : h.node = n => h.gen # Gen(n)

Starts(n, f, at) == running' = running \cup {Handler(n, f.op, f.call, at)}

\* Any frame of the master that is accepted ends the wait for an ack.
Confirm(n) == waiting' = IF n = "slave" THEN FALSE ELSE waiting

ReadHeartbeat(n, f) ==
    /\ f.op = "hb" /\ Starts(n, f, "reply") /\ Enqueue(n, Frame("ack", None))
    /\ UNCHANGED <<call, served>>

ReadAck(f) == f.op = "ack" /\ UNCHANGED <<call, served, running, out>>

ReadHandled(n, f) ==
    /\ f.op \in {"req", "pub"} /\ Starts(n, f, "app")
    /\ served' = IF f.op = "req" THEN served \cup {f.call} ELSE served
    /\ UNCHANGED <<call, out>>

\* Nobody handles it: only the service channel answers.
ReadUnhandled(n, f) ==
    /\ f.op \in {"req", "pub"}
    /\ IF f.op = "req" /\ f.call \in ServiceCalls
       THEN Starts(n, f, "error") /\ Enqueue(n, Frame("res", f.call)) /\ served' = served \cup {f.call}
       ELSE UNCHANGED <<running, out, served>>
    /\ UNCHANGED call

\* An answer settles the call that is pending under its requestId.
Pending_Off(c) == call[c] # "ok"
Pending(c) == call[c] = "waiting"

ReadAnswer(f) ==
    /\ f.op = "res"
    /\ call' = IF Pending(f.call) THEN [call EXCEPT ![f.call] = "ok"] ELSE call
    /\ UNCHANGED <<served, running, out>>

Read(n) ==
    /\ wire[Peer(n)] # <<>> /\ Free(n)
    /\ wire' = [wire EXCEPT ![Peer(n)] = Tail(@)]
    /\ Confirm(n)
    /\ LET f == Head(wire[Peer(n)]) IN
         ReadHeartbeat(n, f) \/ ReadAck(f) \/ ReadHandled(n, f) \/ ReadUnhandled(n, f) \/ ReadAnswer(f)
    /\ UNCHANGED <<dealer, published>>

(***************************************************************************)
(* The ack timeout: #restartDealer.  The calls of the slave are rejected,  *)
(* and so is what it has queued: an RPC answer is lost, and so is an error *)
(* answer of the service channel, but an answer of the service channel     *)
(* fails into an error answer, which goes to the new Dealer.  The handlers *)
(* of the old loop go on.                                                  *)
(***************************************************************************)
Cancelled == {h \in running : h.node = "slave" /\ h.at \in {"reply", "error"}}
Retried == {h \in Cancelled : h.at = "reply" /\ h.call \in ServiceCalls}

RestartDealer ==
    /\ waiting
    /\ dealer < MaxRebuilds
    /\ dealer' = dealer + 1
    /\ waiting' = FALSE
    /\ call' = [c \in Calls |-> IF c \in SlaveCalls /\ call[c] = "waiting" THEN "failed" ELSE call[c]]
    /\ running' = (running \ Cancelled) \cup {[h EXCEPT !.at = "error"] : h \in Retried}
    /\ out' = [out EXCEPT !["slave"] = SetToSeq({Frame("res", h.call) : h \in Retried})]
    /\ \E k \in 0..Len(wire["slave"]) :
         wire' = [master |-> <<>>, slave |-> SubSeq(wire["slave"], 1, k)]
    /\ UNCHANGED <<served, published>>

HandlerStep(h) == Resume(h) \/ Return(h) \/ Throw(h)

Next ==
    \/ \E c \in Calls : Call(c) \/ Timeout(c) \/ \E h \in running : CallInHandler(h, c)
    \/ \E h \in running : HandlerStep(h)
    \/ \E n \in Nodes : Send(n) \/ Read(n)
    \/ Heartbeat \/ Publish \/ RestartDealer

Spec == Init /\ [][Next]_vars

\* Timers fire, frames are sent and read, and a handler ends once what it
\* awaits has settled; nothing makes the application call or the ack time out.
FairSpec ==
    /\ Spec
    /\ \A c \in Calls : WF_vars(Timeout(c))
    /\ \A n \in Nodes : WF_vars(Send(n)) /\ WF_vars(Read(n))
    /\ \A n \in Nodes, g \in 0..MaxRebuilds :
         WF_vars(\E h \in running : h.node = n /\ h.gen = g /\ HandlerStep(h))
    /\ WF_vars(Heartbeat)

(***************************************************************************)
(* Properties.                                                             *)
(***************************************************************************)
Frames == [op : {"req", "res"}, call : Calls] \cup [op : {"hb", "ack", "pub"}, call : {None}]

Handlers ==
    [node : Nodes, gen : 0..MaxRebuilds, op : {"req", "hb", "pub"}, call : Calls \cup {None},
     at : {"app", "reply", "error"}, waits : Calls \cup {None}]

\* Everything has its shape, and no loop runs two handlers.
TypeOK ==
    /\ call \in [Calls -> {"idle", "waiting", "ok", "failed"}]
    /\ served \subseteq Calls
    /\ running \subseteq Handlers
    /\ \A h, g \in running : h.node = g.node /\ h.gen = g.gen => h = g
    /\ out \in [Nodes -> Seq(Frames)] /\ wire \in [Nodes -> Seq(Frames)]
    /\ dealer \in 0..MaxRebuilds /\ waiting \in BOOLEAN /\ published \in 0..MaxWork

\* A call made and awaited inside a handler is not answered while that
\* handler runs in the loop that reads: it can only time out, or, on a slave,
\* fail with the rebuild that the unread ack brings about.
NestedUnanswered ==
    \A h \in running : h.waits # None /\ h.gen = Gen(h.node) => call[h.waits] # "ok"

\* RPC and service calls of both sides, made from handlers or not, answered
\* by handlers of loops old and new, implement the promise of one call.
Promise == INSTANCE RpcPromise WITH call <- call, served <- served, Calls <- Calls
PromiseSpec == Promise!Spec

\* No handler, nested call, cancelled answer or rebuild stops a read loop for
\* good: handlers that await each other's nodes are set free by their timers.
LoopGoesOn == \A n \in Nodes : []<>Free(n)
=============================================================================
