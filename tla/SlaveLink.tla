------------------------------ MODULE SlaveLink -----------------------------
(***************************************************************************)
(* The link between one slave and its master: registration, the            *)
(* single-flight heartbeat of the slave with its two timers, the rebuild   *)
(* of the Dealer, the master's table of online slaves and its scan.        *)
(* Connections break, frames are lost, either side may crash or restart.   *)
(*                                                                         *)
(* The read loop of a socket awaits the handler of a frame before it takes *)
(* the next one, so a handler of the application holds up every later      *)
(* frame of that socket, heartbeats and their answers included.            *)
(***************************************************************************)
EXTENDS Naturals, Sequences, Functions

CONSTANTS
    HeartbeatOn, \* heartbeatInterval > 0, on both sides
    Modes,       \* the values of encrypted to look at; the plain register path differs
    Timings,     \* whether timeouts may fire too early (FALSE), or never do (TRUE)
    MaxFrames,   \* bound: with so many frames under way the applications send no more
    MaxNet,      \* bound: frames the transport holds in each direction
    MaxFaults    \* bound: crashes, stops and broken connections

ASSUME LinkAssumption ==
    /\ HeartbeatOn \in BOOLEAN
    /\ Modes \subseteq BOOLEAN /\ Timings \subseteq BOOLEAN
    /\ MaxFrames \in Nat /\ MaxNet \in Nat /\ MaxFaults \in Nat

VARIABLES
    secure,     \* encrypted: true, fixed
    timely,     \* assumption, fixed: no timeout fires while the answer can still come
    slave,      \* "down", "up" or "leaving" (stop() awaits its unregister frame)
    online,     \* #masterOnline
    waiting,    \* #heartbeatWaitingAck
    hbTimer,    \* #heartbeatTimer is armed
    ackTimer,   \* #heartbeatAckTimer is armed
    sendq,      \* frames in the slave's send queue, the one being written first
    conn,       \* the current Dealer is connected
    slaveBusy,  \* the read loop of the current Dealer is inside a handler
    master,     \* "down" or "up"
    registered, \* the slave is in #slaves
    masterBusy, \* the read loop of the Router is inside a handler
    toMaster,   \* frames on their way to the master
    toSlave,    \* frames on their way to the slave
    event,      \* history: the last event the application of the master heard of the slave
    cleared,    \* history: since then stop() has emptied the table without an event
    faults      \* faults so far

sVars == <<slave, online, waiting, hbTimer, ackTimer, sendq, slaveBusy>>
history == <<event, cleared>>
mVars == <<master, registered, masterBusy, history>>
nVars == <<conn, toMaster, toSlave>>
fixed == <<secure, timely>>
linkVars == <<fixed, sVars, mVars, nVars, faults>>

FirstTwo(s) == IF Len(s) < 2 THEN s ELSE SubSeq(s, 1, 2)
Room == Len(sendq) + Len(toMaster) + Len(toSlave) < MaxFrames
Prefixes(s) == {SubSeq(s, 1, n) : n \in 0..Len(s)}

LinkInit ==
    /\ secure \in Modes
    /\ timely \in Timings
    /\ slave = "down"
    /\ online = FALSE
    /\ waiting = FALSE
    /\ hbTimer = FALSE
    /\ ackTimer = FALSE
    /\ sendq = <<>>
    /\ conn = FALSE
    /\ slaveBusy = FALSE
    /\ master = "down"
    /\ registered = FALSE
    /\ masterBusy = FALSE
    /\ toMaster = <<>>
    /\ toSlave = <<>>
    /\ event = "none"
    /\ cleared = FALSE
    /\ faults = 0

(***************************************************************************)
(* Slave: a new Dealer, its register frame and its first heartbeat.        *)
(* #startSlaveSockets and the tail of #restartDealer do the same.          *)
(***************************************************************************)
FirstHeartbeat == HeartbeatOn

NewDealer ==
    /\ online' = FALSE
    /\ waiting' = FALSE
    /\ ackTimer' = FALSE
    /\ hbTimer' = FirstHeartbeat
    /\ sendq' = <<"register">>
    /\ slaveBusy' = FALSE
    /\ conn' = FALSE
    /\ toSlave' = <<>>

StartSlave ==
    /\ slave = "down"
    /\ slave' = "up"
    /\ NewDealer
    /\ UNCHANGED <<fixed, mVars, toMaster, faults>>

\* The timer callback, #sendHeartbeatOnce: nothing while an answer is awaited.
SendHeartbeat ==
    /\ slave = "up"
    /\ hbTimer
    /\ hbTimer' = FALSE
    /\ IF waiting
       THEN UNCHANGED <<waiting, ackTimer, sendq>>
       ELSE /\ waiting' = TRUE
            /\ ackTimer' = TRUE
            /\ sendq' = Append(sendq, "heartbeat")
    /\ UNCHANGED <<fixed, slave, online, slaveBusy, mVars, nVars, faults>>

\* The answer can still come: a heartbeat is on its way to a master it reaches, or
\* a frame of the master to the slave.
AnswerPossible ==
    \/ toSlave # <<>>
    \/ /\ master = "up" /\ conn
       /\ "heartbeat" \in Range(sendq \o toMaster)

\* #onHeartbeatAckTimeout, called by the timer or because the heartbeat could not
\* be written, and #restartDealer in one synchronous run: offline, queue cleared,
\* a new Dealer.  (The pending calls it rejects: RpcChannel.)
AckTimeout ==
    /\ slave = "up"
    /\ ackTimer
    /\ waiting
    /\ timely => ~AnswerPossible
    /\ NewDealer
    /\ toMaster' \in Prefixes(toMaster)
    /\ UNCHANGED <<fixed, slave, mVars, faults>>

\* #confirmMasterReachable({ scheduleNextHeartbeat: true }).
NextHeartbeat_Off == hbTimer
NextHeartbeat == IF waiting THEN HeartbeatOn ELSE hbTimer

ConfirmMasterReachable ==
    /\ online' = TRUE
    /\ waiting' = FALSE
    /\ ackTimer' = FALSE
    /\ hbTimer' = NextHeartbeat

\* #handleDealerFrames: every valid frame of the master confirms the link; a
\* publish, request or service frame also runs a handler.
SlaveReceives ==
    /\ slave \in {"up", "leaving"}
    /\ ~slaveBusy
    /\ toSlave # <<>>
    /\ ConfirmMasterReachable
    /\ slaveBusy' \in IF Head(toSlave) = "ack" THEN {FALSE} ELSE BOOLEAN
    /\ toSlave' = Tail(toSlave)
    /\ UNCHANGED <<fixed, slave, sendq, mVars, conn, toMaster, faults>>

SlaveHandlerReturns ==
    /\ slaveBusy
    /\ slaveBusy' = FALSE
    /\ UNCHANGED <<fixed, slave, online, waiting, hbTimer, ackTimer, sendq, mVars, nVars, faults>>

\* PUSH, DEALER or a reply of the application.
SlaveSends ==
    /\ slave \in {"up", "leaving"}
    /\ Room
    /\ sendq' = Append(sendq, "business")
    /\ UNCHANGED <<fixed, slave, online, waiting, hbTimer, ackTimer, slaveBusy, mVars, nVars, faults>>

\* SendQueue writes the head of the queue to a connected Dealer.
Write ==
    /\ slave \in {"up", "leaving"}
    /\ conn
    /\ sendq # <<>>
    /\ Head(sendq) # "unregister"
    /\ Len(toMaster) < MaxNet
    /\ sendq' = Tail(sendq)
    /\ toMaster' = Append(toMaster, Head(sendq))
    /\ UNCHANGED <<fixed, slave, online, waiting, hbTimer, ackTimer, slaveBusy, mVars, conn, toSlave, faults>>

\* stop(): the timers first, then the unregister frame behind the others.
StopSlave ==
    /\ slave = "up"
    /\ faults < MaxFaults
    /\ slave' = "leaving"
    /\ hbTimer' = FALSE
    /\ ackTimer' = FALSE
    /\ waiting' = FALSE
    /\ online' = FALSE
    /\ sendq' = Append(sendq, "unregister")
    /\ faults' = faults + 1
    /\ UNCHANGED <<fixed, slaveBusy, mVars, nVars>>

SlaveGone ==
    /\ slave' = "down"
    /\ online' = FALSE
    /\ waiting' = FALSE
    /\ hbTimer' = FALSE
    /\ ackTimer' = FALSE
    /\ sendq' = <<>>
    /\ slaveBusy' = FALSE
    /\ conn' = FALSE
    /\ toSlave' = <<>>

\* The unregister frame is written, and with it the frame queued behind it, before
\* stop() closes the Dealer; linger 0 may discard what was written last.
SlaveLeaves ==
    /\ slave = "leaving"
    /\ conn
    /\ sendq # <<>>
    /\ Head(sendq) = "unregister"
    /\ Len(toMaster) < MaxNet
    /\ \E written \in Prefixes(FirstTwo(sendq)) :
         toMaster' = toMaster \o written
    /\ SlaveGone
    /\ UNCHANGED <<fixed, mVars, faults>>

CrashSlave ==
    /\ slave # "down"
    /\ faults < MaxFaults
    /\ faults' = faults + 1
    /\ toMaster' \in Prefixes(toMaster)
    /\ SlaveGone
    /\ UNCHANGED <<fixed, mVars>>

(***************************************************************************)
(* Master.                                                                 *)
(***************************************************************************)
StartMaster ==
    /\ master = "down"
    /\ master' = "up"
    /\ UNCHANGED <<fixed, sVars, registered, masterBusy, history, nVars, faults>>

\* The application hears event e.
Hears(e) == event' = e /\ cleared' = FALSE

MasterGone ==
    /\ master = "up"
    /\ faults < MaxFaults
    /\ faults' = faults + 1
    /\ master' = "down"
    /\ registered' = FALSE
    /\ masterBusy' = FALSE
    /\ conn' = FALSE
    /\ toMaster' = <<>>
    /\ toSlave' \in Prefixes(toSlave)
    /\ UNCHANGED <<fixed, sVars>>

\* The application is lost with its process: the next one has heard nothing.
CrashMaster ==
    /\ MasterGone
    /\ event' = "none"
    /\ cleared' = FALSE

\* stop(): #teardown clears #slaves and tells nobody, but a publication that is still
\* queued fails on the closed socket and takes the entry out with an event.
StopMaster ==
    /\ MasterGone
    /\ \/ cleared' = (cleared \/ registered) /\ event' = event
       \/ registered /\ Hears("disconnected")

\* #ensureSlaveOnline: the event only for a new entry.
EnsureOnline ==
    /\ registered' = TRUE
    /\ IF registered THEN UNCHANGED history ELSE Hears("connected")

\* The register frame: a plain master sets the entry and emits in any case.
Overwrite ==
    /\ registered' = TRUE
    /\ Hears(IF registered THEN "again" ELSE "connected")

Register_Off == Overwrite
Register == IF secure THEN EnsureOnline ELSE Overwrite

Removed ==
    /\ registered' = FALSE
    /\ IF registered THEN Hears("disconnected") ELSE UNCHANGED history

\* A frame to the slave: dropped by the Router when there is no connection.
ToSlave(f) == toSlave' = IF conn THEN Append(toSlave, f) ELSE toSlave

HeartbeatReply_Off == "heartbeat"
HeartbeatReply == "ack"

\* What the master does with the kind of frame it got.
Dispatch(f) ==
    \/ /\ f = "register"
       /\ Register
       /\ UNCHANGED <<masterBusy, toSlave>>
    \/ /\ f = "heartbeat"
       /\ EnsureOnline
       /\ ToSlave(HeartbeatReply)
       /\ UNCHANGED masterBusy
    \/ /\ f = "business"
       /\ EnsureOnline
       /\ masterBusy' \in BOOLEAN
       /\ UNCHANGED toSlave
    \/ /\ f = "unregister"
       /\ Removed
       /\ UNCHANGED <<masterBusy, toSlave>>

\* #handleRouterFrames.
MasterReceives ==
    /\ master = "up"
    /\ ~masterBusy
    /\ toMaster # <<>>
    /\ Len(toSlave) < MaxNet
    /\ Dispatch(Head(toMaster))
    /\ toMaster' = Tail(toMaster)
    /\ UNCHANGED <<fixed, sVars, master, conn, faults>>

\* The handler answers, or throws and the caller hears nothing.
MasterHandlerReturns ==
    /\ masterBusy
    /\ Len(toSlave) < MaxNet
    /\ masterBusy' = FALSE
    /\ ToSlave("frame") \/ UNCHANGED toSlave
    /\ UNCHANGED <<fixed, sVars, master, registered, history, conn, toMaster, faults>>

\* PUBLISH, ROUTER or a service request of the application.
MasterSends ==
    /\ master = "up"
    /\ registered
    /\ Room
    /\ ToSlave("frame")
    /\ UNCHANGED <<fixed, sVars, mVars, conn, toMaster, faults>>

\* The scan of #startHeartbeatCheck finds the slave silent for too long.
Silent == slave = "down" \/ ~conn
Scan_Off == FALSE
Scan == HeartbeatOn

Evict ==
    /\ master = "up"
    /\ Scan
    /\ registered
    /\ timely => Silent /\ toMaster = <<>>
    /\ Removed
    /\ UNCHANGED <<fixed, sVars, master, masterBusy, nVars, faults>>

(***************************************************************************)
(* Network.                                                                *)
(***************************************************************************)
Connect ==
    /\ slave # "down"
    /\ master = "up"
    /\ ~conn
    /\ conn' = TRUE
    /\ UNCHANGED <<fixed, sVars, mVars, toMaster, toSlave, faults>>

Disconnect ==
    /\ conn
    /\ faults < MaxFaults
    /\ faults' = faults + 1
    /\ conn' = FALSE
    /\ toMaster' \in Prefixes(toMaster)
    /\ toSlave' \in Prefixes(toSlave)
    /\ UNCHANGED <<fixed, sVars, mVars>>

LinkNext ==
    \/ StartSlave \/ SendHeartbeat \/ AckTimeout \/ SlaveReceives \/ SlaveHandlerReturns
    \/ SlaveSends \/ Write \/ StopSlave \/ SlaveLeaves \/ CrashSlave
    \/ StartMaster \/ CrashMaster \/ StopMaster \/ MasterReceives \/ MasterHandlerReturns
    \/ MasterSends \/ Evict \/ Connect \/ Disconnect

LinkSpec == LinkInit /\ [][LinkNext]_linkVars

(***************************************************************************)
(* Fairness: armed timers fire, read loops read, handlers return, ZeroMQ   *)
(* reconnects and writes.  Applications and faults are not fair.           *)
(***************************************************************************)
LinkFairness ==
    /\ WF_linkVars(SendHeartbeat) /\ WF_linkVars(AckTimeout)
    /\ WF_linkVars(SlaveReceives) /\ WF_linkVars(SlaveHandlerReturns)
    /\ SF_linkVars(Write) /\ SF_linkVars(SlaveLeaves) /\ SF_linkVars(Connect)
    /\ SF_linkVars(MasterReceives) /\ SF_linkVars(MasterHandlerReturns) /\ WF_linkVars(Evict)

LinkFairSpec == LinkSpec /\ LinkFairness

(***************************************************************************)
(* Properties.                                                             *)
(***************************************************************************)
SlaveFrames == {"register", "heartbeat", "business", "unregister"}
MasterFrames == {"ack", "frame"}

\* The shape of the state.
LinkTypeOK ==
    /\ secure \in Modes /\ timely \in Timings
    /\ slave \in {"down", "up", "leaving"}
    /\ {online, waiting, hbTimer, ackTimer, conn, slaveBusy, registered, masterBusy}
          \subseteq BOOLEAN
    /\ sendq \in Seq(SlaveFrames) /\ toMaster \in Seq(SlaveFrames)
    /\ toSlave \in Seq(MasterFrames)
    /\ master \in {"down", "up"}
    /\ event \in {"none", "connected", "again", "disconnected"}
    /\ cleared \in BOOLEAN
    /\ faults \in 0..MaxFaults

\* The heartbeat never dies: while the slave runs, either the next heartbeat is
\* scheduled or one awaits its answer under an armed timeout.  Each of the five
\* kinds of master frame, the timeout and the rebuild must keep this up.  And it ends
\* with the slave: a late frame of the master, handled while stop() waits, does not
\* revive a timer that stop() cleared.
ChainAlive ==
    IF slave = "up"
    THEN HeartbeatOn => hbTimer \/ (waiting /\ ackTimer)
    ELSE ~hbTimer /\ ~ackTimer

\* The answer timer and the waiting flag go together, and a slave that leaves
\* has neither: no timeout can rebuild a Dealer behind stop().
WaitingIsTimed ==
    /\ waiting <=> ackTimer
    /\ waiting => slave = "up"

\* What the application of the master can tell of the table from slave_connected and
\* slave_disconnected: an entry is there exactly when the last event is slave_connected,
\* unless stop() has emptied the table since, the one removal that is silent.  An
\* encrypted master never says slave_connected of a slave that is there already; a
\* plain one may, when a register frame comes again.
TableMatchesEvents ==
    /\ registered <=> event \in {"connected", "again"} /\ ~cleared
    /\ event = "again" => ~secure

\* Once faults cease, both sides agree on the truth, and stay so: a running slave
\* knows its master and is in its table; a slave that is gone leaves the table.
\* This supposes timeouts longer than the round trip.
SettledView ==
    /\ slave = "up" /\ master = "up" => online /\ registered
    /\ slave = "up" /\ master = "down" => ~online
    /\ slave = "down" /\ master = "up" => ~registered
Converges == timely /\ <>[](slave # "leaving") => <>[]SettledView
=============================================================================
