-------------------------- MODULE HeartbeatTiming --------------------------
(***************************************************************************)
(* The lengths of time in the heartbeat: interval, answer timeout of the   *)
(* slave, idle limit and scan of the master, over a network that delivers  *)
(* in order and within a known delay.  SlaveLink has the frames and faults *)
(* in full and no lengths of time; here time is what is asked about, and a *)
(* slave or a master is up or down.                                        *)
(*                                                                         *)
(* Timers that are due and frames that have travelled for the whole delay  *)
(* come before the next tick.  The delay covers everything between a call  *)
(* of send() and the frame's handler: connecting, the send queue, the      *)
(* network and a read loop that is busy.                                   *)
(***************************************************************************)
EXTENDS Integers, Sequences, SequencesExt

CONSTANTS
    Configs,  \* settings to look at: heartbeatInterval, heartbeatTimeoutMs, the delay
    AtLeast,  \* the 1000 ms under which the default answer timeout never goes
    MaxFaults \* bound: crashes

ASSUME TimingAssumption ==
    /\ Configs \subseteq [interval : Nat \ {0}, timeout : Nat, delay : Nat]
    /\ AtLeast \in Nat /\ MaxFaults \in Nat

VARIABLES
    config,     \* the settings of both sides, fixed
    slave,      \* the slave is running
    online,     \* #masterOnline
    beatIn,     \* until #heartbeatTimer fires, or Never
    ackIn,      \* until #heartbeatAckTimer fires, or Never: #heartbeatWaitingAck is FALSE
    master,     \* the master is running
    registered, \* the slave is in #slaves
    idle,       \* since its lastSeen, up to a little more than the limit
    scanIn,     \* until the next scan
    toMaster,   \* frames on their way to the master, with their age
    toSlave,    \* frames on their way to the slave
    slaveFor,   \* history: since the slave was last started or crashed
    masterFor,  \* history: since the master was last started or crashed
    faults      \* crashes so far

sVars == <<slave, online, beatIn, ackIn, slaveFor>>
mVars == <<master, registered, idle, scanIn, masterFor>>
nVars == <<toMaster, toSlave>>
vars == <<config, sVars, mVars, nVars, faults>>

Never == -1
Greater(a, b) == IF a > b THEN a ELSE b

\* #resolveHeartbeatAckTimeoutMs.
AckTimeout ==
    IF config.timeout > 0 THEN config.timeout ELSE Greater(config.interval * 2, AtLeast)

\* #startHeartbeatCheck: how long a slave may be silent.
IdleLimit == IF config.timeout > 0 THEN config.timeout ELSE config.interval * 3

\* A stretch of time is counted up to one tick more than anything asks about.
Later(n, limit) == IF n <= limit THEN n + 1 ELSE n
SlaveHorizon == config.delay + IdleLimit + config.interval
MasterHorizon == config.delay + config.interval + AckTimeout

Frame(kind) == [kind |-> kind, age |-> 0]
Aged(q) == [i \in DOMAIN q |-> [q[i] EXCEPT !.age = @ + 1]]
NoOverdue(q) == \A i \in DOMAIN q : q[i].age < config.delay

OneAtATime(q, kind) == \A i \in DOMAIN q : q[i].kind # kind

\* Frames of a connection that breaks: what was written last may be lost, and of a
\* heartbeat whose Dealer is gone the answer may find no one.
Abandoned(q) == [i \in DOMAIN q |->
                   IF q[i].kind = "heartbeat" THEN [q[i] EXCEPT !.kind = "stale"] ELSE q[i]]
Surviving == IF master THEN {Abandoned(p) : p \in Prefixes(toMaster)} ELSE {<<>>}

Init ==
    /\ config \in Configs
    /\ slave = FALSE /\ online = FALSE /\ beatIn = Never /\ ackIn = Never
    /\ master = FALSE /\ registered = FALSE /\ idle = 0 /\ scanIn = Never
    /\ toMaster = <<>> /\ toSlave = <<>>
    /\ slaveFor = 0 /\ masterFor = 0
    /\ faults = 0

(***************************************************************************)
(* Slave.                                                                  *)
(***************************************************************************)
\* #startSlaveSockets and the tail of #restartDealer: register, heartbeat at once.
NewDealer(kept) ==
    /\ online' = FALSE
    /\ beatIn' = 0
    /\ ackIn' = Never
    /\ toMaster' = Append(kept, Frame("register"))
    /\ toSlave' = <<>>

StartSlave ==
    /\ ~slave
    /\ slave' = TRUE
    /\ slaveFor' = 0
    /\ NewDealer(toMaster)
    /\ UNCHANGED <<config, mVars, faults>>

\* The heartbeat timer: nothing while an answer is awaited.
SendHeartbeat ==
    /\ beatIn = 0
    /\ beatIn' = Never
    /\ IF ackIn # Never
       THEN UNCHANGED <<ackIn, toMaster>>
       ELSE /\ ackIn' = AckTimeout
            /\ toMaster' = Append(toMaster, Frame("heartbeat"))
    /\ UNCHANGED <<config, slave, online, slaveFor, mVars, toSlave, faults>>

\* #onHeartbeatAckTimeout: the Dealer is built anew.
Rebuild ==
    /\ ackIn = 0
    /\ \E kept \in Surviving : NewDealer(kept)
    /\ UNCHANGED <<config, slave, slaveFor, mVars, faults>>

\* #confirmMasterReachable, for an ack as for every other frame of the master: the
\* next heartbeat is scheduled only by the frame that ends the wait.
Confirmed == Never
NextBeat == IF ackIn # Never THEN config.interval ELSE beatIn

SlaveReceives ==
    /\ slave
    /\ toSlave # <<>>
    /\ online' = TRUE
    /\ ackIn' = Confirmed
    /\ beatIn' = NextBeat
    /\ toSlave' = Tail(toSlave)
    /\ UNCHANGED <<config, slave, slaveFor, mVars, toMaster, faults>>

CrashSlave ==
    /\ slave
    /\ faults < MaxFaults
    /\ faults' = faults + 1
    /\ slave' = FALSE /\ slaveFor' = 0
    /\ online' = FALSE /\ beatIn' = Never /\ ackIn' = Never
    /\ toSlave' = <<>>
    /\ toMaster' \in Surviving
    /\ UNCHANGED <<config, mVars>>

(***************************************************************************)
(* Master.                                                                 *)
(***************************************************************************)
\* What waited for a connection sets out now.
StartMaster ==
    /\ ~master
    /\ master' = TRUE
    /\ masterFor' = 0
    /\ registered' = FALSE
    /\ idle' = 0
    /\ scanIn' = config.interval
    /\ toMaster' = [i \in DOMAIN toMaster |-> Frame(toMaster[i].kind)]
    /\ UNCHANGED <<config, sVars, toSlave, faults>>

\* Only frames of a slave that is running still wait to be written.
Unwritten == IF slave THEN Suffixes(toMaster) ELSE {<<>>}

CrashMaster ==
    /\ master
    /\ faults < MaxFaults
    /\ faults' = faults + 1
    /\ master' = FALSE /\ masterFor' = 0
    /\ registered' = FALSE /\ idle' = 0 /\ scanIn' = Never
    /\ toMaster' \in Unwritten
    /\ toSlave' \in Prefixes(toSlave)
    /\ UNCHANGED <<config, sVars>>

\* #ensureSlaveOnline with touch, which every valid frame of the slave comes to.
Touched_Off == IF registered THEN idle ELSE 0
Touched == 0

MasterReceives ==
    /\ master
    /\ toMaster # <<>>
    /\ registered' = TRUE
    /\ idle' = Touched
    /\ toMaster' = Tail(toMaster)
    /\ LET kind == Head(toMaster).kind IN
         \/ kind \in {"heartbeat", "stale"} /\ slave /\ toSlave' = Append(toSlave, Frame("ack"))
         \/ ~(kind = "heartbeat" /\ slave) /\ UNCHANGED toSlave
    /\ UNCHANGED <<config, sVars, master, scanIn, masterFor, faults>>

\* A frame of the application, and one at a time, to the slave and from it.
MasterSends ==
    /\ master /\ registered /\ slave
    /\ OneAtATime(toSlave, "frame")
    /\ toSlave' = Append(toSlave, Frame("frame"))
    /\ UNCHANGED <<config, sVars, mVars, toMaster, faults>>

SlaveSends ==
    /\ slave
    /\ OneAtATime(toMaster, "frame")
    /\ toMaster' = Append(toMaster, Frame("frame"))
    /\ UNCHANGED <<config, sVars, mVars, toSlave, faults>>

\* #startHeartbeatCheck: the scan.
Overdue_Off == idle > IdleLimit + config.interval
Overdue == idle > IdleLimit

NextScan_Off == IF registered /\ ~Overdue THEN 2 * config.interval ELSE config.interval
NextScan == config.interval

Check ==
    /\ scanIn = 0
    /\ scanIn' = NextScan
    /\ registered' = (registered /\ ~Overdue)
    /\ idle' = IF registered' THEN idle ELSE 0
    /\ UNCHANGED <<config, sVars, master, masterFor, nVars, faults>>

(***************************************************************************)
(* Time.                                                                   *)
(***************************************************************************)
Tick ==
    /\ beatIn # 0 /\ ackIn # 0 /\ scanIn # 0
    /\ master => NoOverdue(toMaster)
    /\ NoOverdue(toSlave)
    /\ beatIn' = IF beatIn = Never THEN Never ELSE beatIn - 1
    /\ ackIn' = IF ackIn = Never THEN Never ELSE ackIn - 1
    /\ scanIn' = IF scanIn = Never THEN Never ELSE scanIn - 1
    /\ idle' = IF registered THEN Later(idle, IdleLimit) ELSE 0
    /\ toMaster' = IF master THEN Aged(toMaster) ELSE toMaster
    /\ toSlave' = Aged(toSlave)
    /\ slaveFor' = Later(slaveFor, SlaveHorizon)
    /\ masterFor' = Later(masterFor, MasterHorizon)
    /\ UNCHANGED <<config, slave, online, master, registered, faults>>

Next ==
    \/ StartSlave \/ SendHeartbeat \/ Rebuild \/ SlaveReceives \/ CrashSlave
    \/ StartMaster \/ CrashMaster \/ MasterReceives \/ MasterSends \/ SlaveSends \/ Check
    \/ Tick

Spec == Init /\ [][Next]_vars

(***************************************************************************)
(* Properties.                                                             *)
(***************************************************************************)
Frames(kinds) == [kind : kinds, age : 0..config.delay]

\* The shape of the state, and no frame older than the delay.
TypeOK ==
    /\ config \in Configs
    /\ {slave, online, master, registered} \subseteq BOOLEAN
    /\ beatIn \in Never..config.interval /\ scanIn \in Never..config.interval
    /\ ackIn \in Never..AckTimeout
    /\ idle \in 0..(IdleLimit + 1)
    /\ toMaster \in Seq(Frames({"register", "heartbeat", "stale", "frame"}))
    /\ toSlave \in Seq(Frames({"ack", "frame"}))
    /\ slaveFor \in 0..(SlaveHorizon + 1) /\ masterFor \in 0..(MasterHorizon + 1)
    /\ faults \in 0..MaxFaults

\* Both ends have been up for long enough that what crashes left behind is over: a
\* slave whose heartbeat a crash has swallowed may wait to the last moment, be told
\* by a business frame that all is well and let an interval pass.
Steady ==
    /\ slave /\ slaveFor > config.delay
    /\ master /\ masterFor > MasterHorizon

\* The living are not taken for dead, once both ends have been up for a while.  The
\* scan never removes a slave, if a round trip and an interval fit into the idle
\* limit.  A slave never gives its master up and builds the Dealer anew, if a round
\* trip is shorter than its wait, which the first frame of the master ends, whatever
\* that frame is.  (#startHeartbeatCheck, #onHeartbeatAckTimeout, #confirmMasterReachable)
Evicts == registered /\ ~registered' /\ master'
GivesUp == slave' /\ ackIn = 0 /\ ackIn' = Never
LivingKept ==
    [][/\ Steady /\ 2 * config.delay + config.interval <= IdleLimit => ~Evicts
       /\ GivesUp /\ 2 * config.delay < AckTimeout => ~master \/ masterFor <= AckTimeout]_vars

\* The dead are noticed in time: a slave that is gone is out of the table within a
\* last frame, the idle limit and a scan, and a slave takes a master that is gone
\* for offline within a last frame, an interval and a wait.
DeadNoticed ==
    /\ ~slave /\ slaveFor > SlaveHorizon => ~registered
    /\ ~master /\ masterFor > MasterHorizon => ~online
=============================================================================
