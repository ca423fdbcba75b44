----------------------- MODULE HeartbeatTiming_proofs -----------------------
(***************************************************************************)
(* Proofs about HeartbeatTiming, for every interval, answer timeout, floor *)
(* and delay and for every number of crashes: the dead are noticed within  *)
(* the sum of the constants, and the living are kept.                      *)
(*                                                                         *)
(* Each invariant below bounds, by the constants, a length of time that is *)
(* still to come together with one that has passed.  A tick takes from the *)
(* one what it adds to the other, so the sum stands.                       *)
(***************************************************************************)
EXTENDS HeartbeatTiming, TLAPS

Delay == config.delay
Interval == config.interval

ToMasterFrames == Frames({"register", "heartbeat", "stale", "frame"})
ToSlaveFrames == Frames({"ack", "frame"})

\* The settings stay, and the limits are lengths of time.
LEMMA Settings ==
    ASSUME TypeOK
    PROVE  /\ Interval \in Nat \ {0} /\ Delay \in Nat
           /\ AckTimeout \in Nat \ {0} /\ IdleLimit \in Nat \ {0}
           /\ 2 * Delay + Interval <= IdleLimit => Delay < AckTimeout
<1>1. /\ config.interval \in Nat \ {0} /\ config.timeout \in Nat
      /\ config.delay \in Nat /\ AtLeast \in Nat
  BY TimingAssumption DEF TypeOK, TimingAssumption
<1>2. CASE config.timeout > 0
  BY <1>1, <1>2 DEF Delay, Interval, AckTimeout, IdleLimit
<1>3. CASE config.timeout = 0
  <2>1. AckTimeout = Greater(config.interval * 2, AtLeast) /\ IdleLimit = config.interval * 3
    BY <1>3 DEF AckTimeout, IdleLimit
  <2> QED
    BY <1>1, <2>1 DEF Delay, Interval, Greater
<1> QED
  BY <1>1, <1>2, <1>3

\* No step changes the settings, so none changes a limit.
LEMMA SettingsStay ==
    ASSUME [Next]_vars
    PROVE  /\ config' = config
           /\ Delay' = Delay /\ Interval' = Interval
           /\ AckTimeout' = AckTimeout /\ IdleLimit' = IdleLimit
           /\ SlaveHorizon' = SlaveHorizon /\ MasterHorizon' = MasterHorizon
           /\ ToMasterFrames' = ToMasterFrames /\ ToSlaveFrames' = ToSlaveFrames
<1>1. config' = config
  BY DEF Next, vars, StartSlave, SendHeartbeat, Rebuild, SlaveReceives, CrashSlave,
         StartMaster, CrashMaster, MasterReceives, MasterSends, SlaveSends, Check, Tick
<1> QED
  BY <1>1 DEF Delay, Interval, AckTimeout, IdleLimit, SlaveHorizon, MasterHorizon,
              ToMasterFrames, ToSlaveFrames, Frames

(***************************************************************************)
(* Queues of frames.                                                       *)
(***************************************************************************)
\* What a broken connection leaves of a queue is its beginning, kinds aside.
LEMMA SurvivingFrames ==
    ASSUME TypeOK, NEW q \in Surviving
    PROVE  /\ q \in Seq(ToMasterFrames)
           /\ Len(q) <= Len(toMaster)
           /\ \A i \in DOMAIN q : q[i].age = toMaster[i].age
           /\ q # <<>> => master
<1> DEFINE Part(l) == SubSeq(toMaster, 1, l)
<1>1. CASE ~master
  BY <1>1 DEF Surviving
<1>2. CASE master
  <2>1. PICK l \in 0..Len(toMaster) : q = Abandoned(Part(l))
    BY <1>2 DEF Surviving, Prefixes
  <2>2. /\ Part(l) \in Seq(ToMasterFrames) /\ Len(Part(l)) = l
        /\ \A i \in 1..l : Part(l)[i] = toMaster[i] /\ Part(l)[i] \in ToMasterFrames
    BY DEF TypeOK, ToMasterFrames
  <2> HIDE DEF Part
  <2>3. /\ DOMAIN q = 1..l
        /\ \A i \in 1..l : q[i] = IF Part(l)[i].kind = "heartbeat"
                                  THEN [Part(l)[i] EXCEPT !.kind = "stale"] ELSE Part(l)[i]
    BY <2>1, <2>2 DEF Abandoned
  <2>4. \A i \in 1..l : q[i] \in ToMasterFrames /\ q[i].age = toMaster[i].age
    BY <2>2, <2>3 DEF ToMasterFrames, Frames
  <2>5. q = [i \in 1..l |-> q[i]]
    BY <2>1, <2>2, <2>3 DEF Abandoned
  <2>6. q \in Seq(ToMasterFrames) /\ Len(q) = l
    BY <2>4, <2>5
  <2> QED
    BY <1>2, <2>3, <2>4, <2>6
<1> QED
  BY <1>1, <1>2

\* Ageing changes the ages only.
LEMMA AgedFrames ==
    ASSUME TypeOK, NEW kinds, NEW q \in Seq(Frames(kinds)), NoOverdue(q)
    PROVE  /\ Aged(q) \in Seq(Frames(kinds))
           /\ Len(Aged(q)) = Len(q)
           /\ \A i \in 1..Len(q) : /\ Aged(q)[i].kind = q[i].kind
                                   /\ Aged(q)[i].age = q[i].age + 1
<1>1. Delay \in Nat
  BY Settings
<1>2. \A i \in 1..Len(q) : q[i] \in Frames(kinds) /\ q[i].age < Delay
  BY DEF NoOverdue, Delay
<1>3. \A i \in 1..Len(q) : [q[i] EXCEPT !.age = q[i].age + 1] \in Frames(kinds)
  BY <1>1, <1>2 DEF Frames, Delay
<1>4. Aged(q) = [i \in 1..Len(q) |-> [q[i] EXCEPT !.age = q[i].age + 1]]
  BY DEF Aged
<1>5. Aged(q) \in Seq(Frames(kinds)) /\ Len(Aged(q)) = Len(q)
  BY <1>3, <1>4
<1> QED
  BY <1>2, <1>4, <1>5 DEF Frames

\* Every frame on its way has an age of at most the delay.
LEMMA FramesOnTheWay ==
    ASSUME TypeOK
    PROVE  /\ toMaster \in Seq(ToMasterFrames)
           /\ \A i \in DOMAIN toMaster : toMaster[i].age \in 0..Delay
           /\ toSlave \in Seq(ToSlaveFrames)
           /\ \A i \in DOMAIN toSlave : toSlave[i].age \in 0..Delay
<1>1. toMaster \in Seq(ToMasterFrames) /\ toSlave \in Seq(ToSlaveFrames)
  BY DEF TypeOK, ToMasterFrames, ToSlaveFrames
<1>2. /\ \A i \in DOMAIN toMaster : toMaster[i] \in ToMasterFrames
      /\ \A i \in DOMAIN toSlave : toSlave[i] \in ToSlaveFrames
  BY <1>1
<1> QED
  BY <1>1, <1>2 DEF ToMasterFrames, ToSlaveFrames, Frames, Delay

\* A frame that is written goes to the end.
LEMMA WrittenFrame ==
    ASSUME NEW kinds, NEW q \in Seq(Frames(kinds)), NEW kind \in kinds, config.delay \in Nat
    PROVE  LET r == Append(q, Frame(kind)) IN
             /\ r \in Seq(Frames(kinds)) /\ Len(r) = Len(q) + 1 /\ r # <<>>
             /\ \A i \in 1..Len(q) : r[i] = q[i]
             /\ r[Len(q) + 1].kind = kind /\ r[Len(q) + 1].age = 0
<1>1. Frame(kind) \in Frames(kinds) /\ Frame(kind).kind = kind /\ Frame(kind).age = 0
  BY DEF Frame, Frames
<1> QED
  BY <1>1

\* A frame that is delivered was the first, and the others move up.
LEMMA DeliveredFrame ==
    ASSUME NEW kinds, NEW q \in Seq(Frames(kinds)), q # <<>>
    PROVE  /\ Tail(q) \in Seq(Frames(kinds)) /\ Len(Tail(q)) = Len(q) - 1
           /\ \A i \in 1..Len(Tail(q)) : Tail(q)[i] = q[i + 1]
           /\ Head(q) = q[1] /\ 1 \in DOMAIN q
OBVIOUS

\* The first states are well-shaped.
LEMMA InitShape == Init => TypeOK
<1> SUFFICES ASSUME Init PROVE TypeOK
  OBVIOUS
<1>1. /\ config.interval \in Nat \ {0} /\ config.timeout \in Nat
      /\ config.delay \in Nat /\ AtLeast \in Nat
  BY TimingAssumption DEF Init, TimingAssumption
<1>2. AckTimeout \in Nat /\ IdleLimit \in Nat
  <2>1. CASE config.timeout > 0
    BY <1>1, <2>1 DEF AckTimeout, IdleLimit
  <2>2. CASE config.timeout = 0
    <3>1. AckTimeout = Greater(config.interval * 2, AtLeast) /\ IdleLimit = config.interval * 3
      BY <2>2 DEF AckTimeout, IdleLimit
    <3> QED
      BY <1>1, <3>1 DEF Greater
  <2> QED
    BY <1>1, <2>1, <2>2
<1>3. SlaveHorizon \in Nat /\ MasterHorizon \in Nat
  BY <1>1, <1>2 DEF SlaveHorizon, MasterHorizon
<1>4. {slave, online, master, registered} \subseteq BOOLEAN
  <2>1. slave = FALSE /\ online = FALSE /\ master = FALSE /\ registered = FALSE
    BY DEF Init
  <2> QED
    BY <2>1
<1>5. /\ beatIn = -1 /\ ackIn = -1 /\ scanIn = -1 /\ idle = 0
      /\ slaveFor = 0 /\ masterFor = 0 /\ faults = 0
      /\ toMaster = <<>> /\ toSlave = <<>> /\ config \in Configs
  BY DEF Init, Never
<1> QED
  BY <1>1, <1>2, <1>3, <1>4, <1>5, TimingAssumption DEF TypeOK, Never, TimingAssumption

\* Every step keeps the shape: no timer is set beyond its length, and no frame is
\* older than the delay.
LEMMA ShapeStep == TypeOK /\ [Next]_vars => TypeOK'
<1> SUFFICES ASSUME TypeOK, [Next]_vars PROVE TypeOK'
  OBVIOUS
<1> DEFINE Flags ==
      /\ slave \in BOOLEAN /\ online \in BOOLEAN
      /\ master \in BOOLEAN /\ registered \in BOOLEAN
    Lengths ==
      /\ beatIn \in Never..Interval /\ scanIn \in Never..Interval
      /\ ackIn \in Never..AckTimeout
      /\ idle \in 0..(IdleLimit + 1)
      /\ slaveFor \in 0..(SlaveHorizon + 1) /\ masterFor \in 0..(MasterHorizon + 1)
      /\ faults \in 0..MaxFaults
    Queues == toMaster \in Seq(ToMasterFrames) /\ toSlave \in Seq(ToSlaveFrames)
<1>1. config \in Configs /\ Flags /\ Lengths /\ Queues
  BY DEF TypeOK, Interval, ToMasterFrames, ToSlaveFrames
<1>2. /\ config' = config
      /\ Interval' = Interval /\ AckTimeout' = AckTimeout /\ IdleLimit' = IdleLimit
      /\ SlaveHorizon' = SlaveHorizon /\ MasterHorizon' = MasterHorizon
      /\ ToMasterFrames' = ToMasterFrames /\ ToSlaveFrames' = ToSlaveFrames
  BY SettingsStay
<1>3. /\ Interval \in Nat \ {0} /\ AckTimeout \in Nat \ {0} /\ IdleLimit \in Nat \ {0}
      /\ SlaveHorizon \in Nat /\ MasterHorizon \in Nat /\ config.delay \in Nat
      /\ MaxFaults \in Nat
  BY Settings, TimingAssumption
     DEF SlaveHorizon, MasterHorizon, Delay, Interval, TimingAssumption
<1>4. /\ \A kind \in {"register", "heartbeat", "stale", "frame"} :
           \A q \in Seq(ToMasterFrames) : Append(q, Frame(kind)) \in Seq(ToMasterFrames)
      /\ \A kind \in {"ack", "frame"} : Append(toSlave, Frame(kind)) \in Seq(ToSlaveFrames)
  BY <1>1, <1>3, WrittenFrame DEF ToMasterFrames, ToSlaveFrames
<1>5. /\ toMaster # <<>> => Tail(toMaster) \in Seq(ToMasterFrames)
      /\ toSlave # <<>> => Tail(toSlave) \in Seq(ToSlaveFrames)
  BY <1>1
<1>6. Flags' /\ Lengths'
  <2> USE DEF Never
  <2>1. CASE StartSlave
    <3>1. /\ beatIn' = 0 /\ ackIn' = -1 /\ slaveFor' = 0
          /\ UNCHANGED <<scanIn, idle, masterFor, faults>>
      BY <2>1 DEF StartSlave, NewDealer, mVars
    <3>2. Flags'
      BY <1>1, <2>1 DEF StartSlave, NewDealer, mVars
    <3> QED
      BY <1>1, <1>2, <1>3, <3>1, <3>2
  <2>2. CASE SendHeartbeat
    BY <1>1, <1>2, <1>3, <2>2 DEF SendHeartbeat, mVars
  <2>3. CASE Rebuild
    <3>1. /\ beatIn' = 0 /\ ackIn' = -1
          /\ UNCHANGED <<scanIn, idle, slaveFor, masterFor, faults>>
      BY <2>3 DEF Rebuild, NewDealer, mVars
    <3>2. Flags'
      BY <1>1, <2>3 DEF Rebuild, NewDealer, mVars
    <3> QED
      BY <1>1, <1>2, <1>3, <3>1, <3>2
  <2>4. CASE SlaveReceives
    BY <1>1, <1>2, <1>3, <2>4, Settings
       DEF SlaveReceives, Confirmed, NextBeat, mVars, Interval
  <2>5. CASE CrashSlave
    <3>1. /\ beatIn' = -1 /\ ackIn' = -1 /\ slaveFor' = 0
          /\ faults < MaxFaults /\ faults' = faults + 1
          /\ UNCHANGED <<scanIn, idle, masterFor>>
      BY <2>5 DEF CrashSlave, mVars
    <3>2. Flags'
      BY <1>1, <2>5 DEF CrashSlave, mVars
    <3> QED
      BY <1>1, <1>2, <1>3, <3>1, <3>2
  <2>6. CASE StartMaster
    <3>1. /\ scanIn' = Interval /\ idle' = 0 /\ masterFor' = 0
          /\ UNCHANGED <<beatIn, ackIn, slaveFor, faults>>
      BY <2>6 DEF StartMaster, sVars, Interval
    <3>2. Flags'
      BY <1>1, <2>6 DEF StartMaster, sVars, Interval
    <3> QED
      BY <1>1, <1>2, <1>3, <3>1, <3>2
  <2>7. CASE CrashMaster
    <3>1. /\ scanIn' = -1 /\ idle' = 0 /\ masterFor' = 0
          /\ faults < MaxFaults /\ faults' = faults + 1
          /\ UNCHANGED <<beatIn, ackIn, slaveFor>>
      BY <2>7 DEF CrashMaster, sVars
    <3>2. Flags'
      BY <1>1, <2>7 DEF CrashMaster, sVars
    <3> QED
      BY <1>1, <1>2, <1>3, <3>1, <3>2
  <2>8. CASE MasterReceives
    BY <1>1, <1>2, <1>3, <2>8 DEF MasterReceives, Touched, sVars
  <2>9. CASE MasterSends \/ SlaveSends
    BY <1>1, <1>2, <1>3, <2>9 DEF MasterSends, SlaveSends, sVars, mVars
  <2>10. CASE Check
    BY <1>1, <1>2, <1>3, <2>10 DEF Check, NextScan, Overdue, sVars, Interval
  <2>11. CASE Tick
    BY <1>1, <1>2, <1>3, <2>11 DEF Tick, Later
  <2>12. CASE UNCHANGED vars
    BY <1>1, <1>2, <1>3, <2>12 DEF vars, sVars, mVars
  <2> QED
    BY <2>1, <2>2, <2>3, <2>4, <2>5, <2>6, <2>7, <2>8, <2>9, <2>10, <2>11, <2>12 DEF Next
<1>7. Queues'
  <2> USE <1>1, <1>2, <1>4, <1>5
  <2>1. CASE StartSlave
    BY <2>1 DEF StartSlave, NewDealer
  <2>2. CASE SendHeartbeat
    BY <2>2 DEF SendHeartbeat
  <2>3. CASE Rebuild
    BY <2>3, SurvivingFrames DEF Rebuild, NewDealer
  <2>4. CASE SlaveReceives
    BY <2>4 DEF SlaveReceives
  <2>5. CASE CrashSlave
    BY <2>5, SurvivingFrames DEF CrashSlave
  <2>6. CASE StartMaster
    <3>1. \A i \in DOMAIN toMaster : Frame(toMaster[i].kind) \in ToMasterFrames
      <4>1. \A i \in DOMAIN toMaster : toMaster[i] \in ToMasterFrames
        OBVIOUS
      <4> QED
        BY <1>3, <4>1 DEF ToMasterFrames, Frames, Frame
    <3>2. toMaster' = [i \in 1..Len(toMaster) |-> Frame(toMaster[i].kind)]
      BY <2>6 DEF StartMaster
    <3> QED
      BY <2>6, <3>1, <3>2 DEF StartMaster, nVars
  <2>7. CASE CrashMaster
    <3>1. toMaster' \in Seq(ToMasterFrames)
      <4>1. \A l \in 1..Len(toMaster) : SubSeq(toMaster, l, Len(toMaster)) \in Seq(ToMasterFrames)
        OBVIOUS
      <4>2. <<>> \in Seq(ToMasterFrames)
        OBVIOUS
      <4>3. toMaster' \in Unwritten
        BY <2>7 DEF CrashMaster
      <4> QED
        BY <4>1, <4>2, <4>3 DEF Unwritten, Suffixes
    <3>2. toSlave' \in Seq(ToSlaveFrames)
      BY <2>7 DEF CrashMaster, Prefixes
    <3> QED
      BY <3>1, <3>2
  <2>8. CASE MasterReceives
    BY <2>8 DEF MasterReceives
  <2>9. CASE MasterSends \/ SlaveSends
    BY <2>9 DEF MasterSends, SlaveSends
  <2>10. CASE Check
    BY <2>10 DEF Check, nVars
  <2>11. CASE Tick
    BY <2>11, AgedFrames DEF Tick, ToMasterFrames, ToSlaveFrames
  <2>12. CASE UNCHANGED vars
    BY <2>12 DEF vars, nVars
  <2> QED
    BY <2>1, <2>2, <2>3, <2>4, <2>5, <2>6, <2>7, <2>8, <2>9, <2>10, <2>11, <2>12 DEF Next
<1> QED
  BY <1>1, <1>2, <1>6, <1>7 DEF TypeOK, Interval, ToMasterFrames, ToSlaveFrames

\* The state keeps its shape, whatever the settings: in particular no frame is ever
\* older than the delay and no timer ever runs below zero.
THEOREM Shape == Spec => []TypeOK
BY InitShape, ShapeStep, PTL DEF Spec

(***************************************************************************)
(* The timers of whoever is up.                                            *)
(***************************************************************************)
\* A slave has a heartbeat due or one under way, never both, and only a slave and a
\* master that are up have state.
Alive ==
    /\ slave <=> (beatIn # Never \/ ackIn # Never)
    /\ ackIn # Never => beatIn = Never
    /\ online => slave
    /\ registered => master
    /\ master <=> scanIn # Never
    /\ ~registered => idle = 0

\* At the start nobody is up.
LEMMA InitAlive == Init => Alive
BY DEF Init, Alive

\* Every step leaves a timer running with whoever is up.
LEMMA AliveStep == TypeOK /\ Alive /\ [Next]_vars => Alive'
<1> SUFFICES ASSUME TypeOK, Alive, [Next]_vars PROVE Alive'
  OBVIOUS
<1>1. Interval \in Nat \ {0} /\ AckTimeout \in Nat \ {0}
  BY Settings
<1>2. /\ beatIn \in -1..Interval /\ scanIn \in -1..Interval /\ ackIn \in -1..AckTimeout
      /\ slave \in BOOLEAN /\ online \in BOOLEAN /\ master \in BOOLEAN /\ registered \in BOOLEAN
  BY DEF TypeOK, Never, Interval
<1> USE <1>1, <1>2 DEF Alive, Never, Interval
<1>3. CASE StartSlave \/ SendHeartbeat \/ Rebuild \/ SlaveReceives \/ CrashSlave
  BY <1>3 DEF StartSlave, SendHeartbeat, Rebuild, NewDealer, SlaveReceives, CrashSlave,
              Confirmed, NextBeat, mVars
<1>4. CASE StartMaster \/ CrashMaster \/ MasterReceives \/ MasterSends \/ SlaveSends
  BY <1>4 DEF StartMaster, CrashMaster, MasterReceives, MasterSends, SlaveSends, Touched,
              sVars, mVars
<1>5. CASE Check
  BY <1>5 DEF Check, NextScan, sVars
<1>6. CASE Tick
  BY <1>6 DEF Tick
<1>7. CASE UNCHANGED vars
  BY <1>7 DEF vars, sVars, mVars
<1> QED
  BY <1>3, <1>4, <1>5, <1>6, <1>7 DEF Next

(***************************************************************************)
(* The dead.                                                               *)
(***************************************************************************)
\* A frame of a slave that is gone was under way when it went, so the master has
\* been hearing nothing for all but the delay of that time.
GoneSlave == ~slave =>
    /\ \A i \in DOMAIN toMaster : master /\ slaveFor <= toMaster[i].age
    /\ toSlave = <<>>
    /\ registered => /\ idle <= IdleLimit => slaveFor <= Delay + idle
                     /\ slaveFor + scanIn <= Delay + IdleLimit + Interval

\* The same for the frames of a master that is gone: what the slave still waits for
\* began with the last of them at the latest.
GoneMaster == ~master =>
    /\ \A i \in DOMAIN toSlave : masterFor <= toSlave[i].age
    /\ online => /\ beatIn # Never => masterFor + beatIn <= Delay + Interval
                 /\ ackIn # Never => masterFor + ackIn <= Delay + Interval + AckTimeout

\* At the start nothing is on its way and nobody knows of anybody.
LEMMA InitGone == Init => GoneSlave /\ GoneMaster
BY DEF Init, GoneSlave, GoneMaster

\* The master's idle time and the time to its scan cover the time the slave is gone.
LEMMA GoneSlaveStep == TypeOK /\ Alive /\ GoneSlave /\ [Next]_vars => GoneSlave'
<1> SUFFICES ASSUME TypeOK, Alive, GoneSlave, [Next]_vars, ~slave' PROVE GoneSlave'
  BY DEF GoneSlave
<1>1. /\ Interval \in Nat \ {0} /\ AckTimeout \in Nat \ {0} /\ IdleLimit \in Nat \ {0}
      /\ Delay \in Nat
  BY Settings
<1>2. /\ Delay' = Delay /\ Interval' = Interval /\ IdleLimit' = IdleLimit
  BY SettingsStay
<1>3. /\ scanIn \in -1..Interval /\ idle \in 0..(IdleLimit + 1)
      /\ slaveFor \in Nat /\ slaveFor \in 0..(SlaveHorizon + 1)
      /\ slave \in BOOLEAN /\ master \in BOOLEAN /\ registered \in BOOLEAN
  BY DEF TypeOK, Never, Interval
<1>4. /\ toMaster \in Seq(ToMasterFrames)
      /\ \A i \in DOMAIN toMaster : toMaster[i].age \in 0..Delay
  BY FramesOnTheWay
<1>5. CASE CrashSlave
  <2>1. slaveFor' = 0 /\ toSlave' = <<>> /\ UNCHANGED <<master, registered, idle, scanIn>>
    BY <1>5 DEF CrashSlave, mVars
  <2>2. \A i \in DOMAIN toMaster' : master /\ toMaster'[i].age \in Nat
    <3>1. toMaster' \in Surviving
      BY <1>5 DEF CrashSlave
    <3>2. /\ toMaster' \in Seq(ToMasterFrames) /\ Len(toMaster') <= Len(toMaster)
          /\ \A i \in DOMAIN toMaster' : toMaster'[i].age = toMaster[i].age
          /\ toMaster' # <<>> => master
      BY <3>1, SurvivingFrames
    <3> QED
      BY <1>1, <1>4, <3>2
  <2>3. \A i \in DOMAIN toMaster' : master' /\ slaveFor' <= toMaster'[i].age
    BY <2>1, <2>2
  <2>4. slaveFor' + scanIn' <= Delay + IdleLimit + Interval /\ slaveFor' <= Delay + idle'
    BY <1>1, <1>3, <2>1
  <2> QED
    BY <1>2, <2>1, <2>3, <2>4 DEF GoneSlave
<1>6. CASE ~slave /\ ~CrashSlave
  <2> USE <1>6 DEF GoneSlave
  <2>1. beatIn = Never /\ ackIn = Never
    BY DEF Alive
  <2>2. CASE StartMaster
    <3>1. toMaster = <<>>
      BY <1>4, <2>2 DEF StartMaster
    <3> QED
      BY <2>2, <3>1 DEF StartMaster, sVars
  <2>3. CASE CrashMaster
    <3>1. toMaster' = <<>> /\ toSlave' = <<>>
      BY <2>3 DEF CrashMaster, Unwritten, Prefixes
    <3> QED
      BY <2>3, <3>1 DEF CrashMaster
  <2>4. CASE MasterReceives
    <3>1. /\ idle' = 0 /\ toSlave' = <<>> /\ toMaster' = Tail(toMaster)
          /\ UNCHANGED <<slaveFor, scanIn, master>> /\ master /\ toMaster # <<>>
      BY <2>4 DEF MasterReceives, Touched, sVars
    <3>2. slaveFor <= Delay
      BY <1>1, <1>3, <1>4, <3>1
    <3>3. \A i \in DOMAIN toMaster' : slaveFor' <= toMaster'[i].age
      BY <1>4, <3>1, DeliveredFrame DEF ToMasterFrames
    <3> QED
      BY <1>1, <1>2, <1>3, <3>1, <3>2, <3>3
  <2>5. CASE Check
    BY <1>1, <1>2, <1>3, <2>5 DEF Check, NextScan, Overdue, nVars, sVars, Interval
  <2>6. CASE Tick
    <3>1. slaveFor' <= slaveFor + 1 /\ slaveFor' \in Nat
      BY <1>3, <2>6 DEF Tick, Later
    <3>2. toSlave' = <<>>
      BY <2>6 DEF Tick, Aged
    <3>3. \A i \in DOMAIN toMaster' : master' /\ slaveFor' <= toMaster'[i].age
      <4>1. CASE toMaster = <<>>
        BY <2>6, <4>1 DEF Tick, Aged
      <4>2. CASE toMaster # <<>>
        <5>1. 1 \in DOMAIN toMaster
          BY <1>4, <4>2
        <5>2. master /\ master' /\ NoOverdue(toMaster) /\ toMaster' = Aged(toMaster)
          BY <2>6, <5>1 DEF Tick
        <5>3. /\ Len(toMaster') = Len(toMaster) /\ toMaster' \in Seq(ToMasterFrames)
              /\ \A i \in 1..Len(toMaster) : toMaster'[i].age = toMaster[i].age + 1
          BY <1>4, <5>2, AgedFrames DEF ToMasterFrames
        <5> QED
          BY <1>1, <1>3, <1>4, <3>1, <5>2, <5>3
      <4> QED
        BY <4>1, <4>2
    <3>4. registered' => /\ idle' <= IdleLimit => slaveFor' <= Delay + idle'
                         /\ slaveFor' + scanIn' <= Delay + IdleLimit + Interval
      BY <1>1, <1>3, <2>6, <3>1 DEF Tick, Later, Alive, Never
    <3> QED
      BY <1>2, <3>2, <3>3, <3>4
  <2>7. CASE UNCHANGED vars
    BY <1>2, <2>7 DEF vars, sVars, mVars, nVars
  <2>8. ~(StartSlave \/ SendHeartbeat \/ Rebuild \/ SlaveReceives \/ MasterSends \/ SlaveSends)
    BY <2>1 DEF StartSlave, SendHeartbeat, Rebuild, SlaveReceives, MasterSends, SlaveSends,
                Never
  <2> QED
    BY <2>2, <2>3, <2>4, <2>5, <2>6, <2>7, <2>8 DEF Next
<1>7. slave => CrashSlave
  BY DEF Next, vars, StartSlave, SendHeartbeat, Rebuild, SlaveReceives, StartMaster,
         CrashMaster, MasterReceives, MasterSends, SlaveSends, Check, Tick, sVars
<1> QED
  BY <1>5, <1>6, <1>7

\* The age of the master's last frame bounds what the slave still waits for.
LEMMA GoneMasterStep == TypeOK /\ Alive /\ GoneMaster /\ [Next]_vars => GoneMaster'
<1> SUFFICES ASSUME TypeOK, Alive, GoneMaster, [Next]_vars, ~master' PROVE GoneMaster'
  BY DEF GoneMaster
<1>1. /\ Interval \in Nat \ {0} /\ AckTimeout \in Nat \ {0} /\ Delay \in Nat
  BY Settings
<1>2. /\ Delay' = Delay /\ Interval' = Interval /\ AckTimeout' = AckTimeout
  BY SettingsStay
<1>3. /\ beatIn \in -1..Interval /\ ackIn \in -1..AckTimeout
      /\ masterFor \in Nat /\ masterFor \in 0..(MasterHorizon + 1)
      /\ slave \in BOOLEAN /\ online \in BOOLEAN /\ master \in BOOLEAN
  BY DEF TypeOK, Never, Interval
<1>4. /\ toSlave \in Seq(ToSlaveFrames)
      /\ \A i \in DOMAIN toSlave : toSlave[i].age \in 0..Delay
  BY FramesOnTheWay
<1>5. CASE CrashMaster
  <2>1. masterFor' = 0 /\ UNCHANGED <<online, beatIn, ackIn>> /\ toSlave' \in Prefixes(toSlave)
    BY <1>5 DEF CrashMaster, sVars
  <2>2. PICK l \in 0..Len(toSlave) : toSlave' = SubSeq(toSlave, 1, l)
    BY <2>1 DEF Prefixes
  <2>3. DOMAIN toSlave' = 1..l /\ \A i \in 1..l : toSlave'[i] = toSlave[i]
    BY <1>4, <2>2
  <2>4. \A i \in DOMAIN toSlave' : masterFor' <= toSlave'[i].age
    BY <1>1, <1>4, <2>1, <2>2, <2>3
  <2>5. /\ masterFor' + beatIn' <= Delay + Interval
        /\ masterFor' + ackIn' <= Delay + Interval + AckTimeout
    BY <1>1, <1>3, <2>1
  <2> QED
    BY <1>2, <2>4, <2>5 DEF GoneMaster
<1>6. CASE ~master /\ ~CrashMaster
  <2> USE <1>6 DEF GoneMaster
  <2>1. scanIn = Never /\ ~registered
    BY DEF Alive
  <2>2. CASE StartSlave
    BY <2>2 DEF StartSlave, NewDealer, mVars
  <2>3. CASE SendHeartbeat
    BY <1>1, <1>2, <1>3, <2>3 DEF SendHeartbeat, mVars, Alive, Never
  <2>4. CASE Rebuild
    <3>1. online' = FALSE /\ toSlave' = <<>>
      BY <2>4 DEF Rebuild, NewDealer
    <3> QED
      BY <3>1
  <2>5. CASE SlaveReceives
    <3>1. /\ toSlave # <<>> /\ toSlave' = Tail(toSlave) /\ masterFor' = masterFor
          /\ ackIn' = -1
          /\ beatIn' = Interval \/ beatIn' = beatIn
      BY <2>5 DEF SlaveReceives, Confirmed, NextBeat, Never, mVars, Interval
    <3>2. masterFor <= Delay
      BY <1>1, <1>3, <1>4, <3>1
    <3>3. \A i \in DOMAIN toSlave' : masterFor' <= toSlave'[i].age
      BY <1>4, <3>1, DeliveredFrame DEF ToSlaveFrames
    <3> QED
      BY <1>1, <1>2, <1>3, <3>1, <3>2, <3>3 DEF Never
  <2>6. CASE CrashSlave
    BY <2>6 DEF CrashSlave
  <2>7. CASE SlaveSends
    BY <1>2, <2>7 DEF SlaveSends, sVars, mVars
  <2>8. CASE Tick
    <3>1. masterFor' <= masterFor + 1 /\ masterFor' \in Nat
      BY <1>3, <2>8 DEF Tick, Later
    <3>2. /\ Len(toSlave') = Len(toSlave) /\ toSlave' \in Seq(ToSlaveFrames)
          /\ \A i \in 1..Len(toSlave) : toSlave'[i].age = toSlave[i].age + 1
      BY <1>4, <2>8, AgedFrames DEF ToSlaveFrames, Tick
    <3>3. \A i \in DOMAIN toSlave' : masterFor' <= toSlave'[i].age
      BY <1>1, <1>3, <1>4, <3>1, <3>2
    <3>4. online' => /\ beatIn' # -1 => masterFor' + beatIn' <= Delay + Interval
                     /\ ackIn' # -1 => masterFor' + ackIn' <= Delay + Interval + AckTimeout
      BY <1>1, <1>3, <2>8, <3>1 DEF Tick, Never
    <3> QED
      BY <1>2, <3>3, <3>4 DEF Never
  <2>9. CASE UNCHANGED vars
    BY <1>2, <2>9 DEF vars, sVars, mVars, nVars
  <2>10. ~(StartMaster \/ MasterReceives \/ MasterSends \/ Check)
    BY <2>1 DEF StartMaster, MasterReceives, MasterSends, Check, Never
  <2> QED
    BY <2>2, <2>3, <2>4, <2>5, <2>6, <2>7, <2>8, <2>9, <2>10 DEF Next
<1>7. master => CrashMaster
  BY DEF Next, vars, StartSlave, SendHeartbeat, Rebuild, SlaveReceives, CrashSlave,
         StartMaster, MasterReceives, MasterSends, SlaveSends, Check, Tick, mVars
<1> QED
  BY <1>5, <1>6, <1>7

\* What bounds the wait for the dead, together.
DeadInv == TypeOK /\ Alive /\ GoneSlave /\ GoneMaster

\* The bounds hold throughout.
LEMMA DeadBounded == Spec => []DeadInv
<1>1. Init => DeadInv
  BY InitShape, InitAlive, InitGone DEF DeadInv
<1>2. DeadInv /\ [Next]_vars => DeadInv'
  BY ShapeStep, AliveStep, GoneSlaveStep, GoneMasterStep DEF DeadInv
<1> QED
  BY <1>1, <1>2, PTL DEF Spec

\* The dead are noticed in time, whatever the settings: the scan of the master has
\* removed a slave that is gone, and the wait of a slave has ended for a master that
\* is gone, within the sum of the constants each. (#startHeartbeatCheck,
\* #onHeartbeatAckTimeout)
THEOREM DeadAreNoticed == Spec => []DeadNoticed
<1>1. DeadInv => DeadNoticed
  <2> SUFFICES ASSUME DeadInv PROVE DeadNoticed
    OBVIOUS
  <2>1. /\ Interval \in Nat \ {0} /\ AckTimeout \in Nat \ {0} /\ IdleLimit \in Nat \ {0}
        /\ Delay \in Nat
    BY Settings DEF DeadInv
  <2>2. /\ beatIn \in -1..Interval /\ scanIn \in -1..Interval /\ ackIn \in -1..AckTimeout
        /\ slaveFor \in Nat /\ masterFor \in Nat
    BY DEF DeadInv, TypeOK, Never, Interval
  <2>3. /\ SlaveHorizon = Delay + IdleLimit + Interval
        /\ MasterHorizon = Delay + Interval + AckTimeout
    BY DEF SlaveHorizon, MasterHorizon, Delay, Interval
  <2>4. ~slave /\ registered => slaveFor <= SlaveHorizon
    BY <2>1, <2>2, <2>3 DEF DeadInv, Alive, GoneSlave, Never
  <2>5. ~master /\ online => masterFor <= MasterHorizon
    BY <2>1, <2>2, <2>3 DEF DeadInv, Alive, GoneMaster, Never
  <2> QED
    BY <2>1, <2>2, <2>3, <2>4, <2>5 DEF DeadNoticed
<1> QED
  BY <1>1, DeadBounded, PTL

(***************************************************************************)
(* The living.                                                             *)
(***************************************************************************)
RoundTripFits == 2 * Delay + Interval <= IdleLimit

\* A frame j of the master that was written when it heard from the slave, at the
\* latest one delay after the heartbeat the slave now waits for.
Answers(j) ==
    /\ toSlave[j].age + Delay + ackIn >= AckTimeout
    /\ idle <= toSlave[j].age

\* Where the answer is that a slave waits for: the master has been up for less than
\* the wait, or the heartbeat is on its way since the wait began, or the answer is.
Answered == slave /\ master /\ ackIn # Never =>
    \/ masterFor + ackIn <= AckTimeout
    \/ /\ \E i \in DOMAIN toMaster : toMaster[i].kind = "heartbeat"
       /\ \A i \in DOMAIN toMaster :
            toMaster[i].kind = "heartbeat" => toMaster[i].age + ackIn >= AckTimeout
    \/ \E j \in DOMAIN toSlave : Answers(j)

\* The time a master that is up has not heard of a slave that is up is the age of
\* the next frame, or what the heartbeat has left of its interval is, or one of them
\* has not been up for long enough.
HeardOf(a) ==
    \/ idle <= a + Delay + Interval
    \/ masterFor <= a + AckTimeout + Interval
    \/ slaveFor <= a
HeardBefore(b) ==
    \/ idle + b <= Delay + Interval
    \/ masterFor + b <= AckTimeout + Interval
Heard == slave /\ master /\ RoundTripFits =>
    /\ toMaster # <<>> => HeardOf(toMaster[1].age)
    /\ toMaster = <<>> /\ beatIn # Never => HeardBefore(beatIn)

\* At the start neither is up.
LEMMA InitLiving == Init => Answered /\ Heard
BY DEF Init, Answered, Heard

\* The values the next two steps reason about.
LEMMA LivingTypes ==
    ASSUME TypeOK
    PROVE  /\ Interval \in Nat \ {0} /\ AckTimeout \in Nat \ {0} /\ IdleLimit \in Nat \ {0}
           /\ Delay \in Nat
           /\ RoundTripFits => Delay < AckTimeout
           /\ beatIn \in -1..Interval /\ scanIn \in -1..Interval /\ ackIn \in -1..AckTimeout
           /\ idle \in 0..(IdleLimit + 1) /\ slaveFor \in Nat /\ masterFor \in Nat
BY Settings DEF TypeOK, Never, Interval, RoundTripFits

\* The answer travels on, or the frame it answers does.
LEMMA AnsweredStep == TypeOK /\ Alive /\ Answered /\ [Next]_vars => Answered'
<1> SUFFICES ASSUME TypeOK, Alive, Answered, [Next]_vars, slave', master', ackIn' # Never
             PROVE  Answered'
  BY DEF Answered, Never
<1>1. /\ AckTimeout \in Nat \ {0} /\ Delay \in Nat /\ ackIn \in -1..AckTimeout
      /\ idle \in Nat /\ masterFor \in Nat
  BY LivingTypes
<1>2. /\ Delay' = Delay /\ AckTimeout' = AckTimeout
  BY SettingsStay
<1>3. /\ toMaster \in Seq(ToMasterFrames)
      /\ \A i \in DOMAIN toMaster : toMaster[i].age \in 0..Delay
      /\ toSlave \in Seq(ToSlaveFrames)
      /\ \A i \in DOMAIN toSlave : toSlave[i].age \in 0..Delay
  BY FramesOnTheWay
<1>4. CASE SendHeartbeat
  <2>1. ackIn = Never
    BY <1>4 DEF SendHeartbeat, Alive, Never
  <2>2. ackIn' = AckTimeout /\ toMaster' = Append(toMaster, Frame("heartbeat"))
    BY <1>4, <2>1 DEF SendHeartbeat
  <2>3. /\ Len(toMaster') = Len(toMaster) + 1 /\ toMaster' \in Seq(ToMasterFrames)
        /\ \A i \in 1..Len(toMaster) : toMaster'[i] = toMaster[i]
        /\ toMaster'[Len(toMaster) + 1].kind = "heartbeat"
        /\ toMaster'[Len(toMaster) + 1].age = 0
    BY <1>1, <1>3, <2>2, WrittenFrame DEF ToMasterFrames, Delay
  <2>4. \E i \in DOMAIN toMaster' : toMaster'[i].kind = "heartbeat"
    BY <2>3
  <2>5. \A i \in DOMAIN toMaster' : toMaster'[i].age + ackIn' >= AckTimeout
    BY <1>1, <1>3, <2>2, <2>3
  <2> QED
    BY <1>2, <2>4, <2>5 DEF Answered
<1>5. CASE StartMaster
  BY <1>1, <1>2, <1>5 DEF StartMaster, sVars, Answered
<1>6. CASE MasterReceives
  <2>1. /\ slave /\ master /\ ackIn # Never
        /\ UNCHANGED <<ackIn, masterFor>> /\ idle' = 0
        /\ toMaster # <<>> /\ toMaster' = Tail(toMaster)
        /\ toSlave' = toSlave \/ toSlave' = Append(toSlave, Frame("ack"))
        /\ Head(toMaster).kind = "heartbeat" => toSlave' = Append(toSlave, Frame("ack"))
    BY <1>6 DEF MasterReceives, Touched, sVars
  <2>2. /\ Len(toMaster') = Len(toMaster) - 1 /\ toMaster' \in Seq(ToMasterFrames)
        /\ \A i \in 1..Len(toMaster') : toMaster'[i] = toMaster[i + 1]
        /\ Head(toMaster) = toMaster[1] /\ 1 \in DOMAIN toMaster
    BY <1>3, <2>1, DeliveredFrame DEF ToMasterFrames
  <2>3. LET r == Append(toSlave, Frame("ack")) IN
          /\ Len(r) = Len(toSlave) + 1 /\ r \in Seq(ToSlaveFrames)
          /\ \A i \in 1..Len(toSlave) : r[i] = toSlave[i]
          /\ r[Len(toSlave) + 1].age = 0
    BY <1>1, <1>3, WrittenFrame DEF ToSlaveFrames, Delay
  <2>4. CASE masterFor + ackIn <= AckTimeout
    BY <1>2, <2>1, <2>4 DEF Answered
  <2>5. CASE /\ \E i \in DOMAIN toMaster : toMaster[i].kind = "heartbeat"
             /\ \A i \in DOMAIN toMaster :
                  toMaster[i].kind = "heartbeat" => toMaster[i].age + ackIn >= AckTimeout
    <3>1. CASE toMaster[1].kind = "heartbeat"
      <4>1. toMaster[1].age + ackIn >= AckTimeout
        BY <2>2, <2>5, <3>1
      <4>2. PICK n \in Nat : n = Len(toSlave) + 1
        BY <1>3
      <4>3. n \in DOMAIN toSlave' /\ toSlave'[n].age = 0
        BY <1>3, <2>1, <2>2, <2>3, <3>1, <4>2
      <4>4. toMaster[1].age \in Nat /\ toMaster[1].age <= Delay
        BY <1>1, <1>3, <2>2
      <4>5. 0 + Delay + ackIn >= AckTimeout
        BY <1>1, <4>1, <4>4
      <4>6. Answers(n)'
        BY <1>2, <2>1, <4>3, <4>5 DEF Answers
      <4> QED
        BY <4>3, <4>6 DEF Answered
    <3>2. CASE toMaster[1].kind # "heartbeat"
      <4>1. PICK i \in DOMAIN toMaster : toMaster[i].kind = "heartbeat"
        BY <2>5
      <4>2. i - 1 \in DOMAIN toMaster' /\ toMaster'[i - 1].kind = "heartbeat"
        BY <1>3, <2>1, <2>2, <3>2, <4>1
      <4>3. \A k \in DOMAIN toMaster' : toMaster'[k].kind = "heartbeat" =>
              toMaster'[k].age + ackIn' >= AckTimeout
        BY <1>3, <2>1, <2>2, <2>5
      <4> QED
        BY <1>2, <4>2, <4>3 DEF Answered
    <3> QED
      BY <3>1, <3>2
  <2>6. CASE \E j \in DOMAIN toSlave : Answers(j)
    <3>1. PICK j \in DOMAIN toSlave : Answers(j)
      BY <2>6
    <3>2. j \in DOMAIN toSlave' /\ toSlave'[j] = toSlave[j]
      <4>1. CASE toSlave' = toSlave
        BY <4>1
      <4>2. CASE toSlave' = Append(toSlave, Frame("ack"))
        BY <1>3, <2>3, <4>2
      <4> QED
        BY <2>1, <4>1, <4>2
    <3>3. Answers(j)'
      BY <1>1, <1>2, <1>3, <2>1, <3>1, <3>2 DEF Answers
    <3> QED
      BY <3>2, <3>3 DEF Answered
  <2> QED
    BY <2>1, <2>4, <2>5, <2>6 DEF Answered
<1>7. CASE MasterSends
  <2>1. /\ UNCHANGED <<slave, master, ackIn, masterFor, toMaster, idle>>
        /\ toSlave' = Append(toSlave, Frame("frame"))
    BY <1>7 DEF MasterSends, sVars, mVars
  <2>2. \A j \in DOMAIN toSlave : j \in DOMAIN toSlave' /\ toSlave'[j] = toSlave[j]
    BY <1>1, <1>3, <2>1, WrittenFrame DEF ToSlaveFrames, Delay
  <2>3. \A j \in DOMAIN toSlave : Answers(j) => j \in DOMAIN toSlave' /\ Answers(j)'
    BY <1>2, <2>1, <2>2 DEF Answers
  <2> QED
    BY <1>2, <2>1, <2>3 DEF Answered
<1>8. CASE SlaveSends
  <2>1. /\ UNCHANGED <<slave, master, ackIn, masterFor, toSlave, idle>>
        /\ toMaster' = Append(toMaster, Frame("frame"))
    BY <1>8 DEF SlaveSends, sVars, mVars
  <2>2. /\ Len(toMaster') = Len(toMaster) + 1 /\ toMaster' \in Seq(ToMasterFrames)
        /\ \A i \in 1..Len(toMaster) : toMaster'[i] = toMaster[i]
        /\ toMaster'[Len(toMaster) + 1].kind = "frame"
    BY <1>1, <1>3, <2>1, WrittenFrame DEF ToMasterFrames, Delay
  <2>3. \A i \in DOMAIN toMaster :
           i \in DOMAIN toMaster' /\ toMaster'[i] = toMaster[i]
    BY <1>3, <2>2
  <2>4. \A i \in DOMAIN toMaster' : toMaster'[i].kind = "heartbeat" =>
           i \in DOMAIN toMaster /\ toMaster'[i] = toMaster[i]
    BY <1>3, <2>2
  <2>5. \A j : Answers(j)' <=> Answers(j)
    BY <1>2, <2>1 DEF Answers
  <2> QED
    BY <1>2, <2>1, <2>3, <2>4, <2>5 DEF Answered
<1>9. CASE Check
  <2>1. /\ UNCHANGED <<slave, master, ackIn, masterFor, toMaster, toSlave>>
        /\ idle' = idle \/ idle' = 0
    BY <1>9 DEF Check, sVars, nVars
  <2>2. \A j \in DOMAIN toSlave : Answers(j) => Answers(j)'
    BY <1>1, <1>2, <1>3, <2>1 DEF Answers
  <2> QED
    BY <1>2, <2>1, <2>2 DEF Answered
<1>10. CASE Tick
  <2>0. /\ ackIn' = ackIn - 1
        /\ masterFor' <= masterFor + 1 /\ masterFor' \in Nat
        /\ idle' <= idle + 1 /\ idle' \in Nat
    BY <1>1, <1>10 DEF Tick, Later, Never
  <2>1. /\ slave /\ master /\ ackIn # Never
        /\ NoOverdue(toMaster) /\ toMaster' = Aged(toMaster)
        /\ NoOverdue(toSlave) /\ toSlave' = Aged(toSlave)
    BY <1>1, <1>10 DEF Tick, Never
  <2>2. /\ Len(toMaster') = Len(toMaster) /\ toMaster' \in Seq(ToMasterFrames)
        /\ \A i \in 1..Len(toMaster) : /\ toMaster'[i].kind = toMaster[i].kind
                                       /\ toMaster'[i].age = toMaster[i].age + 1
    BY <1>3, <2>1, AgedFrames DEF ToMasterFrames
  <2>3. /\ Len(toSlave') = Len(toSlave) /\ toSlave' \in Seq(ToSlaveFrames)
        /\ \A i \in 1..Len(toSlave) : toSlave'[i].age = toSlave[i].age + 1
    BY <1>3, <2>1, AgedFrames DEF ToSlaveFrames
  <2>4. CASE masterFor + ackIn <= AckTimeout
    <3>1. masterFor' + ackIn' <= AckTimeout
      <4>1. \A f, g, b, w \in Int : f + b <= w /\ g <= f + 1 => g + (b - 1) <= w
        OBVIOUS
      <4>2. /\ masterFor \in Int /\ masterFor' \in Int /\ ackIn \in Int /\ AckTimeout \in Int
            /\ ackIn' = ackIn - 1 /\ masterFor' <= masterFor + 1
        BY <1>1, <2>0
      <4> QED
        BY <2>4, <4>1, <4>2
    <3> QED
      BY <1>2, <3>1 DEF Answered
  <2>5. CASE /\ \E i \in DOMAIN toMaster : toMaster[i].kind = "heartbeat"
             /\ \A i \in DOMAIN toMaster :
                  toMaster[i].kind = "heartbeat" => toMaster[i].age + ackIn >= AckTimeout
    <3>1. \E i \in DOMAIN toMaster' : toMaster'[i].kind = "heartbeat"
      BY <1>3, <2>2, <2>5
    <3>2. \A i \in DOMAIN toMaster' : toMaster'[i].kind = "heartbeat" =>
             toMaster'[i].age + ackIn' >= AckTimeout
      <4>1. ASSUME NEW i \in DOMAIN toMaster', toMaster'[i].kind = "heartbeat"
            PROVE  toMaster'[i].age + ackIn' >= AckTimeout
        <5>1. /\ i \in DOMAIN toMaster /\ toMaster[i].kind = "heartbeat"
              /\ toMaster'[i].age = toMaster[i].age + 1
          BY <1>3, <2>2, <4>1
        <5>2. toMaster[i].age \in Nat /\ toMaster[i].age + ackIn >= AckTimeout
          BY <1>1, <1>3, <2>5, <5>1
        <5> QED
          BY <1>1, <2>0, <5>1, <5>2
      <4> QED
        BY <4>1
    <3> QED
      BY <1>2, <3>1, <3>2 DEF Answered
  <2>6. CASE \E j \in DOMAIN toSlave : Answers(j)
    <3>1. PICK j \in DOMAIN toSlave : Answers(j)
      BY <2>6
    <3>2. j \in DOMAIN toSlave' /\ toSlave'[j].age = toSlave[j].age + 1
      BY <1>3, <2>3
    <3>3. Answers(j)'
      BY <1>1, <1>2, <1>3, <2>0, <3>1, <3>2 DEF Answers
    <3> QED
      BY <3>2, <3>3 DEF Answered
  <2> QED
    BY <2>1, <2>4, <2>5, <2>6 DEF Answered
<1>11. CASE UNCHANGED vars
  <2>1. UNCHANGED <<slave, master, ackIn, masterFor, toMaster, toSlave, idle>>
    BY <1>11 DEF vars, sVars, mVars, nVars
  <2>2. \A j : Answers(j)' <=> Answers(j)
    BY <1>2, <2>1 DEF Answers
  <2> QED
    BY <1>2, <2>1, <2>2 DEF Answered
<1>12. ~(StartSlave \/ Rebuild \/ SlaveReceives \/ CrashSlave \/ CrashMaster)
  BY DEF StartSlave, Rebuild, NewDealer, SlaveReceives, Confirmed, CrashSlave, CrashMaster
<1> QED
  BY <1>4, <1>5, <1>6, <1>7, <1>8, <1>9, <1>10, <1>11, <1>12 DEF Next

\* A slave that waits, while nothing of it is under way, has been heard of within a
\* delay, or the master has not been up for longer than the wait.
LEMMA WaitingIsHeard ==
    ASSUME TypeOK, Answered, slave, master, ackIn # Never,
           \A i \in DOMAIN toMaster : toMaster[i].age + ackIn < AckTimeout
    PROVE  idle <= Delay \/ masterFor <= AckTimeout
<1>1. ackIn \in 0..AckTimeout /\ masterFor \in Nat /\ AckTimeout \in Nat
  BY LivingTypes DEF Never
<1>2. CASE masterFor + ackIn <= AckTimeout
  BY <1>1, <1>2
<1>3. CASE \E i \in DOMAIN toMaster :
              toMaster[i].kind = "heartbeat" /\ toMaster[i].age + ackIn >= AckTimeout
  <2>1. PICK i \in DOMAIN toMaster : toMaster[i].age + ackIn >= AckTimeout
    BY <1>3
  <2>2. toMaster[i].age \in Nat
    BY FramesOnTheWay
  <2>3. toMaster[i].age + ackIn < AckTimeout
    OBVIOUS
  <2> QED
    BY <1>1, <2>1, <2>2, <2>3
<1>4. CASE \E j \in DOMAIN toSlave : Answers(j)
  <2>1. PICK j \in DOMAIN toSlave : idle <= toSlave[j].age
    BY <1>4 DEF Answers
  <2>2. toSlave[j].age \in Nat /\ toSlave[j].age <= Delay /\ idle \in Nat /\ Delay \in Nat
    BY FramesOnTheWay, LivingTypes
  <2> QED
    BY <2>1, <2>2
<1> QED
  BY <1>2, <1>3, <1>4 DEF Answered

\* The first frame of a queue that was not empty stays the first when one is written.
LEMMA HeadStays ==
    ASSUME NEW q \in Seq(ToMasterFrames), NEW kind \in {"register", "heartbeat", "frame"},
           config.delay \in Nat
    PROVE  LET r == Append(q, Frame(kind)) IN
             /\ r # <<>>
             /\ q # <<>> => r[1] = q[1]
             /\ q = <<>> => r[1].age = 0
BY WrittenFrame DEF ToMasterFrames

\* The master's idle time is covered by what is on its way or due.
LEMMA HeardStep == TypeOK /\ Alive /\ Answered /\ Heard /\ [Next]_vars => Heard'
<1> SUFFICES ASSUME TypeOK, Alive, Answered, Heard, [Next]_vars,
                    slave', master', RoundTripFits'
             PROVE  /\ toMaster' # <<>> => HeardOf(toMaster[1].age)'
                    /\ toMaster' = <<>> /\ beatIn' # Never => HeardBefore(beatIn)'
  BY DEF Heard, Never
<1>1. /\ Interval \in Nat \ {0} /\ AckTimeout \in Nat \ {0} /\ Delay \in Nat
      /\ Delay < AckTimeout
      /\ beatIn \in -1..Interval /\ ackIn \in -1..AckTimeout
      /\ idle \in Nat /\ masterFor \in Nat /\ slaveFor \in Nat
      /\ RoundTripFits
  BY LivingTypes, SettingsStay DEF RoundTripFits
<1>2. /\ Delay' = Delay /\ AckTimeout' = AckTimeout /\ Interval' = Interval
  BY SettingsStay
<1>3. /\ toMaster \in Seq(ToMasterFrames)
      /\ \A i \in DOMAIN toMaster : toMaster[i].age \in 0..Delay
      /\ toMaster # <<>> => toMaster[1].age \in 0..Delay
      /\ config.delay \in Nat
  <2>1. toMaster # <<>> => 1 \in DOMAIN toMaster
    BY FramesOnTheWay
  <2> QED
    BY <2>1, <1>1, FramesOnTheWay DEF Delay
<1>4. CASE StartSlave
  <2>1. /\ slaveFor' = 0 /\ toMaster' = Append(toMaster, Frame("register"))
    BY <1>4 DEF StartSlave, NewDealer
  <2>2. toMaster' # <<>> /\ toMaster'[1].age \in Nat
    BY <1>1, <1>3, <2>1, HeadStays
  <2> QED
    BY <1>1, <2>1, <2>2 DEF HeardOf
<1>5. CASE SendHeartbeat
  <2>1. /\ beatIn = 0 /\ beatIn # Never /\ toMaster' = Append(toMaster, Frame("heartbeat"))
        /\ UNCHANGED <<slave, master, idle, masterFor, slaveFor>>
    <3>1. /\ beatIn = 0 /\ slave' = slave
          /\ UNCHANGED <<master, idle, masterFor, slaveFor>>
      BY <1>5 DEF SendHeartbeat, mVars
    <3>2. ackIn = Never
      BY <3>1 DEF Alive, Never
    <3>3. toMaster' = Append(toMaster, Frame("heartbeat"))
      BY <1>5, <3>2 DEF SendHeartbeat
    <3>4. beatIn # Never
      BY <3>1 DEF Never
    <3>5. UNCHANGED <<slave, master, idle, masterFor, slaveFor>>
      BY <3>1
    <3> QED
      BY <3>1, <3>3, <3>4, <3>5
  <2>2. /\ toMaster' # <<>>
        /\ toMaster # <<>> => toMaster'[1] = toMaster[1]
        /\ toMaster = <<>> => toMaster'[1].age = 0
    BY <1>3, <2>1, HeadStays
  <2>3. CASE toMaster # <<>>
    BY <1>1, <1>2, <2>1, <2>2, <2>3 DEF Heard, HeardOf
  <2>4. CASE toMaster = <<>>
    <3>1. HeardBefore(0)
      BY <1>1, <2>1, <2>4 DEF Heard
    <3> QED
      BY <1>1, <1>2, <2>1, <2>2, <2>4, <3>1 DEF HeardBefore, HeardOf
  <2> QED
    BY <2>3, <2>4
<1>6. CASE Rebuild
  <2>1. PICK kept \in Surviving : toMaster' = Append(kept, Frame("register"))
    BY <1>6 DEF Rebuild, NewDealer
  <2>2. /\ ackIn = 0 /\ ackIn # Never /\ slave /\ master
        /\ UNCHANGED <<slave, master, idle, masterFor, slaveFor>>
    <3>1. /\ ackIn = 0 /\ slave' = slave
          /\ UNCHANGED <<master, idle, masterFor, slaveFor>>
      BY <1>6 DEF Rebuild, mVars
    <3>2. ackIn # Never
      BY <3>1 DEF Never
    <3>3. slave /\ master
      BY <3>1
    <3> QED
      BY <3>1, <3>2, <3>3
  <2>3. /\ kept \in Seq(ToMasterFrames)
        /\ kept # <<>> => 1 \in DOMAIN kept /\ 1 \in DOMAIN toMaster /\ toMaster # <<>>
        /\ kept # <<>> => kept[1].age = toMaster[1].age
    BY <1>3, SurvivingFrames
  <2>4. /\ toMaster' # <<>>
        /\ kept # <<>> => toMaster'[1] = kept[1]
        /\ kept = <<>> => toMaster'[1].age = 0
    BY <1>3, <2>1, <2>3, HeadStays
  <2>5. CASE kept # <<>>
    BY <1>1, <1>2, <2>2, <2>3, <2>4, <2>5 DEF Heard, HeardOf
  <2>6. CASE kept = <<>>
    <3>1. \A i \in DOMAIN toMaster : toMaster[i].age + ackIn < AckTimeout
      BY <1>1, <1>3, <2>2
    <3>2. idle <= Delay \/ masterFor <= AckTimeout
      BY <2>2, <3>1, WaitingIsHeard
    <3> QED
      BY <1>1, <1>2, <2>2, <2>4, <2>6, <3>2 DEF HeardOf
  <2> QED
    BY <2>5, <2>6
<1>7. CASE SlaveReceives
  <2>1. /\ UNCHANGED <<slave, master, idle, masterFor, slaveFor, toMaster>>
        /\ beatIn' = IF ackIn # Never THEN Interval ELSE beatIn
    BY <1>7 DEF SlaveReceives, NextBeat, mVars, Interval
  <2>2. CASE toMaster # <<>>
    BY <1>1, <1>2, <2>1, <2>2 DEF Heard, HeardOf
  <2>3. CASE toMaster = <<>> /\ ackIn # Never
    <3>1. idle <= Delay \/ masterFor <= AckTimeout
      BY <2>1, <2>3, WaitingIsHeard
    <3> QED
      BY <1>1, <1>2, <2>1, <2>3, <3>1 DEF HeardBefore
  <2>4. CASE toMaster = <<>> /\ ackIn = Never
    BY <1>1, <1>2, <2>1, <2>4 DEF Heard, HeardBefore
  <2> QED
    BY <2>2, <2>3, <2>4
<1>8. CASE StartMaster \/ MasterReceives
  <2>1. /\ beatIn' = beatIn
        /\ masterFor' = 0 \/ idle' = 0
        /\ StartMaster => masterFor' = 0
    BY <1>8 DEF StartMaster, MasterReceives, Touched, sVars
  <2>2. toMaster' # <<>> => toMaster'[1].age \in Nat
    <3>1. toMaster' \in Seq(ToMasterFrames')
      BY ShapeStep DEF TypeOK, ToMasterFrames
    <3>2. toMaster' # <<>> => toMaster'[1] \in ToMasterFrames'
      BY <3>1
    <3> QED
      BY <1>1, <1>2, <3>2 DEF ToMasterFrames, Frames, Delay
  <2> QED
    BY <1>1, <1>2, <2>1, <2>2 DEF HeardOf, HeardBefore
<1>9. CASE MasterSends
  BY <1>1, <1>2, <1>9 DEF MasterSends, sVars, mVars, Heard, HeardOf, HeardBefore
<1>10. CASE SlaveSends
  <2>1. /\ toMaster' = Append(toMaster, Frame("frame"))
        /\ UNCHANGED <<slave, master, idle, masterFor, slaveFor, beatIn, ackIn>>
    BY <1>10 DEF SlaveSends, sVars, mVars
  <2>2. /\ toMaster' # <<>>
        /\ toMaster # <<>> => toMaster'[1] = toMaster[1]
        /\ toMaster = <<>> => toMaster'[1].age = 0
    BY <1>3, <2>1, HeadStays
  <2>3. CASE toMaster # <<>>
    BY <1>1, <1>2, <2>1, <2>2, <2>3 DEF Heard, HeardOf
  <2>4. CASE toMaster = <<>> /\ ackIn # Never
    <3>1. idle <= Delay \/ masterFor <= AckTimeout
      BY <2>1, <2>4, WaitingIsHeard
    <3> QED
      BY <1>1, <1>2, <2>1, <2>2, <2>4, <3>1 DEF HeardOf
  <2>5. CASE toMaster = <<>> /\ ackIn = Never
    <3>1. beatIn # Never /\ beatIn \in 0..Interval
      BY <1>1, <2>1, <2>5 DEF Alive, Never
    <3>2. HeardBefore(beatIn)
      BY <1>1, <2>1, <2>5, <3>1 DEF Heard
    <3> QED
      BY <1>1, <1>2, <2>1, <2>2, <2>5, <3>1, <3>2 DEF HeardBefore, HeardOf
  <2> QED
    BY <2>3, <2>4, <2>5
<1>11. CASE Check
  <2>1. /\ UNCHANGED <<slave, master, masterFor, slaveFor, toMaster, beatIn>>
        /\ idle' = idle \/ idle' = 0
    BY <1>11 DEF Check, sVars, nVars
  <2>2. idle' \in Nat /\ idle' <= idle
    BY <1>1, <2>1
  <2> QED
    <3>1. CASE toMaster # <<>>
      BY <1>1, <1>2, <1>3, <2>1, <2>2, <3>1 DEF Heard, HeardOf
    <3>2. CASE toMaster = <<>> /\ beatIn # Never
      <4>1. /\ beatIn \in Int /\ idle \in Int /\ idle' \in Int
            /\ Delay + Interval \in Int /\ masterFor \in Int
        BY <1>1, <2>2
      <4>2. HeardBefore(beatIn)
        BY <1>1, <2>1, <3>2 DEF Heard
      <4>3. idle + beatIn <= Delay + Interval => idle' + beatIn' <= Delay + Interval
        BY <2>1, <2>2, <4>1
      <4> QED
        BY <1>2, <2>1, <3>2, <4>2, <4>3 DEF HeardBefore
    <3>3. CASE toMaster = <<>> /\ beatIn = Never
      BY <2>1, <3>3 DEF Never
    <3> QED
      BY <3>1, <3>2, <3>3
<1>12. CASE Tick
  <2>1. /\ slave /\ master
        /\ NoOverdue(toMaster) /\ toMaster' = Aged(toMaster)
    BY <1>12 DEF Tick
  <2>2. /\ idle' \in Nat /\ idle' <= idle + 1
        /\ masterFor' \in Nat /\ masterFor' <= masterFor + 1
        /\ slaveFor' \in Nat /\ slaveFor' <= slaveFor + 1
        /\ beatIn' # -1 => beatIn # -1 /\ beatIn' = beatIn - 1
    BY <1>1, <1>12 DEF Tick, Later, Never
  <2>3. /\ Len(toMaster') = Len(toMaster) /\ toMaster' \in Seq(ToMasterFrames)
        /\ \A i \in 1..Len(toMaster) : toMaster'[i].age = toMaster[i].age + 1
    BY <1>3, <2>1, AgedFrames DEF ToMasterFrames
  <2>4. ASSUME toMaster' # <<>> PROVE HeardOf(toMaster[1].age)'
    <3>1. toMaster # <<>> /\ toMaster'[1].age = toMaster[1].age + 1
      BY <1>3, <2>3, <2>4
    <3>2. HeardOf(toMaster[1].age)
      BY <1>1, <2>1, <3>1 DEF Heard
    <3> QED
      <4>1. toMaster[1].age \in Nat /\ toMaster'[1].age = toMaster[1].age + 1
        BY <1>1, <1>3, <3>1
      <4>2. idle <= toMaster[1].age + Delay + Interval =>
              idle' <= toMaster'[1].age + Delay + Interval
        BY <1>1, <2>2, <4>1
      <4>3. masterFor <= toMaster[1].age + AckTimeout + Interval =>
              masterFor' <= toMaster'[1].age + AckTimeout + Interval
        BY <1>1, <2>2, <4>1
      <4>4. slaveFor <= toMaster[1].age => slaveFor' <= toMaster'[1].age
        BY <1>1, <2>2, <4>1
      <4> QED
        BY <1>2, <3>2, <4>2, <4>3, <4>4 DEF HeardOf
  <2>5. ASSUME toMaster' = <<>>, beatIn' # Never PROVE HeardBefore(beatIn)'
    <3>1. toMaster = <<>>
      BY <1>3, <2>3, <2>5
    <3>2. HeardBefore(beatIn)
      BY <1>1, <2>1, <2>2, <2>5, <3>1 DEF Heard, Never
    <3> QED
      <4>1. \A f, g, b, w \in Int : f + b <= w /\ g <= f + 1 => g + (b - 1) <= w
        OBVIOUS
      <4>2. beatIn \in Int /\ beatIn' = beatIn - 1
        BY <1>1, <2>2, <2>5 DEF Never
      <4>3. /\ idle \in Int /\ idle' \in Int /\ idle' <= idle + 1
            /\ masterFor \in Int /\ masterFor' \in Int /\ masterFor' <= masterFor + 1
            /\ Delay + Interval \in Int /\ AckTimeout + Interval \in Int
        BY <1>1, <2>2
      <4>4. idle + beatIn <= Delay + Interval => idle' + beatIn' <= Delay + Interval
        BY <4>3, <4>1, <4>2
      <4>5. masterFor + beatIn <= AckTimeout + Interval =>
              masterFor' + beatIn' <= AckTimeout + Interval
        BY <4>3, <4>1, <4>2
      <4> QED
        BY <1>2, <3>2, <4>4, <4>5 DEF HeardBefore
  <2> QED
    BY <2>4, <2>5
<1>13. CASE UNCHANGED vars
  BY <1>1, <1>2, <1>13 DEF vars, sVars, mVars, nVars, Heard, HeardOf, HeardBefore
<1>14. ~(CrashSlave \/ CrashMaster)
  BY DEF CrashSlave, CrashMaster
<1> QED
  BY <1>4, <1>5, <1>6, <1>7, <1>8, <1>9, <1>10, <1>11, <1>12, <1>13, <1>14 DEF Next

\* What keeps the living, together.
LivingInv == TypeOK /\ Alive /\ Answered /\ Heard

\* It holds throughout.
LEMMA LivingCovered == Spec => []LivingInv
<1>1. Init => LivingInv
  BY InitShape, InitAlive, InitLiving DEF LivingInv
<1>2. LivingInv /\ [Next]_vars => LivingInv'
  BY ShapeStep, AliveStep, AnsweredStep, HeardStep DEF LivingInv
<1> QED
  BY <1>1, <1>2, PTL DEF Spec

\* A master that has been up for a while, and a slave with it, does not find the
\* slave overdue.
LEMMA NotOverdue == LivingInv /\ Steady /\ RoundTripFits /\ registered => ~Overdue
<1> SUFFICES ASSUME LivingInv, Steady, RoundTripFits, registered PROVE ~Overdue
  OBVIOUS
<1>1. /\ Interval \in Nat \ {0} /\ AckTimeout \in Nat \ {0} /\ Delay \in Nat
      /\ IdleLimit \in Nat \ {0}
      /\ beatIn \in -1..Interval
      /\ idle \in Nat /\ masterFor \in Nat /\ slaveFor \in Nat
  BY LivingTypes DEF LivingInv
<1>2. /\ slave /\ slaveFor > Delay /\ master
      /\ masterFor > Delay + Interval + AckTimeout
  BY DEF Steady, MasterHorizon, Delay, Interval
<1>3. CASE toMaster # <<>>
  <2>1. toMaster[1].age \in 0..Delay
    BY <1>3, FramesOnTheWay DEF LivingInv
  <2>2. HeardOf(toMaster[1].age)
    BY <1>2, <1>3 DEF LivingInv, Heard
  <2> QED
    BY <1>1, <1>2, <2>1, <2>2 DEF HeardOf, Overdue, RoundTripFits
<1>4. CASE toMaster = <<>> /\ beatIn # Never
  <2>1. HeardBefore(beatIn)
    BY <1>2, <1>4 DEF LivingInv, Heard
  <2> QED
    BY <1>1, <1>2, <1>4, <2>1 DEF HeardBefore, Overdue, RoundTripFits, Never
<1>5. CASE toMaster = <<>> /\ beatIn = Never
  <2>1. ackIn # Never
    BY <1>2, <1>5 DEF LivingInv, Alive
  <2>2. idle <= Delay \/ masterFor <= AckTimeout
    BY <1>2, <1>5, <2>1, WaitingIsHeard DEF LivingInv
  <2> QED
    BY <1>1, <1>2, <2>2 DEF Overdue, RoundTripFits
<1> QED
  BY <1>3, <1>4, <1>5

\* A slave whose wait is over has a master that is down or came up within the wait.
LEMMA WaitOver ==
    LivingInv /\ slave /\ ackIn = 0 /\ 2 * Delay < AckTimeout
      => ~master \/ masterFor <= AckTimeout
<1> SUFFICES ASSUME LivingInv, slave, ackIn = 0, 2 * Delay < AckTimeout, master
             PROVE  masterFor <= AckTimeout
  OBVIOUS
<1>1. AckTimeout \in Nat \ {0} /\ Delay \in Nat /\ masterFor \in Nat
  BY LivingTypes DEF LivingInv
<1>2. /\ \A i \in DOMAIN toMaster : toMaster[i].age \in 0..Delay
      /\ \A j \in DOMAIN toSlave : toSlave[j].age \in 0..Delay
  BY FramesOnTheWay DEF LivingInv
<1>3. \A i \in DOMAIN toMaster : ~(toMaster[i].age + ackIn >= AckTimeout)
  BY <1>1, <1>2
<1>4. \A j \in DOMAIN toSlave : ~Answers(j)
  BY <1>1, <1>2 DEF Answers
<1>5. masterFor + ackIn <= AckTimeout
  BY <1>3, <1>4 DEF LivingInv, Answered, Never
<1> QED
  BY <1>1, <1>5

\* The living are not taken for dead, whatever the settings: once both ends have
\* been up for a while the scan removes no slave, if a round trip and an interval fit
\* into the idle limit, and a slave does not rebuild its Dealer, if a round trip is
\* shorter than its wait. (#startHeartbeatCheck, #onHeartbeatAckTimeout)
THEOREM LivingAreKept == Spec => LivingKept
<1> DEFINE KeptStep ==
      /\ Steady /\ 2 * config.delay + config.interval <= IdleLimit => ~Evicts
      /\ GivesUp /\ 2 * config.delay < AckTimeout => ~master \/ masterFor <= AckTimeout
<1>1. LivingInv /\ [Next]_vars => [KeptStep]_vars
  <2> SUFFICES ASSUME LivingInv, [Next]_vars, ~UNCHANGED vars PROVE KeptStep
    OBVIOUS
  <2>1. ASSUME Steady, 2 * config.delay + config.interval <= IdleLimit, Evicts PROVE FALSE
    <3>1. CASE Check
      <4>1. ~Overdue
        BY <2>1, NotOverdue DEF Evicts, RoundTripFits, Delay, Interval
      <4> QED
        BY <2>1, <3>1, <4>1 DEF Check, Evicts
    <3>2. registered' = registered \/ registered' = TRUE \/ ~master \/ ~master' \/ Check
      BY DEF Next, vars, StartSlave, SendHeartbeat, Rebuild, SlaveReceives, CrashSlave,
             StartMaster, CrashMaster, MasterReceives, MasterSends, SlaveSends, Tick, mVars
    <3>3. master
      BY <2>1 DEF Steady
    <3> QED
      BY <2>1, <3>1, <3>2, <3>3 DEF Evicts
  <2>2. ASSUME GivesUp, 2 * config.delay < AckTimeout
        PROVE  ~master \/ masterFor <= AckTimeout
    <3>1. slave
      BY <2>2 DEF GivesUp, LivingInv, Alive, Never
    <3> QED
      BY <2>2, <3>1, WaitOver DEF GivesUp, Delay
  <2> QED
    BY <2>1, <2>2
<1>2. LivingKept <=> [][KeptStep]_vars
  BY PTL DEF LivingKept
<1> HIDE DEF KeptStep
<1> QED
  BY <1>1, <1>2, LivingCovered, PTL DEF Spec
=============================================================================
