----------------------------- MODULE Node_proofs ----------------------------
(***************************************************************************)
(* Proofs about one node seen by itself, in three parts that share no      *)
(* state: its life between start() and stop() (Lifecycle), for any tasks   *)
(* and sockets, its link to a master (SlaveLink), and its replay guard     *)
(* (ReplayGuard).                                                          *)
(***************************************************************************)
EXTENDS Lifecycle, SlaveLink, ReplayGuard, TLAPS

(***************************************************************************)
(* The shape of the state.                                                 *)
(***************************************************************************)

\* A #doStart of a master that has not heard from bind() holds its Router.
Binding == \A c \in Tasks : role = "master" /\ pc[c] = "starting" => own[c] \in Sockets

\* Every step keeps the shape.
LEMMA ShapeStep == TypeOK /\ Binding /\ [Next]_vars => TypeOK' /\ Binding'
<1> SUFFICES ASSUME TypeOK, Binding, [Next]_vars PROVE TypeOK' /\ Binding'
  OBVIOUS
<1> USE DEF TypeOK, Binding, Labels
<1>1. ASSUME NEW c \in Tasks,
             \/ StartAtOnce(c) \/ StartJoins(c) \/ StartAwaitsStop(c) \/ StartReturned(c)
             \/ StopJoins(c) \/ StopAwaitsStart(c) \/ StopIdle(c) \/ StopJoined(c)
             \/ StopReturned(c) \/ StartJoined(c)
      PROVE  TypeOK' /\ Binding'
  <2>1. pc' \in [Tasks -> Labels] /\ awaits' \in [Tasks -> Tasks \cup {None}]
    BY <1>1
       DEF StartAtOnce, StartJoins, StartAwaitsStop, StartReturned, StopJoins, StopAwaitsStart,
         StartToAwait, StopIdle, StopJoined, StopReturned, StartJoined, Goto, Over
  <2>2. \A d \in Tasks : pc'[d] = "starting" => pc[d] = "starting"
    BY <1>1
       DEF StartAtOnce, StartJoins, StartAwaitsStop, StartReturned, StopJoins, StopAwaitsStart,
         StartToAwait, StopIdle, StopJoined, StopReturned, StartJoined, Goto, Over
  <2>3. UNCHANGED <<role, running, promises, own, sockets, awaited>>
    BY <1>1
       DEF StartAtOnce, StartJoins, StartAwaitsStop, StartReturned, StopJoins, StopAwaitsStart,
         StopIdle, StopJoined, StopReturned, StartJoined
  <2> QED
    BY <2>1, <2>2, <2>3 DEF promises, sockets
<1>2. ASSUME NEW c \in Tasks, StartFresh(c) \/ StartResumes(c) PROVE TypeOK' /\ Binding'
  <2>1. DoStart(c)
    BY <1>2 DEF StartFresh, StartResumes
  <2>2. PICK s \in Free : IF role = "slave"
                          THEN Opened(s) /\ own' = own
                          ELSE own' = [own EXCEPT ![c] = s] /\ UNCHANGED sockets
    BY <2>1 DEF DoStart
  <2>3. s \in Sockets
    BY DEF Free
  <2> QED
    BY <2>1, <2>2, <2>3 DEF DoStart, Goto, Opened, sockets
<1>3. ASSUME NEW c \in Tasks, StartSucceeds(c) PROVE TypeOK' /\ Binding'
  BY <1>3 DEF StartSucceeds, Opened, sockets
<1>4. ASSUME NEW c \in Tasks, StartFails(c) \/ StartRejected(c) PROVE TypeOK' /\ Binding'
  BY <1>4
     DEF StartFails, StartRejected, TeardownBegin, TeardownEnd, Closed, AwaitedLoops, Forgotten,
         promises
<1>5. ASSUME NEW c \in Tasks, StopBegins(c) \/ StopUnregistered(c) PROVE TypeOK' /\ Binding'
  BY <1>5
     DEF StopBegins, StopUnregistered, TeardownBegin, Closed, AwaitedLoops, Goto, sockets,
         promises
<1>6. ASSUME NEW c \in Tasks, StopCompletes(c) PROVE TypeOK' /\ Binding'
  BY <1>6 DEF StopCompletes, TeardownEnd, Forgotten
<1>7. ASSUME NEW s \in Sockets, LoopEnds(s) PROVE TypeOK' /\ Binding'
  BY <1>7 DEF LoopEnds, promises
<1>8. CASE RestartDealer
  BY <1>8 DEF RestartDealer, Free, Closed, promises
<1>9. CASE UNCHANGED vars
  BY <1>9 DEF vars
<1> QED
  BY <1>1, <1>2, <1>3, <1>4, <1>5, <1>6, <1>7, <1>8, <1>9 DEF Next, StartStep, StopStep, Tasks

\* The first states are well-shaped.
LEMMA InitShape == Init => TypeOK /\ Binding
BY LifecycleAssumption DEF Init, TypeOK, Binding, Labels, LifecycleAssumption

\* The node keeps its shape, whatever the application calls.
THEOREM LifecycleShape == Spec => []TypeOK
BY InitShape, ShapeStep, PTL DEF Spec

(***************************************************************************)
(* Who is under way.  While the application is patient, one start at most  *)
(* is between its first await and its end, and #startPromise is its own;   *)
(* stops may overlap, but when one has cleared the node the others have    *)
(* nothing left to close.                                                  *)
(***************************************************************************)
Binds(d) == pc[d] \in {"starting", "failing"}
Stopping(d) == pc[d] \in {"unregister", "teardown"}
Down(d) == pc[d] \in {"teardown", "failing"}

\* #teardown has left nothing.
Cleared == ~running /\ current = None /\ open = {} /\ alive = {}

StartOwned == \A c \in Tasks : Binds(c) <=> startPromise = c

StopOwned ==
    /\ stopPromise # None => Stopping(stopPromise)
    /\ stopPromise = None => \A d \in Tasks : Stopping(d) => Cleared

\* Start or stop: while a start is under way no stop is, and those that come wait for it.
OneOrOther ==
    startPromise # None =>
        /\ stopPromise = None
        /\ \A d \in Tasks :
             /\ ~Stopping(d)
             /\ pc[d] # "awaitStop"
             /\ pc[d] = "awaitStart" => awaits[d] = startPromise

StopsWait ==
    \A c \in Tasks : pc[c] = "awaitStart" =>
        /\ awaits[c] \in Tasks
        /\ Binds(awaits[c]) \/ pc[awaits[c]] \in {"started", "rejected"}

\* A start that waits for a stop waits alone, and finds nothing when the stop is over.
StartsWait ==
    \A c \in Tasks : pc[c] = "awaitStop" =>
        /\ awaits[c] \in Tasks
        /\ Stopping(awaits[c]) \/ (pc[awaits[c]] = "stopped" /\ Cleared)
        /\ startPromise = None
        /\ \A d \in Tasks : pc[d] # "awaitStart" /\ (pc[d] = "awaitStop" => d = c)

(***************************************************************************)
(* What is open.  A running node has its socket and the loop of it, except *)
(* a master whose bind() is under way; a node that does not run is being   *)
(* torn down, by somebody who waits for all loops, or is cleared.          *)
(***************************************************************************)
Loops ==
    /\ alive \subseteq readLoops
    /\ \A d \in Tasks : Down(d) => ~running /\ alive \subseteq awaited[d]

Opens ==
    /\ open \subseteq {current}
    /\ \A d \in Tasks : pc[d] = "starting" => running
    /\ ~running => open = {} /\ (Cleared \/ \E d \in Tasks : Down(d))
    /\ running /\ role = "master" /\ startPromise # None => current = None /\ open = {}
    /\ running /\ ~(role = "master" /\ startPromise # None) =>
        current # None /\ current \in open /\ current \in alive

NodeInv ==
    /\ TypeOK /\ Binding
    /\ StartOwned /\ StopOwned /\ OneOrOther /\ StopsWait /\ StartsWait
    /\ Loops /\ Opens

\* Nobody is under way at first.
LEMMA InitNode == Init => NodeInv
BY InitShape, LifecycleAssumption
   DEF Init, NodeInv, Tasks, StartOwned, StopOwned, OneOrOther, StopsWait, StartsWait, Loops,
       Opens,
       Binds, Stopping, Down, Cleared, LifecycleAssumption

\* A task is called only when nobody is due: then a stop under way has something left
\* to do, and nobody waits for what is over.
LEMMA CalledFinds ==
    ASSUME NodeInv, NEW c \in Tasks, Called(c)
    PROVE  /\ \A d \in Tasks : Stopping(d) => ~Cleared /\ stopPromise # None
           /\ \A d \in Tasks : pc[d] = "awaitStart" => Binds(awaits[d]) /\ startPromise = awaits[d]
           /\ \A d \in Tasks : pc[d] = "awaitStop" => Stopping(awaits[d])
<1>1. ASSUME NEW d \in Tasks, Stopping(d), Cleared PROVE FALSE
  BY <1>1 DEF Called, TeardownDue, LoopsEnded, Stopping, Cleared
<1>2. ASSUME NEW d \in Tasks, pc[d] = "awaitStart"
      PROVE  Binds(awaits[d]) /\ startPromise = awaits[d]
  BY <1>2 DEF Called, PromiseDue, Over, NodeInv, StopsWait, StartOwned
<1>3. ASSUME NEW d \in Tasks, pc[d] = "awaitStop" PROVE Stopping(awaits[d])
  BY <1>3 DEF Called, PromiseDue, Over, NodeInv, StartsWait
<1> QED
  BY <1>1, <1>2, <1>3 DEF NodeInv, StopOwned

\* #doStart begins on a node that is cleared, with nobody else under way.
LEMMA StartsClear ==
    ASSUME NodeInv, NEW c \in Tasks, StartFresh(c) \/ StartResumes(c)
    PROVE  /\ Cleared /\ startPromise = None /\ stopPromise = None
           /\ \A d \in Tasks : ~Stopping(d) /\ ~Binds(d)
           /\ \A d \in Tasks : pc[d] # "awaitStart" /\ (pc[d] = "awaitStop" => d = c)
           /\ pc[c] \in {"idle", "awaitStop"}
<1>0. \A d \in Tasks : startPromise = None => ~Binds(d)
  BY LifecycleAssumption DEF NodeInv, StartOwned, LifecycleAssumption, Tasks
<1>1. CASE StartFresh(c)
  <2>1. Called(c) /\ ~running /\ startPromise = None /\ stopPromise = None /\ pc[c] = "idle"
    BY <1>1 DEF StartFresh, Called
  <2>2. \A d \in Tasks : ~Stopping(d) /\ ~Binds(d)
    BY <1>0, <2>1, CalledFinds
  <2>3. Cleared
    BY <2>1, <2>2 DEF NodeInv, Opens, Down, Stopping, Binds
  <2>4. \A d \in Tasks : pc[d] # "awaitStart" /\ pc[d] # "awaitStop"
    BY <2>1, <2>2, CalledFinds DEF NodeInv, StopsWait, StartsWait
  <2> QED
    BY <2>1, <2>2, <2>3, <2>4
<1>2. CASE StartResumes(c)
  <2>1. pc[c] = "awaitStop" /\ Over(awaits[c]) /\ ~TeardownDue
    BY <1>2 DEF StartResumes
  <2>2. Cleared /\ startPromise = None
        /\ \A d \in Tasks : pc[d] # "awaitStart" /\ (pc[d] = "awaitStop" => d = c)
    BY <2>1 DEF NodeInv, StartsWait, Over, Stopping
  <2>3. \A d \in Tasks : ~Stopping(d)
    BY <2>1, <2>2 DEF TeardownDue, LoopsEnded, Stopping, Cleared
  <2>4. stopPromise = None
    BY <2>3 DEF NodeInv, StopOwned, TypeOK
  <2> QED
    BY <1>0, <2>1, <2>2, <2>3, <2>4
<1> QED
  BY <1>1, <1>2

\* A stop begins when no start is under way, and none that waits finds its stop over.
LEMMA StopsAlone ==
    ASSUME NodeInv, NEW c \in Tasks, StopBegins(c)
    PROVE  /\ startPromise = None /\ ~Cleared
           /\ pc[c] \in {"idle", "awaitStart"}
           /\ \A d \in Tasks : ~Binds(d)
           /\ \A d \in Tasks : pc[d] = "awaitStop" => Stopping(awaits[d])
<1>1. ~Cleared /\ pc[c] \in {"idle", "awaitStart"}
  BY DEF StopBegins, Cleared, Called
<1>2. startPromise = None
  BY DEF StopBegins, StartToAwait, NodeInv, OneOrOther, StartOwned, Binds, Over, TypeOK
<1>3. \A d \in Tasks : ~Binds(d)
  BY <1>2, LifecycleAssumption DEF NodeInv, StartOwned, LifecycleAssumption, Tasks
<1>4. \A d \in Tasks : pc[d] = "awaitStop" => Stopping(awaits[d])
  BY <1>1 DEF NodeInv, StartsWait
<1> QED
  BY <1>1, <1>2, <1>3, <1>4

\* Who waits for whom, and who owns the promises.
Turns == StartOwned /\ StopOwned /\ OneOrOther /\ StopsWait /\ StartsWait

\* None stands for no task.
LEMMA NoTask == None \notin Tasks
BY LifecycleAssumption DEF LifecycleAssumption, Tasks

\* Calls that have nothing to do, join what is under way or have been answered leave the
\* node alone, and nobody waits for them.
LEMMA AsideStep ==
    ASSUME NodeInv, NEW c \in Tasks,
           \/ StartAtOnce(c) \/ StartJoins(c) \/ StartJoined(c) \/ StartReturned(c)
           \/ StopIdle(c) \/ StopJoins(c) \/ StopJoined(c) \/ StopReturned(c)
    PROVE  Turns' /\ Loops' /\ Opens'
<1> USE DEF Binds, Stopping, Down
<1>1. /\ UNCHANGED <<role, running, startPromise, stopPromise, own, current, open, readLoops,
                     alive, awaited>>
      /\ ~Binds(c) /\ ~Stopping(c)
      /\ pc'[c] \in {"idle", "joinStart", "joinStop", "started", "rejected", "stopped"}
      /\ \A d \in Tasks \ {c} : pc'[d] = pc[d] /\ awaits'[d] = awaits[d]
  BY DEF StartAtOnce, StartJoins, StartJoined, StartReturned, StopIdle, StopJoins, StopJoined,
         StopReturned, Goto, Called, promises, sockets, Over, NodeInv, TypeOK
<1>2. (\E d \in Tasks : awaits[d] = c) => pc[c] \notin {"started", "rejected", "stopped"}
  BY DEF StartAtOnce, StartJoins, StartJoined, StartReturned, StopIdle, StopJoins, StopJoined,
         StopReturned, Called, Awaited
<1>3. \A d \in Tasks : pc[d] \in {"awaitStart", "awaitStop"} => awaits[d] \in Tasks \ {c}
  BY <1>1, <1>2 DEF NodeInv, StopsWait, StartsWait
<1>4. /\ \A d \in Tasks : /\ Binds(d) <=> Binds(d)'
                          /\ Stopping(d) <=> Stopping(d)'
                          /\ Down(d) <=> Down(d)'
      /\ Cleared <=> Cleared'
  BY <1>1 DEF Cleared
<1>5. StartOwned' /\ StopOwned' /\ OneOrOther'
  BY <1>1, <1>4 DEF NodeInv, TypeOK, StartOwned, StopOwned, OneOrOther
<1>6. StopsWait' /\ StartsWait'
  BY <1>1, <1>3, <1>4 DEF NodeInv, StopsWait, StartsWait
<1>7. Loops' /\ Opens'
  BY <1>1, <1>4 DEF NodeInv, Loops, Opens
<1> QED
  BY <1>5, <1>6, <1>7 DEF Turns

\* A call that waits: a start for the stop under way, or a stop for the start under way.
LEMMA WaitStep ==
    ASSUME NodeInv, Patient, NEW c \in Tasks, StartAwaitsStop(c) \/ StopAwaitsStart(c)
    PROVE  Turns' /\ Loops' /\ Opens'
<1> USE NoTask DEF Binds, Stopping, Down
<1>1. /\ UNCHANGED <<role, running, startPromise, stopPromise, own, current, open, readLoops,
                     alive, awaited>>
      /\ pc[c] = "idle" /\ pc'[c] \in {"awaitStop", "awaitStart"}
      /\ \A d \in Tasks \ {c} : pc'[d] = pc[d] /\ awaits'[d] = awaits[d]
      /\ Called(c)
  BY DEF StartAwaitsStop, StopAwaitsStart, Goto, Called, promises, sockets, NodeInv, TypeOK
<1>2. pc'[c] = "awaitStop" =>
        /\ awaits'[c] = stopPromise /\ stopPromise # None /\ startPromise = None
        /\ \A d \in Tasks : pc[d] # "awaitStop"
  BY DEF StartAwaitsStop, StopAwaitsStart, Goto, Called, NodeInv, TypeOK
<1>3. pc'[c] = "awaitStart" => awaits'[c] = startPromise /\ startPromise # None
  BY DEF StartAwaitsStop, StopAwaitsStart, StartToAwait, Goto, Called, NodeInv, TypeOK
<1>4. \A d \in Tasks : pc[d] \in {"awaitStart", "awaitStop"} => awaits[d] \in Tasks \ {c}
  BY <1>1 DEF NodeInv, StopsWait, StartsWait
<1>5. /\ \A d \in Tasks : /\ Binds(d) <=> Binds(d)'
                          /\ Stopping(d) <=> Stopping(d)'
                          /\ Down(d) <=> Down(d)'
      /\ Cleared <=> Cleared'
  BY <1>1 DEF Cleared
<1>6. startPromise \in Tasks \cup {None} /\ stopPromise \in Tasks \cup {None}
  BY DEF NodeInv, TypeOK
<1>7. StartOwned' /\ StopOwned' /\ OneOrOther'
  BY <1>1, <1>2, <1>3, <1>5, <1>6 DEF NodeInv, StartOwned, StopOwned, OneOrOther
<1>8. StopsWait'
  BY <1>1, <1>3, <1>4, <1>5, <1>6 DEF NodeInv, StopsWait, StartOwned
<1>9. \A d \in Tasks : pc'[c] = "awaitStop" => pc[d] # "awaitStart"
  BY <1>1, <1>2, <1>4, CalledFinds
<1>10. StartsWait'
  <2>1. CASE pc'[c] = "awaitStart"
    <3>1. \A d \in Tasks : pc'[d] # "awaitStop"
      BY <1>1, <1>3, <2>1 DEF NodeInv, StartsWait
    <3> QED
      BY <3>1 DEF StartsWait
  <2>2. CASE pc'[c] = "awaitStop"
    <3>1. stopPromise \in Tasks \ {c} /\ Stopping(stopPromise)'
      BY <1>1, <1>2, <1>5, <1>6, <2>2 DEF NodeInv, StopOwned
    <3>2. \A d \in Tasks : pc'[d] # "awaitStart" /\ (pc'[d] = "awaitStop" => d = c)
      BY <1>1, <1>2, <1>9, <2>2
    <3> QED
      <4>1. PICK x \in Tasks : x = stopPromise /\ awaits'[c] = x /\ pc'[x] \in {"unregister", "teardown"}
        BY <1>1, <1>2, <2>2, <3>1
      <4>2. startPromise' = None
        BY <1>1, <1>2, <2>2
      <4> QED
        <5> SUFFICES ASSUME NEW e \in Tasks, pc'[e] = "awaitStop"
                     PROVE  /\ awaits'[e] \in Tasks
                            /\ pc'[awaits'[e]] \in {"unregister", "teardown"}
                            /\ \A d \in Tasks : pc'[d] # "awaitStart" /\ (pc'[d] = "awaitStop" => d = e)
          BY <4>2 DEF StartsWait
        <5> QED
          BY <3>2, <4>1
  <2> QED
    BY <1>1, <2>1, <2>2
<1>11. Loops' /\ Opens'
  BY <1>1, <1>5 DEF NodeInv, Loops, Opens
<1> QED
  BY <1>7, <1>8, <1>10, <1>11 DEF Turns

\* A start begins.
LEMMA BeginStep ==
    ASSUME NodeInv, NEW c \in Tasks, StartFresh(c) \/ StartResumes(c)
    PROVE  Turns' /\ Loops' /\ Opens'
<1> USE NoTask, StartsClear DEF Binds, Stopping, Down
<1>1. /\ running' /\ role' = role /\ startPromise' = c /\ stopPromise' = None
      /\ pc'[c] = "starting" /\ awaited' = awaited
      /\ \A d \in Tasks \ {c} : pc'[d] = pc[d] /\ awaits'[d] = awaits[d]
  BY DEF StartFresh, StartResumes, DoStart, Goto, NodeInv, TypeOK
<1>2. PICK s \in Sockets :
        IF role = "slave" THEN Opened(s) ELSE UNCHANGED sockets
  BY DEF StartFresh, StartResumes, DoStart, Free
<1>3. s # None /\ role \in {"slave", "master"}
  BY LifecycleAssumption DEF LifecycleAssumption, NodeInv, TypeOK
<1>4. Turns'
  BY <1>1 DEF Turns, StartOwned, StopOwned, OneOrOther, StopsWait, StartsWait
<1>5. Loops' /\ Opens'
  BY <1>1, <1>2, <1>3 DEF Loops, Opens, Opened, sockets, Cleared, NodeInv
<1> QED
  BY <1>4, <1>5

\* bind() answers, or the synchronous part of a slave's start is over.
LEMMA SucceedStep ==
    ASSUME NodeInv, NEW c \in Tasks, StartSucceeds(c)
    PROVE  Turns' /\ Loops' /\ Opens'
<1> USE NoTask DEF Binds, Stopping, Down
<1>1. /\ UNCHANGED <<role, running, stopPromise, awaits, awaited>>
      /\ pc[c] = "starting" /\ pc'[c] = "started" /\ startPromise = c /\ startPromise' = None
      /\ \A d \in Tasks \ {c} : pc'[d] = pc[d]
  BY DEF StartSucceeds, NodeInv, TypeOK, StartOwned
<1>2. /\ \A d \in Tasks : /\ ~Stopping(d) /\ pc[d] # "awaitStop"
                          /\ pc[d] = "awaitStart" => awaits[d] = c
      /\ \A d \in Tasks \ {c} : ~Binds(d)
      /\ stopPromise = None
  BY <1>1 DEF NodeInv, OneOrOther, StartOwned
<1>3. Turns'
  BY <1>1, <1>2 DEF Turns, StartOwned, StopOwned, OneOrOther, StopsWait, StartsWait
<1>4. role = "master" => own[c] \in Sockets /\ own[c] # None
  BY <1>1, LifecycleAssumption DEF NodeInv, Binding, LifecycleAssumption
<1>5. running /\ role \in {"slave", "master"}
  BY <1>1, <1>2 DEF NodeInv, TypeOK, Opens, Down
<1>6. Loops' /\ Opens'
  <2>1. CASE role = "slave"
    <3>1. UNCHANGED sockets
      BY <2>1 DEF StartSucceeds
    <3> QED
      BY <1>1, <1>2, <1>5, <2>1, <3>1 DEF NodeInv, Loops, Opens, sockets, Cleared
  <2>2. CASE role = "master"
    <3>1. Opened(own[c]) /\ current = None /\ open = {}
      BY <1>1, <1>5, <2>2, NoTask DEF StartSucceeds, NodeInv, Opens
    <3> QED
      BY <1>1, <1>2, <1>4, <1>5, <2>2, <3>1 DEF NodeInv, Loops, Opens, Opened, Cleared
  <2> QED
    BY <1>5, <2>1, <2>2
<1> QED
  BY <1>3, <1>6

\* bind() fails and #doStart tears down: nothing was open yet.
LEMMA FailStep ==
    ASSUME NodeInv, NEW c \in Tasks, StartFails(c)
    PROVE  Turns' /\ Loops' /\ Opens'
<1> USE NoTask DEF Binds, Stopping, Down
<1>1. /\ UNCHANGED <<role, startPromise, stopPromise, awaits>> /\ TeardownBegin(c)
      /\ role = "master" /\ pc[c] = "starting" /\ pc'[c] = "failing" /\ startPromise = c
      /\ \A d \in Tasks \ {c} : pc'[d] = pc[d]
  BY DEF StartFails, promises, NodeInv, TypeOK, StartOwned
<1>2. /\ running /\ current = None /\ open = {}
      /\ stopPromise = None
      /\ \A d \in Tasks \ {c} : ~Binds(d)
      /\ \A d \in Tasks : /\ ~Stopping(d) /\ pc[d] # "awaitStop"
                          /\ pc[d] = "awaitStart" => awaits[d] = c
  BY <1>1 DEF NodeInv, OneOrOther, StartOwned, Opens
<1>3. Turns'
  BY <1>1, <1>2 DEF Turns, StartOwned, StopOwned, OneOrOther, StopsWait, StartsWait
<1>4. /\ ~running' /\ open' = {} /\ current' = None /\ UNCHANGED <<readLoops, alive>>
      /\ awaited'[c] = readLoops
  BY <1>1, <1>2 DEF TeardownBegin, Closed, AwaitedLoops, NodeInv, TypeOK
<1>5. Loops' /\ Opens'
  BY <1>1, <1>2, <1>4 DEF NodeInv, Loops, Opens
<1> QED
  BY <1>3, <1>5

\* The end of #teardown leaves nothing.
LEMMA Clears ==
    ASSUME NodeInv, NEW c \in Tasks, Down(c), TeardownEnd(c), running' = running
    PROVE  Cleared' /\ alive = {} /\ ~running /\ readLoops' = {} /\ alive' = alive
BY DEF NodeInv, Loops, Opens, TeardownEnd, LoopsEnded, Forgotten, Cleared

\* The teardown of a failed start is over.
LEMMA RejectStep ==
    ASSUME NodeInv, NEW c \in Tasks, StartRejected(c)
    PROVE  Turns' /\ Loops' /\ Opens'
<1> USE NoTask DEF Binds, Stopping, Down
<1>1. /\ UNCHANGED <<role, running, stopPromise, awaits>> /\ TeardownEnd(c)
      /\ pc[c] = "failing" /\ pc'[c] = "rejected" /\ startPromise = c /\ startPromise' = None
      /\ \A d \in Tasks \ {c} : pc'[d] = pc[d]
  BY DEF StartRejected, NodeInv, TypeOK, StartOwned
<1>2. /\ stopPromise = None
      /\ \A d \in Tasks \ {c} : ~Binds(d)
      /\ \A d \in Tasks : /\ ~Stopping(d) /\ pc[d] # "awaitStop"
                          /\ pc[d] = "awaitStart" => awaits[d] = c
  BY <1>1 DEF NodeInv, OneOrOther, StartOwned
<1>3. Turns'
  BY <1>1, <1>2 DEF Turns, StartOwned, StopOwned, OneOrOther, StopsWait, StartsWait
<1>4. Cleared' /\ alive = {} /\ ~running /\ readLoops' = {} /\ alive' = alive
  BY <1>1, Clears
<1>5. Loops' /\ Opens'
  BY <1>1, <1>2, <1>4 DEF Loops, Opens, Cleared
<1> QED
  BY <1>3, <1>5

\* A stop begins, or goes on once the unregister frame is written.
LEMMA StopsStep ==
    ASSUME NodeInv, NEW c \in Tasks, StopBegins(c) \/ StopUnregistered(c)
    PROVE  Turns' /\ Loops' /\ Opens'
<1> USE NoTask DEF Binds, Stopping, Down
<1>1. /\ role' = role /\ startPromise = None /\ startPromise' = None
      /\ pc'[c] \in {"unregister", "teardown"}
      /\ \A d \in Tasks \ {c} : pc'[d] = pc[d] /\ awaits'[d] = awaits[d]
      /\ pc[c] \in {"idle", "awaitStart", "unregister"}
  <2>1. CASE StopBegins(c)
    BY <2>1, StopsAlone DEF StopBegins, Goto, NodeInv, TypeOK
  <2>2. CASE StopUnregistered(c)
    BY <2>2 DEF StopUnregistered, Goto, promises, NodeInv, TypeOK, OneOrOther
  <2> QED
    BY <2>1, <2>2
<1>2. \A d \in Tasks : ~Binds(d)
  BY <1>1 DEF NodeInv, StartOwned
<1>3. \/ stopPromise' = c
      \/ stopPromise' = stopPromise /\ pc[c] = "unregister"
  BY DEF StopBegins, StopUnregistered, promises
<1>4. \/ TeardownBegin(c) /\ pc'[c] = "teardown"
      \/ /\ pc[c] # "unregister" /\ pc'[c] = "unregister" /\ ~Cleared
         /\ UNCHANGED <<running, current, open, readLoops, alive, awaited>>
  BY <1>1, StopsAlone DEF StopBegins, StopUnregistered, Goto, sockets, NodeInv, TypeOK
<1>5. TeardownBegin(c) =>
        /\ ~running' /\ open' = {} /\ current' = current /\ readLoops' = readLoops /\ alive' = alive
        /\ \A d \in Tasks : awaited'[d] = IF d = c THEN readLoops ELSE awaited[d]
  BY DEF TeardownBegin, Closed, AwaitedLoops, NodeInv, TypeOK, Opens
<1>6. Cleared => Cleared'
  BY <1>4, <1>5 DEF Cleared
<1>7. StartOwned' /\ OneOrOther'
  BY <1>1, <1>2 DEF StartOwned, OneOrOther
<1>8. StopOwned'
  BY <1>1, <1>3, <1>6 DEF NodeInv, TypeOK, StopOwned
<1>9. StopsWait'
  BY <1>1, <1>2 DEF NodeInv, StopsWait
<1>10. StartsWait'
  <2>1. ASSUME NEW d \in Tasks, pc[d] = "awaitStop"
        PROVE  pc'[awaits[d]] \in {"unregister",
        "teardown"} \/ (pc'[awaits[d]] = "stopped" /\ Cleared')
    BY <1>1, <1>6, <2>1 DEF NodeInv, StartsWait
  <2> QED
    BY <1>1, <2>1 DEF NodeInv, StartsWait
<1>11. Loops'
  BY <1>1, <1>4, <1>5 DEF NodeInv, Loops
<1>12. Opens'
  BY <1>1, <1>2, <1>4, <1>5, <1>6 DEF NodeInv, Opens
<1> QED
  BY <1>7, <1>8, <1>9, <1>10, <1>11, <1>12 DEF Turns

\* A stop ends: the node is cleared, for those who waited and for stops that began too.
LEMMA CompleteStep ==
    ASSUME NodeInv, NEW c \in Tasks, StopCompletes(c)
    PROVE  Turns' /\ Loops' /\ Opens'
<1> USE NoTask DEF Binds, Stopping, Down
<1>1. /\ UNCHANGED <<role, running, startPromise, awaits>> /\ TeardownEnd(c)
      /\ pc[c] = "teardown" /\ pc'[c] = "stopped" /\ startPromise = None /\ stopPromise' = None
      /\ \A d \in Tasks \ {c} : pc'[d] = pc[d]
  BY DEF StopCompletes, NodeInv, TypeOK, OneOrOther
<1>2. \A d \in Tasks : ~Binds(d)
  BY <1>1 DEF NodeInv, StartOwned
<1>3. Cleared' /\ alive = {} /\ ~running /\ readLoops' = {} /\ alive' = alive
  BY <1>1, Clears
<1>4. StartOwned' /\ StopOwned' /\ OneOrOther'
  BY <1>1, <1>2, <1>3 DEF StartOwned, StopOwned, OneOrOther
<1>5. StopsWait' /\ StartsWait'
  BY <1>1, <1>2, <1>3 DEF NodeInv, StopsWait, StartsWait
<1>6. Loops'
  BY <1>1, <1>3 DEF NodeInv, Loops, TeardownEnd, TypeOK
<1>7. Opens'
  BY <1>1, <1>2, <1>3 DEF NodeInv, Opens, Cleared
<1> QED
  BY <1>4, <1>5, <1>6, <1>7 DEF Turns

\* A read loop ends, or the Dealer is rebuilt under a running slave.
LEMMA SocketStep ==
    ASSUME NodeInv, (\E s \in Sockets : LoopEnds(s)) \/ RestartDealer
    PROVE  Turns' /\ Loops' /\ Opens'
<1> USE NoTask DEF Binds, Stopping, Down
<1>1. UNCHANGED <<role, running, startPromise, stopPromise, pc, awaits, awaited>>
  BY DEF LoopEnds, RestartDealer, promises
<1>2. Cleared => Cleared'
  BY DEF LoopEnds, RestartDealer, Cleared
<1>3. Turns'
  BY <1>1, <1>2 DEF NodeInv, Turns, StartOwned, StopOwned, OneOrOther, StopsWait, StartsWait
<1>4. CASE \E s \in Sockets : LoopEnds(s)
  BY <1>1, <1>2, <1>3, <1>4 DEF LoopEnds, NodeInv, Loops, Opens
<1>5. CASE RestartDealer
  <2>1. PICK s \in Sockets :
          /\ current' = s /\ open' = Closed \cup {s}
          /\ readLoops' = readLoops \cup {s} /\ alive' = alive \cup {s}
    BY <1>5 DEF RestartDealer, Free
  <2>2. running /\ role = "slave" /\ s # None
    BY <1>5, LifecycleAssumption DEF RestartDealer, LifecycleAssumption
  <2>3. open' = {s}
    BY <2>1 DEF Closed, NodeInv, Opens
  <2> QED
    BY <1>1, <1>3, <2>1, <2>2, <2>3 DEF NodeInv, Loops, Opens
<1> QED
  BY <1>4, <1>5

\* Every step keeps the invariant.
LEMMA NodeStep ==
    ASSUME Patient
    PROVE  NodeInv /\ [Next]_vars => NodeInv'
<1> SUFFICES ASSUME NodeInv, [Next]_vars PROVE NodeInv'
  OBVIOUS
<1>1. TypeOK' /\ Binding'
  BY ShapeStep DEF NodeInv
<1>2. ASSUME NEW c \in Tasks, StartStep(c) PROVE Turns' /\ Loops' /\ Opens'
  BY <1>2, AsideStep, WaitStep, BeginStep, SucceedStep, FailStep, RejectStep DEF StartStep
<1>3. ASSUME NEW c \in Tasks, StopStep(c) PROVE Turns' /\ Loops' /\ Opens'
  BY <1>3, AsideStep, WaitStep, StopsStep, CompleteStep DEF StopStep
<1>4. ASSUME (\E s \in Sockets : LoopEnds(s)) \/ RestartDealer PROVE Turns' /\ Loops' /\ Opens'
  BY <1>4, SocketStep
<1>5. ASSUME UNCHANGED vars PROVE Turns' /\ Loops' /\ Opens'
  BY <1>5
     DEF vars, NodeInv, Turns, StartOwned, StopOwned, OneOrOther, StopsWait, StartsWait, Loops,
              Opens, Binds, Stopping, Down, Cleared
<1> QED
  BY <1>1, <1>2, <1>3, <1>4, <1>5 DEF Next, Tasks, NodeInv, Turns

\* However starts, failed binds, rebuilds and stops overlap, no socket escapes, and when nothing
\* is under way the flag, the socket and its read loop agree: for any tasks and sockets, while
\* no two starts wait for one stop.
THEOREM NothingEscapes ==
    ASSUME Patient
    PROVE  Spec => []Consistent
<1>1. NodeInv => Consistent
  <2> SUFFICES ASSUME NodeInv, Quiet
               PROVE  (running <=> current # None) /\ (running => current \in open \cap alive)
    BY DEF NodeInv, Opens, Consistent
  <2>1. startPromise = None
    BY DEF Quiet, NodeInv, StartOwned, Binds, TypeOK
  <2>2. \A d \in Tasks : ~Down(d)
    BY DEF Quiet, Down
  <2> QED
    BY <2>1, <2>2 DEF NodeInv, Opens, Cleared
<1> QED
  BY <1>1, InitNode, NodeStep, PTL DEF Spec

(***************************************************************************)
(* The link to the master (SlaveLink), for every number of frames and      *)
(* faults, with or without encryption and with the timeouts free to fire   *)
(* at any moment: the heartbeat of a running slave never dies, no timer    *)
(* outlives stop(), and the events match the master's table.               *)
(***************************************************************************)

\* The part of the type invariant the timers need.
TimerTypes ==
    /\ slave \in {"down", "up", "leaving"}
    /\ waiting \in BOOLEAN /\ hbTimer \in BOOLEAN /\ ackTimer \in BOOLEAN

\* The three are inductive together: that the chain survives a frame of the master
\* needs the flag and the timer to agree, and that no frame revives a timer after
\* stop() needs the flag to be down.
TimerInv == TimerTypes /\ ChainAlive /\ WaitingIsTimed

\* A stopped slave has no timer.
LEMMA InitTimers == LinkInit => TimerInv
BY DEF LinkInit, TimerInv, TimerTypes, ChainAlive, WaitingIsTimed

\* Every step of the slave keeps its timers in order.
LEMMA TimerStep == TimerInv /\ [LinkNext]_linkVars => TimerInv'
<1> SUFFICES ASSUME TimerInv, [LinkNext]_linkVars PROVE TimerInv'
  OBVIOUS
<1> USE LinkAssumption
    DEF LinkAssumption, TimerInv, TimerTypes, ChainAlive, WaitingIsTimed
<1>1. CASE StartSlave
  BY <1>1 DEF StartSlave, NewDealer, FirstHeartbeat
<1>2. CASE SendHeartbeat
  BY <1>2 DEF SendHeartbeat
<1>3. CASE AckTimeout
  BY <1>3 DEF AckTimeout, NewDealer, FirstHeartbeat
<1>4. CASE SlaveReceives
  BY <1>4 DEF SlaveReceives, ConfirmMasterReachable, NextHeartbeat
<1>5. CASE StopSlave
  BY <1>5 DEF StopSlave
<1>6. CASE SlaveLeaves \/ CrashSlave
  BY <1>6 DEF SlaveLeaves, CrashSlave, SlaveGone
<1>7. CASE SlaveHandlerReturns \/ SlaveSends \/ Write
  BY <1>7 DEF SlaveHandlerReturns, SlaveSends, Write
<1>8. CASE StartMaster \/ CrashMaster \/ StopMaster \/ MasterReceives \/ MasterHandlerReturns
           \/ MasterSends \/ Evict \/ Connect \/ Disconnect
  BY <1>8 DEF StartMaster, CrashMaster, StopMaster, MasterGone, MasterReceives, MasterHandlerReturns,
              MasterSends, Evict, Connect, Disconnect, sVars
<1>9. CASE UNCHANGED linkVars
  BY <1>9 DEF linkVars, sVars
<1> QED
  BY <1>1, <1>2, <1>3, <1>4, <1>5, <1>6, <1>7, <1>8, <1>9 DEF LinkNext

\* The timers are in order throughout.
LEMMA TimersInOrder == LinkSpec => []TimerInv
BY InitTimers, TimerStep, PTL DEF LinkSpec

\* While a slave with a heartbeat runs, its next heartbeat is scheduled or one is
\* awaited under an armed timeout, and once stop() is called no frame revives a
\* timer, whatever the network and the master do.
THEOREM HeartbeatLivesWithSlave == LinkSpec => []ChainAlive
BY TimersInOrder, PTL DEF TimerInv

\* An awaited heartbeat has its timeout armed, and only a running slave awaits one.
THEOREM AwaitedIsTimed == LinkSpec => []WaitingIsTimed
BY TimersInOrder, PTL DEF TimerInv

\* The entry of the slave is there or not.
TableInv ==
    /\ registered \in BOOLEAN /\ cleared \in BOOLEAN
    /\ TableMatchesEvents

\* Each change of the table comes with its event, or is remembered as a silent one.
LEMMA TableStep == TableInv /\ [LinkNext]_linkVars => TableInv'
<1> SUFFICES ASSUME TableInv, [LinkNext]_linkVars PROVE TableInv'
  OBVIOUS
<1> USE DEF TableInv, TableMatchesEvents
<1>1. CASE CrashMaster \/ StopMaster
  <2>1. registered' = FALSE /\ secure' = secure
    BY <1>1 DEF CrashMaster, StopMaster, MasterGone, fixed
  <2>2. CASE CrashMaster
    BY <2>1, <2>2 DEF CrashMaster
  <2>3. CASE StopMaster
    BY <2>1, <2>3 DEF StopMaster, Hears
  <2> QED
    BY <1>1, <2>2, <2>3
<1>2. CASE MasterReceives
  <2> USE DEF Hears, history
  <2>1. ASSUME NEW f, Dispatch(f), secure' = secure PROVE TableInv'
    <3>1. CASE Register
      BY <2>1, <3>1 DEF Register, EnsureOnline, Overwrite
    <3>2. CASE EnsureOnline
      BY <2>1, <3>2 DEF EnsureOnline
    <3>3. CASE Removed
      BY <2>1, <3>3 DEF Removed
    <3> QED
      BY <2>1, <3>1, <3>2, <3>3 DEF Dispatch
  <2> QED
    BY <1>2, <2>1 DEF MasterReceives, fixed
<1>3. CASE Evict
  BY <1>3 DEF Evict, Removed, Hears, history, fixed
<1>4. CASE StartMaster \/ MasterHandlerReturns \/ MasterSends \/ Connect \/ Disconnect
  BY <1>4 DEF StartMaster, MasterHandlerReturns, MasterSends, Connect, Disconnect, mVars, history,
              fixed
<1>5. CASE StartSlave \/ SendHeartbeat \/ AckTimeout \/ SlaveReceives
           \/ SlaveHandlerReturns \/ SlaveSends \/ Write \/ StopSlave
           \/ SlaveLeaves \/ CrashSlave
  <2>1. UNCHANGED mVars /\ secure' = secure
    <3>1. CASE StartSlave \/ SendHeartbeat \/ AckTimeout
      BY <3>1 DEF StartSlave, SendHeartbeat, AckTimeout, mVars, fixed
    <3>2. CASE SlaveReceives \/ SlaveHandlerReturns \/ SlaveSends
      BY <3>2 DEF SlaveReceives, SlaveHandlerReturns, SlaveSends, mVars, fixed
    <3>3. CASE Write \/ StopSlave
      BY <3>3 DEF Write, StopSlave, mVars, fixed
    <3>4. CASE SlaveLeaves \/ CrashSlave
      BY <3>4 DEF SlaveLeaves, CrashSlave, mVars, fixed
    <3> QED
      BY <1>5, <3>1, <3>2, <3>3, <3>4
  <2> QED
    BY <2>1 DEF mVars, history
<1>6. CASE UNCHANGED linkVars
  BY <1>6 DEF linkVars, mVars, history, fixed
<1> QED
  BY <1>1, <1>2, <1>3, <1>4, <1>5, <1>6 DEF LinkNext

\* What the application hears tells it the table of the master, whatever frames arrive
\* in whatever order and whoever removes the entry: an entry is there exactly when the
\* last event is slave_connected and stop() has not emptied the table since, and an
\* encrypted master never repeats slave_connected.
THEOREM EventsTellTable == LinkSpec => []TableMatchesEvents
<1>1. LinkInit => TableInv
  BY DEF LinkInit, TableInv, TableMatchesEvents
<1>2. TableInv /\ [LinkNext]_linkVars => TableInv'
  BY TableStep
<1>3. TableInv => TableMatchesEvents
  BY DEF TableInv
<1> QED
  BY <1>1, <1>2, <1>3, PTL DEF LinkSpec

(***************************************************************************)
(* The shape of the state: every frame that is queued or on its way is one *)
(* the receiving side knows.                                               *)
(***************************************************************************)
\* A prefix, the first two, the rest and one more of a queue are queues of the same.
LEMMA Queues ==
    ASSUME NEW S, NEW q \in Seq(S)
    PROVE  /\ Prefixes(q) \subseteq Seq(S) /\ FirstTwo(q) \in Seq(S)
           /\ q # <<>> => Head(q) \in S /\ Tail(q) \in Seq(S)
           /\ \A f \in S : Append(q, f) \in Seq(S)
<1>1. Prefixes(q) \subseteq Seq(S)
  BY DEF Prefixes
<1>2. FirstTwo(q) \in Seq(S)
  <2>1. CASE Len(q) < 2
    BY <2>1 DEF FirstTwo
  <2>2. CASE ~(Len(q) < 2)
    <3>1. SubSeq(q, 1, 2) \in Seq(S)
      BY <2>2
    <3> QED
      BY <2>2, <3>1 DEF FirstTwo
  <2> QED
    BY <2>1, <2>2
<1> QED
  BY <1>1, <1>2

LinkFlags ==
    /\ secure \in Modes /\ timely \in Timings
    /\ slave \in {"down", "up", "leaving"} /\ master \in {"down", "up"}
    /\ online \in BOOLEAN /\ waiting \in BOOLEAN /\ hbTimer \in BOOLEAN
    /\ ackTimer \in BOOLEAN /\ conn \in BOOLEAN /\ slaveBusy \in BOOLEAN
    /\ registered \in BOOLEAN /\ masterBusy \in BOOLEAN
    /\ event \in {"none", "connected", "again", "disconnected"} /\ cleared \in BOOLEAN

FaultsCounted == faults \in 0..MaxFaults

LinkFrames ==
    /\ sendq \in Seq(SlaveFrames) /\ toMaster \in Seq(SlaveFrames)
    /\ toSlave \in Seq(MasterFrames)

\* LinkTypeOK, in the parts the steps are proved for.
LEMMA ShapeParts == LinkTypeOK <=> LinkFlags /\ FaultsCounted /\ LinkFrames
BY DEF LinkTypeOK, LinkFlags, FaultsCounted, LinkFrames

\* The first states are well-shaped.
LEMMA InitLink == LinkInit => LinkFlags /\ FaultsCounted /\ LinkFrames
<1> SUFFICES ASSUME LinkInit PROVE LinkFlags /\ FaultsCounted /\ LinkFrames
  OBVIOUS
<1>1. LinkFlags /\ FaultsCounted
  <2>1. LinkFlags
    BY DEF LinkInit, LinkFlags
  <2>2. FaultsCounted
    BY LinkAssumption DEF LinkInit, FaultsCounted, LinkAssumption
  <2> QED
    BY <2>1, <2>2
<1>2. LinkFrames
  BY DEF LinkInit, LinkFrames
<1> QED
  BY <1>1, <1>2

\* What a handled frame of the slave does to the master.
LEMMA DispatchShape ==
    ASSUME LinkFlags, LinkFrames, NEW f \in SlaveFrames, Dispatch(f)
    PROVE  /\ registered' \in BOOLEAN /\ masterBusy' \in BOOLEAN
           /\ event' \in {"none", "connected", "again", "disconnected"} /\ cleared' \in BOOLEAN
           /\ toSlave' \in Seq(MasterFrames)
<1>1. Append(toSlave, HeartbeatReply) \in Seq(MasterFrames)
  BY DEF LinkFrames, HeartbeatReply, MasterFrames
<1> USE DEF Hears, history
<1>2. CASE f = "register" /\ Register /\ UNCHANGED <<masterBusy, toSlave>>
  BY <1>2 DEF Register, Overwrite, EnsureOnline, LinkFlags, LinkFrames
<1>3. CASE EnsureOnline /\ ToSlave(HeartbeatReply) /\ UNCHANGED masterBusy
  <2>1. toSlave' \in Seq(MasterFrames)
    BY <1>1, <1>3 DEF ToSlave, LinkFrames
  <2> QED
    BY <1>3, <2>1 DEF EnsureOnline, LinkFlags
<1>4. CASE EnsureOnline /\ masterBusy' \in BOOLEAN /\ UNCHANGED toSlave
  BY <1>4 DEF EnsureOnline, LinkFlags, LinkFrames
<1>5. CASE Removed /\ UNCHANGED <<masterBusy, toSlave>>
  BY <1>5 DEF Removed, LinkFlags, LinkFrames
<1> QED
  BY <1>2, <1>3, <1>4, <1>5 DEF Dispatch

\* Every step keeps the flags.
LEMMA FlagsStep == LinkFlags /\ LinkFrames /\ [LinkNext]_linkVars => LinkFlags'
<1> SUFFICES ASSUME LinkFlags, LinkFrames, [LinkNext]_linkVars PROVE LinkFlags'
  OBVIOUS
<1> USE LinkAssumption DEF LinkAssumption, LinkFlags
<1>1. CASE StartSlave
  BY <1>1 DEF StartSlave, NewDealer, FirstHeartbeat, fixed, mVars, history
<1>2. CASE SendHeartbeat
  BY <1>2 DEF SendHeartbeat, fixed, mVars, history, nVars
<1>3. CASE AckTimeout
  BY <1>3 DEF AckTimeout, NewDealer, FirstHeartbeat, fixed, mVars, history
<1>4. CASE SlaveReceives
  BY <1>4 DEF SlaveReceives, ConfirmMasterReachable, NextHeartbeat, fixed, mVars, history
<1>5. CASE SlaveHandlerReturns \/ SlaveSends \/ Write
  <2>1. CASE SlaveHandlerReturns
    BY <2>1 DEF SlaveHandlerReturns, fixed, mVars, history, nVars
  <2>2. CASE SlaveSends
    BY <2>2 DEF SlaveSends, fixed, mVars, history, nVars
  <2>3. CASE Write
    BY <2>3 DEF Write, fixed, mVars, history
  <2> QED
    BY <1>5, <2>1, <2>2, <2>3
<1>6. CASE StopSlave
  BY <1>6 DEF StopSlave, fixed, mVars, history, nVars
<1>7. CASE SlaveLeaves
  BY <1>7 DEF SlaveLeaves, SlaveGone, fixed, mVars, history
<1>8. CASE CrashSlave
  BY <1>8 DEF CrashSlave, SlaveGone, fixed, mVars, history
<1>9. CASE StartMaster
  BY <1>9 DEF StartMaster, fixed, sVars, nVars, history
<1>10. CASE CrashMaster \/ StopMaster
  <2>1. event' \in {"none", "connected", "again", "disconnected"} /\ cleared' \in BOOLEAN
    BY <1>10 DEF CrashMaster, StopMaster, Hears
  <2> QED
    BY <1>10, <2>1 DEF CrashMaster, StopMaster, MasterGone, fixed, sVars
<1>11. CASE MasterReceives
  <2>1. /\ registered' \in BOOLEAN /\ masterBusy' \in BOOLEAN
        /\ event' \in {"none", "connected", "again", "disconnected"} /\ cleared' \in BOOLEAN
    BY <1>11, Queues, DispatchShape DEF MasterReceives, LinkFrames
  <2>2. UNCHANGED <<fixed, sVars, master, conn, faults>>
    BY <1>11 DEF MasterReceives
  <2> QED
    BY <2>1, <2>2 DEF fixed, sVars
<1>12. CASE MasterHandlerReturns \/ MasterSends
  <2>1. CASE MasterHandlerReturns
    BY <2>1 DEF MasterHandlerReturns, fixed, sVars, mVars, history
  <2>2. CASE MasterSends
    BY <2>2 DEF MasterSends, fixed, sVars, mVars, history
  <2> QED
    BY <1>12, <2>1, <2>2
<1>13. CASE Evict
  BY <1>13 DEF Evict, Removed, Hears, history, fixed, sVars, nVars
<1>14. CASE Connect \/ Disconnect
  <2>1. CASE Connect
    BY <2>1 DEF Connect, fixed, sVars, mVars, history
  <2>2. CASE Disconnect
    BY <2>2 DEF Disconnect, fixed, sVars, mVars, history
  <2> QED
    BY <1>14, <2>1, <2>2
<1>15. CASE UNCHANGED linkVars
  BY <1>15 DEF linkVars, fixed, sVars, mVars, history, nVars
<1> QED
  BY <1>1, <1>2, <1>3, <1>4, <1>5, <1>6, <1>7, <1>8, <1>9, <1>10, <1>11, <1>12, <1>13, <1>14,
     <1>15 DEF LinkNext

\* Every step keeps the count of the faults.
LEMMA FaultsStep == FaultsCounted /\ [LinkNext]_linkVars => FaultsCounted'
<1> SUFFICES ASSUME FaultsCounted, [LinkNext]_linkVars PROVE FaultsCounted'
  OBVIOUS
<1>1. faults' = faults \/ (faults < MaxFaults /\ faults' = faults + 1)
  BY DEF LinkNext, linkVars, StartSlave, SendHeartbeat, AckTimeout, SlaveReceives,
         SlaveHandlerReturns, SlaveSends, Write, StopSlave, SlaveLeaves, CrashSlave,
         StartMaster, CrashMaster, StopMaster, MasterGone, MasterReceives, MasterHandlerReturns, MasterSends, Evict,
         Connect, Disconnect
<1> QED
  BY <1>1, LinkAssumption DEF LinkAssumption, FaultsCounted

\* Every step keeps the queues.
LEMMA FramesStep == LinkFlags /\ LinkFrames /\ [LinkNext]_linkVars => LinkFrames'
<1> SUFFICES ASSUME LinkFlags, LinkFrames, [LinkNext]_linkVars PROVE LinkFrames'
  OBVIOUS
<1>1. /\ sendq \in Seq(SlaveFrames) /\ toMaster \in Seq(SlaveFrames)
      /\ toSlave \in Seq(MasterFrames)
  BY DEF LinkFrames
<1>2. /\ Prefixes(toMaster) \subseteq Seq(SlaveFrames)
      /\ Prefixes(toSlave) \subseteq Seq(MasterFrames)
      /\ Prefixes(FirstTwo(sendq)) \subseteq Seq(SlaveFrames)
  BY <1>1, Queues
<1>3. /\ <<"register">> \in Seq(SlaveFrames)
      /\ <<>> \in Seq(SlaveFrames) /\ <<>> \in Seq(MasterFrames)
      /\ \A f \in SlaveFrames : Append(sendq, f) \in Seq(SlaveFrames)
      /\ {"heartbeat", "business", "unregister"} \subseteq SlaveFrames
      /\ Append(toSlave, "frame") \in Seq(MasterFrames)
  BY <1>1 DEF SlaveFrames, MasterFrames
<1>4. /\ sendq # <<>> => /\ Tail(sendq) \in Seq(SlaveFrames)
                         /\ Append(toMaster, Head(sendq)) \in Seq(SlaveFrames)
      /\ toMaster # <<>> => Tail(toMaster) \in Seq(SlaveFrames)
      /\ toSlave # <<>> => Tail(toSlave) \in Seq(MasterFrames)
  BY <1>1, Queues
<1>5. CASE StartSlave
  BY <1>1, <1>3, <1>5 DEF StartSlave, NewDealer, LinkFrames
<1>6. CASE SendHeartbeat
  BY <1>1, <1>3, <1>6 DEF SendHeartbeat, nVars, LinkFrames
<1>7. CASE AckTimeout
  BY <1>1, <1>2, <1>3, <1>7 DEF AckTimeout, NewDealer, LinkFrames
<1>8. CASE SlaveReceives
  BY <1>1, <1>4, <1>8 DEF SlaveReceives, LinkFrames
<1>9. CASE SlaveHandlerReturns
  BY <1>1, <1>9 DEF SlaveHandlerReturns, nVars, LinkFrames
<1>10. CASE SlaveSends
  BY <1>1, <1>3, <1>10 DEF SlaveSends, nVars, LinkFrames
<1>11. CASE Write
  BY <1>1, <1>4, <1>11 DEF Write, LinkFrames
<1>12. CASE StopSlave
  BY <1>1, <1>3, <1>12 DEF StopSlave, nVars, LinkFrames
<1>13. CASE SlaveLeaves
  <2>1. PICK written \in Prefixes(FirstTwo(sendq)) : toMaster' = toMaster \o written
    BY <1>13 DEF SlaveLeaves
  <2>2. written \in Seq(SlaveFrames)
    BY <1>2, <2>1
  <2>3. toMaster' \in Seq(SlaveFrames)
    BY <1>1, <2>1, <2>2
  <2> QED
    BY <1>3, <1>13, <2>3 DEF SlaveLeaves, SlaveGone, LinkFrames
<1>14. CASE CrashSlave
  BY <1>2, <1>3, <1>14 DEF CrashSlave, SlaveGone, LinkFrames
<1>15. CASE StartMaster \/ Evict \/ Connect
  BY <1>1, <1>15 DEF StartMaster, Evict, Connect, sVars, nVars, LinkFrames
<1>16. CASE CrashMaster \/ StopMaster
  BY <1>1, <1>2, <1>3, <1>16 DEF CrashMaster, StopMaster, MasterGone, sVars, LinkFrames
<1>17. CASE MasterReceives
  <2>1. toSlave' \in Seq(MasterFrames)
    BY <1>1, <1>17, Queues, DispatchShape DEF MasterReceives
  <2> QED
    BY <1>1, <1>4, <1>17, <2>1 DEF MasterReceives, sVars, LinkFrames
<1>18. CASE MasterHandlerReturns \/ MasterSends
  <2>1. toSlave' \in Seq(MasterFrames)
    BY <1>1, <1>3, <1>18 DEF MasterHandlerReturns, MasterSends, ToSlave
  <2> QED
    BY <1>1, <1>18, <2>1 DEF MasterHandlerReturns, MasterSends, sVars, LinkFrames
<1>19. CASE Disconnect
  BY <1>1, <1>2, <1>19 DEF Disconnect, sVars, LinkFrames
<1>20. CASE UNCHANGED linkVars
  BY <1>1, <1>20 DEF linkVars, sVars, nVars, LinkFrames
<1> QED
  BY <1>5, <1>6, <1>7, <1>8, <1>9, <1>10, <1>11, <1>12, <1>13, <1>14, <1>15, <1>16, <1>17,
     <1>18, <1>19, <1>20 DEF LinkNext

\* The state keeps its shape, whatever the number of frames and faults: no side ever
\* holds a frame that the other has no branch for.
THEOREM LinkShape == LinkSpec => []LinkTypeOK
<1>1. LinkInit => LinkFlags /\ FaultsCounted /\ LinkFrames
  BY InitLink
<1>2. LinkFlags /\ FaultsCounted /\ LinkFrames /\ [LinkNext]_linkVars
        => (LinkFlags /\ FaultsCounted /\ LinkFrames)'
  BY FlagsStep, FaultsStep, FramesStep
<1> QED
  BY <1>1, <1>2, ShapeParts, PTL DEF LinkSpec

(***************************************************************************)
(* The replay guard (ReplayGuard), for every set of proofs, window, skew,  *)
(* lag and clock: at-most-once acceptance, no false alarm, and the bound   *)
(* on what the map keeps.                                                  *)
(***************************************************************************)

\* An accepted proof is still held by an entry that outlives its freshness, or it
\* is no longer fresh.  This is what makes AtMostOnce inductive.
StillGuarded ==
    \A p \in Proofs :
        times[p] >= 1 =>
            \/ p \in DOMAIN seen /\ seen[p] > stamp[p] + Skew + Lag
            \/ now > stamp[p] + Skew

\* The next sweep is due within one interval.
SweepDue == nextSweep <= now + SweepInterval

GuardInv == GuardTypeOK /\ AtMostOnce /\ StillGuarded /\ NoFalseAlarm /\ SweptInTime /\ SweepDue

\* The sweep interval is a positive number.
LEMMA IntervalType == SweepInterval \in Nat \ {0}
BY ReplayAssumption, SMT DEF ReplayAssumption, SweepInterval, Least, Greatest

\* Initially nothing is held and nothing was accepted.
LEMMA InitGuard == GuardInit => GuardInv
<1> SUFFICES ASSUME GuardInit PROVE GuardInv
  OBVIOUS
<1>1. GuardTypeOK
  BY IntervalType, ReplayAssumption DEF GuardInit, GuardTypeOK, NextSweep, ReplayAssumption
<1>2. AtMostOnce /\ StillGuarded /\ NoFalseAlarm /\ SweptInTime /\ SweepDue
  BY IntervalType
     DEF GuardInit, NextSweep, AtMostOnce, StillGuarded, NoFalseAlarm, SweptInTime, SweepDue
<1> QED
  BY <1>1, <1>2 DEF GuardInv

\* What a verification leaves of the map is part of it, and what it drops has expired.
LEMMA HeldFacts ==
    ASSUME GuardInv, NEW at \in Nat
    PROVE  /\ Held(at) \subseteq DOMAIN seen
           /\ Held(at) \subseteq Proofs
           /\ \A q \in DOMAIN seen \ Held(at) : seen[q] <= at
           /\ at >= nextSweep => \A q \in Held(at) : seen[q] > at
BY DEF GuardInv, GuardTypeOK, Held, Kept

\* The sweep, when it is due, leaves only entries that expire after the next one
\* is scheduled; when it is not, nothing changes.
LEMMA SweepStep ==
    ASSUME GuardInv, NEW at \in Nat, at >= now, Swept(at)
    PROVE  /\ nextSweep' \in Nat
           /\ \A q \in Held(at) : seen[q] + SweepInterval > nextSweep'
           /\ nextSweep' <= at + SweepInterval
<1> USE IntervalType, HeldFacts
<1>1. now \in Nat /\ nextSweep \in Nat /\ \A q \in DOMAIN seen : seen[q] \in Nat
  BY DEF GuardInv, GuardTypeOK
<1>2. CASE at >= nextSweep
  BY <1>1, <1>2 DEF Swept, NextSweep
<1>3. CASE at < nextSweep
  BY <1>1, <1>3 DEF Swept, GuardInv, SweptInTime, SweepDue
<1> QED
  BY <1>1, <1>2, <1>3

\* The clock moves to the time of the check: a proof that was guarded stays so.
LEMMA OthersGuarded ==
    ASSUME GuardInv, NEW at \in Nat, at >= now, now' = at, stamp' = stamp,
           NEW q \in Proofs, times[q] >= 1
    PROVE  \/ q \in Held(at) /\ seen[q] > stamp[q] + Skew + Lag
           \/ now' > stamp'[q] + Skew
<1>1. now \in Nat /\ stamp[q] \in Nat /\ \A r \in DOMAIN seen : seen[r] \in Nat
  BY DEF GuardInv, GuardTypeOK
<1>2. CASE now > stamp[q] + Skew
  BY <1>1, <1>2, ReplayAssumption DEF ReplayAssumption
<1>3. CASE q \in DOMAIN seen /\ seen[q] > stamp[q] + Skew + Lag
  <2>1. CASE q \in Held(at)
    BY <1>3, <2>1
  <2>2. CASE q \notin Held(at)
    BY <1>1, <1>3, <2>2, HeldFacts, ReplayAssumption DEF ReplayAssumption
  <2> QED
    BY <2>1, <2>2
<1> QED
  BY <1>2, <1>3 DEF GuardInv, StillGuarded

\* A proof that passes both checks was not accepted before: the entry of an
\* accepted one outlives its freshness by more than the lag.
LEMMA FirstTime ==
    ASSUME GuardInv, NEW p \in Proofs, NEW at \in now..(now + Lag), Accept(p, at)
    PROVE  times[p] = 0
<1> SUFFICES ASSUME times[p] # 0 PROVE FALSE
  OBVIOUS
<1>1. /\ now \in Nat /\ at \in Nat /\ at <= now + Lag /\ stamp[p] \in Nat
      /\ times[p] >= 1 /\ \A q \in DOMAIN seen : seen[q] \in Nat
  BY ReplayAssumption DEF GuardInv, GuardTypeOK, ReplayAssumption
<1>2. now <= stamp[p] + Skew
  BY <1>1, ReplayAssumption DEF Accept, Fresh, ReplayAssumption
<1>3. p \in DOMAIN seen /\ seen[p] > stamp[p] + Skew + Lag
  BY <1>1, <1>2, ReplayAssumption DEF GuardInv, StillGuarded, ReplayAssumption
<1>4. seen[p] > at
  BY <1>1, <1>2, <1>3, ReplayAssumption DEF ReplayAssumption
<1>5. p \in Held(at)
  BY <1>1, <1>3, <1>4, HeldFacts
<1> QED
  BY <1>1, <1>3, <1>4, <1>5 DEF Accept

\* Accepting a proof keeps the invariant.
LEMMA AcceptStep ==
    ASSUME GuardInv, NEW p \in Proofs, NEW at \in now..(now + Lag), Accept(p, at)
    PROVE  GuardInv'
<1>1. /\ now \in Nat /\ at \in Nat /\ at >= now /\ Lag \in Nat /\ Skew \in Nat
      /\ Window \in Nat /\ Window > 2 * Skew + Lag /\ stamp \in [Proofs -> Nat]
      /\ times \in [Proofs -> Nat] /\ \A q \in DOMAIN seen : seen[q] \in Nat
  BY ReplayAssumption DEF GuardInv, GuardTypeOK, ReplayAssumption
<1>2. /\ seen' = [q \in Held(at) \cup {p} |-> IF q = p THEN at + Window ELSE seen[q]]
      /\ times' = [times EXCEPT ![p] = @ + 1] /\ now' = at /\ stamp' = stamp
      /\ Swept(at)
  BY DEF Accept, Expiry
<1>3. times[p] = 0
  BY FirstTime
<1>4. /\ nextSweep' \in Nat /\ nextSweep' <= at + SweepInterval
      /\ \A q \in Held(at) : seen[q] + SweepInterval > nextSweep'
  BY <1>1, <1>2, SweepStep
<1>5. GuardTypeOK'
  BY <1>1, <1>2, <1>4, HeldFacts DEF GuardTypeOK
<1>6. AtMostOnce'
  BY <1>1, <1>2, <1>3 DEF GuardInv, AtMostOnce
<1>7. StillGuarded'
  <2> SUFFICES ASSUME NEW q \in Proofs, times'[q] >= 1
               PROVE  \/ q \in DOMAIN seen' /\ seen'[q] > stamp'[q] + Skew + Lag
                      \/ now' > stamp'[q] + Skew
    BY DEF StillGuarded
  <2>1. CASE q = p
    <3>1. stamp[p] - now <= Skew
      BY DEF Accept, Fresh
    <3>2. at + Window > stamp[p] + Skew + Lag
      BY <1>1, <3>1
    <3> QED
      BY <1>2, <2>1, <3>2
  <2>2. CASE q # p
    <3>1. times[q] >= 1
      BY <1>1, <1>2, <2>2
    <3> QED
      BY <1>1, <1>2, <2>2, <3>1, OthersGuarded
  <2> QED
    BY <2>1, <2>2
<1>8. NoFalseAlarm'
  BY <1>1, <1>2, <1>3, HeldFacts DEF GuardInv, NoFalseAlarm
<1>9. SweptInTime' /\ SweepDue'
  BY <1>1, <1>2, <1>4, IntervalType, HeldFacts DEF SweptInTime, SweepDue
<1> QED
  BY <1>5, <1>6, <1>7, <1>8, <1>9 DEF GuardInv

\* Rejecting a replay keeps the invariant.
LEMMA RefuseStep ==
    ASSUME GuardInv, NEW p \in Proofs, NEW at \in now..(now + Lag), RejectReplay(p, at)
    PROVE  GuardInv'
<1>1. /\ now \in Nat /\ at \in Nat /\ at >= now /\ stamp \in [Proofs -> Nat]
      /\ times \in [Proofs -> Nat] /\ \A q \in DOMAIN seen : seen[q] \in Nat
  BY ReplayAssumption DEF GuardInv, GuardTypeOK, ReplayAssumption
<1>2. /\ seen' = [q \in Held(at) |-> seen[q]] /\ times' = times
      /\ now' = at /\ stamp' = stamp /\ Swept(at)
  BY DEF RejectReplay
<1>3. /\ nextSweep' \in Nat /\ nextSweep' <= at + SweepInterval
      /\ \A q \in Held(at) : seen[q] + SweepInterval > nextSweep'
  BY <1>1, <1>2, SweepStep
<1>4. GuardTypeOK' /\ AtMostOnce' /\ NoFalseAlarm'
  BY <1>1, <1>2, <1>3, HeldFacts DEF GuardInv, GuardTypeOK, AtMostOnce, NoFalseAlarm
<1>5. StillGuarded'
  BY <1>1, <1>2, OthersGuarded DEF StillGuarded
<1>6. SweptInTime' /\ SweepDue'
  BY <1>1, <1>2, <1>3 DEF SweptInTime, SweepDue
<1> QED
  BY <1>4, <1>5, <1>6 DEF GuardInv

\* Every step keeps the invariant.
LEMMA GuardStep == GuardInv /\ [GuardNext]_guardVars => GuardInv'
<1> SUFFICES ASSUME GuardInv, [GuardNext]_guardVars PROVE GuardInv'
  OBVIOUS
<1>1. ASSUME NEW p \in Proofs, Verify(p) PROVE GuardInv'
  BY <1>1, AcceptStep, RefuseStep DEF Verify
<1>2. CASE Clear
  BY <1>2, IntervalType
     DEF Clear, Emptied, NextSweep, GuardInv, GuardTypeOK, AtMostOnce, StillGuarded,
         NoFalseAlarm, SweptInTime, SweepDue
<1>3. CASE Tick
  <2>1. now \in Nat /\ now' = now + 1 /\ stamp \in [Proofs -> Nat] /\ Skew \in Nat
    BY <1>3, ReplayAssumption DEF Tick, GuardInv, GuardTypeOK, ReplayAssumption
  <2> QED
    BY <1>3, <2>1, IntervalType
       DEF Tick, GuardInv, GuardTypeOK, AtMostOnce, StillGuarded, NoFalseAlarm, SweptInTime,
           SweepDue
<1>4. CASE UNCHANGED guardVars
  BY <1>4
     DEF guardVars, GuardInv, GuardTypeOK, AtMostOnce, StillGuarded, NoFalseAlarm, SweptInTime,
         SweepDue
<1> QED
  BY <1>1, <1>2, <1>3, <1>4 DEF GuardNext

\* The invariant holds throughout.
LEMMA GuardKept == GuardSpec => []GuardInv
BY InitGuard, GuardStep, PTL DEF GuardSpec

\* The state keeps its shape.
THEOREM GuardTyped == GuardSpec => []GuardTypeOK
BY GuardKept, PTL DEF GuardInv

\* #verifyIncomingProof accepts no proof twice between two calls of clear(), for
\* any traffic, if the window exceeds twice the skew plus the lag.
THEOREM AcceptedOnce == GuardSpec => []AtMostOnce
BY GuardKept, PTL DEF GuardInv

\* The guard never mistakes the first delivery of a proof for a replay.
THEOREM FirstDeliveryPasses == GuardSpec => []NoFalseAlarm
BY GuardKept, PTL DEF GuardInv

\* The map is swept in time: no entry outlives its expiry by a whole interval.
THEOREM MapSwept == GuardSpec => []SweptInTime
BY GuardKept, PTL DEF GuardInv
=============================================================================
