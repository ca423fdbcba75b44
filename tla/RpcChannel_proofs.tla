------------------------- MODULE RpcChannel_proofs --------------------------
(***************************************************************************)
(* Proofs about RpcChannel, for every set of calls, role and maxPending.   *)
(* First the queue and the bound on pending calls, then what becomes of a  *)
(* frame between the queue and the peer.  From it follow that the channel  *)
(* implements RpcPromise, that no cancelled call is written and that       *)
(* frames leave in order.                                                  *)
(***************************************************************************)
EXTENDS RpcChannel, FiniteSetTheorems, TLAPS

(***************************************************************************)
(* The elements of a sequence and their order, for queues that grow at the *)
(* end and are read from the front.                                        *)
(***************************************************************************)

\* Appending adds the new element, and only it.
LEMMA AppendElements ==
    ASSUME NEW S, NEW s \in Seq(S), NEW t \in S
    PROVE  Elements(Append(s, t)) = Elements(s) \cup {t}
<1>1. Append(s, t) \in Seq(S) /\ Len(Append(s, t)) = Len(s) + 1
  OBVIOUS
<1>2. \A i \in 1..Len(s) : Append(s, t)[i] = s[i]
  OBVIOUS
<1>3. Append(s, t)[Len(s) + 1] = t
  OBVIOUS
<1>4. 1..(Len(s) + 1) = (1..Len(s)) \cup {Len(s) + 1}
  OBVIOUS
<1> QED BY <1>1, <1>2, <1>3, <1>4 DEF Elements

\* Taking the head leaves the other elements in the tail.
LEMMA TailElements ==
    ASSUME NEW S, NEW s \in Seq(S), s # <<>>
    PROVE  /\ Head(s) \in S
           /\ Tail(s) \in Seq(S)
           /\ Elements(s) \subseteq {Head(s)} \cup Elements(Tail(s))
           /\ Elements(Tail(s)) \subseteq Elements(s)
<1>1. /\ Head(s) = s[1] /\ Head(s) \in S
      /\ Tail(s) \in Seq(S) /\ Len(s) \in Nat /\ Len(s) > 0
      /\ Len(Tail(s)) = Len(s) - 1
  OBVIOUS
<1>2. \A i \in 1..(Len(s) - 1) : Tail(s)[i] = s[i + 1]
  OBVIOUS
<1>3. ASSUME NEW i \in 1..Len(s), i # 1
      PROVE  i - 1 \in 1..Len(Tail(s)) /\ Tail(s)[i - 1] = s[i]
  <2>1. i - 1 \in 1..(Len(s) - 1) /\ (i - 1) + 1 = i
    BY <1>1, <1>3
  <2>2. Tail(s)[i - 1] = s[(i - 1) + 1]
    BY ONLY <1>2, <2>1
  <2> QED BY <1>1, <2>1, <2>2
<1>4. Elements(s) \subseteq {Head(s)} \cup Elements(Tail(s))
  BY <1>1, <1>3 DEF Elements
<1>5. ASSUME NEW i \in 1..Len(Tail(s))
      PROVE  i + 1 \in 1..Len(s) /\ Tail(s)[i] = s[i + 1]
  BY <1>1, <1>2
<1>6. Elements(Tail(s)) \subseteq Elements(s)
  BY <1>5 DEF Elements
<1> QED BY <1>1, <1>4, <1>6

\* Appending puts the new element behind all others, and changes nothing else.
LEMMA BeforeAppend ==
    ASSUME NEW S, NEW s \in Seq(S), NEW t \in S, NEW a, NEW b
    PROVE  Before(Append(s, t), a, b) <=> Before(s, a, b) \/ (a \in Elements(s) /\ b = t)
<1>1. /\ Len(s) \in Nat /\ Len(Append(s, t)) = Len(s) + 1
      /\ \A i \in 1..Len(s) : Append(s, t)[i] = s[i]
      /\ Append(s, t)[Len(s) + 1] = t
  OBVIOUS
<1>2. ASSUME Before(Append(s, t), a, b)
      PROVE  Before(s, a, b) \/ (a \in Elements(s) /\ b = t)
  <2>1. PICK i, j \in 1..(Len(s) + 1) : i < j /\ Append(s, t)[i] = a /\ Append(s, t)[j] = b
    BY <1>1, <1>2 DEF Before
  <2>2. i \in 1..Len(s) /\ s[i] = a
    BY <1>1, <2>1
  <2>3. CASE j = Len(s) + 1
    BY <1>1, <2>1, <2>2, <2>3 DEF Elements
  <2>4. CASE j \in 1..Len(s)
    <3>1. s[j] = b
      BY <1>1, <2>1, <2>4
    <3> QED BY <2>1, <2>2, <2>4, <3>1 DEF Before
  <2> QED BY <1>1, <2>1, <2>3, <2>4
<1>3. ASSUME Before(s, a, b) PROVE Before(Append(s, t), a, b)
  <2>1. PICK i, j \in 1..Len(s) : i < j /\ s[i] = a /\ s[j] = b
    BY <1>3 DEF Before
  <2>2. i \in 1..Len(Append(s, t)) /\ j \in 1..Len(Append(s, t))
    BY <1>1, <2>1
  <2> QED BY <1>1, <2>1, <2>2 DEF Before
<1>4. ASSUME a \in Elements(s), b = t PROVE Before(Append(s, t), a, b)
  <2>1. PICK i \in 1..Len(s) : s[i] = a
    BY <1>4 DEF Elements
  <2>2. /\ i \in 1..Len(Append(s, t)) /\ Len(s) + 1 \in 1..Len(Append(s, t))
        /\ i < Len(s) + 1
    BY <1>1, <2>1
  <2> QED BY <1>1, <1>4, <2>1, <2>2 DEF Before
<1> QED BY <1>2, <1>3, <1>4

\* The head is in front of all others, whose order the tail keeps.
LEMMA BeforeTail ==
    ASSUME NEW S, NEW s \in Seq(S), s # <<>>, NEW a, NEW b
    PROVE  /\ Before(Tail(s), a, b) => Before(s, a, b)
           /\ b \in Elements(Tail(s)) => Before(s, Head(s), b)
<1>1. /\ Len(s) \in Nat /\ Len(s) > 0 /\ Head(s) = s[1]
      /\ Len(Tail(s)) = Len(s) - 1
  OBVIOUS
<1>2. \A i \in 1..Len(Tail(s)) : i + 1 \in 1..Len(s) /\ Tail(s)[i] = s[i + 1]
  BY <1>1
<1>3. ASSUME Before(Tail(s), a, b) PROVE Before(s, a, b)
  <2>1. PICK i, j \in 1..Len(Tail(s)) : i < j /\ Tail(s)[i] = a /\ Tail(s)[j] = b
    BY <1>3 DEF Before
  <2>2. i + 1 < j + 1
    BY <1>1, <2>1
  <2> QED BY <1>2, <2>1, <2>2 DEF Before
<1>4. ASSUME b \in Elements(Tail(s)) PROVE Before(s, Head(s), b)
  <2>1. PICK j \in 1..Len(Tail(s)) : Tail(s)[j] = b
    BY <1>4 DEF Elements
  <2>2. 1 \in 1..Len(s) /\ 1 < j + 1
    BY <1>1, <2>1
  <2> QED BY <1>1, <1>2, <2>1, <2>2 DEF Before
<1> QED BY <1>3, <1>4

\* What is in front of something is an element, and so is what is behind it.
LEMMA BeforeElements ==
    ASSUME NEW s, NEW a, NEW b, Before(s, a, b)
    PROVE  a \in Elements(s) /\ b \in Elements(s)
BY DEF Before, Elements

\* Nothing is in front of anything in an empty sequence.
LEMMA EmptyOrder == Elements(<<>>) = {} /\ \A a, b : ~Before(<<>>, a, b)
BY DEF Elements, Before

\* A prefix has only elements of the sequence, in their order.
LEMMA PrefixOrder ==
    ASSUME NEW S, NEW s \in Seq(S), NEW k \in 0..Len(s)
    PROVE  /\ SubSeq(s, 1, k) \in Seq(S)
           /\ Elements(SubSeq(s, 1, k)) \subseteq Elements(s)
           /\ \A a, b : Before(SubSeq(s, 1, k), a, b) => Before(s, a, b)
<1>1. /\ SubSeq(s, 1, k) \in Seq(S) /\ Len(SubSeq(s, 1, k)) = k
      /\ \A i \in 1..k : SubSeq(s, 1, k)[i] = s[i]
      /\ \A i \in 1..k : i \in 1..Len(s)
  OBVIOUS
<1>2. Elements(SubSeq(s, 1, k)) \subseteq Elements(s)
  BY <1>1 DEF Elements
<1>3. ASSUME NEW a, NEW b, Before(SubSeq(s, 1, k), a, b) PROVE Before(s, a, b)
  BY <1>1, <1>3 DEF Before
<1> QED BY <1>1, <1>2, <1>3

(***************************************************************************)
(* The queue and the running task.                                         *)
(***************************************************************************)

\* #drain: what follows the running task.
LEMMA DrainTakes ==
    ASSUME queue \in Seq(Task)
    PROVE  /\ NextTask \in Task \cup {Idle}
           /\ RestOfQueue \in Seq(Task)
           /\ Elements(queue) \subseteq {NextTask} \cup Elements(RestOfQueue)
           /\ ArmedBy(NextTask) \subseteq Calls
<1>1. CASE queue = <<>>
  <2>1. Elements(queue) = {}
    BY <1>1 DEF Elements
  <2> QED BY <1>1, <2>1 DEF NextTask, RestOfQueue, ArmedBy
<1>2. CASE queue # <<>>
  <2>1. NextTask = Head(queue) /\ RestOfQueue = Tail(queue)
    BY <1>2 DEF NextTask, RestOfQueue
  <2> QED BY <1>2, <2>1, TailElements DEF ArmedBy
<1> QED BY <1>1, <1>2

\* enqueue: the task is started or queued, and nothing is lost.
LEMMA EnqueueKeeps ==
    ASSUME queue \in Seq(Task), sending \in Task \cup {Idle},
           NEW t \in Task, Enqueue(t)
    PROVE  /\ queue' \in Seq(Task)
           /\ sending' \in Task \cup {Idle}
           /\ Elements(queue) \subseteq Elements(queue')
           /\ sending = Idle /\ t \in Calls => t \in StartedBy(t)
           /\ sending # Idle => t \in Elements(queue')
<1>1. CASE sending = Idle
  BY <1>1 DEF Enqueue, StartedBy, ArmedBy
<1>2. CASE sending # Idle
  <2>1. queue' = Append(queue, t) /\ sending' = sending
    BY <1>2 DEF Enqueue, Appended
  <2>2. Elements(Append(queue, t)) = Elements(queue) \cup {t}
    BY AppendElements
  <2> QED BY <1>2, <2>1, <2>2 DEF Elements
<1> QED BY <1>1, <1>2

(***************************************************************************)
(* Type correctness.                                                       *)
(***************************************************************************)

\* Settling promises keeps their type.
LEMMA SettledType ==
    ASSUME TypeOK, NEW S, NEW how \in {"ok", "failed"}
    PROVE  Settled(S, how) \in [Calls -> {"idle", "waiting", "ok", "failed"}]
BY DEF Settled, TypeOK

\* What a frame that leaves the node, or does not, does to the wire.
LEMMA TransmitType ==
    ASSUME TypeOK, NEW t, Transmit(t) \/ Unsent
    PROVE  sent' \in Seq(Calls) /\ inbox' \subseteq Calls
<1>1. CASE Unsent
  BY <1>1 DEF TypeOK, Unsent
<1>2. CASE Transmit(t) /\ t \in Calls
  <2>1. sent \in Seq(Calls) /\ inbox \subseteq Calls
    BY DEF TypeOK
  <2>2. Append(sent, t) \in Seq(Calls)
    BY <1>2, <2>1
  <2> QED BY <1>2, <2>1, <2>2 DEF Transmit
<1>3. CASE Transmit(t) /\ t \notin Calls
  BY <1>3 DEF TypeOK, Transmit
<1> QED BY <1>1, <1>2, <1>3

\* A step of the program or the environment keeps the shape of the state.
LEMMA TypeStep == TypeOK /\ [Next]_vars => TypeOK'
<1> SUFFICES ASSUME TypeOK, [Next]_vars PROVE TypeOK'
  OBVIOUS
<1> USE RpcAssumption
<1>1. ASSUME NEW r \in Calls, CallRefused(r) PROVE TypeOK'
  BY <1>1 DEF CallRefused, TypeOK, chan, net
<1>2. ASSUME NEW r \in Calls, Call(r) PROVE TypeOK'
  <2>1. queue' \in Seq(Task) /\ sending' \in Task \cup {Idle}
    BY <1>2, EnqueueKeeps DEF Call, TypeOK, Task
  <2>2. timer' \subseteq Calls
    BY <1>2 DEF Call, TypeOK, StartedBy, ArmedBy
  <2> QED BY <1>2, <2>1, <2>2 DEF Call, TypeOK, net
<1>3. ASSUME NEW r \in Calls, CallUnsealed(r) PROVE TypeOK'
  BY <1>3 DEF CallUnsealed, TypeOK, chan, net
<1>4. ASSUME NEW r \in Calls, Timeout(r) PROVE TypeOK'
  BY <1>4, SettledType DEF Timeout, TypeOK, chan, net, Unmapped
<1>5. ASSUME NEW r \in Calls, Receive(r) PROVE TypeOK'
  BY <1>5, SettledType DEF Receive, TypeOK, chan, Unmapped
<1>6. ASSUME NEW r \in Calls, Serve(r) PROVE TypeOK'
  BY <1>6 DEF Serve, TypeOK, chan, book
<1>7. ASSUME NEW r \in Calls, LoseReply(r) PROVE TypeOK'
  BY <1>7 DEF LoseReply, TypeOK, chan, book
<1>8. CASE SendOther
  <2>1. queue' \in Seq(Task) /\ sending' \in Task \cup {Idle}
    BY <1>8, EnqueueKeeps DEF SendOther, TypeOK, Task
  <2> QED BY <1>8, <2>1 DEF SendOther, TypeOK, book, net
<1>9. CASE SendOk
  <2>1. sent' \in Seq(Calls) /\ inbox' \subseteq Calls
    BY <1>9, TransmitType DEF SendOk
  <2>2. /\ queue' \in Seq(Task) /\ sending' \in Task \cup {Idle}
        /\ timer' \subseteq Calls
    BY <1>9, DrainTakes DEF SendOk, TypeOK
  <2> QED BY <1>9, <2>1, <2>2 DEF SendOk, TypeOK
<1>10. CASE SendFail
  <2>1. /\ queue' \in Seq(Task) /\ sending' \in Task \cup {Idle}
        /\ timer' \subseteq Calls
    BY <1>10, DrainTakes DEF SendFail, TypeOK
  <2> QED BY <1>10, <2>1, SettledType DEF SendFail, TypeOK, net, Unmapped
<1>11. CASE RestartDealer
  <2>1. sent' \in Seq(Calls) /\ inbox' \subseteq Calls
    BY <1>11, TransmitType DEF RestartDealer
  <2>2. queue' \in Seq(Task) /\ sending' \in Task \cup {Idle}
    BY <1>11 DEF RestartDealer, Cleared, Task
  <2> QED BY <1>11, <2>1, <2>2, SettledType DEF RestartDealer, TypeOK, Unmapped
<1>12. CASE StopBegin
  <2>1. queue' \in Seq(Task) /\ sending' \in Task \cup {Idle}
    BY <1>12, EnqueueKeeps DEF StopBegin, TypeOK, Task
  <2> QED BY <1>12, <2>1 DEF StopBegin, TypeOK, book, net
<1>13. ASSUME NEW t, CancelAll(t), queue' \in Seq(Task), sending' \in Task \cup {Idle}
       PROVE TypeOK'
  <2>1. sent' \in Seq(Calls) /\ inbox' \subseteq Calls
    BY <1>13, TransmitType DEF CancelAll
  <2> QED BY <1>13, <2>1, SettledType DEF CancelAll, TypeOK, Unmapped
<1>14. CASE StopClose
  BY <1>13, <1>14, DrainTakes DEF StopClose, TypeOK
<1>15. CASE StopMaster
  BY <1>13, <1>15 DEF StopMaster, TypeOK
<1>16. CASE TeardownEnd
  <2>1. queue' \in Seq(Task)
    BY <1>16 DEF TeardownEnd, Cleared
  <2> QED BY <1>16, <2>1, SettledType DEF TeardownEnd, TypeOK, net, Unmapped
<1>17. CASE Start
  BY <1>17 DEF Start, TypeOK, book, net, Task
<1>18. CASE PeerUp
  BY <1>18 DEF PeerUp, TypeOK, chan, book
<1>19. CASE PeerDown
  BY <1>19 DEF PeerDown, TypeOK, chan, book
<1>20. CASE UNCHANGED vars
  BY <1>20 DEF vars, chan, book, net, TypeOK
<1> QED
  BY <1>1, <1>2, <1>3, <1>4, <1>5, <1>6, <1>7, <1>8, <1>9, <1>10, <1>11, <1>12,
     <1>14, <1>15, <1>16, <1>17, <1>18, <1>19, <1>20 DEF Next

\* The state keeps its shape in every reachable state.
THEOREM TypeCorrect == Spec => []TypeOK
<1>1. Init => TypeOK
  BY RpcAssumption DEF Init, TypeOK
<1> QED BY <1>1, TypeStep, PTL DEF Spec
(***************************************************************************)
(* No call is forgotten.                                                   *)
(***************************************************************************)

\* What still waits after some entries have settled.
LEMMA StillWaiting ==
    ASSUME TypeOK, NEW S, NEW how \in {"ok", "failed"},
           call' = Settled(S, how)
    PROVE  Waiting' = Waiting \ (S \cap pend)
BY DEF Settled, TypeOK, Waiting

\* A step that settles entries and removes them from the map, and touches no
\* queued task or armed timer of another call, forgets nobody.
LEMMA SettleTracked ==
    ASSUME TypeOK, Tracked, NEW S, NEW how \in {"ok", "failed"},
           call' = Settled(S, how),
           pend \ S \subseteq pend',
           \A r \in Calls \ (S \cap pend) :
              r \in Elements(queue) \/ r \in timer
                 => r \in Elements(queue)' \/ r \in timer'
    PROVE  Tracked'
<1>1. Waiting' = Waiting \ (S \cap pend)
  BY StillWaiting
<1>2. Waiting \subseteq Calls
  BY DEF Waiting
<1> QED BY <1>1, <1>2 DEF Tracked

\* #drain moves the head of the queue to the socket and arms its timer.
LEMMA DrainTracked ==
    ASSUME TypeOK, queue' = RestOfQueue, NEW r \in Calls, r \in Elements(queue)
    PROVE  r \in Elements(queue)' \/ r \in ArmedBy(NextTask)
<1>1. Elements(queue) \subseteq {NextTask} \cup Elements(RestOfQueue)
  BY DrainTakes DEF TypeOK
<1>2. Elements(queue)' = Elements(RestOfQueue)
  BY DEF Elements
<1> QED BY <1>1, <1>2 DEF ArmedBy

\* No step forgets a call that waits: it stays in the map, queued or timed.
LEMMA TrackedStep == TypeOK /\ Tracked /\ [Next]_vars => Tracked'
<1> SUFFICES ASSUME TypeOK, Tracked, [Next]_vars PROVE Tracked'
  OBVIOUS
<1> USE RpcAssumption
<1>1. ASSUME NEW r \in Calls, CallRefused(r) PROVE Tracked'
  <2>1. Waiting' \subseteq Waiting
    BY <1>1 DEF CallRefused, Waiting, TypeOK
  <2>2. Elements(queue)' = Elements(queue)
    BY <1>1 DEF CallRefused, chan, Elements
  <2> QED BY <1>1, <2>1, <2>2 DEF CallRefused, Tracked
<1>2. ASSUME NEW r \in Calls, Call(r) PROVE Tracked'
  <2>1. Waiting' = Waiting \cup {r}
    BY <1>2 DEF Call, Waiting, TypeOK
  <2>2. /\ Elements(queue) \subseteq Elements(queue')
        /\ r \in Elements(queue') \/ r \in StartedBy(r)
    BY <1>2, EnqueueKeeps DEF Call, TypeOK, Task, StartedBy
  <2>3. Elements(queue)' = Elements(queue')
    BY DEF Elements
  <2> QED BY <1>2, <2>1, <2>2, <2>3 DEF Call, Tracked
<1>3. ASSUME NEW r \in Calls, CallUnsealed(r) PROVE Tracked'
  <2>1. Waiting' \subseteq Waiting
    BY <1>3 DEF CallUnsealed, Waiting, TypeOK
  <2>2. Elements(queue)' = Elements(queue)
    BY <1>3 DEF CallUnsealed, chan, Elements
  <2> QED BY <1>3, <2>1, <2>2 DEF CallUnsealed, Tracked
<1>4. ASSUME NEW r \in Calls, Timeout(r) PROVE Tracked'
  <2>1. r \in Waiting => r \in pend
    BY DEF Tracked
  <2>2. Elements(queue)' = Elements(queue)
    BY <1>4 DEF Timeout, chan, Elements
  <2>3. Waiting' = Waiting \ ({r} \cap pend)
    BY <1>4, StillWaiting DEF Timeout
  <2> QED BY <1>4, <2>1, <2>2, <2>3 DEF Timeout, Tracked, Unmapped
<1>5. ASSUME NEW r \in Calls, Receive(r) PROVE Tracked'
  <2>1. Elements(queue)' = Elements(queue)
    BY <1>5 DEF Receive, chan, Elements
  <2> QED BY <1>5, <2>1, SettleTracked DEF Receive, Unmapped
<1>6. ASSUME NEW r \in Calls, Serve(r) \/ LoseReply(r) PROVE Tracked'
  BY <1>6 DEF Serve, LoseReply, chan, book, Tracked, Waiting, Elements
<1>7. ASSUME NEW t \in {Other, Unregister}, Enqueue(t), UNCHANGED book PROVE Tracked'
  <2>1. Elements(queue) \subseteq Elements(queue')
    BY <1>7, EnqueueKeeps DEF TypeOK, Task
  <2>2. Elements(queue)' = Elements(queue')
    BY DEF Elements
  <2> QED BY <1>7, <2>1, <2>2 DEF Tracked, book, Waiting
<1>8. CASE SendOther
  BY <1>7, <1>8 DEF SendOther
<1>9. CASE SendOk
  <2>1. \A r \in Calls : r \in Elements(queue) => r \in Elements(queue)' \/ r \in timer'
    BY <1>9, DrainTracked DEF SendOk
  <2> QED BY <1>9, <2>1 DEF SendOk, Tracked, Waiting
<1>10. CASE SendFail
  <2>1. \A r \in Calls : r \in Elements(queue) => r \in Elements(queue)' \/ r \in timer'
    BY <1>10, DrainTracked DEF SendFail
  <2> QED BY <1>10, <2>1, SettleTracked DEF SendFail, Unmapped
<1>11. ASSUME call' = Settled(pend, "failed") PROVE Tracked'
  <2>1. Waiting' = Waiting \ pend
    BY <1>11, StillWaiting
  <2> QED BY <2>1 DEF Tracked
<1>12. CASE RestartDealer
  BY <1>11, <1>12 DEF RestartDealer
<1>13. CASE StopBegin
  BY <1>7, <1>13 DEF StopBegin
<1>14. CASE StopClose \/ StopMaster
  BY <1>11, <1>14 DEF StopClose, StopMaster, CancelAll
<1>15. CASE TeardownEnd
  <2>1. \A r \in Waiting : r \in pend
    BY DEF Tracked
  <2>2. Waiting' = Waiting \ (Elements(queue) \cap pend)
    BY <1>15, StillWaiting DEF TeardownEnd
  <2> QED BY <1>15, <2>1, <2>2 DEF TeardownEnd, Tracked, Unmapped
<1>16. CASE Start \/ PeerUp \/ PeerDown
  BY <1>16 DEF Start, PeerUp, PeerDown, chan, book, Tracked, Waiting, Elements
<1>17. CASE UNCHANGED vars
  BY <1>17 DEF vars, chan, book, Tracked, Waiting, Elements
<1> QED
  BY <1>1, <1>2, <1>3, <1>4, <1>5, <1>6, <1>8, <1>9, <1>10, <1>12, <1>13,
     <1>14, <1>15, <1>16, <1>17 DEF Next

\* Every call that waits has its entry in the map, and a task that has not
\* started or an armed timeout.
THEOREM NobodyForgotten == Spec => []Tracked
<1>1. Init => Tracked
  BY DEF Init, Tracked, Waiting
<1> QED BY <1>1, TypeCorrect, TrackedStep, PTL DEF Spec

(***************************************************************************)
(* The slots of maxPending.                                                *)
(***************************************************************************)

\* A step adds at most one entry, and only when there is capacity.
LEMMA MapSteps ==
    ASSUME TypeOK, [Next]_vars
    PROVE  \/ pend' \subseteq pend
           \/ HasCapacity /\ \E r \in Calls : pend' = pend \cup {r}
<1>1. ASSUME NEW r \in Calls, Call(r) \/ CallUnsealed(r)
      PROVE  HasCapacity /\ pend' = pend \cup {r}
  BY <1>1 DEF Call, CallUnsealed
<1>2. ASSUME NEW r \in Calls,
             CallRefused(r) \/ Timeout(r) \/ Receive(r) \/ Serve(r) \/ LoseReply(r)
      PROVE  pend' \subseteq pend
  BY <1>2 DEF CallRefused, Timeout, Receive, Serve, LoseReply, book, Unmapped
<1>3. CASE SendOther \/ SendOk \/ SendFail \/ RestartDealer
  BY <1>3 DEF SendOther, SendOk, SendFail, RestartDealer, book, Unmapped
<1>4. CASE StopBegin \/ StopClose \/ StopMaster \/ TeardownEnd \/ Start
  BY <1>4 DEF StopBegin, StopClose, StopMaster, CancelAll, TeardownEnd, Start, book, Unmapped
<1>5. CASE PeerUp \/ PeerDown \/ UNCHANGED vars
  BY <1>5 DEF PeerUp, PeerDown, vars, book
<1> QED BY <1>1, <1>2, <1>3, <1>4, <1>5 DEF Next

\* No step takes the map past maxPending.
LEMMA CapacityStep == TypeOK /\ CapacityBound /\ [Next]_vars => CapacityBound'
<1> SUFFICES ASSUME TypeOK, CapacityBound, [Next]_vars, MaxPending # 0
             PROVE  Cardinality(pend') <= MaxPending
  BY DEF CapacityBound
<1>1. IsFiniteSet(pend) /\ Cardinality(pend) \in Nat
  BY RpcAssumption, FS_Subset, FS_CardinalityType DEF TypeOK
<1>2. CASE pend' \subseteq pend
  <2>1. Cardinality(pend') <= Cardinality(pend) /\ Cardinality(pend') \in Nat
    BY <1>1, <1>2, FS_Subset, FS_CardinalityType
  <2> QED BY <1>1, <2>1, RpcAssumption DEF CapacityBound
<1>3. ASSUME HasCapacity, NEW r \in Calls, pend' = pend \cup {r}
      PROVE  Cardinality(pend') <= MaxPending
  <2>1. Cardinality(pend') <= Cardinality(pend) + 1
    BY <1>1, <1>3, FS_AddElement
  <2>2. Cardinality(pend) < MaxPending
    BY <1>3 DEF HasCapacity
  <2>3. Cardinality(pend') \in Nat
    BY <1>1, <1>3, FS_AddElement, FS_CardinalityType
  <2> QED BY <1>1, <2>1, <2>2, <2>3, RpcAssumption
<1> QED BY <1>2, <1>3, MapSteps

\* The map never holds more than maxPending entries.
THEOREM CapacityKept == Spec => []CapacityBound
<1>1. Init => CapacityBound
  BY RpcAssumption, FS_EmptySet DEF Init, CapacityBound
<1> QED BY <1>1, TypeCorrect, CapacityStep, PTL DEF Spec

\* No step settles a promise and keeps its entry, except the sealing that throws.
LEMMA LeakStep == TypeOK /\ OnlySealLeaks /\ [Next]_vars => OnlySealLeaks'
<1> SUFFICES ASSUME TypeOK, OnlySealLeaks, [Next]_vars PROVE OnlySealLeaks'
  OBVIOUS
<1>1. ASSUME NEW S, NEW how \in {"ok", "failed"}, call' = Settled(S, how),
             pend' = Unmapped(S), leaked' = leaked
      PROVE  OnlySealLeaks'
  <2>1. Waiting' = Waiting \ (S \cap pend)
    BY <1>1, StillWaiting
  <2> QED BY <1>1, <2>1 DEF OnlySealLeaks, Unmapped
<1>2. ASSUME UNCHANGED <<pend, call, leaked>> PROVE OnlySealLeaks'
  BY <1>2 DEF OnlySealLeaks, Waiting
<1>3. ASSUME NEW r \in Calls, CallRefused(r) PROVE OnlySealLeaks'
  <2>1. Waiting' = Waiting
    BY <1>3 DEF CallRefused, Waiting, TypeOK
  <2> QED BY <1>3, <2>1 DEF CallRefused, OnlySealLeaks
<1>4. ASSUME NEW r \in Calls, Call(r) PROVE OnlySealLeaks'
  <2>1. Waiting' = Waiting \cup {r}
    BY <1>4 DEF Call, Waiting, TypeOK
  <2> QED BY <1>4, <2>1 DEF Call, OnlySealLeaks
<1>5. ASSUME NEW r \in Calls, CallUnsealed(r) PROVE OnlySealLeaks'
  <2>1. Waiting' = Waiting
    BY <1>5 DEF CallUnsealed, Waiting, TypeOK
  <2> QED BY <1>5, <2>1 DEF CallUnsealed, OnlySealLeaks
<1>6. ASSUME NEW r \in Calls, Timeout(r) PROVE OnlySealLeaks'
  BY <1>1, <1>6 DEF Timeout
<1>7. ASSUME NEW r \in Calls, Receive(r) PROVE OnlySealLeaks'
  BY <1>1, <1>7 DEF Receive
<1>8. CASE SendFail
  BY <1>1, <1>8 DEF SendFail
<1>9. CASE RestartDealer
  BY <1>1, <1>9 DEF RestartDealer
<1>10. CASE StopClose \/ StopMaster
  BY <1>1, <1>10 DEF StopClose, StopMaster, CancelAll
<1>11. CASE TeardownEnd
  BY <1>1, <1>11 DEF TeardownEnd
<1>12. ASSUME NEW r \in Calls, Serve(r) \/ LoseReply(r) PROVE OnlySealLeaks'
  BY <1>2, <1>12 DEF Serve, LoseReply, book
<1>13. CASE SendOther \/ SendOk \/ StopBegin \/ Start \/ PeerUp \/ PeerDown
  BY <1>2, <1>13 DEF SendOther, SendOk, StopBegin, Start, PeerUp, PeerDown, book
<1>14. CASE UNCHANGED vars
  BY <1>2, <1>14 DEF vars, book
<1> QED
  BY <1>3, <1>4, <1>5, <1>6, <1>7, <1>8, <1>9, <1>10, <1>11, <1>12, <1>13,
     <1>14 DEF Next

\* Apart from entries whose sealing threw, the map holds only calls that wait.
THEOREM SlotsReturned == Spec => []OnlySealLeaks
<1>1. Init => OnlySealLeaks
  BY DEF Init, OnlySealLeaks
<1> QED BY <1>1, TypeCorrect, LeakStep, PTL DEF Spec

\* A call is queued once: the task that #drain takes is not in the rest.
LEMMA RestFacts ==
    ASSUME queue \in Seq(Task), \A a \in Calls : ~Before(queue, a, a), NEW a, NEW b
    PROVE  /\ Elements(RestOfQueue) \subseteq Elements(queue)
           /\ Before(RestOfQueue, a, b) => Before(queue, a, b)
           /\ NextTask \in Calls =>
                /\ NextTask \in Elements(queue) \ Elements(RestOfQueue)
                /\ b \in Elements(RestOfQueue) => Before(queue, NextTask, b)
<1>1. CASE queue = <<>>
  <2>1. NextTask \notin Calls
    BY <1>1, RpcAssumption DEF NextTask, RpcAssumption
  <2> QED BY <1>1, <2>1 DEF RestOfQueue
<1>2. CASE queue # <<>>
  <2>1. NextTask = Head(queue) /\ RestOfQueue = Tail(queue)
    BY <1>2 DEF NextTask, RestOfQueue
  <2>2. Elements(Tail(queue)) \subseteq Elements(queue)
    BY <1>2, TailElements
  <2>3. Head(queue) \in Elements(queue)
    <3>1. 1 \in 1..Len(queue) /\ Head(queue) = queue[1]
      BY <1>2
    <3> QED BY <3>1 DEF Elements
  <2>4. Before(Tail(queue), a, b) => Before(queue, a, b)
    BY <1>2, BeforeTail
  <2>5. \A x : x \in Elements(Tail(queue)) => Before(queue, Head(queue), x)
    BY <1>2, BeforeTail
  <2> QED BY <2>1, <2>2, <2>3, <2>4, <2>5
<1> QED BY <1>1, <1>2

(***************************************************************************)
(* From the queue to the peer.                                             *)
(***************************************************************************)

Open == node \in {"up", "stopping"}

\* A call is queued, being sent, at the peer or served only after it was made, and
\* queued at most once.
InOnePlace ==
    /\ \A r \in Calls :
         r \in Elements(queue) \/ r = sending \/ r \in inbox \cup served \cup timer
            => call[r] # "idle"
    /\ \A r \in Calls : ~Before(queue, r, r)
    /\ sending \in Calls => sending \notin Elements(queue)
    /\ Elements(queue) \cap (inbox \cup served \cup timer) = {}

\* A frame that may still be written has not been written: only a socket that is
\* closed may have taken the frame of a send it then fails.
NotYetThere ==
    /\ Open /\ sending \in Calls => sending \notin inbox \cup served
    /\ inbox \cap served = {}
    /\ replies \subseteq served

\* The queue of an open channel holds calls that wait, that of a stopped node
\* nothing.
QueueWaits ==
    /\ Open => \A r \in Calls \cap Elements(queue) : call[r] = "waiting"
    /\ node = "down" => queue = <<>>

FrameInv == InOnePlace /\ NotYetThere /\ QueueWaits

\* Settling makes no call idle, and leaves alone those it does not reach.
LEMMA SettledFacts ==
    ASSUME TypeOK, NEW S, NEW how \in {"ok", "failed"}, call' = Settled(S, how), NEW r \in Calls
    PROVE  /\ call[r] # "idle" => call'[r] # "idle"
           /\ r \notin S => call'[r] = call[r]
BY DEF Settled, TypeOK

\* A frame that leaves the node is the frame of t, and goes to the peer or nowhere.
LEMMA TransmitInbox ==
    ASSUME NEW t, Transmit(t) \/ Unsent
    PROVE  inbox' = inbox \/ (t \in Calls /\ inbox' = inbox \cup {t})
BY DEF Transmit, Unsent

\* Primes go into the order of the queue.
LEMMA OrderPrimed ==
    /\ Elements(queue)' = Elements(queue')
    /\ \A a, b : Before(queue, a, b)' <=> Before(queue', a, b)
BY DEF Elements, Before

\* A step that leaves the channel alone, makes no call idle and starts no timer of a
\* queued call keeps the frames in order, if what it takes off the wire it serves.
LEMMA ChannelKept ==
    ASSUME TypeOK, FrameInv, UNCHANGED <<queue, sending, node>>,
           inbox' \cup served' \subseteq inbox \cup served,
           inbox' \cap served' = {}, replies' \subseteq served',
           timer' \subseteq timer,
           \A r \in Calls : call[r] # "idle" => call'[r] # "idle",
           Open => \A r \in Calls \cap Elements(queue) : call'[r] = call[r]
    PROVE  FrameInv'
<1>1. Elements(queue)' = Elements(queue) /\ (\A a, b : Before(queue, a, b)' <=> Before(queue, a, b))
  BY OrderPrimed
<1>2. InOnePlace'
  BY <1>1 DEF FrameInv, InOnePlace
<1>3. NotYetThere'
  BY DEF FrameInv, NotYetThere, Open
<1>4. QueueWaits'
  BY <1>1 DEF FrameInv, QueueWaits, Open
<1> QED BY <1>2, <1>3, <1>4 DEF FrameInv

\* Queueing a task that is not there yet.
LEMMA EnqueueFrame ==
    ASSUME TypeOK, FrameInv, NEW t \in Task, Enqueue(t),
           t \in Calls => call[t] = "idle" /\ call'[t] = "waiting",
           \A r \in Calls \ {t} : call'[r] = call[r],
           timer' \subseteq timer \cup StartedBy(t),
           UNCHANGED <<inbox, served, replies>>,
           node \in {"up", "stopping", "closing"}, node' # "down", Open' => Open
    PROVE  FrameInv'
<1>1. queue \in Seq(Task) /\ sending \in Task \cup {Idle}
  BY DEF TypeOK
<1>2. /\ Elements(Append(queue, t)) = Elements(queue) \cup {t}
      /\ \A a, b : Before(Append(queue, t), a, b)
                     <=> Before(queue, a, b) \/ (a \in Elements(queue) /\ b = t)
  BY <1>1, AppendElements, BeforeAppend
<1>3. CASE sending = Idle
  <2>1. /\ sending' = t /\ queue' = queue
        /\ timer' \subseteq timer \cup ({t} \cap Calls)
    BY <1>3 DEF Enqueue, StartedBy, ArmedBy
  <2>2. /\ Elements(queue)' = Elements(queue)
        /\ \A a, b : Before(queue, a, b)' <=> Before(queue, a, b)
    BY <2>1, OrderPrimed
  <2>3. t \in Calls => t \notin Elements(queue) \cup inbox \cup served
    BY DEF FrameInv, InOnePlace
  <2>4. InOnePlace'
    BY <2>1, <2>2, <2>3 DEF FrameInv, InOnePlace
  <2>5. NotYetThere'
    BY <2>1, <2>3 DEF FrameInv, NotYetThere, Open
  <2>6. QueueWaits'
    BY <2>2, <2>3 DEF FrameInv, QueueWaits, Open
  <2> QED BY <2>4, <2>5, <2>6 DEF FrameInv
<1>4. CASE sending # Idle
  <2>1. /\ sending' = sending /\ queue' = Append(queue, t)
        /\ timer' \subseteq timer
    BY <1>4 DEF Enqueue, Appended, StartedBy
  <2>2. /\ Elements(queue)' = Elements(queue) \cup {t}
        /\ \A a, b : Before(queue, a, b)'
                       <=> Before(queue, a, b) \/ (a \in Elements(queue) /\ b = t)
    BY <1>2, <2>1, OrderPrimed
  <2>3. t \in Calls => t \notin Elements(queue) \cup inbox \cup served \cup timer \cup {sending}
    BY DEF FrameInv, InOnePlace
  <2>4. t \notin Calls => t \notin inbox \cup served \cup timer
    BY DEF TypeOK
  <2>5. InOnePlace'
    BY <2>1, <2>2, <2>3, <2>4 DEF FrameInv, InOnePlace
  <2>6. NotYetThere'
    BY <2>1 DEF FrameInv, NotYetThere, Open
  <2>7. QueueWaits'
    BY <2>2, <2>3 DEF FrameInv, QueueWaits, Open
  <2> QED BY <2>5, <2>6, <2>7 DEF FrameInv
<1> QED BY <1>3, <1>4

\* #drain takes the next task, with or without the frame of the last one on its way.
LEMMA DrainFrame ==
    ASSUME TypeOK, FrameInv, queue' = RestOfQueue, sending' = NextTask,
           \/ inbox' = inbox
           \/ \E t \in Calls : /\ t \notin served /\ t \notin Elements(RestOfQueue)
                               /\ call[t] # "idle"
                               /\ Open' => t # NextTask
                               /\ inbox' = inbox \cup {t},
           UNCHANGED <<served, replies>>,
           timer' \subseteq timer \cup ArmedBy(NextTask),
           \A r \in Calls : call[r] # "idle" => call'[r] # "idle",
           Open' => Open /\ \A r \in Calls \cap Elements(queue) : call'[r] = call[r],
           node' = "down" => node = "down"
    PROVE  FrameInv'
<1>1. /\ queue \in Seq(Task) /\ \A r \in Calls : ~Before(queue, r, r)
      /\ ArmedBy(NextTask) \subseteq {NextTask} \cap Calls
  BY DEF TypeOK, FrameInv, InOnePlace, ArmedBy
<1>2. /\ Elements(RestOfQueue) \subseteq Elements(queue)
      /\ \A a, b : Before(RestOfQueue, a, b) => Before(queue, a, b)
      /\ NextTask \in Calls => NextTask \in Elements(queue) \ Elements(RestOfQueue)
  BY <1>1, RestFacts
<1>3. /\ Elements(queue)' = Elements(RestOfQueue)
      /\ \A a, b : Before(queue, a, b)' <=> Before(RestOfQueue, a, b)
  BY OrderPrimed
<1>4. InOnePlace'
  BY <1>1, <1>2, <1>3 DEF FrameInv, InOnePlace
<1>5. NotYetThere'
  <2>1. NextTask \in Calls => NextTask \notin inbox \cup served
    BY <1>2 DEF FrameInv, InOnePlace
  <2> QED BY <2>1 DEF FrameInv, NotYetThere, Open
<1>6. QueueWaits'
  <2>1. queue = <<>> => queue' = <<>>
    BY DEF RestOfQueue
  <2> QED BY <1>2, <1>3, <2>1 DEF FrameInv, QueueWaits, Open
<1> QED BY <1>4, <1>5, <1>6 DEF FrameInv

\* The channel is cleared, and what runs then is no call, or on a socket that is closed.
LEMMA ClearedFrame ==
    ASSUME TypeOK, FrameInv, queue' = <<>>,
           sending' \notin Calls \/ (sending' = sending /\ ~Open'),
           \/ inbox' = inbox
           \/ \E t \in Calls : t \notin served /\ call[t] # "idle" /\ inbox' = inbox \cup {t},
           UNCHANGED <<served, replies>>,
           timer' \subseteq timer,
           \A r \in Calls : call[r] # "idle" => call'[r] # "idle"
    PROVE  FrameInv'
<1>1. Elements(queue)' = {} /\ (\A a, b : ~Before(queue, a, b)')
  BY OrderPrimed, EmptyOrder
<1>2. InOnePlace'
  BY <1>1 DEF FrameInv, InOnePlace
<1>3. NotYetThere'
  BY DEF FrameInv, NotYetThere
<1>4. QueueWaits'
  BY <1>1 DEF QueueWaits
<1> QED BY <1>2, <1>3, <1>4 DEF FrameInv

\* Every step keeps the frames in order.
LEMMA FrameStep == TypeOK /\ FrameInv /\ [Next]_vars => FrameInv'
<1> SUFFICES ASSUME TypeOK, FrameInv, [Next]_vars PROVE FrameInv'
  OBVIOUS
<1> USE RpcAssumption DEF RpcAssumption
<1>0. call \in [Calls -> {"idle", "waiting", "ok", "failed"}]
  BY DEF TypeOK
<1>1. ASSUME NEW r \in Calls, CallRefused(r) \/ CallUnsealed(r) PROVE FrameInv'
  <2>1. /\ UNCHANGED <<queue, sending, node, inbox, served, replies, timer>>
        /\ call[r] = "idle" /\ call' = [call EXCEPT ![r] = "failed"]
    BY <1>1 DEF CallRefused, CallUnsealed, chan, net
  <2>2. r \notin Elements(queue)
    BY <2>1 DEF FrameInv, InOnePlace
  <2> QED BY <1>0, <2>1, <2>2, ChannelKept DEF FrameInv, NotYetThere
<1>2. ASSUME NEW r \in Calls, Call(r) PROVE FrameInv'
  BY <1>0, <1>2, EnqueueFrame DEF Call, net, Task, TypeOK, Open
<1>3. ASSUME NEW r \in Calls, Timeout(r) PROVE FrameInv'
  <2>1. r \notin Elements(queue)
    BY <1>3 DEF Timeout, FrameInv, InOnePlace
  <2>2. \A x \in Calls : /\ call[x] # "idle" => call'[x] # "idle"
                         /\ x # r => call'[x] = call[x]
    BY <1>3, SettledFacts DEF Timeout
  <2> QED BY <1>3, <2>1, <2>2, ChannelKept DEF Timeout, chan, net, FrameInv, NotYetThere
<1>4. ASSUME NEW r \in Calls, Receive(r) PROVE FrameInv'
  <2>1. r \notin Elements(queue)
    BY <1>4 DEF Receive, FrameInv, InOnePlace, NotYetThere
  <2>2. \A x \in Calls : /\ call[x] # "idle" => call'[x] # "idle"
                         /\ x # r => call'[x] = call[x]
    BY <1>4, SettledFacts DEF Receive, Key
  <2> QED BY <1>4, <2>1, <2>2, ChannelKept DEF Receive, chan, FrameInv, NotYetThere
<1>5. ASSUME NEW r \in Calls, Serve(r) \/ LoseReply(r) PROVE FrameInv'
  <2>1. /\ UNCHANGED <<queue, sending, node, timer, call>>
        /\ inbox' \cup served' \subseteq inbox \cup served
        /\ inbox' \cap served' = {} /\ replies' \subseteq served'
    BY <1>5 DEF Serve, LoseReply, chan, book, FrameInv, NotYetThere
  <2> QED BY <2>1, ChannelKept
<1>6. CASE PeerUp \/ PeerDown \/ UNCHANGED vars
  <2>1. /\ UNCHANGED <<queue, sending, node, timer, call, served, replies>>
        /\ inbox' \subseteq inbox
    BY <1>6 DEF PeerUp, PeerDown, vars, chan, book, net
  <2> QED BY <2>1, ChannelKept DEF FrameInv, NotYetThere
<1>7. CASE SendOther
  BY <1>0, <1>7, EnqueueFrame DEF SendOther, book, net, Task, TypeOK, Open
<1>8. CASE StopBegin
  BY <1>0, <1>8, EnqueueFrame DEF StopBegin, book, net, Task, TypeOK, Open
<1>9. CASE SendOk
  <2>1. sending \in Calls => /\ sending \notin served \cup Elements(queue)
                             /\ call[sending] # "idle"
    BY <1>9 DEF SendOk, FrameInv, InOnePlace, NotYetThere, Open
  <2>2. inbox' = inbox \/ (sending \in Calls /\ inbox' = inbox \cup {sending})
    BY <1>9, TransmitInbox DEF SendOk
  <2>3. /\ Elements(RestOfQueue) \subseteq Elements(queue)
        /\ NextTask \in Calls => NextTask \in Elements(queue)
    BY RestFacts DEF TypeOK, FrameInv, InOnePlace
  <2> QED BY <1>9, <2>1, <2>2, <2>3, DrainFrame DEF SendOk, Open
<1>10. CASE SendFail
  <2>1. sending \in Calls => sending \notin Elements(queue)
    BY DEF FrameInv, InOnePlace
  <2>2. \A x \in Calls : /\ call[x] # "idle" => call'[x] # "idle"
                         /\ x # sending => call'[x] = call[x]
    BY <1>10, SettledFacts DEF SendFail
  <2> QED BY <1>10, <2>1, <2>2, DrainFrame DEF SendFail, net, Open
<1>11. ASSUME NEW S, NEW how \in {"ok", "failed"}, call' = Settled(S, how)
       PROVE  \A x \in Calls : call[x] # "idle" => call'[x] # "idle"
  BY <1>11, SettledFacts
<1>12. CASE RestartDealer
  <2>1. sending \in Calls => sending \notin served /\ call[sending] # "idle"
    BY <1>12 DEF RestartDealer, FrameInv, InOnePlace, NotYetThere, Open
  <2>2. inbox' = inbox \/ (sending \in Calls /\ inbox' = inbox \cup {sending})
    BY <1>12, TransmitInbox DEF RestartDealer
  <2>3. sending' \notin Calls /\ queue' = <<>>
    BY <1>12 DEF RestartDealer, Cleared
  <2> QED BY <1>11, <1>12, <2>1, <2>2, <2>3, ClearedFrame DEF RestartDealer
<1>13. CASE StopClose
  <2>1. /\ Elements(RestOfQueue) \subseteq Elements(queue)
        /\ NextTask \in Calls => NextTask \in Elements(queue) \ Elements(RestOfQueue)
    BY RestFacts DEF TypeOK, FrameInv, InOnePlace
  <2>2. NextTask \in Calls => NextTask \notin served /\ call[NextTask] # "idle"
    BY <2>1 DEF FrameInv, InOnePlace
  <2>3. inbox' = inbox \/ (NextTask \in Calls /\ inbox' = inbox \cup {NextTask})
    BY <1>13, TransmitInbox DEF StopClose, CancelAll
  <2>4. ~Open' /\ node' # "down"
    BY <1>13 DEF StopClose, CancelAll, Open
  <2> QED BY <1>11, <1>13, <2>1, <2>2, <2>3, <2>4, DrainFrame DEF StopClose, CancelAll
<1>14. CASE StopMaster
  <2>1. sending \in Calls => /\ sending \notin served \cup Elements(queue)
                             /\ call[sending] # "idle"
    BY <1>14 DEF StopMaster, FrameInv, InOnePlace, NotYetThere, Open
  <2>2. inbox' = inbox \/ (sending \in Calls /\ inbox' = inbox \cup {sending})
    BY <1>14, TransmitInbox DEF StopMaster, CancelAll
  <2>3. /\ node' = "closing" /\ UNCHANGED <<queue, sending, served, replies>>
        /\ timer' \subseteq timer
        /\ \A x \in Calls : call[x] # "idle" => call'[x] # "idle"
    BY <1>11, <1>14 DEF StopMaster, CancelAll
  <2>4. /\ Elements(queue)' = Elements(queue)
        /\ \A a, b : Before(queue, a, b)' <=> Before(queue, a, b)
    BY <2>3, OrderPrimed
  <2>5. InOnePlace'
    BY <2>1, <2>2, <2>3, <2>4 DEF FrameInv, InOnePlace
  <2>6. NotYetThere'
    BY <2>1, <2>2, <2>3 DEF FrameInv, NotYetThere, Open
  <2>7. QueueWaits'
    BY <2>3 DEF QueueWaits, Open
  <2> QED BY <2>5, <2>6, <2>7 DEF FrameInv
<1>15. CASE TeardownEnd
  BY <1>11, <1>15, ClearedFrame DEF TeardownEnd, Cleared, net, Open
<1>16. CASE Start
  <2>1. queue' = <<>> /\ sending' \notin Calls
    BY <1>16 DEF Start, FrameInv, QueueWaits
  <2> QED BY <1>16, <2>1, ClearedFrame DEF Start, book, net
<1> QED
  BY <1>1, <1>2, <1>3, <1>4, <1>5, <1>6, <1>7, <1>8, <1>9, <1>10, <1>12, <1>13,
     <1>14, <1>15, <1>16 DEF Next

\* Frames are in order throughout.
LEMMA FramesInOrder == Spec => [](TypeOK /\ FrameInv)
<1>1. Init => FrameInv
  BY EmptyOrder, RpcAssumption
     DEF Init, FrameInv, InOnePlace, NotYetThere, QueueWaits, RpcAssumption
<1> QED BY <1>1, TypeCorrect, FrameStep, PTL DEF Spec

(***************************************************************************)
(* The channel implements the promise of a call.                           *)
(***************************************************************************)

\* Settling by an error is a failure of the calls that waited.
LEMMA SettleFails ==
    ASSUME TypeOK, NEW S, call' = Settled(S, "failed"), UNCHANGED served
    PROVE  \E T \in SUBSET Calls : Promise!Fail(T)
<1> DEFINE T == {r \in Calls : r \in S \cap pend /\ call[r] = "waiting"}
<1>1. Promise!Fail(T)
  BY DEF Promise!Fail, Settled
<1> QED BY <1>1

\* Every step of the channel is a step of the promise, or none.
LEMMA PromiseStep ==
    ASSUME TypeOK, FrameInv, [Next]_vars
    PROVE  [Promise!Next]_(Promise!vars)
<1>0. call \in [Calls -> {"idle", "waiting", "ok", "failed"}]
  BY DEF TypeOK
<1>1. ASSUME NEW r \in Calls, CallRefused(r) \/ CallUnsealed(r) PROVE Promise!Refuse(r)
  BY <1>1 DEF CallRefused, CallUnsealed, net, Promise!Refuse
<1>2. ASSUME NEW r \in Calls, Call(r) PROVE Promise!Issue(r)
  BY <1>2 DEF Call, net, Promise!Issue
<1>3. ASSUME NEW r \in Calls, Timeout(r) PROVE \E T \in SUBSET Calls : Promise!Fail(T)
  BY <1>3, SettleFails DEF Timeout, net
<1>4. ASSUME NEW r \in Calls, Receive(r) PROVE Promise!Resolve(r) \/ UNCHANGED <<call, served>>
  <2>1. r \in served /\ call' = Settled({r}, "ok") /\ UNCHANGED served
    BY <1>4 DEF Receive, Key, FrameInv, NotYetThere
  <2>2. CASE r \in pend /\ call[r] = "waiting"
    BY <1>0, <2>1, <2>2 DEF Settled, Promise!Resolve
  <2>3. CASE ~(r \in pend /\ call[r] = "waiting")
    BY <1>0, <2>1, <2>3 DEF Settled
  <2> QED BY <2>2, <2>3
<1>5. ASSUME NEW r \in Calls, Serve(r) PROVE Promise!Serve(r)
  <2>1. call[r] # "idle" /\ r \notin served
    BY <1>5 DEF Serve, FrameInv, InOnePlace, NotYetThere
  <2> QED BY <1>5, <2>1 DEF Serve, book, Promise!Serve
<1>6. CASE SendFail \/ RestartDealer \/ StopClose \/ StopMaster \/ TeardownEnd
  <2>1. UNCHANGED served /\ \E S : call' = Settled(S, "failed")
    BY <1>6 DEF SendFail, RestartDealer, StopClose, StopMaster, CancelAll, TeardownEnd, net
  <2>2. \E T \in SUBSET Calls : Promise!Fail(T)
    BY <2>1, SettleFails
  <2> QED BY <2>2 DEF Promise!Next
<1>7. ASSUME NEW r \in Calls, LoseReply(r) PROVE UNCHANGED <<call, served>>
  BY <1>7 DEF LoseReply, book
<1>8. CASE SendOther \/ SendOk \/ StopBegin \/ Start \/ PeerUp \/ PeerDown \/ UNCHANGED vars
  <2>1. UNCHANGED <<call, served>>
    BY <1>8 DEF SendOther, SendOk, StopBegin, Start, PeerUp, PeerDown, vars, book, net
  <2> QED BY <2>1 DEF Promise!vars
<1> QED
  BY <1>1, <1>2, <1>3, <1>4, <1>5, <1>6, <1>7, <1>8 DEF Next, Promise!Next, Promise!vars

\* Whatever happens to queue, sockets, timers and peer, a promise settles at most
\* once, with an answer only after its own request was served, and the peer runs a
\* request at most once.
THEOREM ImplementsPromise == Spec => PromiseSpec
<1>1. Init => Promise!Init
  BY DEF Init, Promise!Init
<1>2. TypeOK /\ FrameInv /\ [Next]_vars => [Promise!Next]_(Promise!vars)
  BY PromiseStep
<1> QED BY <1>1, <1>2, FramesInOrder, PTL DEF Spec, PromiseSpec, Promise!Spec

\* A task that starts on an open channel is that of a call that waits.
LEMMA ZombieStep ==
    ASSUME TypeOK, FrameInv, [Next]_vars, NEW r \in Calls,
           sending' = r, sending # r, node' \in {"up", "stopping"}
    PROVE  call'[r] = "waiting"
<1> USE RpcAssumption DEF RpcAssumption
<1>1. ASSUME NEW x \in Calls, Call(x) PROVE call'[r] = "waiting"
  BY <1>1 DEF Call, Enqueue, TypeOK
<1>2. CASE SendOther \/ StopBegin \/ RestartDealer \/ Start
  BY <1>2 DEF SendOther, StopBegin, Enqueue, RestartDealer, Cleared, Start
<1>3. CASE SendOk \/ SendFail
  <2>1. r = NextTask /\ UNCHANGED node
    BY <1>3 DEF SendOk, SendFail
  <2>2. r \in Elements(queue)
    BY <2>1, RestFacts DEF TypeOK, FrameInv, InOnePlace
  <2>3. call[r] = "waiting"
    BY <2>1, <2>2 DEF FrameInv, QueueWaits, Open
  <2>4. call'[r] = call[r]
    BY <1>3, SettledFacts DEF SendOk, SendFail
  <2> QED BY <2>3, <2>4
<1>4. CASE StopClose \/ StopMaster
  BY <1>4 DEF StopClose, StopMaster, CancelAll
<1>5. CASE UNCHANGED sending
  BY <1>5
<1>6. ASSUME NEW x \in Calls, CallRefused(x) \/ CallUnsealed(x) \/ Timeout(x) \/ Receive(x)
                              \/ Serve(x) \/ LoseReply(x)
      PROVE  UNCHANGED sending
  BY <1>6 DEF CallRefused, CallUnsealed, Timeout, Receive, Serve, LoseReply, chan
<1>7. CASE TeardownEnd \/ PeerUp \/ PeerDown \/ UNCHANGED vars
  BY <1>5, <1>7 DEF TeardownEnd, PeerUp, PeerDown, vars, chan
<1> QED BY <1>1, <1>2, <1>3, <1>4, <1>5, <1>6, <1>7 DEF Next

\* A call that was rejected while it was queued is never written.
THEOREM CancelledNotSent == Spec => NoZombieSend
<1> DEFINE A == \A r \in Calls :
         sending' = r /\ sending # r /\ node' \in {"up", "stopping"} => call'[r] = "waiting"
<1>1. TypeOK /\ FrameInv /\ [Next]_vars => A
  BY ZombieStep
<1>2. TypeOK /\ FrameInv /\ [Next]_vars => [A]_vars
  BY <1>1
<1> QED BY <1>2, FramesInOrder, PTL DEF Spec, NoZombieSend

(***************************************************************************)
(* Frames leave in the order of the calls.                                 *)
(***************************************************************************)

\* a may stand in front of b: b was not called first.
InOrder(a, b) == ~Before(issued, b, a)

\* The frames written, the one being written and those queued stand in the order of
\* the calls.  A task that starts at once finds nothing queued in front of it.
CallOrder ==
    /\ \A r \in Calls : InOrder(r, r)
    /\ \A r \in Calls : r \in Elements(issued) \cup Elements(sent) => call[r] # "idle"
    /\ FifoWire
    /\ \A a, b \in Calls :
         /\ a \in Elements(sent) /\ (b = sending \/ b \in Elements(queue)) => InOrder(a, b)
         /\ a = sending /\ b \in Elements(queue) => InOrder(a, b)
         /\ Before(queue, a, b) => InOrder(a, b)
    /\ sending = Idle => queue = <<>>

\* Primes go into all three sequences.
LEMMA SequencesPrimed ==
    /\ Elements(queue)' = Elements(queue') /\ Elements(sent)' = Elements(sent')
    /\ Elements(issued)' = Elements(issued')
    /\ \A a, b : Before(queue, a, b)' <=> Before(queue', a, b)
    /\ \A a, b : Before(sent, a, b)' <=> Before(sent', a, b)
    /\ \A a, b : Before(issued, a, b)' <=> Before(issued', a, b)
BY DEF Elements, Before

\* What a frame that leaves the node, or does not, does to the frames written.
LEMMA SentFacts ==
    ASSUME TypeOK, NEW t, Transmit(t) \/ Unsent
    PROVE  \/ sent' = sent
           \/ /\ t \in Calls
              /\ Elements(sent') = Elements(sent) \cup {t}
              /\ \A a, b : Before(sent', a, b)
                             <=> Before(sent, a, b) \/ (a \in Elements(sent) /\ b = t)
<1>1. CASE t \in Calls /\ Transmit(t)
  <2>1. sent \in Seq(Calls) /\ sent' = Append(sent, t)
    BY <1>1 DEF TypeOK, Transmit
  <2> QED BY <1>1, <2>1, AppendElements, BeforeAppend
<1>2. CASE ~(t \in Calls /\ Transmit(t))
  BY <1>2 DEF Transmit, Unsent
<1> QED BY <1>1, <1>2

\* A step that makes no call and writes the frame of t, or none: t is the task that
\* was running, or the one that #drain takes.
LEMMA OrderKept ==
    ASSUME TypeOK, FrameInv, CallOrder, UNCHANGED issued,
           \A r \in Calls : call[r] # "idle" => call'[r] # "idle",
           \/ UNCHANGED <<queue, sending>>
           \/ queue' = RestOfQueue /\ sending' = NextTask
           \/ queue' = <<>> /\ sending' \in Task \ Calls
           \/ queue' = <<>> /\ UNCHANGED sending,
           NEW t, Transmit(t) \/ Unsent,
           \/ t = sending
           \/ t = NextTask /\ sending' = NextTask /\ queue' = RestOfQueue
    PROVE  CallOrder'
<1> USE RpcAssumption DEF RpcAssumption
<1>1. /\ queue \in Seq(Task)
      /\ \A r \in Calls : ~Before(queue, r, r)
  BY DEF TypeOK, FrameInv, InOnePlace
<1>2. /\ Elements(RestOfQueue) \subseteq Elements(queue)
      /\ \A a, b : Before(RestOfQueue, a, b) => Before(queue, a, b)
      /\ NextTask \in Calls =>
           /\ NextTask \in Elements(queue)
           /\ \A b : b \in Elements(RestOfQueue) => Before(queue, NextTask, b)
  BY <1>1, RestFacts
<1>3. /\ Elements(queue') \subseteq Elements(queue)
      /\ \A a, b : Before(queue', a, b) => Before(queue, a, b)
      /\ sending' \in Calls =>
           \/ sending' = sending
           \/ /\ sending' = NextTask /\ queue' = RestOfQueue
              /\ sending' \in Elements(queue)
  BY <1>2, EmptyOrder
<1>4. t \in Calls =>
        /\ call[t] # "idle"
        /\ t = sending \/ (t = NextTask /\ t \in Elements(queue))
        /\ \A a \in Calls : a \in Elements(sent) => InOrder(a, t)
        /\ \A b \in Calls : b = sending' \/ b \in Elements(queue') => InOrder(t, b)
  BY <1>2, <1>3 DEF CallOrder, FrameInv, InOnePlace
<1>5. \/ sent' = sent
      \/ /\ t \in Calls
         /\ Elements(sent') = Elements(sent) \cup {t}
         /\ \A a, b : Before(sent', a, b)
                        <=> Before(sent, a, b) \/ (a \in Elements(sent) /\ b = t)
  BY SentFacts
<1>6. /\ Elements(issued)' = Elements(issued) /\ Elements(sent)' = Elements(sent')
      /\ Elements(queue)' = Elements(queue')
      /\ \A a, b : InOrder(a, b)' <=> InOrder(a, b)
      /\ \A a, b : Before(queue, a, b)' <=> Before(queue', a, b)
      /\ \A a, b : Before(sent, a, b)' <=> Before(sent', a, b)
      /\ \A a, b : InOrder(a, b) <=> ~Before(issued, b, a)
      /\ \A a, b : Before(issued, a, b)' <=> Before(issued, a, b)
  BY SequencesPrimed DEF InOrder
<1>7. (\A r \in Calls : InOrder(r, r))'
  BY <1>6 DEF CallOrder
<1>8. (\A r \in Calls : r \in Elements(issued) \cup Elements(sent) => call[r] # "idle")'
  BY <1>4, <1>5, <1>6 DEF CallOrder
<1>9. FifoWire'
  BY <1>4, <1>5, <1>6 DEF CallOrder, FifoWire
<1>10. ASSUME NEW a \in Calls, NEW b \in Calls
       PROVE  (a \in Elements(sent) /\ (b = sending \/ b \in Elements(queue)) => InOrder(a, b))'
  BY <1>3, <1>4, <1>5, <1>6 DEF CallOrder
<1>11. ASSUME NEW a \in Calls, NEW b \in Calls
       PROVE  (a = sending /\ b \in Elements(queue) => InOrder(a, b))'
  BY <1>2, <1>3, <1>6 DEF CallOrder
<1>12. ASSUME NEW a \in Calls, NEW b \in Calls
       PROVE  (Before(queue, a, b) => InOrder(a, b))'
  BY <1>3, <1>6 DEF CallOrder
<1>13. (sending = Idle => queue = <<>>)'
  <2>1. NextTask = Idle => RestOfQueue = <<>>
    <3>1. queue # <<>> => Head(queue) \in Task
      BY <1>1
    <3> QED BY <3>1 DEF NextTask, RestOfQueue, Task
  <2> QED BY <2>1 DEF CallOrder, Task
<1> QED BY <1>7, <1>8, <1>9, <1>10, <1>11, <1>12, <1>13 DEF CallOrder

\* A call that is made stands behind all others, in the history and in the channel.
LEMMA OrderExtended ==
    ASSUME TypeOK, FrameInv, CallOrder, NEW r \in Calls, Call(r)
    PROVE  CallOrder'
<1> USE RpcAssumption DEF RpcAssumption
<1>1. /\ queue \in Seq(Task) /\ issued \in Seq(Calls) /\ r \in Task
      /\ call[r] = "idle"
      /\ \A x \in Calls : call[x] # "idle" => call'[x] # "idle"
      /\ call'[r] # "idle"
      /\ sent' = sent /\ issued' = Append(issued, r)
  BY DEF Call, TypeOK, Task
<1>2. r \notin Elements(queue) \cup Elements(sent) \cup Elements(issued) \cup {sending}
  BY <1>1 DEF CallOrder, FrameInv, InOnePlace
<1>3. /\ Elements(issued') = Elements(issued) \cup {r}
      /\ \A a, b : Before(issued', a, b)
                     <=> Before(issued, a, b) \/ (a \in Elements(issued) /\ b = r)
  BY <1>1, AppendElements, BeforeAppend
<1>4. \/ sending = Idle /\ sending' = r /\ queue' = <<>> /\ queue = <<>>
      \/ /\ sending # Idle /\ sending' = sending
         /\ Elements(queue') = Elements(queue) \cup {r}
         /\ \A a, b : Before(queue', a, b)
                        <=> Before(queue, a, b) \/ (a \in Elements(queue) /\ b = r)
  <2>1. /\ Elements(Append(queue, r)) = Elements(queue) \cup {r}
        /\ \A a, b : Before(Append(queue, r), a, b)
                       <=> Before(queue, a, b) \/ (a \in Elements(queue) /\ b = r)
    BY <1>1, AppendElements, BeforeAppend
  <2>2. \/ sending = Idle /\ sending' = r /\ queue' = queue
        \/ sending # Idle /\ sending' = sending /\ queue' = Append(queue, r)
    BY DEF Call, Enqueue, Appended
  <2>3. CASE queue' = Append(queue, r)
    <3>1. Elements(queue') = Elements(queue) \cup {r}
      BY <2>1, <2>3
    <3>2. \A a, b : Before(queue', a, b)
                      <=> Before(queue, a, b) \/ (a \in Elements(queue) /\ b = r)
      BY <2>1, <2>3
    <3> QED BY <2>2, <3>1, <3>2 DEF CallOrder
  <2>4. CASE sending = Idle
    BY <2>2, <2>4 DEF CallOrder
  <2> QED BY <2>2, <2>3, <2>4
<1>5. /\ Elements(issued)' = Elements(issued') /\ Elements(sent)' = Elements(sent)
      /\ Elements(queue)' = Elements(queue')
      /\ \A a, b : InOrder(a, b)' <=> ~Before(issued', b, a)
      /\ \A a, b : InOrder(a, b) <=> ~Before(issued, b, a)
      /\ \A a, b : Before(queue, a, b)' <=> Before(queue', a, b)
      /\ \A a, b : Before(sent, a, b)' <=> Before(sent, a, b)
      /\ \A a, b : Before(issued, a, b)' <=> Before(issued', a, b)
  BY <1>1, SequencesPrimed DEF InOrder
<1>6. \A x, a, b : /\ Before(queue, a, b) => a \in Elements(queue) /\ b \in Elements(queue)
                   /\ Before(sent, a, b) => a \in Elements(sent) /\ b \in Elements(sent)
                   /\ Before(issued, a, b) => a \in Elements(issued) /\ b \in Elements(issued)
  BY BeforeElements
<1>7. \A a, b \in Calls : a # r /\ InOrder(a, b) => InOrder(a, b)'
  BY <1>3, <1>5
<1>8. \A a \in Calls : a # r => InOrder(a, r)'
  BY <1>2, <1>3, <1>5, <1>6
<1>9. (\A x \in Calls : InOrder(x, x))'
  BY <1>2, <1>3, <1>5, <1>6 DEF CallOrder
<1>10. (\A x \in Calls : x \in Elements(issued) \cup Elements(sent) => call[x] # "idle")'
  BY <1>1, <1>3, <1>5 DEF CallOrder
<1>11. FifoWire'
  BY <1>2, <1>3, <1>5, <1>6 DEF CallOrder, FifoWire
<1>12. ASSUME NEW a \in Calls, NEW b \in Calls
       PROVE  (a \in Elements(sent) /\ (b = sending \/ b \in Elements(queue)) => InOrder(a, b))'
  BY <1>2, <1>4, <1>5, <1>7, <1>8, EmptyOrder DEF CallOrder
<1>13. ASSUME NEW a \in Calls, NEW b \in Calls
       PROVE  (a = sending /\ b \in Elements(queue) => InOrder(a, b))'
  BY <1>2, <1>4, <1>5, <1>7, <1>8, EmptyOrder DEF CallOrder
<1>14. ASSUME NEW a \in Calls, NEW b \in Calls
       PROVE  (Before(queue, a, b) => InOrder(a, b))'
  BY <1>2, <1>4, <1>5, <1>6, <1>7, <1>8, EmptyOrder DEF CallOrder
<1>15. (sending = Idle => queue = <<>>)'
  BY <1>4
<1> QED BY <1>9, <1>10, <1>11, <1>12, <1>13, <1>14, <1>15 DEF CallOrder

\* A task that is no call changes no order of calls.
LEMMA OrderWithOther ==
    ASSUME TypeOK, FrameInv, CallOrder, NEW t \in Task \ Calls, Enqueue(t),
           UNCHANGED <<call, sent, issued>>
    PROVE  CallOrder'
<1> USE RpcAssumption DEF RpcAssumption
<1>1. queue \in Seq(Task) /\ t # Idle
  BY DEF TypeOK, Task
<1>2. \/ sending = Idle /\ sending' = t /\ queue' = queue
      \/ /\ sending # Idle /\ sending' = sending
         /\ Elements(queue') = Elements(queue) \cup {t}
         /\ \A a, b : Before(queue', a, b)
                        <=> Before(queue, a, b) \/ (a \in Elements(queue) /\ b = t)
  <2>1. /\ Elements(Append(queue, t)) = Elements(queue) \cup {t}
        /\ \A a, b : Before(Append(queue, t), a, b)
                       <=> Before(queue, a, b) \/ (a \in Elements(queue) /\ b = t)
    BY <1>1, AppendElements, BeforeAppend
  <2>2. \/ sending = Idle /\ sending' = t /\ queue' = queue
        \/ sending # Idle /\ sending' = sending /\ queue' = Append(queue, t)
    BY DEF Enqueue, Appended
  <2>3. CASE queue' = Append(queue, t)
    <3>1. Elements(queue') = Elements(queue) \cup {t}
      BY <2>1, <2>3
    <3>2. \A a, b : Before(queue', a, b)
                      <=> Before(queue, a, b) \/ (a \in Elements(queue) /\ b = t)
      BY <2>1, <2>3
    <3> QED BY <2>2, <3>1, <3>2
  <2>4. CASE sending = Idle
    BY <2>2, <2>4
  <2> QED BY <2>2, <2>3, <2>4
<1>3. /\ Elements(issued)' = Elements(issued) /\ Elements(sent)' = Elements(sent)
      /\ Elements(queue)' = Elements(queue')
      /\ \A a, b : InOrder(a, b)' <=> InOrder(a, b)
      /\ \A a, b : Before(queue, a, b)' <=> Before(queue', a, b)
      /\ \A a, b : Before(sent, a, b)' <=> Before(sent, a, b)
      /\ \A a, b : Before(issued, a, b)' <=> Before(issued, a, b)
  BY SequencesPrimed DEF InOrder
<1>4. FifoWire'
  BY <1>3 DEF CallOrder, FifoWire
<1>5. ASSUME NEW a \in Calls, NEW b \in Calls
      PROVE  /\ (a \in Elements(sent) /\ (b = sending \/ b \in Elements(queue)) => InOrder(a, b))'
             /\ (a = sending /\ b \in Elements(queue) => InOrder(a, b))'
             /\ (Before(queue, a, b) => InOrder(a, b))'
  BY <1>2, <1>3 DEF CallOrder
<1> QED BY <1>1, <1>2, <1>3, <1>4, <1>5 DEF CallOrder

\* Every step keeps the order of the calls.
LEMMA OrderStep == TypeOK /\ FrameInv /\ CallOrder /\ [Next]_vars => CallOrder'
<1> SUFFICES ASSUME TypeOK, FrameInv, CallOrder, [Next]_vars PROVE CallOrder'
  OBVIOUS
<1> USE RpcAssumption DEF RpcAssumption
<1>0. call \in [Calls -> {"idle", "waiting", "ok", "failed"}]
  BY DEF TypeOK
<1>1. ASSUME NEW S, NEW how \in {"ok", "failed"}, call' = Settled(S, how)
      PROVE  \A x \in Calls : call[x] # "idle" => call'[x] # "idle"
  BY <1>1, SettledFacts
<1>2. ASSUME UNCHANGED <<queue, sending, sent, issued>>,
             \A x \in Calls : call[x] # "idle" => call'[x] # "idle"
      PROVE  CallOrder'
  <2>1. /\ Elements(issued)' = Elements(issued) /\ Elements(sent)' = Elements(sent)
        /\ Elements(queue)' = Elements(queue)
        /\ \A a, b : InOrder(a, b)' <=> InOrder(a, b)
        /\ \A a, b : Before(queue, a, b)' <=> Before(queue, a, b)
        /\ \A a, b : Before(sent, a, b)' <=> Before(sent, a, b)
        /\ \A a, b : Before(issued, a, b)' <=> Before(issued, a, b)
    BY <1>2, SequencesPrimed DEF InOrder
  <2>2. FifoWire'
    BY <2>1 DEF CallOrder, FifoWire
  <2> QED BY <1>2, <2>1, <2>2 DEF CallOrder
<1>3. ASSUME NEW r \in Calls, CallRefused(r) \/ CallUnsealed(r) PROVE CallOrder'
  <2>1. UNCHANGED chan /\ call' = [call EXCEPT ![r] = "failed"]
    BY <1>3 DEF CallRefused, CallUnsealed
  <2> QED BY <1>0, <1>2, <2>1 DEF chan
<1>4. ASSUME NEW r \in Calls, Call(r) PROVE CallOrder'
  BY <1>4, OrderExtended
<1>5. ASSUME NEW r \in Calls, Timeout(r) \/ Receive(r) PROVE CallOrder'
  BY <1>1, <1>2, <1>5 DEF Timeout, Receive, chan
<1>6. ASSUME NEW r \in Calls, Serve(r) \/ LoseReply(r) PROVE CallOrder'
  BY <1>2, <1>6 DEF Serve, LoseReply, chan, book
<1>7. CASE PeerUp \/ PeerDown \/ UNCHANGED vars
  BY <1>2, <1>7 DEF PeerUp, PeerDown, vars, chan, book
<1>8. CASE SendOther \/ StopBegin
  <2>1. PICK t \in Task \ Calls : Enqueue(t)
    BY <1>8 DEF SendOther, StopBegin, Task
  <2> QED BY <1>8, <2>1, OrderWithOther DEF SendOther, StopBegin, book
<1>9. CASE SendOk
  BY <1>9, OrderKept DEF SendOk
<1>10. CASE SendFail
  <2>1. Transmit(sending) \/ UNCHANGED <<sent, inbox>>
    BY <1>10 DEF SendFail, net
  <2> QED BY <1>1, <1>10, <2>1, OrderKept DEF SendFail, Unsent
<1>11. CASE RestartDealer
  <2>1. queue' = <<>> /\ sending' \in Task \ Calls
    BY <1>11 DEF RestartDealer, Cleared, Task
  <2> QED BY <1>1, <1>11, <2>1, OrderKept DEF RestartDealer
<1>12. CASE StopClose
  BY <1>1, <1>12, OrderKept DEF StopClose, CancelAll
<1>13. CASE StopMaster
  BY <1>1, <1>13, OrderKept DEF StopMaster, CancelAll
<1>14. CASE TeardownEnd
  BY <1>1, <1>14, OrderKept DEF TeardownEnd, Cleared, net, Unsent
<1>15. CASE Start
  <2>1. queue = <<>> /\ UNCHANGED <<queue, sent, issued, call>>
    BY <1>15 DEF Start, FrameInv, QueueWaits, book
  <2>2. sending' \notin Calls
    BY <1>15 DEF Start
  <2>3. /\ Elements(issued)' = Elements(issued) /\ Elements(sent)' = Elements(sent)
        /\ Elements(queue)' = {}
        /\ \A a, b : InOrder(a, b)' <=> InOrder(a, b)
        /\ \A a, b : ~Before(queue, a, b)'
        /\ \A a, b : Before(sent, a, b)' <=> Before(sent, a, b)
        /\ \A a, b : Before(issued, a, b)' <=> Before(issued, a, b)
    BY <2>1, SequencesPrimed, EmptyOrder DEF InOrder
  <2>4. FifoWire'
    BY <2>3 DEF CallOrder, FifoWire
  <2> QED BY <2>1, <2>2, <2>3, <2>4 DEF CallOrder
<1> QED
  BY <1>3, <1>4, <1>5, <1>6, <1>7, <1>8, <1>9, <1>10, <1>11, <1>12, <1>13,
     <1>14, <1>15 DEF Next

\* The frames a node writes are in the order in which its calls were made, whatever
\* fails, is cancelled or is rebuilt in between.
THEOREM CallsInOrder == Spec => []FifoWire
<1>1. Init => CallOrder
  BY EmptyOrder DEF Init, CallOrder, FifoWire, InOrder
<1>2. CallOrder => FifoWire
  BY DEF CallOrder
<1> QED BY <1>1, <1>2, FramesInOrder, OrderStep, PTL DEF Spec
=============================================================================
