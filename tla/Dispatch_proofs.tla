--------------------------- MODULE Dispatch_proofs --------------------------
(***************************************************************************)
(* Proofs about Dispatch, for any calls, any work and any number of        *)
(* rebuilds: a call awaited in a handler is not answered by the loop it    *)
(* blocks, and all calls implement RpcPromise.                             *)
(***************************************************************************)
EXTENDS Dispatch, SequenceOrder, FiniteSetTheorems, TLAPS

(***************************************************************************)
(* The elements of a sequence, for queues that grow at the end and are read*)
(* from the front.                                                         *)
(***************************************************************************)

\* Appending adds the new element, and only it.
LEMMA AppendElements ==
    ASSUME NEW S, NEW s \in Seq(S), NEW t \in S
    PROVE  Elements(Append(s, t)) = Elements(s) \cup {t}
<1>1. Append(s, t) \in Seq(S) /\ Len(Append(s, t)) = Len(s) + 1
  OBVIOUS
<1>2. \A i \in 1..Len(s) : Append(s, t)[i] = s[i]
  OBVIOUS
<1>3. Append(s, t)[Len(s) + 1] = t
  OBVIOUS
<1>4. 1..(Len(s) + 1) = (1..Len(s)) \cup {Len(s) + 1}
  OBVIOUS
<1> QED BY <1>1, <1>2, <1>3, <1>4 DEF Elements

\* Taking the head leaves the other elements in the tail.
LEMMA TailElements ==
    ASSUME NEW S, NEW s \in Seq(S), s # <<>>
    PROVE  /\ Head(s) \in S
           /\ Tail(s) \in Seq(S)
           /\ Elements(s) \subseteq {Head(s)} \cup Elements(Tail(s))
           /\ Elements(Tail(s)) \subseteq Elements(s)
<1>1. /\ Head(s) = s[1] /\ Head(s) \in S
      /\ Tail(s) \in Seq(S) /\ Len(s) \in Nat /\ Len(s) > 0
      /\ Len(Tail(s)) = Len(s) - 1
  OBVIOUS
<1>2. \A i \in 1..(Len(s) - 1) : Tail(s)[i] = s[i + 1]
  OBVIOUS
<1>3. ASSUME NEW i \in 1..Len(s), i # 1
      PROVE  i - 1 \in 1..Len(Tail(s)) /\ Tail(s)[i - 1] = s[i]
  <2>1. i - 1 \in 1..(Len(s) - 1) /\ (i - 1) + 1 = i
    BY <1>1, <1>3
  <2>2. Tail(s)[i - 1] = s[(i - 1) + 1]
    BY ONLY <1>2, <2>1
  <2> QED BY <1>1, <2>1, <2>2
<1>4. Elements(s) \subseteq {Head(s)} \cup Elements(Tail(s))
  BY <1>1, <1>3 DEF Elements
<1>5. ASSUME NEW i \in 1..Len(Tail(s))
      PROVE  i + 1 \in 1..Len(s) /\ Tail(s)[i] = s[i + 1]
  BY <1>1, <1>2
<1>6. Elements(Tail(s)) \subseteq Elements(s)
  BY <1>5 DEF Elements
<1> QED BY <1>1, <1>4, <1>6

\* Nothing is an element of the empty sequence.
LEMMA EmptyElements == Elements(<<>>) = {}
BY DEF Elements

\* A prefix has only elements of the sequence.
LEMMA PrefixElements ==
    ASSUME NEW S, NEW s \in Seq(S), NEW k \in 0..Len(s)
    PROVE  /\ SubSeq(s, 1, k) \in Seq(S)
           /\ Elements(SubSeq(s, 1, k)) \subseteq Elements(s)
<1>1. /\ SubSeq(s, 1, k) \in Seq(S) /\ Len(SubSeq(s, 1, k)) = k
      /\ \A i \in 1..k : SubSeq(s, 1, k)[i] = s[i]
      /\ \A i \in 1..k : i \in 1..Len(s)
  OBVIOUS
<1> QED BY <1>1 DEF Elements

(***************************************************************************)
(* Type correctness.                                                       *)
(***************************************************************************)

\* The queue that a rebuild leaves behind holds the answers of the set, and only those.
LEMMA SetToSeqFacts ==
    ASSUME NEW S, IsFiniteSet(S)
    PROVE  SetToSeq(S) \in Seq(S)
<1>1. Cardinality(S) \in Nat /\ ExistsBijection(1..Cardinality(S), S)
  BY FS_CardinalityType
<1>2. \E f \in [1..Cardinality(S) -> S] : IsInjective(f)
  BY <1>1 DEF ExistsBijection, Bijection, Injection
<1>3. SetToSeq(S) \in [1..Cardinality(S) -> S]
  BY <1>2 DEF SetToSeq
<1> QED BY <1>1, <1>3

\* Only finitely many handlers run, and it is those of requests that have a call.
TypeInv ==
    /\ TypeOK
    /\ IsFiniteSet(running)
    /\ \A h \in running : h.op = "req" <=> h.call \in Calls

\* The retried answers, as a queue of frames.
LEMMA RetriedQueue ==
    ASSUME TypeInv
    PROVE  /\ SetToSeq({Frame("res", h.call) : h \in Retried})
                \in Seq({Frame("res", h.call) : h \in Retried})
           /\ IsFiniteSet({[h EXCEPT !.at = "error"] : h \in Retried})
<1>1. IsFiniteSet(Retried)
  BY FS_Subset DEF TypeInv, Retried, Cancelled
<1>2. IsFiniteSet({Frame("res", h.call) : h \in Retried})
  <2> DEFINE f == [h \in Retried |-> Frame("res", h.call)]
             T == {Frame("res", h.call) : h \in Retried}
  <2>1. f \in Surjection(Retried, T)
    BY DEF Surjection
  <2> QED BY <1>1, <2>1, FS_Surjection
<1>3. IsFiniteSet({[h EXCEPT !.at = "error"] : h \in Retried})
  <2> DEFINE f == [h \in Retried |-> [h EXCEPT !.at = "error"]]
             T == {[h EXCEPT !.at = "error"] : h \in Retried}
  <2>1. f \in Surjection(Retried, T)
    BY DEF Surjection
  <2> QED BY <1>1, <2>1, FS_Surjection
<1> QED BY <1>2, <1>3, SetToSeqFacts

\* A step that leaves the handlers alone, or ends some of them.
LEMMA FewerHandlers ==
    ASSUME TypeInv, running' \subseteq running,
           call' \in [Calls -> {"idle", "waiting", "ok", "failed"}],
           served' \subseteq Calls,
           out' \in [Nodes -> Seq(Frames)], wire' \in [Nodes -> Seq(Frames)],
           dealer' \in 0..MaxRebuilds, waiting' \in BOOLEAN, published' \in 0..MaxWork
    PROVE  TypeInv'
<1>1. IsFiniteSet(running')
  BY FS_Subset DEF TypeInv
<1>2. TypeOK'
  BY DEF TypeInv, TypeOK
<1> QED BY <1>1, <1>2 DEF TypeInv

\* A step that puts one handler in the place of another one of the same loop, or starts
\* one in a loop that has none.
LEMMA OneHandler ==
    ASSUME TypeInv, NEW g \in Handlers, NEW old, g.op = "req" <=> g.call \in Calls,
           running' = (running \ {old}) \cup {g},
           \A h \in running : h.node = g.node /\ h.gen = g.gen => h = old,
           call' \in [Calls -> {"idle", "waiting", "ok", "failed"}],
           served' \subseteq Calls,
           out' \in [Nodes -> Seq(Frames)], wire' \in [Nodes -> Seq(Frames)],
           dealer' \in 0..MaxRebuilds, waiting' \in BOOLEAN, published' \in 0..MaxWork
    PROVE  TypeInv'
<1>1. IsFiniteSet(running')
  BY FS_RemoveElement, FS_AddElement DEF TypeInv
<1>2. TypeOK'
  BY DEF TypeInv, TypeOK
<1> QED BY <1>1, <1>2 DEF TypeInv

\* Queueing a frame.
LEMMA EnqueueType ==
    ASSUME TypeInv, NEW n \in Nodes, NEW f \in Frames, Enqueue(n, f)
    PROVE  out' \in [Nodes -> Seq(Frames)]
BY DEF TypeInv, TypeOK, Enqueue

\* A frame that is read leaves the rest.
LEMMA ReadType ==
    ASSUME TypeInv, NEW n \in Nodes, wire[Peer(n)] # <<>>,
           wire' = [wire EXCEPT ![Peer(n)] = Tail(@)]
    PROVE  wire' \in [Nodes -> Seq(Frames)] /\ Head(wire[Peer(n)]) \in Frames
<1>1. Peer(n) \in Nodes /\ wire[Peer(n)] \in Seq(Frames)
  BY DEF TypeInv, TypeOK, Peer, Nodes
<1>2. Tail(wire[Peer(n)]) \in Seq(Frames) /\ Head(wire[Peer(n)]) \in Frames
  BY <1>1
<1> QED BY <1>1, <1>2 DEF TypeInv, TypeOK

\* A handler belongs to a loop of its node.
LEMMA HandlerType ==
    ASSUME TypeInv, NEW n \in Nodes, NEW op \in {"req", "hb", "pub"},
           NEW c \in Calls \cup {None}, NEW at \in {"app", "reply", "error"}
    PROVE  Handler(n, op, c, at) \in Handlers
BY DispatchAssumption DEF DispatchAssumption, TypeInv, TypeOK, Handler, Handlers, Gen

\* Every step keeps the shape of the state.
LEMMA TypeStep == TypeInv /\ [Next]_vars => TypeInv'
<1> SUFFICES ASSUME TypeInv, [Next]_vars PROVE TypeInv'
  OBVIOUS
<1> USE DispatchAssumption DEF DispatchAssumption
<1>0. /\ call \in [Calls -> {"idle", "waiting", "ok", "failed"}] /\ served \subseteq Calls
      /\ running \subseteq Handlers
      /\ out \in [Nodes -> Seq(Frames)] /\ wire \in [Nodes -> Seq(Frames)]
      /\ dealer \in 0..MaxRebuilds /\ waiting \in BOOLEAN /\ published \in 0..MaxWork
      /\ \A h, g \in running : h.node = g.node /\ h.gen = g.gen => h = g
  BY DEF TypeInv, TypeOK
<1>1. ASSUME NEW c \in Calls, Issue(c)
      PROVE  /\ out' \in [Nodes -> Seq(Frames)]
             /\ call' \in [Calls -> {"idle", "waiting", "ok", "failed"}]
             /\ UNCHANGED <<served, wire, dealer, waiting, published>>
  <2>1. Caller(c) \in Nodes /\ Frame("req", c) \in Frames
    BY DEF Caller, Nodes, Frame, Frames
  <2> QED BY <1>0, <1>1, <2>1, EnqueueType DEF Issue
<1>2. ASSUME NEW c \in Calls, Call(c) PROVE TypeInv'
  BY <1>0, <1>1, <1>2, FewerHandlers DEF Call
<1>3. ASSUME NEW c \in Calls, NEW h \in running, CallInHandler(h, c) PROVE TypeInv'
  <2> DEFINE g == [h EXCEPT !.waits = c]
  <2>1. /\ g \in Handlers /\ g.node = h.node /\ g.gen = h.gen
        /\ g.op = "req" <=> g.call \in Calls
        /\ \A x \in running : x.node = g.node /\ x.gen = g.gen => x = h
    BY <1>0 DEF Handlers, TypeInv
  <2>2. running' = (running \ {h}) \cup {g}
    BY <1>3 DEF CallInHandler, Becomes
  <2> HIDE DEF g
  <2> QED BY <1>0, <1>1, <1>3, <2>1, <2>2, OneHandler DEF CallInHandler
<1>4. ASSUME NEW c \in Calls, Timeout(c) PROVE TypeInv'
  BY <1>0, <1>4, FewerHandlers DEF Timeout
<1>5. ASSUME NEW h \in running, Resume(h) PROVE TypeInv'
  <2> DEFINE g == [h EXCEPT !.waits = None]
  <2>1. /\ g \in Handlers /\ g.node = h.node /\ g.gen = h.gen
        /\ g.op = "req" <=> g.call \in Calls
        /\ \A x \in running : x.node = g.node /\ x.gen = g.gen => x = h
    BY <1>0 DEF Handlers, TypeInv
  <2>2. running' = (running \ {h}) \cup {g}
    BY <1>5 DEF Resume, Becomes
  <2> HIDE DEF g
  <2> QED BY <1>0, <1>5, <2>1, <2>2, OneHandler DEF Resume
<1>6. ASSUME NEW h \in running, NEW at \in {"reply", "error"}, Answer(h, at), h.call \in Calls,
             UNCHANGED <<call, served, wire, dealer, waiting, published>>
      PROVE  TypeInv'
  <2> DEFINE g == [h EXCEPT !.at = at]
  <2>1. /\ g \in Handlers /\ g.node = h.node /\ g.gen = h.gen /\ h.node \in Nodes
        /\ g.op = "req" <=> g.call \in Calls
        /\ \A x \in running : x.node = g.node /\ x.gen = g.gen => x = h
    BY <1>0 DEF Handlers, TypeInv
  <2>2. running' = (running \ {h}) \cup {g}
    BY <1>6 DEF Answer, Becomes
  <2>3. out' \in [Nodes -> Seq(Frames)]
    BY <1>6, <2>1, EnqueueType DEF Answer, Frame, Frames
  <2> HIDE DEF g
  <2> QED BY <1>0, <1>6, <2>1, <2>2, <2>3, OneHandler
<1>7. ASSUME NEW h \in running, Return(h) \/ Throw(h) PROVE TypeInv'
  <2>1. UNCHANGED <<call, served, wire, dealer, waiting, published>>
    BY <1>7 DEF Return, Throw
  <2>2. CASE Ends(h) /\ UNCHANGED out
    BY <1>0, <2>1, <2>2, FewerHandlers DEF Ends
  <2>3. CASE \E at \in {"reply", "error"} : Answer(h, at) /\ h.call \in Calls
    BY <1>6, <2>1, <2>3
  <2>4. h.op = "req" => h.call \in Calls
    BY DEF TypeInv
  <2>5. h.call \in ServiceCalls => h.call \in Calls
    BY DEF Calls
  <2> QED BY <1>7, <2>2, <2>3, <2>4, <2>5 DEF Return, Throw
<1>8. ASSUME NEW n \in Nodes, Send(n) PROVE TypeInv'
  <2>1. Head(out[n]) \in Frames /\ Tail(out[n]) \in Seq(Frames)
    BY <1>0, <1>8 DEF Send
  <2>2. out' \in [Nodes -> Seq(Frames)] /\ wire' \in [Nodes -> Seq(Frames)]
    BY <1>0, <1>8, <2>1 DEF Send
  <2> QED BY <1>0, <1>8, <2>2, FewerHandlers DEF Send
<1>9. CASE Heartbeat
  <2>1. out' \in [Nodes -> Seq(Frames)]
    BY <1>9, EnqueueType DEF Heartbeat, Nodes, Frame, Frames
  <2> QED BY <1>0, <1>9, <2>1, FewerHandlers DEF Heartbeat
<1>10. CASE Publish
  <2>1. out' \in [Nodes -> Seq(Frames)]
    BY <1>10, EnqueueType DEF Publish, Nodes, Frame, Frames
  <2>2. published' \in 0..MaxWork
    <3>1. published < MaxWork
      <4>1. IsFiniteSet(Calls)
        BY DEF Calls
      <4>2. IsFiniteSet({c \in Calls : call[c] # "idle"})
        BY <4>1, FS_Subset
      <4>3. Cardinality({c \in Calls : call[c] # "idle"}) \in Nat
        BY <4>2, FS_CardinalityType
      <4> QED BY <1>0, <1>10, <4>3 DEF Publish, Work
    <3> QED BY <1>0, <1>10, <3>1 DEF Publish
  <2> QED BY <1>0, <1>10, <2>1, <2>2, FewerHandlers DEF Publish
<1>11. ASSUME NEW n \in Nodes, Read(n) PROVE TypeInv'
  <2> DEFINE f == Head(wire[Peer(n)])
  <2>1. /\ f \in Frames /\ wire' \in [Nodes -> Seq(Frames)]
        /\ waiting' \in BOOLEAN /\ UNCHANGED <<dealer, published>>
    BY <1>0, <1>11, ReadType DEF Read, Confirm
  <2>2. \A h \in running : h.node = n => h.gen # Gen(n)
    BY <1>11 DEF Read, Free
  <2>3. /\ f.op \in {"req", "res", "hb", "ack", "pub"} /\ f.call \in Calls \cup {None}
        /\ f.op \in {"req", "res"} <=> f.call \in Calls
    BY <2>1 DEF Frames, Calls
  <2> HIDE DEF f
  <2>4. ASSUME NEW at \in {"app", "reply", "error"}, Starts(n, f, at), f.op \in {"req", "hb", "pub"},
               call' = call, served' \subseteq Calls, out' \in [Nodes -> Seq(Frames)]
        PROVE  TypeInv'
    <3> DEFINE g == Handler(n, f.op, f.call, at)
    <3>1. g \in Handlers
      BY <2>3, <2>4, HandlerType
    <3>2. g.node = n /\ g.gen = Gen(n) /\ g.op = f.op /\ g.call = f.call
      BY DEF Handler
    <3>3. running' = (running \ {g}) \cup {g}
      BY <2>4 DEF Starts
    <3>4. \A x \in running : x.node = g.node /\ x.gen = g.gen => x = g
      BY <2>2, <3>2
    <3>5. g.op = "req" <=> g.call \in Calls
      BY <2>3, <2>4, <3>2
    <3> HIDE DEF g
    <3> QED BY <1>0, <2>1, <2>4, <3>1, <3>3, <3>4, <3>5, OneHandler
  <2>5. CASE ReadHeartbeat(n, f)
    <3>1. out' \in [Nodes -> Seq(Frames)]
      BY <2>5, EnqueueType DEF ReadHeartbeat, Frame, Frames
    <3> QED BY <1>0, <2>4, <2>5, <3>1 DEF ReadHeartbeat
  <2>6. CASE ReadAck(f)
    BY <1>0, <2>1, <2>6, FewerHandlers DEF ReadAck
  <2>7. CASE ReadHandled(n, f)
    <3>1. served' \subseteq Calls
      BY <1>0, <2>3, <2>7 DEF ReadHandled
    <3> QED BY <1>0, <2>4, <2>7, <3>1 DEF ReadHandled
  <2>8. CASE ReadUnhandled(n, f)
    <3>1. CASE f.op = "req" /\ f.call \in ServiceCalls
      <4>1. out' \in [Nodes -> Seq(Frames)]
        BY <2>3, <2>8, <3>1, EnqueueType DEF ReadUnhandled, Frame, Frames
      <4>2. served' \subseteq Calls
        BY <1>0, <2>3, <2>8, <3>1 DEF ReadUnhandled
      <4> QED BY <2>4, <2>8, <3>1, <4>1, <4>2 DEF ReadUnhandled
    <3>2. CASE ~(f.op = "req" /\ f.call \in ServiceCalls)
      BY <1>0, <2>1, <2>8, <3>2, FewerHandlers DEF ReadUnhandled
    <3> QED BY <3>1, <3>2
  <2>9. CASE ReadAnswer(f)
    <3>1. call' \in [Calls -> {"idle", "waiting", "ok", "failed"}]
      BY <1>0, <2>9 DEF ReadAnswer
    <3> QED BY <1>0, <2>1, <2>9, <3>1, FewerHandlers DEF ReadAnswer
  <2> QED BY <1>11, <2>5, <2>6, <2>7, <2>8, <2>9 DEF Read, f
<1>12. CASE RestartDealer
  <2> DEFINE T == {Frame("res", h.call) : h \in Retried}
             E == {[h EXCEPT !.at = "error"] : h \in Retried}
  <2>1. SetToSeq(T) \in Seq(T) /\ IsFiniteSet(E)
    BY RetriedQueue
  <2>2. T \subseteq Frames
    BY DEF Retried, Calls, Frame, Frames
  <2>3. SetToSeq(T) \in Seq(Frames)
    BY <2>1, <2>2
  <2>4. out' \in [Nodes -> Seq(Frames)]
    BY <1>0, <1>12, <2>3 DEF RestartDealer
  <2>5. wire' \in [Nodes -> Seq(Frames)]
    <3>1. PICK k \in 0..Len(wire["slave"]) :
             wire' = [master |-> <<>>, slave |-> SubSeq(wire["slave"], 1, k)]
      BY <1>12 DEF RestartDealer
    <3>2. wire["slave"] \in Seq(Frames)
      BY <1>0 DEF Nodes
    <3>3. SubSeq(wire["slave"], 1, k) \in Seq(Frames)
      BY <3>2, PrefixElements
    <3>4. <<>> \in Seq(Frames)
      OBVIOUS
    <3> DEFINE r == [master |-> <<>>, slave |-> SubSeq(wire["slave"], 1, k)]
    <3>5. r = [n \in {"master", "slave"} |-> r[n]] /\ r["master"] = <<>>
          /\ r["slave"] = SubSeq(wire["slave"], 1, k)
      OBVIOUS
    <3> HIDE DEF r
    <3>6. r \in [Nodes -> Seq(Frames)]
      BY <3>3, <3>4, <3>5 DEF Nodes
    <3> QED BY <3>1, <3>6 DEF r
  <2>6. \A e \in E : \E h \in Retried : /\ e \in Handlers /\ e.node = h.node /\ e.gen = h.gen
                                        /\ e.op = h.op /\ e.call = h.call
    <3> SUFFICES ASSUME NEW h \in Retried
                 PROVE  LET e == [h EXCEPT !.at = "error"] IN
                          /\ e \in Handlers /\ e.node = h.node /\ e.gen = h.gen
                          /\ e.op = h.op /\ e.call = h.call
      OBVIOUS
    <3>1. h \in Handlers
      BY <1>0 DEF Retried, Cancelled
    <3> QED BY <3>1 DEF Handlers
  <2>7. running' = (running \ Cancelled) \cup E /\ Retried \subseteq Cancelled /\ Cancelled \subseteq running
    BY <1>12 DEF RestartDealer, Retried, Cancelled
  <2>8. IsFiniteSet(running')
    BY <2>1, <2>7, FS_Subset, FS_Union DEF TypeInv
  <2>9. \A e \in E : \E h \in Retried : /\ e = [h EXCEPT !.at = "error"]
                                        /\ h.node = e.node /\ h.gen = e.gen
    <3> SUFFICES ASSUME NEW h \in Retried
                 PROVE  LET e == [h EXCEPT !.at = "error"] IN h.node = e.node /\ h.gen = e.gen
      OBVIOUS
    <3>1. h \in Handlers
      BY <1>0 DEF Retried, Cancelled
    <3> QED BY <3>1 DEF Handlers
  <2> HIDE DEF T, E
  <2>10. /\ running' \subseteq Handlers
         /\ \A h \in running' : h.op = "req" <=> h.call \in Calls
         /\ \A h, g \in running' : h.node = g.node /\ h.gen = g.gen => h = g
    <3>1. running' \subseteq Handlers
      BY <1>0, <2>6, <2>7
    <3>2. ASSUME NEW e \in running'
          PROVE  \E h \in running : /\ e.node = h.node /\ e.gen = h.gen
                                   /\ e.op = h.op /\ e.call = h.call
                                   /\ h \in Cancelled <=> e \notin running \ Cancelled
      BY <2>6, <2>7
    <3>3. \A e \in running' : e.op = "req" <=> e.call \in Calls
      BY <3>2 DEF TypeInv
    <3>4. ASSUME NEW d \in running', NEW e \in running', d.node = e.node, d.gen = e.gen
          PROVE  d = e
      <4>1. CASE d \in running \ Cancelled
        <5>1. e \in running \ Cancelled
          BY <1>0, <2>6, <2>7, <3>4, <4>1
        <5> QED BY <1>0, <3>4, <4>1, <5>1
      <4>2. CASE d \in E
        <5>1. e \in E
          BY <1>0, <2>6, <2>7, <3>4, <4>2
        <5>2. PICK h \in Retried : d = [h EXCEPT !.at = "error"] /\ h.node = d.node /\ h.gen = d.gen
          BY <4>2, <2>9
        <5>3. PICK g \in Retried : e = [g EXCEPT !.at = "error"] /\ g.node = e.node /\ g.gen = e.gen
          BY <5>1, <2>9
        <5> QED BY <1>0, <2>7, <3>4, <5>2, <5>3
      <4> QED BY <2>7, <4>1, <4>2
    <3> QED BY <3>1, <3>3, <3>4
  <2>11. call' \in [Calls -> {"idle", "waiting", "ok", "failed"}] /\ dealer' \in 0..MaxRebuilds
    BY <1>0, <1>12 DEF RestartDealer
  <2>12. served' \subseteq Calls /\ waiting' \in BOOLEAN /\ published' \in 0..MaxWork
    BY <1>0, <1>12 DEF RestartDealer
  <2>13. TypeOK'
    BY <2>4, <2>5, <2>10, <2>11, <2>12 DEF TypeOK
  <2> QED BY <2>8, <2>10, <2>13 DEF TypeInv
<1>13. CASE UNCHANGED vars
  BY <1>0, <1>13, FewerHandlers DEF vars
<1> QED
  BY <1>2, <1>3, <1>4, <1>5, <1>7, <1>8, <1>9, <1>10, <1>11, <1>12, <1>13
     DEF Next, HandlerStep

\* Nothing is called, queued or handled at first.
LEMMA InitType == Init => TypeInv
<1> SUFFICES ASSUME Init PROVE TypeInv
  OBVIOUS
<1>1. IsFiniteSet(running) /\ running = {}
  BY FS_EmptySet DEF Init
<1>2. out \in [Nodes -> Seq(Frames)] /\ wire \in [Nodes -> Seq(Frames)]
  BY DEF Init
<1>3. /\ call \in [Calls -> {"idle", "waiting", "ok", "failed"}] /\ served \subseteq Calls
      /\ waiting \in BOOLEAN
  BY DEF Init
<1>4. dealer \in 0..MaxRebuilds /\ published \in 0..MaxWork
  BY DispatchAssumption DEF DispatchAssumption, Init
<1> QED BY <1>1, <1>2, <1>3, <1>4 DEF TypeInv, TypeOK

\* The state keeps its shape, and no read loop ever runs two handlers.
THEOREM TypeCorrect == Spec => []TypeOK
<1>1. TypeInv => TypeOK
  BY DEF TypeInv
<1> QED BY <1>1, InitType, TypeStep, PTL DEF Spec

(***************************************************************************)
(* Where frames and handlers go.                                           *)
(***************************************************************************)

\* A request comes from the caller and its call was made; an answer goes to the caller,
\* and its call was served.
FrameOK(n, f) ==
    /\ f.op = "req" => Caller(f.call) = n /\ call[f.call] # "idle"
    /\ f.op = "res" => Caller(f.call) = Peer(n) /\ f.call \in served

HandlerOK(h) ==
    /\ h.gen <= Gen(h.node)
    /\ h.op = "req" => Caller(h.call) = Peer(h.node) /\ h.call \in served
    /\ h.waits # None => Caller(h.waits) = h.node

RouteInv ==
    /\ \A n \in Nodes : \A f \in Elements(out[n]) \cup Elements(wire[n]) : FrameOK(n, f)
    /\ \A h \in running : HandlerOK(h)

\* The invariant of the proofs below.
DispatchInv == TypeInv /\ RouteInv /\ NestedUnanswered

\* What a step may do to the state for routes to stay as they are.
Grows ==
    /\ served \subseteq served'
    /\ \A c \in Calls : call[c] # "idle" => call'[c] # "idle"
    /\ dealer <= dealer'

\* Such a step leaves a frame well routed.
LEMMA FrameStays ==
    ASSUME Grows, NEW n \in Nodes, NEW f \in Frames, FrameOK(n, f)
    PROVE  FrameOK(n, f)'
<1>1. f.op = "req" => f.call \in Calls
  BY DEF Frames
<1> QED BY <1>1 DEF Grows, FrameOK, Caller, Peer

\* And a handler.
LEMMA HandlerStays ==
    ASSUME TypeInv, TypeInv', Grows, NEW h \in Handlers, HandlerOK(h)
    PROVE  HandlerOK(h)'
<1>1. h.gen \in Nat /\ Gen(h.node) \in Nat /\ Gen(h.node)' \in Nat /\ Gen(h.node) <= Gen(h.node)'
  BY DispatchAssumption DEF DispatchAssumption, TypeInv, TypeOK, Handlers, Gen, Grows
<1>2. h.gen <= Gen(h.node)'
  BY <1>1 DEF HandlerOK
<1> QED BY <1>2 DEF Grows, HandlerOK, Caller, Peer

\* A step keeps the routes when all that is new in it is well routed.
LEMMA RoutesStay ==
    ASSUME TypeInv, TypeInv', RouteInv, Grows,
           \A n \in Nodes : \A f \in Elements(out'[n]) \cup Elements(wire'[n]) :
              f \in Elements(out[n]) \cup Elements(wire[n]) \/ FrameOK(n, f)',
           \A h \in running' : h \in running \/ HandlerOK(h)'
    PROVE  RouteInv'
<1>1. ASSUME NEW n \in Nodes, NEW f \in Elements(out[n]) \cup Elements(wire[n]) PROVE FrameOK(n, f)'
  <2>1. out[n] \in Seq(Frames) /\ wire[n] \in Seq(Frames)
    BY DEF TypeInv, TypeOK
  <2>2. f \in Frames
    BY <2>1, <1>1 DEF Elements
  <2> QED BY <2>2, FrameStays DEF RouteInv
<1>2. ASSUME NEW h \in running PROVE HandlerOK(h)'
  BY HandlerStays DEF TypeInv, TypeOK, RouteInv
<1> QED BY <1>1, <1>2 DEF RouteInv

\* Queueing adds one frame to what the node sends.
LEMMA EnqueueFrames ==
    ASSUME TypeInv, NEW m \in Nodes, NEW g \in Frames, Enqueue(m, g), NEW n \in Nodes
    PROVE  Elements(out'[n]) \subseteq Elements(out[n]) \cup {x \in {g} : n = m}
<1>1. out[m] \in Seq(Frames) /\ out \in [Nodes -> Seq(Frames)]
  BY DEF TypeInv, TypeOK
<1>2. CASE n = m
  BY <1>1, <1>2, AppendElements DEF Enqueue
<1>3. CASE n # m
  BY <1>1, <1>3 DEF Enqueue
<1> QED BY <1>2, <1>3

\* Reading takes one frame away.
LEMMA ReadFrames ==
    ASSUME TypeInv, NEW m \in Nodes, wire[Peer(m)] # <<>>,
           wire' = [wire EXCEPT ![Peer(m)] = Tail(@)], NEW n \in Nodes
    PROVE  /\ Elements(wire'[n]) \subseteq Elements(wire[n])
           /\ Head(wire[Peer(m)]) \in Elements(wire[Peer(m)])
<1>1. wire \in [Nodes -> Seq(Frames)] /\ Peer(m) \in Nodes
  BY DEF TypeInv, TypeOK, Peer, Nodes
<1>2. wire[Peer(m)] \in Seq(Frames)
  BY <1>1
<1>3. Elements(Tail(wire[Peer(m)])) \subseteq Elements(wire[Peer(m)])
  BY <1>2, TailElements
<1>4. Head(wire[Peer(m)]) \in Elements(wire[Peer(m)])
  BY <1>2 DEF Elements
<1> QED BY <1>1, <1>3, <1>4

\* Every step keeps frames and handlers on their routes.
LEMMA RouteStep == TypeInv /\ RouteInv /\ [Next]_vars => RouteInv'
<1> SUFFICES ASSUME TypeInv, RouteInv, [Next]_vars PROVE RouteInv'
  OBVIOUS
<1>0. TypeInv'
  BY TypeStep
<1>a. /\ call \in [Calls -> {"idle", "waiting", "ok", "failed"}] /\ served \subseteq Calls
      /\ running \subseteq Handlers
      /\ out \in [Nodes -> Seq(Frames)] /\ wire \in [Nodes -> Seq(Frames)]
      /\ dealer \in Nat
  BY DispatchAssumption DEF DispatchAssumption, TypeInv, TypeOK
<1>b. \A h \in running : HandlerOK(h) /\ (h.op = "req" <=> h.call \in Calls) /\ h.node \in Nodes
  BY <1>a DEF RouteInv, TypeInv, Handlers
<1>c. \A n \in Nodes : Peer(n) \in Nodes /\ Peer(Peer(n)) = n
  BY DEF Peer, Nodes
<1>1. ASSUME NEW c \in Calls, Issue(c)
      PROVE  /\ Grows
             /\ \A n \in Nodes : \A f \in Elements(out'[n]) \cup Elements(wire'[n]) :
                   f \in Elements(out[n]) \cup Elements(wire[n]) \/ FrameOK(n, f)'
  <2>1. Caller(c) \in Nodes /\ Frame("req", c) \in Frames
    BY DEF Caller, Nodes, Frame, Frames
  <2>2. Grows
    BY <1>a, <1>1 DEF Issue, Grows
  <2>3. FrameOK(Caller(c), Frame("req", c))'
    BY <1>a, <1>1 DEF Issue, FrameOK, Frame, Caller
  <2>4. \A n \in Nodes : Elements(out'[n]) \subseteq
                            Elements(out[n]) \cup {x \in {Frame("req", c)} : n = Caller(c)}
    BY <1>1, <2>1, EnqueueFrames DEF Issue
  <2> QED BY <1>1, <2>2, <2>3, <2>4 DEF Issue
<1>2. ASSUME NEW c \in Calls, Call(c) PROVE RouteInv'
  BY <1>0, <1>1, <1>2, RoutesStay DEF Call
<1>3. ASSUME NEW c \in Calls, NEW h \in running, CallInHandler(h, c) PROVE RouteInv'
  <2> DEFINE g == [h EXCEPT !.waits = c]
  <2>1. HandlerOK(h)'
    BY <1>0, <1>1, <1>3, <1>a, <1>b, HandlerStays DEF CallInHandler
  <2>2. g.gen = h.gen /\ g.node = h.node /\ g.op = h.op /\ g.call = h.call /\ g.waits = c
    BY <1>a DEF Handlers
  <2> HIDE DEF g
  <2>3. HandlerOK(g)'
    BY <1>3, <2>1, <2>2 DEF HandlerOK, CallInHandler, Caller, Gen, Peer
  <2>4. running' = (running \ {h}) \cup {g}
    BY <1>3 DEF CallInHandler, Becomes, g
  <2> QED BY <1>0, <1>1, <1>3, <2>3, <2>4, RoutesStay DEF CallInHandler
<1>4. ASSUME NEW c \in Calls, Timeout(c) PROVE RouteInv'
  <2>1. Grows
    BY <1>a, <1>4 DEF Timeout, Grows
  <2> QED BY <1>0, <1>4, <2>1, RoutesStay DEF Timeout
<1>5. ASSUME NEW h \in running, Resume(h) PROVE RouteInv'
  <2> DEFINE g == [h EXCEPT !.waits = None]
  <2>1. Grows
    BY <1>a, <1>5 DEF Resume, Grows
  <2>2. HandlerOK(h)'
    BY <1>0, <1>a, <1>b, <2>1, HandlerStays
  <2>3. g.gen = h.gen /\ g.node = h.node /\ g.op = h.op /\ g.call = h.call /\ g.waits = None
    BY <1>a DEF Handlers
  <2>4. running' = (running \ {h}) \cup {g}
    BY <1>5 DEF Resume, Becomes
  <2> HIDE DEF g
  <2>5. HandlerOK(g)'
    BY <2>2, <2>3 DEF HandlerOK, Caller, Gen, Peer
  <2> QED BY <1>0, <1>5, <2>1, <2>4, <2>5, RoutesStay DEF Resume
<1>6. ASSUME NEW h \in running, NEW at \in {"reply", "error"}, Answer(h, at), h.op = "req",
             UNCHANGED <<call, served, wire, dealer, waiting, published>>
      PROVE  RouteInv'
  <2> DEFINE g == [h EXCEPT !.at = at]
  <2>1. Grows
    BY <1>a, <1>6 DEF Grows
  <2>2. HandlerOK(h)'
    BY <1>0, <1>a, <1>b, <2>1, HandlerStays
  <2>3. g.gen = h.gen /\ g.node = h.node /\ g.op = h.op /\ g.call = h.call /\ g.waits = h.waits
    BY <1>a DEF Handlers
  <2>4. running' = (running \ {h}) \cup {g}
    BY <1>6 DEF Answer, Becomes
  <2> HIDE DEF g
  <2>5. HandlerOK(g)'
    BY <2>2, <2>3 DEF HandlerOK, Caller, Gen, Peer
  <2>6. Frame("res", h.call) \in Frames
    BY <1>6, <1>b DEF Frame, Frames
  <2>7. FrameOK(h.node, Frame("res", h.call))'
    BY <1>6, <2>2 DEF HandlerOK, FrameOK, Frame
  <2>8. \A n \in Nodes : Elements(out'[n]) \subseteq
                            Elements(out[n]) \cup {x \in {Frame("res", h.call)} : n = h.node}
    BY <1>6, <1>b, <2>6, EnqueueFrames DEF Answer
  <2> QED BY <1>0, <1>6, <2>1, <2>4, <2>5, <2>7, <2>8, RoutesStay
<1>7. ASSUME NEW h \in running, Return(h) \/ Throw(h) PROVE RouteInv'
  <2>1. UNCHANGED <<call, served, wire, dealer, waiting, published>>
    BY <1>7 DEF Return, Throw
  <2>2. CASE Ends(h) /\ UNCHANGED out
    <3>1. Grows
      BY <1>a, <2>1 DEF Grows
    <3> QED BY <1>0, <2>1, <2>2, <3>1, RoutesStay DEF Ends
  <2>3. CASE \E at \in {"reply", "error"} : Answer(h, at) /\ h.op = "req"
    BY <1>6, <2>1, <2>3
  <2>4. h.call \in ServiceCalls => h.op = "req"
    BY <1>b DEF Calls
  <2> QED BY <1>7, <2>2, <2>3, <2>4 DEF Return, Throw
<1>8. ASSUME NEW m \in Nodes, Send(m) PROVE RouteInv'
  <2>1. Grows
    BY <1>a, <1>8 DEF Send, Grows
  <2>2. out[m] \in Seq(Frames) /\ wire[m] \in Seq(Frames) /\ out[m] # <<>>
    BY <1>a, <1>8 DEF Send
  <2>3. Head(out[m]) \in Frames /\ Elements(Tail(out[m])) \subseteq Elements(out[m])
    BY <2>2, TailElements
  <2>4. Head(out[m]) \in Elements(out[m])
    BY <2>2 DEF Elements
  <2>5. Elements(Append(wire[m], Head(out[m]))) = Elements(wire[m]) \cup {Head(out[m])}
    BY <2>2, <2>3, AppendElements
  <2>6. ASSUME NEW n \in Nodes
        PROVE  Elements(out'[n]) \cup Elements(wire'[n]) \subseteq Elements(out[n]) \cup Elements(wire[n])
    <3>1. CASE n = m
      BY <1>8, <1>a, <2>3, <2>4, <2>5, <3>1 DEF Send
    <3>2. CASE n # m
      BY <1>8, <1>a, <3>2 DEF Send
    <3> QED BY <3>1, <3>2
  <2>7. running' \subseteq running
    BY <1>8 DEF Send
  <2> QED BY <1>0, <2>1, <2>6, <2>7, RoutesStay
<1>9. CASE Heartbeat \/ Publish
  <2>1. Grows
    BY <1>a, <1>9 DEF Heartbeat, Publish, Grows
  <2>2. PICK m \in Nodes, op \in {"hb", "pub"} : Enqueue(m, Frame(op, None))
    BY <1>9 DEF Heartbeat, Publish, Nodes
  <2>3. Frame(op, None) \in Frames /\ FrameOK(m, Frame(op, None))'
    BY DEF Frame, Frames, FrameOK
  <2>4. \A n \in Nodes : Elements(out'[n]) \subseteq
                            Elements(out[n]) \cup {x \in {Frame(op, None)} : n = m}
    BY <2>2, <2>3, EnqueueFrames
  <2> QED BY <1>0, <1>9, <2>1, <2>3, <2>4, RoutesStay DEF Heartbeat, Publish
<1>10. ASSUME NEW m \in Nodes, Read(m) PROVE RouteInv'
  <2>0. PICK f : f = Head(wire[Peer(m)])
    OBVIOUS
  <2>1. /\ \A n \in Nodes : Elements(wire'[n]) \subseteq Elements(wire[n])
        /\ f \in Elements(wire[Peer(m)]) /\ f \in Frames
        /\ UNCHANGED dealer
    BY <1>10, <2>0, ReadFrames, ReadType DEF Read
  <2>2. FrameOK(Peer(m), f)
    BY <1>c, <2>1 DEF RouteInv
  <2>3. f.op \in {"req", "res"} <=> f.call \in Calls
    BY <2>1, DispatchAssumption DEF DispatchAssumption, Frames, Calls
  <2>4. ASSUME NEW at, Starts(m, f, at), f.op = "req" => f.call \in served'
        PROVE  \A h \in running' : h \in running \/ HandlerOK(h)'
    <3>1. PICK g : g = Handler(m, f.op, f.call, at)
      OBVIOUS
    <3>2. /\ g.node = m /\ g.gen = Gen(m) /\ g.op = f.op /\ g.call = f.call /\ g.waits = None
      BY <3>1 DEF Handler
    <3>3. Gen(m)' = Gen(m) /\ Gen(m) <= Gen(m)
      BY <1>a, <2>1 DEF Gen
    <3>4. HandlerOK(g)'
      BY <2>2, <2>4, <3>2, <3>3 DEF FrameOK, HandlerOK, Caller, Peer
    <3> QED BY <2>4, <3>1, <3>4 DEF Starts
  <2>5. CASE ReadHeartbeat(m, f)
    <3>1. Grows
      BY <1>a, <2>1, <2>5 DEF ReadHeartbeat, Grows
    <3>2. Frame("ack", None) \in Frames /\ FrameOK(m, Frame("ack", None))'
      BY DEF Frame, Frames, FrameOK
    <3>3. \A n \in Nodes : Elements(out'[n]) \subseteq
                              Elements(out[n]) \cup {x \in {Frame("ack", None)} : n = m}
      BY <2>5, <3>2, EnqueueFrames DEF ReadHeartbeat
    <3>4. \A h \in running' : h \in running \/ HandlerOK(h)'
      BY <2>4, <2>5 DEF ReadHeartbeat
    <3> QED BY <1>0, <2>1, <3>1, <3>2, <3>3, <3>4, RoutesStay
  <2>6. CASE ReadAck(f)
    <3>1. Grows
      BY <1>a, <2>1, <2>6 DEF ReadAck, Grows
    <3> QED BY <1>0, <2>1, <2>6, <3>1, RoutesStay DEF ReadAck
  <2>7. CASE ReadHandled(m, f)
    <3>1. Grows
      BY <1>a, <2>1, <2>7 DEF ReadHandled, Grows
    <3>2. \A h \in running' : h \in running \/ HandlerOK(h)'
      BY <2>4, <2>7 DEF ReadHandled
    <3> QED BY <1>0, <2>1, <2>7, <3>1, <3>2, RoutesStay DEF ReadHandled
  <2>8. CASE ReadUnhandled(m, f)
    <3>1. Grows
      BY <1>a, <2>1, <2>8 DEF ReadUnhandled, Grows
    <3>2. CASE f.op = "req" /\ f.call \in ServiceCalls
      <4>1. Frame("res", f.call) \in Frames
        BY <2>3, <3>2 DEF Frame, Frames
      <4>2. FrameOK(m, Frame("res", f.call))'
        BY <2>2, <2>8, <3>2 DEF ReadUnhandled, FrameOK, Frame, Caller, Peer
      <4>3. \A n \in Nodes : Elements(out'[n]) \subseteq
                                Elements(out[n]) \cup {x \in {Frame("res", f.call)} : n = m}
        BY <2>8, <3>2, <4>1, EnqueueFrames DEF ReadUnhandled
      <4>4. \A h \in running' : h \in running \/ HandlerOK(h)'
        BY <2>4, <2>8, <3>2 DEF ReadUnhandled
      <4> QED BY <1>0, <2>1, <3>1, <4>2, <4>3, <4>4, RoutesStay
    <3>3. CASE ~(f.op = "req" /\ f.call \in ServiceCalls)
      BY <1>0, <2>1, <2>8, <3>1, <3>3, RoutesStay DEF ReadUnhandled
    <3> QED BY <3>2, <3>3
  <2>9. CASE ReadAnswer(f)
    <3>1. Grows
      BY <1>a, <2>1, <2>9 DEF ReadAnswer, Grows
    <3> QED BY <1>0, <2>1, <2>9, <3>1, RoutesStay DEF ReadAnswer
  <2> QED BY <1>10, <2>0, <2>5, <2>6, <2>7, <2>8, <2>9 DEF Read
<1>11. CASE RestartDealer
  <2> DEFINE T == {Frame("res", h.call) : h \in Retried}
             E == {[h EXCEPT !.at = "error"] : h \in Retried}
  <2>1. Grows
    BY <1>a, <1>11 DEF RestartDealer, Grows
  <2>2. \A h \in running : HandlerOK(h)'
    BY <1>0, <1>a, <1>b, <2>1, HandlerStays
  <2>3. Retried \subseteq running /\ \A h \in Retried : h.node = "slave" /\ h.op = "req"
    BY <1>b DEF Retried, Cancelled, Calls
  <2>4. \A e \in E : HandlerOK(e)'
    <3> SUFFICES ASSUME NEW h \in Retried PROVE HandlerOK([h EXCEPT !.at = "error"])'
      OBVIOUS
    <3> DEFINE g == [h EXCEPT !.at = "error"]
    <3>1. h \in Handlers /\ HandlerOK(h)'
      BY <1>a, <2>2, <2>3
    <3>2. g.gen = h.gen /\ g.node = h.node /\ g.op = h.op /\ g.call = h.call /\ g.waits = h.waits
      BY <3>1 DEF Handlers
    <3> HIDE DEF g
    <3>3. HandlerOK(g)'
      BY <3>1, <3>2 DEF HandlerOK, Caller, Gen, Peer
    <3> QED BY <3>3 DEF g
  <2>5. \A f \in T : FrameOK("slave", f)'
    <3> SUFFICES ASSUME NEW h \in Retried PROVE FrameOK("slave", Frame("res", h.call))'
      OBVIOUS
    <3> QED BY <2>2, <2>3 DEF HandlerOK, FrameOK, Frame
  <2>6. Elements(SetToSeq(T)) \subseteq T
    <3>1. SetToSeq(T) \in Seq(T)
      BY RetriedQueue
    <3> QED BY <3>1 DEF Elements
  <2>7. PICK k \in 0..Len(wire["slave"]) :
           wire' = [master |-> <<>>, slave |-> SubSeq(wire["slave"], 1, k)]
    BY <1>11 DEF RestartDealer
  <2>8. Elements(wire'["slave"]) \subseteq Elements(wire["slave"]) /\ Elements(wire'["master"]) = {}
    <3>1. wire["slave"] \in Seq(Frames)
      BY <1>a DEF Nodes
    <3>2. Elements(SubSeq(wire["slave"], 1, k)) \subseteq Elements(wire["slave"])
      BY <3>1, PrefixElements
    <3> QED BY <2>7, <3>2, EmptyElements
  <2>9. running' \subseteq running \cup E
    BY <1>11 DEF RestartDealer
  <2>10. out' = [out EXCEPT !["slave"] = SetToSeq(T)]
    BY <1>11 DEF RestartDealer
  <2> HIDE DEF T, E
  <2>11. /\ Elements(out'["slave"]) \subseteq T
         /\ Elements(out'["master"]) = Elements(out["master"])
    BY <1>a, <2>6, <2>10 DEF Nodes
  <2> QED BY <1>0, <2>1, <2>4, <2>5, <2>8, <2>9, <2>11, RoutesStay DEF Nodes
<1>12. CASE UNCHANGED vars
  <2>1. Grows
    BY <1>a, <1>12 DEF vars, Grows
  <2> QED BY <1>0, <1>12, <2>1, RoutesStay DEF vars
<1> QED
  BY <1>2, <1>3, <1>4, <1>5, <1>7, <1>8, <1>9, <1>10, <1>11, <1>12 DEF Next, HandlerStep

(***************************************************************************)
(* A call awaited in a handler.                                            *)
(***************************************************************************)

\* A step that answers no call and rebuilds nothing, and whose handlers await what handlers
\* of the same loop awaited before, or a call that is not answered.
LEMMA NestedStays ==
    ASSUME NestedUnanswered, UNCHANGED dealer,
           \A h \in running : h.waits # None => (call'[h.waits] = "ok" => call[h.waits] = "ok"),
           \A h \in running' : \/ h.waits = None
                               \/ call'[h.waits] # "ok"
                               \/ \E g \in running : g.node = h.node /\ g.gen = h.gen /\ g.waits = h.waits
    PROVE  NestedUnanswered'
BY DEF NestedUnanswered, Gen

\* Only Read answers a call, and it needs a loop that no handler blocks.
LEMMA NestedStep == TypeInv /\ RouteInv /\ NestedUnanswered /\ [Next]_vars => NestedUnanswered'
<1> SUFFICES ASSUME TypeInv, RouteInv, NestedUnanswered, [Next]_vars PROVE NestedUnanswered'
  OBVIOUS
<1>a. /\ call \in [Calls -> {"idle", "waiting", "ok", "failed"}]
      /\ running \subseteq Handlers /\ dealer \in Nat
  BY DispatchAssumption DEF DispatchAssumption, TypeInv, TypeOK
<1>b. \A h \in running : h.waits # None => h.waits \in Calls
  BY <1>a DEF Handlers
<1>1. ASSUME NEW c \in Calls, Issue(c)
      PROVE  /\ \A d \in Calls : call'[d] = "ok" => call[d] = "ok"
             /\ call'[c] # "ok" /\ UNCHANGED dealer
  BY <1>a, <1>1 DEF Issue
<1>2. ASSUME NEW c \in Calls, Call(c) PROVE NestedUnanswered'
  BY <1>1, <1>2, <1>b, NestedStays DEF Call
<1>3. ASSUME NEW c \in Calls, NEW h \in running, CallInHandler(h, c) PROVE NestedUnanswered'
  <2>1. [h EXCEPT !.waits = c].waits = c
    BY <1>a DEF Handlers
  <2> QED BY <1>1, <1>3, <1>b, <2>1, NestedStays DEF CallInHandler, Becomes
<1>4. ASSUME NEW c \in Calls, Timeout(c) PROVE NestedUnanswered'
  <2>1. \A d \in Calls : call'[d] = "ok" => call[d] = "ok"
    BY <1>a, <1>4 DEF Timeout
  <2> QED BY <1>4, <1>b, <2>1, NestedStays DEF Timeout
<1>5. ASSUME NEW h \in running, Resume(h) PROVE NestedUnanswered'
  <2>1. [h EXCEPT !.waits = None].waits = None
    BY <1>a DEF Handlers
  <2> QED BY <1>5, <2>1, NestedStays DEF Resume, Becomes
<1>6. ASSUME NEW h \in running, Return(h) \/ Throw(h) PROVE NestedUnanswered'
  <2>1. h.waits = None /\ UNCHANGED <<call, dealer>>
    BY <1>6 DEF Return, Throw
  <2>2. \A at : [h EXCEPT !.at = at].waits = None
    BY <1>a, <2>1 DEF Handlers
  <2>3. \A x \in running' : x \in running \/ x.waits = None
    BY <1>6, <2>2 DEF Return, Throw, Answer, Becomes, Ends
  <2> QED BY <2>1, <2>3, NestedStays
<1>7. ASSUME NEW m \in Nodes, Send(m) PROVE NestedUnanswered'
  BY <1>7, NestedStays DEF Send
<1>8. CASE Heartbeat \/ Publish
  BY <1>8, NestedStays DEF Heartbeat, Publish
<1>9. ASSUME NEW m \in Nodes, Read(m) PROVE NestedUnanswered'
  <2>0. PICK f : f = Head(wire[Peer(m)])
    OBVIOUS
  <2>1. UNCHANGED dealer /\ \A h \in running : h.node = m => h.gen # Gen(m)
    BY <1>9 DEF Read, Free
  <2>2. ASSUME NEW at, Starts(m, f, at), call' = call PROVE NestedUnanswered'
    <3>1. Handler(m, f.op, f.call, at).waits = None
      BY DEF Handler
    <3> QED BY <2>1, <2>2, <3>1, NestedStays DEF Starts
  <2>3. CASE ReadHeartbeat(m, f) \/ ReadHandled(m, f)
    BY <2>2, <2>3 DEF ReadHeartbeat, ReadHandled
  <2>4. CASE ReadUnhandled(m, f)
    BY <2>1, <2>2, <2>4, NestedStays DEF ReadUnhandled
  <2>5. CASE ReadAck(f)
    BY <2>1, <2>5, NestedStays DEF ReadAck
  <2>6. CASE ReadAnswer(f)
    <3>1. Peer(m) \in Nodes /\ Peer(Peer(m)) = m
      BY DEF Peer, Nodes
    <3>2. f \in Elements(wire[Peer(m)])
      BY <1>9, <2>0, ReadFrames DEF Read
    <3>3. Caller(f.call) = m
      BY <2>6, <3>1, <3>2 DEF RouteInv, FrameOK, ReadAnswer
    <3>4. \A h \in running : h.waits # None /\ h.gen = Gen(h.node) => h.waits # f.call
      BY <2>1, <3>3 DEF RouteInv, HandlerOK
    <3>5. \A d \in Calls : d # f.call => call'[d] = call[d]
      BY <1>a, <2>6 DEF ReadAnswer
    <3> QED BY <1>b, <2>1, <2>6, <3>4, <3>5 DEF ReadAnswer, NestedUnanswered, Gen
  <2> QED BY <1>9, <2>0, <2>3, <2>4, <2>5, <2>6 DEF Read
<1>10. CASE RestartDealer
  <2>1. /\ dealer' = dealer + 1
        /\ running' = (running \ Cancelled) \cup {[h EXCEPT !.at = "error"] : h \in Retried}
        /\ call' = [c \in Calls |-> IF c \in SlaveCalls /\ call[c] = "waiting" THEN "failed" ELSE call[c]]
    BY <1>10 DEF RestartDealer
  <2>2. ASSUME NEW h \in Retried
        PROVE  [h EXCEPT !.at = "error"].node = h.node /\ [h EXCEPT !.at = "error"].gen = h.gen
               /\ h \in running /\ h.node = "slave"
    <3>1. h \in running /\ h \in Handlers /\ h.node = "slave"
      BY <1>a DEF Retried, Cancelled
    <3> QED BY <3>1 DEF Handlers
  <2>3. ASSUME NEW h \in running, h.node = "slave" PROVE h.gen # dealer'
    <3>1. h.gen <= dealer /\ h.gen \in Nat
      BY <1>a, <2>3, DispatchAssumption DEF DispatchAssumption, RouteInv, HandlerOK, Gen, Handlers
    <3> QED BY <1>a, <2>1, <3>1
  <2>4. \A d \in Calls : call'[d] = "ok" => call[d] = "ok"
    BY <1>a, <2>1
  <2>5. ASSUME NEW h \in running', h.waits # None, h.gen = Gen(h.node)' PROVE call'[h.waits] # "ok"
    <3>0. h.node = "slave" => h.gen = dealer'
      BY <2>5 DEF Gen
    <3>1. h \in running /\ h.node # "slave"
      <4>1. CASE h \in running
        BY <2>3, <3>0, <4>1
      <4>2. CASE h \in {[x EXCEPT !.at = "error"] : x \in Retried}
        <5>1. PICK x \in Retried : h = [x EXCEPT !.at = "error"]
          BY <4>2
        <5>2. h.node = x.node /\ h.gen = x.gen /\ x \in running /\ x.node = "slave"
          BY <2>2, <5>1
        <5> QED BY <2>3, <3>0, <5>2
      <4> QED BY <2>1, <4>1, <4>2
    <3> QED BY <1>b, <2>4, <2>5, <3>1 DEF NestedUnanswered, Gen
  <2> QED BY <2>5 DEF NestedUnanswered
<1>11. CASE UNCHANGED vars
  BY <1>11, NestedStays DEF vars
<1> QED
  BY <1>2, <1>3, <1>4, <1>5, <1>6, <1>7, <1>8, <1>9, <1>10, <1>11 DEF Next, HandlerStep

\* The invariant holds of every state.
LEMMA DispatchInvariant == Spec => []DispatchInv
<1>1. Init => TypeInv
  BY InitType
<1>2. Init => RouteInv /\ NestedUnanswered
  BY EmptyElements DEF Init, RouteInv, NestedUnanswered
<1>3. DispatchInv /\ [Next]_vars => DispatchInv'
  BY TypeStep, RouteStep, NestedStep DEF DispatchInv
<1>4. Init => DispatchInv
  BY <1>1, <1>2 DEF DispatchInv
<1> QED BY <1>3, <1>4, PTL DEF Spec

\* Whatever is called, published, rebuilt or timed out: a call that a handler awaits is not
\* answered while the handler runs in the loop that would have to read the answer.
THEOREM NestedNotAnswered == Spec => []NestedUnanswered
<1>1. DispatchInv => NestedUnanswered
  BY DEF DispatchInv
<1> QED BY <1>1, DispatchInvariant, PTL

(***************************************************************************)
(* The calls implement RpcPromise.                                         *)
(***************************************************************************)

\* Every step is a step of the promise, or leaves calls and handlers served as they are.
LEMMA PromiseStep == TypeInv /\ RouteInv /\ [Next]_vars => [Promise!Next]_(Promise!vars)
<1> SUFFICES ASSUME TypeInv, RouteInv, [Next]_vars PROVE Promise!Next \/ UNCHANGED <<call, served>>
  BY DEF Promise!vars
<1>a. /\ call \in [Calls -> {"idle", "waiting", "ok", "failed"}] /\ served \subseteq Calls
      /\ wire \in [Nodes -> Seq(Frames)]
  BY DEF TypeInv, TypeOK
<1>1. ASSUME NEW c \in Calls, Issue(c) PROVE Promise!Next
  <2>1. Promise!Issue(c)
    BY <1>1 DEF Issue, Promise!Issue
  <2> QED BY <2>1 DEF Promise!Next
<1>2. ASSUME NEW S \in SUBSET Calls, UNCHANGED served, \A c \in S : call[c] = "waiting",
             call' = [c \in Calls |-> IF c \in S THEN "failed" ELSE call[c]]
      PROVE  Promise!Next
  <2>1. Promise!Fail(S)
    BY <1>2 DEF Promise!Fail
  <2> QED BY <2>1 DEF Promise!Next
<1>3. ASSUME NEW c \in Calls, Timeout(c) PROVE Promise!Next
  <2>1. call' = [d \in Calls |-> IF d \in {c} THEN "failed" ELSE call[d]]
    BY <1>a, <1>3 DEF Timeout
  <2> QED BY <1>2, <1>3, <2>1 DEF Timeout
<1>4. ASSUME NEW m \in Nodes, Read(m) PROVE Promise!Next \/ UNCHANGED <<call, served>>
  <2>0. PICK f : f = Head(wire[Peer(m)])
    OBVIOUS
  <2>1. f \in Frames /\ f \in Elements(wire[Peer(m)]) /\ Peer(m) \in Nodes
    BY <1>4, <2>0, ReadFrames, ReadType DEF Read, Peer, Nodes
  <2>2. FrameOK(Peer(m), f)
    BY <2>1 DEF RouteInv
  <2>3. f.op \in {"req", "res"} => f.call \in Calls
    BY <2>1 DEF Frames
  <2>4. ASSUME f.op = "req", served' = served \cup {f.call}, UNCHANGED call
        PROVE  Promise!Next \/ UNCHANGED <<call, served>>
    <3>1. CASE f.call \in served
      BY <2>4, <3>1
    <3>2. CASE f.call \notin served
      <4>1. f.call \in Calls /\ Promise!Serve(f.call)
        BY <2>2, <2>3, <2>4, <3>2 DEF FrameOK, Promise!Serve
      <4> QED BY <4>1 DEF Promise!Next
    <3> QED BY <3>1, <3>2
  <2>5. CASE ReadHandled(m, f)
    BY <2>4, <2>5 DEF ReadHandled
  <2>6. CASE ReadUnhandled(m, f)
    BY <2>4, <2>6 DEF ReadUnhandled
  <2>7. CASE ReadAnswer(f)
    <3>1. CASE Pending(f.call)
      <4>1. f.call \in Calls /\ Promise!Resolve(f.call)
        BY <2>2, <2>3, <2>7, <3>1 DEF ReadAnswer, Pending, FrameOK, Promise!Resolve
      <4> QED BY <4>1 DEF Promise!Next
    <3>2. CASE ~Pending(f.call)
      BY <2>7, <3>2 DEF ReadAnswer
    <3> QED BY <3>1, <3>2
  <2>8. CASE ReadHeartbeat(m, f) \/ ReadAck(f)
    BY <2>8 DEF ReadHeartbeat, ReadAck
  <2> QED BY <1>4, <2>0, <2>5, <2>6, <2>7, <2>8 DEF Read
<1>5. CASE RestartDealer
  <2> DEFINE S == {c \in SlaveCalls : call[c] = "waiting"}
  <2>1. S \in SUBSET Calls
    BY DEF Calls
  <2>2. call' = [c \in Calls |-> IF c \in S THEN "failed" ELSE call[c]]
    BY <1>5 DEF RestartDealer
  <2> QED BY <1>2, <1>5, <2>1, <2>2 DEF RestartDealer
<1>6. ASSUME NEW h \in running, HandlerStep(h) PROVE UNCHANGED <<call, served>>
  BY <1>6 DEF HandlerStep, Resume, Return, Throw
<1>7. ASSUME NEW m \in Nodes, Send(m) PROVE UNCHANGED <<call, served>>
  BY <1>7 DEF Send
<1>8. CASE Heartbeat \/ Publish
  BY <1>8 DEF Heartbeat, Publish
<1>9. CASE UNCHANGED vars
  BY <1>9 DEF vars
<1> QED
  BY <1>1, <1>3, <1>4, <1>5, <1>6, <1>7, <1>8, <1>9 DEF Next, Call, CallInHandler

\* RPC and service calls, of both sides and from handlers, settle once and are resolved only
\* with an answer produced for them, whatever loops, queues and rebuilds do.
THEOREM ImplementsPromise == Spec => PromiseSpec
<1>1. Init => Promise!Init
  BY DEF Init, Promise!Init
<1>2. TypeInv /\ RouteInv /\ [Next]_vars => [Promise!Next]_(Promise!vars)
  BY PromiseStep
<1>3. DispatchInv => TypeInv /\ RouteInv
  BY DEF DispatchInv
<1> QED BY <1>1, <1>2, <1>3, DispatchInvariant, PTL DEF Spec, PromiseSpec, Promise!Spec
=============================================================================
