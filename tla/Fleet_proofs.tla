---------------------------- MODULE Fleet_proofs ----------------------------
(***************************************************************************)
(* Proofs about Fleet, for any slaves, keys, ids and payloads and any      *)
(* number of messages and changes: the three places where a master keeps   *)
(* a key agree, and no frame is ever misread.                              *)
(***************************************************************************)
EXTENDS Fleet, SequenceTheorems, FiniteSetTheorems, TLAPS

\* The keys of the master are functions on the slaves, and a key of the map is a
\* key or missing: what makes updates of one slave's keys visible to the provers.
KeyTypes ==
    /\ keyMap \in [Slaves -> Keys \cup {Empty}]
    /\ DOMAIN cache = Slaves
    /\ DOMAIN table = Slaves

KeyInv == KeyTypes /\ KeysConsistent

\* While the places agree, the key that is resolved is the key that is configured:
\* a cached one cannot be stale.
LEMMA ResolvesConfigured ==
  ASSUME KeyInv, Master \in secure, NEW s \in Slaves
  PROVE  ResolveSlaveKeys(s) = Configured(s)
BY DEF KeyInv, KeysConsistent, ResolveSlaveKeys

\* Resolving the keys of any slaves, as every send does, keeps the places in order.
LEMMA ResolvingKeeps ==
  ASSUME KeyInv, NEW S,
         cache' = Cached(S) \/ UNCHANGED cache,
         table' = Refreshed(S) \/ UNCHANGED table,
         UNCHANGED <<fixed, keyMap>>
  PROVE  KeyInv'
<1>1. KeyTypes'
  BY DEF KeyInv, KeyTypes, Cached, Refreshed
<1>2. ASSUME Master \in secure', NEW s \in Slaves
      PROVE  /\ cache'[s] \in {Empty, Configured(s)'}
             /\ table'[s] # Absent => table'[s] = Configured(s)' /\ table'[s] # Empty
  <2>1. Master \in secure /\ Configured(s)' = Configured(s)
    BY <1>2 DEF fixed, Configured
  <2>2. ResolveSlaveKeys(s) = Configured(s)
    BY <2>1, ResolvesConfigured
  <2>3. /\ cache[s] \in {Empty, Configured(s)}
        /\ table[s] # Absent => table[s] = Configured(s) /\ table[s] # Empty
    BY <2>1 DEF KeyInv, KeysConsistent
  <2>4. cache'[s] \in {cache[s], Configured(s)}
    BY <2>2 DEF Cached
  <2>5. table'[s] = table[s]
    BY <2>2, <2>3 DEF Refreshed
  <2> QED
    BY <2>1, <2>3, <2>4, <2>5
<1> QED
  BY <1>1, <1>2 DEF KeyInv, KeysConsistent

\* Nothing that leaves the keys of the master alone disturbs them.
LEMMA UntouchedKeeps ==
  ASSUME KeyInv, UNCHANGED <<fixed, keyMap, cache, table>>
  PROVE  KeyInv'
BY DEF KeyInv, KeyTypes, KeysConsistent, Configured, fixed

\* Removing the entry of a slave keeps the places in order.
LEMMA RemovalKeeps ==
  ASSUME KeyInv, NEW s \in Slaves, table' = Removed(s), UNCHANGED <<fixed, keyMap, cache>>
  PROVE  KeyInv'
BY DEF KeyInv, KeyTypes, KeysConsistent, Configured, fixed, Removed, Entry

\* A valid frame enters its slave with the key that is configured for it.
LEMMA EntryKeeps ==
  ASSUME KeyInv, NEW s \in Slaves, ~Unkeyed(s), Master \in secure,
         cache' = Cached({s}), table' = Entry(s, ResolveSlaveKeys(s)),
         UNCHANGED <<fixed, keyMap>>
  PROVE  KeyInv'
<1>1. ResolveSlaveKeys(s) = Configured(s) /\ Configured(s) # Empty
  BY ResolvesConfigured DEF Unkeyed
<1>2. \A t \in Slaves : Configured(t)' = Configured(t)
  BY DEF Configured, fixed
<1> QED
  BY <1>1, <1>2 DEF KeyInv, KeyTypes, KeysConsistent, Cached, Entry, fixed

\* A PUBLISH drops the slaves without a key, and resolves those of the others.
LEMMA PublishKeeps ==
  ASSUME KeyInv, NEW payload, Publish(payload)
  PROVE  KeyInv'
<1> DEFINE online == {s \in Slaves : table[s] # Absent}
           keyed == {s \in online : ~Unkeyed(s)}
           Dropped == [s \in Slaves |-> IF s \in online \ keyed THEN Absent
                                        ELSE Refreshed(online)[s]]
<1>1. cache' = Cached(online) /\ table' = Dropped /\ UNCHANGED <<fixed, keyMap>>
  BY DEF Publish, Send
<1>2. KeyTypes'
  BY <1>1 DEF KeyInv, KeyTypes, Cached
<1>3. ASSUME Master \in secure', NEW s \in Slaves
      PROVE  /\ cache'[s] \in {Empty, Configured(s)'}
             /\ table'[s] # Absent => table'[s] = Configured(s)' /\ table'[s] # Empty
  <2>1. Master \in secure /\ Configured(s)' = Configured(s)
    BY <1>1, <1>3 DEF fixed, Configured
  <2>2. ResolveSlaveKeys(s) = Configured(s)
    BY <2>1, ResolvesConfigured
  <2>3. /\ cache[s] \in {Empty, Configured(s)}
        /\ table[s] # Absent => table[s] = Configured(s) /\ table[s] # Empty
    BY <2>1 DEF KeyInv, KeysConsistent
  <2>4. cache'[s] \in {cache[s], Configured(s)}
    BY <1>1, <2>2 DEF Cached
  <2>5. table'[s] \in {Absent, table[s]}
    BY <1>1, <2>2, <2>3 DEF Refreshed
  <2> QED
    BY <2>1, <2>3, <2>4, <2>5
<1> QED
  BY <1>2, <1>3 DEF KeyInv, KeysConsistent

\* Frames of a slave: each of the four ways to receive one keeps the places in order.
LEMMA ReceivingKeeps ==
  ASSUME KeyInv, NEW s \in Slaves, MasterReceives(s)
  PROVE  KeyInv'
<1>1. PICK p : \/ ReceivesUnregister(s, p) \/ ReceivesUnkeyed(s, p)
               \/ ReceivesSecure(s, p) \/ ReceivesPlain(s, p)
  BY DEF MasterReceives
<1>2. UNCHANGED <<fixed, keyMap>>
  BY DEF MasterReceives
<1>3. CASE ReceivesUnregister(s, p) \/ ReceivesUnkeyed(s, p)
  BY <1>2, <1>3, RemovalKeeps DEF ReceivesUnregister, ReceivesUnkeyed
<1>4. CASE ReceivesSecure(s, p)
  <2>1. CASE Verifies(p, ResolveSlaveKeys(s), s)
    BY <1>2, <1>4, <2>1, EntryKeeps DEF ReceivesSecure
  <2>2. CASE ~Verifies(p, ResolveSlaveKeys(s), s)
    BY <1>2, <1>4, <2>2, ResolvingKeeps DEF ReceivesSecure
  <2> QED
    BY <2>1, <2>2
<1>5. CASE ReceivesPlain(s, p)
  BY <1>2, <1>5 DEF ReceivesPlain, KeyInv, KeyTypes, KeysConsistent, Entry, fixed
<1> QED
  BY <1>1, <1>3, <1>4, <1>5

\* addAuthKey() reaches all three places at once, and no other slave's.
LEMMA AddingKeeps ==
  ASSUME KeyInv, NEW s \in Slaves, NEW k \in Keys, AddAuthKey(s, k)
  PROVE  KeyInv'
<1>1. k # Empty
  BY FleetAssumption DEF FleetAssumption
<1>2. Configured(s)' = k /\ \A t \in Slaves \ {s} : Configured(t)' = Configured(t)
  BY <1>1 DEF AddAuthKey, Change, Configured, KeyInv, KeyTypes, fixed
<1> QED
  BY <1>1, <1>2
     DEF AddAuthKey, Change, Recached, Entry, KeyInv, KeyTypes, KeysConsistent, fixed

\* removeAuthKey() takes the key out of all three.
LEMMA RemovingKeeps ==
  ASSUME KeyInv, NEW s \in Slaves, RemoveAuthKey(s)
  PROVE  KeyInv'
<1>1. \A t \in Slaves \ {s} : Configured(t)' = Configured(t)
  BY DEF RemoveAuthKey, Change, Configured, KeyInv, KeyTypes, fixed
<1> QED
  BY <1>1
     DEF RemoveAuthKey, Change, Uncached, Removed, Entry, KeyInv, KeyTypes, KeysConsistent, fixed

\* Every step keeps the places in order.
LEMMA KeyStep == KeyInv /\ [Next]_vars => KeyInv'
<1> SUFFICES ASSUME KeyInv, [Next]_vars PROVE KeyInv'
  OBVIOUS
<1>1. CASE Sending
  <2>1. ASSUME NEW payload \in Payloads, Publish(payload) PROVE KeyInv'
    BY <2>1, PublishKeeps
  <2>2. ASSUME NEW payload \in Payloads, NEW s \in Slaves, RequestTo(s, payload) PROVE KeyInv'
    BY <2>2, ResolvingKeeps DEF RequestTo, Send
  <2>3. ASSUME NEW payload \in Payloads, NEW s \in Slaves, Request(s, payload) PROVE KeyInv'
    BY <2>3, UntouchedKeeps DEF Request, Send, master
  <2> QED
    BY <1>1, <2>1, <2>2, <2>3 DEF Sending
<1>2. CASE Changing
  <2>1. ASSUME NEW s \in Slaves, RemoveAuthKey(s) PROVE KeyInv'
    BY <2>1, RemovingKeeps
  <2>2. ASSUME NEW s \in Slaves, RestartDealer(s) PROVE KeyInv'
    BY <2>2, UntouchedKeeps DEF RestartDealer, Change, Connects, master
  <2>3. ASSUME NEW s \in Slaves, NEW k \in Keys, AddAuthKey(s, k) PROVE KeyInv'
    BY <2>3, AddingKeeps
  <2>4. ASSUME NEW s \in Slaves, NEW k \in Keys, RestartSlave(s, k) PROVE KeyInv'
    BY <2>4, UntouchedKeeps DEF RestartSlave, Change, Connects, master
  <2>5. ASSUME NEW id \in MasterIds, RestartMaster(id) PROVE KeyInv'
    BY <2>5 DEF RestartMaster, Change, KeyInv, KeyTypes, KeysConsistent
  <2> QED
    BY <1>2, <2>1, <2>2, <2>3, <2>4, <2>5 DEF Changing
<1>3. ASSUME NEW n \in Nodes, Replying(n) PROVE KeyInv'
  <2>1. ASSUME NEW r, NEW payload, MasterReplies(r, payload) PROVE KeyInv'
    BY <2>1, ResolvingKeeps DEF MasterReplies
  <2>2. ASSUME NEW r, NEW payload, SlaveReplies(n, r, payload) PROVE KeyInv'
    BY <2>2, UntouchedKeeps DEF SlaveReplies, master
  <2> QED
    BY <1>3, <2>1, <2>2 DEF Replying
<1>4. ASSUME NEW s \in Slaves, Heartbeat(s) \/ SlaveReceives(s) PROVE KeyInv'
  BY <1>4, UntouchedKeeps DEF Heartbeat, SlaveReceives, master
<1>5. ASSUME NEW s \in Slaves, MasterReceives(s) PROVE KeyInv'
  BY <1>5, ReceivingKeeps
<1>6. ASSUME NEW s \in Slaves, Evict(s) PROVE KeyInv'
  BY <1>6, RemovalKeeps DEF Evict
<1>7. CASE UNCHANGED vars
  BY <1>7, UntouchedKeeps DEF vars, master
<1> QED
  BY <1>1, <1>2, <1>3, <1>4, <1>5, <1>6, <1>7 DEF Next

\* Whatever frames arrive, keys change and nodes restart, in whatever order: the
\* key a master has cached for a slave and the key in its entry are the key now
\* configured for it, and a slave without a key has no entry.
THEOREM KeysStayConsistent == Spec => []KeysConsistent
<1>1. Init => KeyInv
  BY DEF Init, KeyInv, KeyTypes, KeysConsistent
<1>2. KeyInv => KeysConsistent
  BY DEF KeyInv
<1> QED
  BY <1>1, <1>2, KeyStep, PTL DEF Spec

(***************************************************************************)
(* Sequences, and what a control frame is made of.                         *)
(***************************************************************************)

\* What follows the front of a concatenation is its second part.
LEMMA AfterFront ==
    ASSUME NEW S, NEW s \in Seq(S), NEW t \in Seq(S)
    PROVE  /\ SubSeq(s \o t, Len(s) + 1, Len(s \o t)) = t
           /\ SubSeq(s \o t, 1, Len(s)) = s
<1>1. /\ s \o t \in Seq(S) /\ Len(s \o t) = Len(s) + Len(t) /\ Len(s) \in Nat /\ Len(t) \in Nat
      /\ \A i \in 1..(Len(s) + Len(t)) : (s \o t)[i] = IF i <= Len(s) THEN s[i] ELSE t[i - Len(s)]
  BY ConcatProperties, LenProperties
<1>2. SubSeq(s \o t, Len(s) + 1, Len(s \o t)) = t
  <2> DEFINE r == SubSeq(s \o t, Len(s) + 1, Len(s) + Len(t))
  <2>1. \A i \in (Len(s) + 1)..(Len(s) + Len(t)) : (s \o t)[i] \in S
    <3>1. \A i \in 1..Len(s \o t) : (s \o t)[i] \in S
      BY <1>1, ElementOfSeq
    <3> QED
      BY <1>1, <3>1
  <2>2. /\ r \in Seq(S)
        /\ Len(r) = IF Len(s) + 1 <= Len(s) + Len(t) THEN (Len(s) + Len(t)) - (Len(s) + 1) + 1 ELSE 0
        /\ \A i \in 1..((Len(s) + Len(t)) - (Len(s) + 1) + 1) : r[i] = (s \o t)[(Len(s) + 1) + i - 1]
    BY <1>1, <2>1, SubSeqProperties
  <2>3. Len(r) = Len(t)
    BY <1>1, <2>2
  <2>4. ASSUME NEW i \in 1..Len(r) PROVE r[i] = t[i]
    <3>1. r[i] = (s \o t)[(Len(s) + 1) + i - 1]
      BY <1>1, <2>2, <2>3, <2>4
    <3>2. (Len(s) + 1) + i - 1 = Len(s) + i /\ Len(s) + i \in 1..(Len(s) + Len(t))
      BY <1>1, <2>3, <2>4
    <3>3. ~(Len(s) + i <= Len(s)) /\ (Len(s) + i) - Len(s) = i
      BY <1>1, <2>3, <2>4
    <3> QED
      BY <1>1, <3>1, <3>2, <3>3
  <2>5. r = t
    BY <2>2, <2>3, <2>4, SeqEqual
  <2> QED
    BY <1>1, <2>5
<1>3. SubSeq(s \o t, 1, Len(s)) = s
  <2> DEFINE r == SubSeq(s \o t, 1, Len(s))
  <2>1. \A i \in 1..Len(s) : (s \o t)[i] = s[i] /\ s[i] \in S
    BY <1>1, ElementOfSeq
  <2>2. r \in Seq(S) /\ Len(r) = Len(s) /\ \A i \in 1..Len(s) : r[i] = s[i]
    <3>1. /\ r \in Seq(S)
          /\ Len(r) = IF 1 <= Len(s) THEN Len(s) - 1 + 1 ELSE 0
          /\ \A i \in 1..(Len(s) - 1 + 1) : r[i] = (s \o t)[1 + i - 1]
      BY <1>1, <2>1, SubSeqProperties
    <3>2. Len(r) = Len(s)
      BY <1>1, <3>1
    <3>3. ASSUME NEW i \in 1..Len(s) PROVE r[i] = s[i]
      <4>1. i \in 1..(Len(s) - 1 + 1) /\ 1 + i - 1 = i
        BY <1>1, <3>3
      <4> QED
        BY <2>1, <3>1, <3>3, <4>1
    <3> QED
      BY <3>1, <3>2, <3>3
  <2> QED
    BY <2>2, SeqEqual
<1> QED
  BY <1>2, <1>3

\* Two frames in front, and what they are.
LEMMA Pair ==
    ASSUME NEW S, NEW a \in S, NEW b \in S
    PROVE  /\ <<a, b>> \in Seq(S) /\ Len(<<a, b>>) = 2
           /\ <<a, b>>[1] = a /\ <<a, b>>[2] = b
OBVIOUS

\* The layout of a control frame: prefix and action, the head, the rest.
LEMMA Layout ==
    ASSUME NEW S, PREFIX \in S, NEW action \in S, NEW head \in Seq(S), NEW rest \in Seq(S),
           NEW f, f = (<<PREFIX, action>> \o head) \o rest
    PROVE  /\ Len(f) = 2 + Len(head) + Len(rest)
           /\ f[1] = PREFIX /\ f[2] = action
           /\ SubSeq(f, 3, 2 + Len(head)) = head
           /\ SubSeq(f, 3 + Len(head), Len(f)) = rest
           /\ \A i \in 1..Len(head) : f[2 + i] = head[i]
<1> DEFINE two == <<PREFIX, action>>
           front == two \o head
<1>1. two \in Seq(S) /\ Len(two) = 2 /\ two[1] = PREFIX /\ two[2] = action
  BY Pair
<1>2. /\ front \in Seq(S) /\ Len(front) = 2 + Len(head) /\ Len(head) \in Nat
      /\ \A i \in 1..(2 + Len(head)) : front[i] = IF i <= 2 THEN two[i] ELSE head[i - 2]
  BY <1>1, ConcatProperties, LenProperties
<1>3. /\ f \in Seq(S) /\ Len(f) = 2 + Len(head) + Len(rest) /\ Len(rest) \in Nat
      /\ \A i \in 1..(2 + Len(head) + Len(rest)) :
            f[i] = IF i <= 2 + Len(head) THEN front[i] ELSE rest[i - (2 + Len(head))]
  BY <1>2, ConcatProperties, LenProperties
<1>4. ASSUME NEW i \in 1..(2 + Len(head)) PROVE f[i] = IF i <= 2 THEN two[i] ELSE head[i - 2]
  <2>1. i \in 1..(2 + Len(head) + Len(rest)) /\ i <= 2 + Len(head)
    BY <1>2, <1>3, <1>4
  <2> QED
    BY <1>2, <1>3, <2>1
<1>5. f[1] = PREFIX /\ f[2] = action
  <2>1. 1 \in 1..(2 + Len(head)) /\ 2 \in 1..(2 + Len(head))
    BY <1>2
  <2> QED
    BY <1>1, <1>4, <2>1
<1>6. ASSUME NEW i \in 1..Len(head) PROVE f[2 + i] = head[i]
  <2>1. 2 + i \in 1..(2 + Len(head)) /\ ~(2 + i <= 2) /\ (2 + i) - 2 = i
    BY <1>2, <1>6
  <2> QED
    BY <1>4, <2>1
<1>7. SubSeq(f, 3 + Len(head), Len(f)) = rest
  <2>1. 3 + Len(head) = Len(front) + 1
    BY <1>2
  <2> QED
    BY <1>2, <2>1, AfterFront
<1>8. SubSeq(f, 3, 2 + Len(head)) = head
  <2>1. SubSeq(f, 1, 2 + Len(head)) = front
    BY <1>2, AfterFront
  <2> DEFINE r == SubSeq(f, 3, 2 + Len(head))
  <2>2. \A i \in 3..(2 + Len(head)) : f[i] \in S
    <3>1. \A i \in 1..Len(f) : f[i] \in S
      BY <1>3, ElementOfSeq
    <3> QED
      BY <1>2, <1>3, <3>1
  <2>3. /\ r \in Seq(S)
        /\ Len(r) = IF 3 <= 2 + Len(head) THEN (2 + Len(head)) - 3 + 1 ELSE 0
        /\ \A i \in 1..((2 + Len(head)) - 3 + 1) : r[i] = f[3 + i - 1]
    BY <1>2, <2>2, SubSeqProperties
  <2>4. Len(r) = Len(head)
    BY <1>2, <2>3
  <2>5. ASSUME NEW i \in 1..Len(r) PROVE r[i] = head[i]
    <3>1. i \in 1..((2 + Len(head)) - 3 + 1) /\ 3 + i - 1 = 2 + i /\ i \in 1..Len(head)
      BY <1>2, <2>4, <2>5
    <3> QED
      BY <1>6, <2>3, <3>1
  <2> QED
    BY <2>3, <2>4, <2>5, SeqEqual
<1> QED
  BY <1>3, <1>5, <1>6, <1>7, <1>8

\* A control frame is cut where it was put together: head, proof and payload.  A
\* payload without a proof in front must not look like one.
LEMMA ControlParsed ==
    ASSUME NEW S, PREFIX \in S, AUTH \in S, NEW action \in S, NEW head \in Seq(S),
           NEW proof \in S, NEW body \in Seq(S),
           proof = Empty => body = <<>> \/ body[1] # AUTH
    PROVE  LET f == Control(action, head, proof, body) IN
           /\ \A kind : AfterHead(kind, f, Len(head)) = Parsed(kind, head, proof, body)
           /\ Len(f) \in Nat /\ Len(f) >= 2 + Len(head) /\ f[1] = PREFIX /\ f[2] = action
           /\ (\A i \in 1..Len(head) : head[i] # Empty) => Named(f, Len(head))
<1> DEFINE f == Control(action, head, proof, body)
           rest == Auth(proof) \o body
<1>1. Auth(proof) \in Seq(S)
  BY Pair, EmptySeq DEF Auth
<1>2. rest \in Seq(S) /\ Len(rest) \in Nat /\ Len(head) \in Nat /\ Len(body) \in Nat
  BY <1>1, ConcatProperties, LenProperties
<1>3. f = (<<PREFIX, action>> \o head) \o rest
  <2>1. <<PREFIX, action>> \o head \in Seq(S)
    BY Pair, ConcatProperties
  <2> QED
    BY <1>1, <2>1, ConcatAssociative DEF Control
<1>4. /\ Len(f) = 2 + Len(head) + Len(rest)
      /\ f[1] = PREFIX /\ f[2] = action
      /\ SubSeq(f, 3, 2 + Len(head)) = head
      /\ SubSeq(f, 3 + Len(head), Len(f)) = rest
      /\ \A i \in 1..Len(head) : f[2 + i] = head[i]
  <2> HIDE DEF rest
  <2> QED
    BY ONLY PREFIX \in S, <1>2, <1>3, Layout
<1>5. \A kind : AfterHead(kind, f, Len(head)) =
        IF Len(rest) >= 2 /\ rest[1] = AUTH
        THEN Parsed(kind, head, rest[2], SubSeq(rest, 3, Len(rest)))
        ELSE Parsed(kind, head, Empty, rest)
  BY <1>4 DEF AfterHead
<1>6. ASSUME proof = Empty
      PROVE  \A kind : AfterHead(kind, f, Len(head)) = Parsed(kind, head, proof, body)
  <2>1. rest = body
    BY <1>6, ConcatEmptySeq DEF Auth
  <2>2. ~(Len(rest) >= 2 /\ rest[1] = AUTH)
    BY <1>2, <1>6, <2>1
  <2> QED
    BY <1>5, <1>6, <2>1, <2>2
<1>7. ASSUME proof # Empty
      PROVE  \A kind : AfterHead(kind, f, Len(head)) = Parsed(kind, head, proof, body)
  <2> DEFINE marked == <<AUTH, proof>>
  <2>1. rest = marked \o body /\ marked \in Seq(S) /\ Len(marked) = 2
    BY <1>7, Pair DEF Auth
  <2>2. /\ Len(rest) = 2 + Len(body)
        /\ \A i \in 1..(2 + Len(body)) : rest[i] = IF i <= 2 THEN marked[i] ELSE body[i - 2]
    BY <2>1, ConcatProperties
  <2>3. rest[1] = AUTH /\ rest[2] = proof
    <3>1. 1 \in 1..(2 + Len(body)) /\ 2 \in 1..(2 + Len(body))
      BY <1>2
    <3> QED
      BY <2>2, <3>1, Pair
  <2>4. SubSeq(rest, 3, Len(rest)) = body
    BY <2>1, AfterFront
  <2>5. Len(rest) >= 2
    BY <1>2, <2>2
  <2> QED
    BY <1>5, <2>3, <2>4, <2>5
<1>8. ASSUME \A i \in 1..Len(head) : head[i] # Empty
      PROVE  Named(f, Len(head))
  <2>1. ASSUME NEW i \in 3..(2 + Len(head)) PROVE f[i] # Empty
    <3>1. i - 2 \in 1..Len(head) /\ 2 + (i - 2) = i
      BY <1>2, <2>1
    <3> QED
      BY <1>4, <1>8, <3>1
  <2> QED
    BY <1>2, <1>4, <2>1 DEF Named
<1>9. Len(f) \in Nat /\ Len(f) >= 2 + Len(head)
  BY <1>2, <1>4
<1> QED
  BY <1>4, <1>6, <1>7, <1>8, <1>9

\* The heads of each kind of frame.
Heads(kind) ==
    CASE kind \in {"publish", "push"} -> {<<Topic>>}
      [] kind \in {"request", "response"} -> {<<i>> : i \in 1..MaxSends}
      [] kind \in {"service_request", "service_response"} -> {<<i, Service>> : i \in 1..MaxSends}
      [] OTHER -> {<<>>}

\* What a sender may mean.
Meaning(g) ==
    /\ g.key \in Keys \cup {Empty}
    /\ g.kind \in Kinds
    /\ g.head \in Heads(g.kind)
    /\ g.payload \in IF g.kind \in Data THEN Payloads ELSE {<<>>}

\* The frames behind the head.
Body(g) ==
    IF g.key = Empty \/ g.kind \notin Data THEN g.payload
    ELSE SealPayloadFrames(g.key, Signed(g.kind), g.from, Subject(g.kind, g.head), g.payload)

ProofOf(g) ==
    IF g.key = Empty \/ g.kind \in Plain THEN Empty
    ELSE EncodeAuthProofToken(g.key, Signed(g.kind), g.from, Subject(g.kind, g.head), Body(g))

\* A proof is never the empty string.
ProofsAreNotEmpty ==
    \A key, kind, node, subject, digest :
        EncodeAuthProofToken(key, kind, node, subject, digest) # Empty

\* The action of each kind of frame.
ActionOf(kind) ==
    CASE kind = "request" -> "req" [] kind = "response" -> "res"
      [] kind = "publish" -> "pub" [] kind = "service_request" -> "svc_req"
      [] kind = "service_response" -> "svc_res" [] OTHER -> kind

\* The kinds of frames have the heads they are said to have.
LEMMA HeadCases ==
    ASSUME NEW kind \in Kinds, NEW head \in Heads(kind)
    PROVE  \/ kind \in {"publish", "push"} /\ head = <<Topic>>
           \/ kind \in {"request", "response"} /\ \E i \in 1..MaxSends : head = <<i>>
           \/ kind \in {"service_request", "service_response"} /\ \E i \in 1..MaxSends : head = <<i, Service>>
           \/ kind \in {"register", "unregister", "heartbeat", "heartbeat_ack"} /\ head = <<>>
BY DEF Kinds, Heads, Data

\* Every frame is a control frame with its head.
LEMMA BuildIsControl ==
    ASSUME NEW kind \in Kinds, NEW head \in Heads(kind), NEW proof, NEW body,
           kind \notin Data => body = <<>>,
           kind \in Plain => proof = Empty
    PROVE  Build(kind, head, body, proof) = Control(ActionOf(kind), head, proof, body)
<1>1. CASE kind \in {"register", "unregister", "heartbeat", "heartbeat_ack"}
  BY <1>1, HeadCases
     DEF Build, ActionOf, Data, Plain, BuildRegisterFrames, BuildUnregisterFrames,
     BuildHeartbeatFrames, BuildHeartbeatAckFrames
<1>2. CASE kind \in {"publish", "push"}
  <2>1. head = <<Topic>> /\ <<head[1]>> = head
    BY <1>2, HeadCases
  <2> QED
    BY <1>2, <2>1 DEF Build, ActionOf, BuildPublishFrames, BuildPushFrames
<1>3. CASE kind \in {"request", "response"}
  <2>1. <<head[1]>> = head
    BY <1>3, HeadCases
  <2> QED
    BY <1>3, <2>1 DEF Build, ActionOf, BuildRequestFrames, BuildResponseFrames
<1>4. CASE kind \in {"service_request", "service_response"}
  <2>1. <<head[1], head[2]>> = head
    BY <1>4, HeadCases
  <2> QED
    BY <1>4, <2>1 DEF Build, ActionOf, BuildServiceRequestFrames, BuildServiceResponseFrames
<1> QED
  BY <1>1, <1>2, <1>3, <1>4 DEF Kinds, Data

HeadLength(kind) ==
    IF kind \in {"service_request", "service_response"} THEN 2
    ELSE IF kind \in {"publish", "push", "request", "response"} THEN 1 ELSE 0

\* A head is a sequence without empty frames, of the length the parser expects.
LEMMA HeadFrames ==
    ASSUME NEW kind \in Kinds, NEW head \in Heads(kind)
    PROVE  /\ head \in Seq((1..MaxSends) \cup {Topic, Service})
           /\ Len(head) = HeadLength(kind)
           /\ kind \notin {"publish", "push"} => \A i \in 1..Len(head) : head[i] # Empty
<1> DEFINE T == (1..MaxSends) \cup {Topic, Service}
<1>0. Service # Empty /\ \A i \in 1..MaxSends : i # Empty
  BY FleetAssumption DEF FleetAssumption
<1>1. CASE kind \in {"publish", "push"}
  <2>1. head = <<Topic>> /\ Topic \in T
    BY <1>1, HeadCases
  <2>2. Len(head) = 1 /\ head \in Seq(T)
    BY <2>1
  <2> QED
    BY <1>1, <2>2 DEF HeadLength
<1>2. CASE kind \in {"request", "response"}
  <2>1. PICK i \in 1..MaxSends : head = <<i>>
    BY <1>2, HeadCases
  <2>2. i \in T
    BY <2>1
  <2>3. Len(head) = 1 /\ head[1] = i /\ head \in Seq(T)
    BY <2>1, <2>2
  <2> QED
    BY <1>0, <1>2, <2>3 DEF HeadLength
<1>3. CASE kind \in {"service_request", "service_response"}
  <2>1. PICK i \in 1..MaxSends : head = <<i, Service>>
    BY <1>3, HeadCases
  <2>2. i \in T /\ Service \in T
    BY <2>1
  <2>3. Len(head) = 2 /\ head[1] = i /\ head[2] = Service /\ head \in Seq(T)
    BY <2>1, <2>2, Pair
  <2>4. \A j \in 1..2 : j = 1 \/ j = 2
    OBVIOUS
  <2> QED
    BY <1>0, <1>3, <2>1, <2>3, <2>4 DEF HeadLength
<1>4. CASE kind \in {"register", "unregister", "heartbeat", "heartbeat_ack"}
  <2>1. head = <<>>
    BY <1>4, HeadCases
  <2>2. Len(head) = 0 /\ head \in Seq(T) /\ \A i \in 1..0 : head[i] # Empty
    BY <2>1, EmptySeq
  <2> QED
    BY <1>4, <2>2 DEF HeadLength
<1> QED
  BY <1>1, <1>2, <1>3, <1>4 DEF Kinds, Data

\* What stands behind a head is a sequence, and it does not begin like a proof
\* unless it follows one.
LEMMA BodyFrames ==
    ASSUME NEW g, Meaning(g), ProofsAreNotEmpty
    PROVE  /\ \E T : Body(g) \in Seq(T)
           /\ g.kind \notin Data => Body(g) = <<>>
           /\ g.kind \in Plain => ProofOf(g) = Empty
           /\ ProofOf(g) = Empty => Body(g) = <<>> \/ Body(g)[1] # AUTH
<1>1. CASE g.kind \notin Data
  <2>1. Body(g) = <<>>
    BY <1>1 DEF Body, Meaning
  <2>2. <<>> \in Seq({})
    OBVIOUS
  <2> QED
    BY <1>1, <2>1, <2>2 DEF ProofOf, Plain, Data
<1>2. CASE g.kind \in Data
  <2>1. CASE g.key = Empty
    <3>1. Body(g) = g.payload /\ g.payload \in Payloads
      BY <1>2, <2>1 DEF Body, Meaning
    <3> QED
      BY <1>2, <2>1, <3>1, FleetAssumption DEF FleetAssumption, ProofOf, Data, Plain
  <2>2. CASE g.key # Empty
    <3>1. PICK c : Body(g) = <<VERSION, "iv", "tag", c>>
      BY <1>2, <2>2 DEF Body, SealPayloadFrames
    <3> DEFINE T == {VERSION, "iv", "tag", c}
    <3>2. Body(g) \in Seq(T)
      BY <3>1
    <3>3. ProofOf(g) # Empty
      BY <1>2, <2>2 DEF ProofOf, Data, Plain, ProofsAreNotEmpty
    <3> QED
      BY <1>2, <3>2, <3>3 DEF Data, Plain
  <2> QED
    BY <2>1, <2>2
<1> QED
  BY <1>1, <1>2

\* What is built from a meaning is parsed as that meaning.
LEMMA BuiltIsParsed ==
    ASSUME NEW g, Meaning(g), ProofsAreNotEmpty
    PROVE  ParseControlFrames(Build(g.kind, g.head, Body(g), ProofOf(g)))
             = Parsed(g.kind, g.head, ProofOf(g), Body(g))
<1> DEFINE kind == g.kind
           head == g.head
           proof == ProofOf(g)
           body == Body(g)
           n == Len(head)
           action == ActionOf(kind)
           f == Build(kind, head, body, proof)
<1>1. kind \in Kinds /\ head \in Heads(kind)
  BY DEF Meaning
<1>2. f = Control(action, head, proof, body)
  BY <1>1, BodyFrames, BuildIsControl
<1>3. PICK T : body \in Seq(T)
  BY BodyFrames
<1> DEFINE S == T \cup (1..MaxSends) \cup {Topic, Service, PREFIX, AUTH, action, proof}
<1>4. /\ PREFIX \in S /\ AUTH \in S /\ action \in S /\ proof \in S
      /\ body \in Seq(S) /\ head \in Seq(S)
  <2>1. T \subseteq S /\ (1..MaxSends) \cup {Topic, Service} \subseteq S
    OBVIOUS
  <2>2. head \in Seq((1..MaxSends) \cup {Topic, Service})
    BY <1>1, HeadFrames
  <2>3. body \in Seq(S) /\ head \in Seq(S)
    BY <1>3, <2>1, <2>2, SeqMonotonic
  <2> QED
    BY <2>3
<1>5. /\ AfterHead(kind, f, n) = Parsed(kind, head, proof, body)
      /\ Len(f) \in Nat /\ Len(f) >= 2 + n /\ f[1] = PREFIX /\ f[2] = action
      /\ (\A i \in 1..n : head[i] # Empty) => Named(f, n)
  <2>1. proof = Empty => body = <<>> \/ body[1] # AUTH
    BY BodyFrames
  <2> HIDE DEF f, action, body, proof, head, kind, S
  <2>2. LET c == Control(action, head, proof, body) IN
        /\ \A k : AfterHead(k, c, Len(head)) = Parsed(k, head, proof, body)
        /\ Len(c) \in Nat /\ Len(c) >= 2 + Len(head) /\ c[1] = PREFIX /\ c[2] = action
        /\ (\A i \in 1..Len(head) : head[i] # Empty) => Named(c, Len(head))
    BY ONLY <1>4, <2>1, ControlParsed
  <2> QED
    BY <1>2, <2>2, Zenon
<1>6. /\ n = HeadLength(kind)
      /\ kind \notin {"publish", "push"} => \A i \in 1..n : head[i] # Empty
  BY <1>1, HeadFrames
<1> HIDE DEF f
<1>7. ASSUME kind \in {"register", "heartbeat", "heartbeat_ack"}
      PROVE  ParseControlFrames(f) = Parsed(kind, head, proof, body)
  <2>1. n = 0 /\ f[2] = kind /\ body = <<>> /\ ~(Len(f) < 2 \/ f[1] # PREFIX)
    BY <1>5, <1>6, <1>7, BodyFrames DEF HeadLength, ActionOf, Data
  <2>2. ParseControlFrames(f) = WithoutPayload(AfterHead(kind, f, 0))
    BY <1>7, <2>1 DEF ParseControlFrames
  <2> QED
    BY <1>5, <2>1, <2>2 DEF WithoutPayload, Parsed
<1>8. ASSUME kind = "unregister"
      PROVE  ParseControlFrames(f) = Parsed(kind, head, proof, body)
  <2>1. f[2] = "unregister" /\ body = <<>> /\ proof = Empty /\ head = <<>> /\ ~(Len(f) < 2 \/ f[1] # PREFIX)
    <3>1. head = <<>>
      BY <1>1, <1>8, HeadCases
    <3>2. n = 0
      BY <1>6, <1>8 DEF HeadLength
    <3>3. f[2] = "unregister" /\ body = <<>> /\ proof = Empty
      BY <1>5, <1>8, BodyFrames DEF ActionOf, Data, Plain
    <3> QED
      BY <1>5, <3>1, <3>2, <3>3
  <2> QED
    BY <1>8, <2>1 DEF ParseControlFrames
<1>9. ASSUME kind \in {"publish", "push"}
      PROVE  ParseControlFrames(f) = Parsed(kind, head, proof, body)
  <2>1. n = 1 /\ Len(f) >= 3
    BY <1>5, <1>6, <1>9 DEF HeadLength
  <2>2. ~(Len(f) < 2 \/ f[1] # PREFIX)
    BY <1>5, <2>1
  <2>3. CASE kind = "publish"
    <3>1. f[2] = "pub"
      BY <1>5, <2>3 DEF ActionOf
    <3>2. ParseControlFrames(f) = AfterHead("publish", f, 1)
      BY <2>1, <2>2, <3>1 DEF ParseControlFrames
    <3> QED
      BY <1>5, <2>1, <2>3, <3>2
  <2>4. CASE kind = "push"
    <3>1. f[2] = "push"
      BY <1>5, <2>4 DEF ActionOf
    <3>2. ParseControlFrames(f) = AfterHead("push", f, 1)
      BY <2>1, <2>2, <3>1 DEF ParseControlFrames
    <3> QED
      BY <1>5, <2>1, <2>4, <3>2
  <2> QED
    BY <1>9, <2>3, <2>4
<1>10. ASSUME kind \in {"request", "response"}
      PROVE  ParseControlFrames(f) = Parsed(kind, head, proof, body)
  <2>1. n = 1 /\ Named(f, 1) /\ ~(Len(f) < 2 \/ f[1] # PREFIX)
    BY <1>5, <1>6, <1>10 DEF HeadLength
  <2>2. CASE kind = "request"
    <3>1. f[2] = "req"
      BY <1>5, <2>2 DEF ActionOf
    <3>2. ParseControlFrames(f) = AfterHead("request", f, 1)
      BY <2>1, <3>1 DEF ParseControlFrames
    <3> QED
      BY <1>5, <2>1, <2>2, <3>2
  <2>3. CASE kind = "response"
    <3>1. f[2] = "res"
      BY <1>5, <2>3 DEF ActionOf
    <3>2. ParseControlFrames(f) = AfterHead("response", f, 1)
      BY <2>1, <3>1 DEF ParseControlFrames
    <3> QED
      BY <1>5, <2>1, <2>3, <3>2
  <2> QED
    BY <1>10, <2>2, <2>3
<1>11. ASSUME kind \in {"service_request", "service_response"}
      PROVE  ParseControlFrames(f) = Parsed(kind, head, proof, body)
  <2>1. n = 2 /\ Named(f, 2) /\ ~(Len(f) < 2 \/ f[1] # PREFIX)
    BY <1>5, <1>6, <1>11 DEF HeadLength
  <2>2. CASE kind = "service_request"
    <3>1. f[2] = "svc_req"
      BY <1>5, <2>2 DEF ActionOf
    <3>2. ParseControlFrames(f) = AfterHead("service_request", f, 2)
      BY <2>1, <3>1 DEF ParseControlFrames
    <3> QED
      BY <1>5, <2>1, <2>2, <3>2
  <2>3. CASE kind = "service_response"
    <3>1. f[2] = "svc_res"
      BY <1>5, <2>3 DEF ActionOf
    <3>2. ParseControlFrames(f) = AfterHead("service_response", f, 2)
      BY <2>1, <3>1 DEF ParseControlFrames
    <3> QED
      BY <1>5, <2>1, <2>3, <3>2
  <2> QED
    BY <1>11, <2>2, <2>3
<1> QED
  BY <1>1, <1>7, <1>8, <1>9, <1>10, <1>11 DEF f, Kinds, Data

\* A frame is read as it was meant, with whatever key and whomever expected.
LEMMA ReadAsMeant ==
    ASSUME NEW m, Meaning(m.msg), ProofsAreNotEmpty,
           m.frames = Build(m.msg.kind, m.msg.head, Body(m.msg), ProofOf(m.msg)),
           NEW key, NEW expected
    PROVE  Read(m, key, expected)
<1> DEFINE g == m.msg
           p == ParseControlFrames(m.frames)
<1>1. /\ p.kind = g.kind /\ p.head = g.head /\ p.proof = ProofOf(g) /\ p.payload = Body(g)
      /\ g.kind \in Kinds
  <2>1. ParseControlFrames(Build(g.kind, g.head, Body(g), ProofOf(g)))
          = Parsed(g.kind, g.head, ProofOf(g), Body(g))
    BY BuiltIsParsed
  <2>2. p = Parsed(g.kind, g.head, ProofOf(g), Body(g))
    BY <2>1
  <2> HIDE DEF p
  <2> QED
    BY <2>2 DEF Parsed, Meaning
<1>2. ASSUME key = Empty, g.key = Empty PROVE p.proof = Empty /\ p.payload = g.payload
  BY <1>1, <1>2 DEF ProofOf, Body
<1>3. ASSUME g.key = Empty PROVE ~Verifies(p, key, expected)
  BY <1>1, <1>3 DEF ProofOf, Verifies, VerifiesProof
<1>4. ASSUME key # Empty, g.key # Empty, g.kind \notin Plain
      PROVE  /\ Verifies(p, key, expected) <=> key = g.key /\ expected \in {Empty, g.from}
             /\ Verifies(p, key, expected)
                  => Delivers(p, key, p.proof.node) = [ok |-> TRUE, frames |-> g.payload]
  <2>1. /\ p.proof = [key |-> g.key, kind |-> Signed(g.kind), node |-> g.from,
                      subject |-> Subject(g.kind, g.head), digest |-> Body(g)]
        /\ p.proof # Empty
    BY <1>1, <1>4 DEF ProofOf, EncodeAuthProofToken, ProofsAreNotEmpty
  <2>2. Verifies(p, key, expected) <=> key = g.key /\ expected \in {Empty, g.from}
    BY <1>1, <2>1 DEF Verifies, VerifiesProof
  <2>3. ASSUME key = g.key
        PROVE  Delivers(p, key, p.proof.node) = [ok |-> TRUE, frames |-> g.payload]
    <3>1. CASE g.kind \notin Data
      BY <1>1, <3>1 DEF Delivers, Body
    <3>2. CASE g.kind \in Data
      <4>1. p.payload = SealPayloadFrames(key, Signed(g.kind), g.from, Subject(g.kind, g.head), g.payload)
        BY <1>1, <1>4, <2>3, <3>2 DEF Body
      <4>2. OpenPayloadFrames(key, Signed(g.kind), g.from, Subject(g.kind, g.head), p.payload)
              = DecodeFrames(EncodeFrames(g.payload))
        BY <4>1 DEF SealPayloadFrames, OpenPayloadFrames
      <4>3. g.payload \in Payloads
        BY <3>2 DEF Meaning
      <4>4. Delivers(p, key, p.proof.node) = Opens(p, key, p.proof.node)
        BY <1>1, <1>4, <3>2 DEF Delivers
      <4>5. Opens(p, key, p.proof.node)
              = OpenPayloadFrames(key, Signed(g.kind), g.from, Subject(g.kind, g.head), p.payload)
        BY <1>1, <2>1 DEF Opens
      <4>6. DecodeFrames(EncodeFrames(g.payload)) = [ok |-> TRUE, frames |-> g.payload]
        BY <4>3, CodecAssumption DEF CodecAssumption
      <4> QED
        BY <4>2, <4>4, <4>5, <4>6
    <3> QED
      BY <3>1, <3>2
  <2> QED
    BY <2>2, <2>3
<1> QED
  BY <1>1, <1>2, <1>3, <1>4 DEF Read

(***************************************************************************)
(* What travels, and who handles it.                                       *)
(***************************************************************************)

\* What `from` a set of nodes may have sent.
Meanings(From) ==
    {g \in [from : From, key : Keys \cup {Empty}, kind : Kinds,
            head : UNION {Heads(k) : k \in Kinds}, payload : Payloads \cup {<<>>}] : Meaning(g)}
Sent(From) == {Outgoing(g.from, g.key, g.kind, g.head, g.payload) : g \in Meanings(From)}

\* Requests of some kinds, to be answered to some nodes.
Requests(K, To) ==
    {r \in [to : To, kind : K, head : UNION {Heads(k) : k \in K}, old : BOOLEAN] :
        r.head \in Heads(r.kind)}

\* The keys and counters of the nodes.
KeyShape ==
    /\ secure \in Modes /\ common \in Keys \cup {Empty} /\ masterId \in MasterIds
    /\ keyMap \in [Slaves -> Keys \cup {Empty}]
    /\ cache \in [Slaves -> Keys \cup {Empty}]
    /\ table \in [Slaves -> Keys \cup {Empty, Absent}]
    /\ slaveKey \in [Slaves -> Keys]
    /\ sends \in 0..MaxSends /\ changes \in 0..MaxChanges

LearntShape == masterOf \in [Slaves -> MasterIds \cup {Empty}]

\* A connection carries what the node at its other end may have sent.
WireShape ==
    /\ DOMAIN up = Slaves /\ DOMAIN down = Slaves
    /\ \A s \in Slaves : up[s] \in Seq(Sent({s})) /\ down[s] \in Seq(Sent(MasterIds))

\* Handlers are those of requests, and one at most holds up a read loop.
HandlerShape ==
    /\ DOMAIN serving = Nodes
    /\ serving[Master] \subseteq Requests({"request"}, Slaves)
    /\ \A s \in Slaves : serving[s] \subseteq Requests({"request", "service_request"}, {Master})
    /\ \A n \in Nodes : \A r, q \in serving[n] : ~r.old /\ ~q.old => r = q

FrameInv == KeyShape /\ LearntShape /\ WireShape /\ HandlerShape

\* The keys in use are keys, or none.
LEMMA ResolvedKey ==
    ASSUME KeyShape, NEW s \in Slaves
    PROVE  ResolveSlaveKeys(s) \in Keys \cup {Empty} /\ KeyOf(s) \in Keys \cup {Empty}
BY DEF KeyShape, ResolveSlaveKeys, Configured, KeyOf

\* What a node sends.
LEMMA SentFrames ==
    ASSUME NEW From, NEW from \in From, NEW key \in Keys \cup {Empty}, NEW kind \in Kinds,
           NEW head \in Heads(kind), NEW payload \in IF kind \in Data THEN Payloads ELSE {<<>>}
    PROVE  Outgoing(from, key, kind, head, payload) \in Sent(From)
<1> DEFINE g == [from |-> from, key |-> key, kind |-> kind, head |-> head, payload |-> payload]
<1>1. g \in Meanings(From)
  <2>1. head \in UNION {Heads(k) : k \in Kinds}
    OBVIOUS
  <2>2. payload \in Payloads \cup {<<>>}
    OBVIOUS
  <2> QED
    BY <2>1, <2>2 DEF Meanings, Meaning
<1>2. Outgoing(from, key, kind, head, payload) = Outgoing(g.from, g.key, g.kind, g.head, g.payload)
  OBVIOUS
<1> QED
  BY <1>1, <1>2 DEF Sent

\* What was sent has its meaning with it, and was built from it.
LEMMA SentMeans ==
    ASSUME NEW From, NEW m \in Sent(From)
    PROVE  /\ Meaning(m.msg) /\ m.msg.from \in From /\ m.msg \in Meanings(From)
           /\ m.frames = Build(m.msg.kind, m.msg.head, Body(m.msg), ProofOf(m.msg))
<1>1. PICK g \in Meanings(From) : m = Outgoing(g.from, g.key, g.kind, g.head, g.payload)
  BY DEF Sent
<1>2. /\ g \in [from : From, key : Keys \cup {Empty}, kind : Kinds,
                head : UNION {Heads(k) : k \in Kinds}, payload : Payloads \cup {<<>>}]
      /\ Meaning(g)
  BY <1>1 DEF Meanings
<1>3. m.msg = [from |-> g.from, key |-> g.key, kind |-> g.kind, head |-> g.head, payload |-> g.payload]
  BY <1>1 DEF Outgoing
<1>4. m.msg = g
  BY <1>2, <1>3
<1>5. m.frames = Build(g.kind, g.head, Body(g), ProofOf(g))
  BY <1>1 DEF Outgoing, Body, ProofOf
<1> QED
  BY <1>2, <1>4, <1>5, <1>1

\* What was sent is parsed as it was meant.
LEMMA SentIsParsed ==
    ASSUME ProofsAreNotEmpty, NEW From, NEW m \in Sent(From)
    PROVE  ParseControlFrames(m.frames)
             = Parsed(m.msg.kind, m.msg.head, ProofOf(m.msg), Body(m.msg))
BY SentMeans, BuiltIsParsed

\* Queues of frames grow at the end and are read from the front.
LEMMA Queued ==
    ASSUME NEW S, NEW q \in Seq(S)
    PROVE  /\ \A m \in S : Append(q, m) \in Seq(S)
           /\ q # <<>> => Head(q) \in S /\ Tail(q) \in Seq(S)
           /\ <<>> \in Seq(S)
OBVIOUS

\* One more message to a slave, or from it.
LEMMA SendsDown ==
    ASSUME FrameInv, NEW s \in Slaves, NEW kind \in Kinds, NEW head \in Heads(kind),
           NEW payload \in IF kind \in Data THEN Payloads ELSE {<<>>}
    PROVE  Addressed(s, kind, head, payload) \in Sent(MasterIds)
<1>1. masterId \in MasterIds /\ ResolveSlaveKeys(s) \in Keys \cup {Empty}
  BY ResolvedKey DEF FrameInv, KeyShape
<1> QED
  BY <1>1, SentFrames DEF Addressed

\* What a slave sends is what a slave may send.
LEMMA SendsUp ==
    ASSUME FrameInv, NEW s \in Slaves, NEW kind \in Kinds, NEW head \in Heads(kind),
           NEW payload \in IF kind \in Data THEN Payloads ELSE {<<>>}
    PROVE  Outgoing(s, KeyOf(s), kind, head, payload) \in Sent({s})
<1>1. KeyOf(s) \in Keys \cup {Empty} /\ s \in {s}
  BY ResolvedKey DEF FrameInv
<1> QED
  BY <1>1, SentFrames

\* The number of a message is a head, and so is a topic.
LEMMA HeadIntro ==
    ASSUME NEW i \in 1..MaxSends
    PROVE  /\ <<i>> \in Heads("request")
           /\ <<i, Service>> \in Heads("service_request")
           /\ <<Topic>> \in Heads("push") /\ <<Topic>> \in Heads("publish")
BY DEF Heads

\* Frames without a head.
LEMMA NoHead ==
    \A k \in {"register", "unregister", "heartbeat", "heartbeat_ack"} :
        k \in Kinds /\ <<>> \in Heads(k) /\ k \notin Data
BY DEF Heads, Kinds, Data

(***************************************************************************)
(* The connections.                                                        *)
(***************************************************************************)

\* One connection changes, and what it then carries was sent.
LEMMA UpChange ==
    ASSUME WireShape, NEW s \in Slaves, NEW q \in Seq(Sent({s})),
           up' = [up EXCEPT ![s] = q], UNCHANGED down
    PROVE  WireShape'
BY DEF WireShape

\* The other direction.
LEMMA DownChange ==
    ASSUME WireShape, NEW s \in Slaves, NEW q \in Seq(Sent(MasterIds)),
           down' = [down EXCEPT ![s] = q], UNCHANGED up
    PROVE  WireShape'
BY DEF WireShape

\* A message to a slave or from it joins its connection.
LEMMA SendingDown ==
    ASSUME FrameInv, NEW s \in Slaves, NEW kind \in Kinds, NEW head \in Heads(kind),
           NEW payload \in IF kind \in Data THEN Payloads ELSE {<<>>},
           ToSlave(s, kind, head, payload), UNCHANGED up
    PROVE  WireShape'
<1>1. down[s] \in Seq(Sent(MasterIds)) /\ Addressed(s, kind, head, payload) \in Sent(MasterIds)
  BY SendsDown DEF FrameInv, WireShape
<1>2. Append(down[s], Addressed(s, kind, head, payload)) \in Seq(Sent(MasterIds))
  BY <1>1, Queued
<1> QED
  BY <1>2, DownChange DEF ToSlave, FrameInv

\* A message from a slave joins its connection.
LEMMA SendingUp ==
    ASSUME FrameInv, NEW s \in Slaves, NEW kind \in Kinds, NEW head \in Heads(kind),
           NEW payload \in IF kind \in Data THEN Payloads ELSE {<<>>},
           ToMaster(s, kind, head, payload), UNCHANGED down
    PROVE  WireShape'
<1>1. /\ up[s] \in Seq(Sent({s}))
      /\ Outgoing(s, KeyOf(s), kind, head, payload) \in Sent({s})
  BY SendsUp DEF FrameInv, WireShape
<1>2. Append(up[s], Outgoing(s, KeyOf(s), kind, head, payload)) \in Seq(Sent({s}))
  BY <1>1, Queued
<1> QED
  BY <1>2, UpChange DEF ToMaster, FrameInv

\* A PUBLISH reaches any of the slaves.
LEMMA PublishWires ==
    ASSUME FrameInv, NEW payload \in Payloads, Publish(payload)
    PROVE  WireShape'
<1>1. ASSUME NEW s \in Slaves
      PROVE  Append(down[s], Addressed(s, "publish", <<Topic>>, payload)) \in Seq(Sent(MasterIds))
  <2>1. <<Topic>> \in Heads("publish") /\ "publish" \in Kinds /\ "publish" \in Data
    BY DEF Heads, Kinds, Data
  <2>2. Addressed(s, "publish", <<Topic>>, payload) \in Sent(MasterIds)
    BY <2>1, SendsDown
  <2>3. down[s] \in Seq(Sent(MasterIds))
    BY DEF FrameInv, WireShape
  <2> QED
    BY <2>2, <2>3, Queued
<1>2. PICK keyed : down' = [s \in Slaves |-> IF s \in keyed
         THEN Append(down[s], Addressed(s, "publish", <<Topic>>, payload)) ELSE down[s]]
  BY DEF Publish
<1>3. up' = up
  BY DEF Publish
<1> QED
  BY <1>1, <1>2, <1>3 DEF FrameInv, WireShape

\* Requests and pushes have the number of the message, or a topic.
LEMMA RequestWires ==
    ASSUME FrameInv, NEW payload \in Payloads, NEW s \in Slaves,
           RequestTo(s, payload) \/ Request(s, payload)
    PROVE  WireShape'
<1>1. sends' \in 1..MaxSends
  BY FleetAssumption DEF RequestTo, Request, Send, FrameInv, KeyShape, FleetAssumption
<1>2. /\ "request" \in Kinds /\ "push" \in Kinds /\ "service_request" \in Kinds
      /\ "request" \in Data /\ "push" \in Data /\ "service_request" \in Data
  BY DEF Kinds, Data
<1>3. PICK i \in 1..MaxSends : i = sends'
  BY <1>1
<1>4. <<i>> \in Heads("request") /\ <<i, Service>> \in Heads("service_request") /\ <<Topic>> \in Heads("push")
  BY HeadIntro
<1>5. CASE RequestTo(s, payload)
  <2>1. ToSlave(s, "request", <<i>>, payload) \/ ToSlave(s, "service_request", <<i, Service>>, payload)
    BY <1>3, <1>5 DEF RequestTo
  <2>2. up' = up
    BY <1>5 DEF RequestTo
  <2> QED
    BY <1>2, <1>4, <2>1, <2>2, SendingDown
<1>6. CASE Request(s, payload)
  <2>1. ToMaster(s, "request", <<i>>, payload) \/ ToMaster(s, "push", <<Topic>>, payload)
    BY <1>3, <1>6 DEF Request
  <2>2. down' = down
    BY <1>6 DEF Request
  <2> QED
    BY <1>2, <1>4, <2>1, <2>2, SendingUp
<1> QED
  BY <1>5, <1>6

\* A heartbeat has neither head nor payload.
LEMMA HeartbeatWires ==
    ASSUME FrameInv, NEW s \in Slaves, Heartbeat(s)
    PROVE  WireShape'
<1>1. ToMaster(s, "heartbeat", <<>>, <<>>) /\ down' = down
  BY DEF Heartbeat
<1> QED
  BY <1>1, NoHead, SendingUp

\* The master takes the first frame of a connection, and may acknowledge it.
LEMMA MasterReceivesWires ==
    ASSUME FrameInv, NEW s \in Slaves, MasterReceives(s)
    PROVE  WireShape'
<1>1. PICK p : \/ ReceivesUnregister(s, p) \/ ReceivesUnkeyed(s, p)
               \/ ReceivesSecure(s, p) \/ ReceivesPlain(s, p)
  BY DEF MasterReceives
<1>2. \/ down' = down
      \/ down' = [down EXCEPT ![s] = Append(@, Addressed(s, "heartbeat_ack", <<>>, <<>>))]
  BY <1>1
     DEF ReceivesUnregister, ReceivesUnkeyed, ReceivesSecure, ReceivesPlain, Handled, NotHandled
<1>3. up' = [up EXCEPT ![s] = Tail(up[s])] /\ Tail(up[s]) \in Seq(Sent({s}))
  <2>1. up[s] \in Seq(Sent({s})) /\ up[s] # <<>>
    BY DEF MasterReceives, FrameInv, WireShape
  <2> QED
    BY <2>1, Queued DEF MasterReceives
<1>4. Append(down[s], Addressed(s, "heartbeat_ack", <<>>, <<>>)) \in Seq(Sent(MasterIds))
  <2>1. down[s] \in Seq(Sent(MasterIds)) /\ Addressed(s, "heartbeat_ack", <<>>, <<>>) \in Sent(MasterIds)
    BY NoHead, SendsDown DEF FrameInv, WireShape
  <2> QED
    BY <2>1, Queued
<1> QED
  BY <1>2, <1>3, <1>4 DEF FrameInv, WireShape

\* A slave takes the first frame of its connection.
LEMMA SlaveReceivesWires ==
    ASSUME FrameInv, NEW s \in Slaves, SlaveReceives(s)
    PROVE  WireShape'
<1>1. down[s] \in Seq(Sent(MasterIds)) /\ down[s] # <<>> /\ up' = up
  BY DEF SlaveReceives, FrameInv, WireShape
<1>2. Tail(down[s]) \in Seq(Sent(MasterIds)) /\ down' = [down EXCEPT ![s] = Tail(down[s])]
  BY <1>1, Queued DEF SlaveReceives
<1> QED
  BY <1>1, <1>2, DownChange DEF FrameInv

\* The head of a request is the head of its answer.
LEMMA AnswerHead ==
    ASSUME NEW K, NEW To, K \subseteq {"request", "service_request"}, NEW r \in Requests(K, To)
    PROVE  /\ Answers(r.kind) \in Kinds /\ Answers(r.kind) \in Data
           /\ r.head \in Heads(Answers(r.kind))
           /\ r.to \in To /\ r.kind \in K
BY DEF Requests, Answers, Heads, Kinds, Data

\* The end of a handler sends an answer, or nothing.
LEMMA ReplyWires ==
    ASSUME FrameInv, NEW n \in Nodes, Replying(n)
    PROVE  WireShape'
<1>1. PICK r \in serving[n], payload \in Payloads :
        IF n = Master THEN MasterReplies(r, payload) ELSE SlaveReplies(n, r, payload)
  BY DEF Replying
<1>2. CASE n = Master
  <2>1. r \in Requests({"request"}, Slaves)
    BY <1>1, <1>2 DEF FrameInv, HandlerShape
  <2>2. r.to \in Slaves /\ r.kind = "request"
    BY <2>1, AnswerHead
  <2>3. "response" \in Kinds /\ "response" \in Data /\ r.head \in Heads("response")
    BY <2>1, <2>2, AnswerHead DEF Answers
  <2>4. up' = up /\ (ToSlave(r.to, "response", r.head, payload) \/ down' = down)
    BY <1>1, <1>2 DEF MasterReplies
  <2>5. CASE down' = down
    BY <2>4, <2>5 DEF FrameInv, WireShape
  <2> QED
    BY <2>2, <2>3, <2>4, <2>5, SendingDown
<1>3. CASE n # Master
  <2>1. n \in Slaves
    BY <1>3 DEF Nodes
  <2>2. r \in Requests({"request", "service_request"}, {Master})
    BY <1>1, <2>1 DEF FrameInv, HandlerShape
  <2>3. Answers(r.kind) \in Kinds /\ Answers(r.kind) \in Data /\ r.head \in Heads(Answers(r.kind))
    BY <2>2, AnswerHead
  <2>4. down' = down /\ (ToMaster(n, Answers(r.kind), r.head, payload) \/ up' = up)
    BY <1>1, <1>3 DEF SlaveReplies
  <2>5. CASE up' = up
    BY <2>4, <2>5 DEF FrameInv, WireShape
  <2> QED
    BY <2>1, <2>3, <2>4, <2>5, SendingUp
<1> QED
  BY <1>2, <1>3

\* A connection begins with a register frame, perhaps behind what was sent before.
LEMMA ConnectsWires ==
    ASSUME FrameInv, NEW s \in Slaves, NEW k \in Keys, NEW before \in Seq(Sent({s})),
           Connects(s, k, before)
    PROVE  WireShape'
<1>1. Outgoing(s, IF s \in secure THEN k ELSE Empty, "register", <<>>, <<>>) \in Sent({s})
  <2>1. (IF s \in secure THEN k ELSE Empty) \in Keys \cup {Empty} /\ s \in {s}
    OBVIOUS
  <2> QED
    BY <2>1, NoHead, SentFrames
<1>2. Append(before, Outgoing(s, IF s \in secure THEN k ELSE Empty, "register", <<>>, <<>>)) \in Seq(Sent({s}))
  BY <1>1, Queued
<1>3. <<>> \in Seq(Sent(MasterIds))
  OBVIOUS
<1> QED
  BY <1>2, <1>3 DEF Connects, FrameInv, WireShape

\* Restarts and rebuilds begin new connections; changes of keys leave them alone.
LEMMA ChangingWires ==
    ASSUME FrameInv, Changing
    PROVE  WireShape'
<1>1. ASSUME NEW s \in Slaves, RestartDealer(s) PROVE WireShape'
  <2>1. <<>> \in Seq(Sent({s})) /\ slaveKey[s] \in Keys /\ Connects(s, slaveKey[s], <<>>)
    BY <1>1 DEF RestartDealer, FrameInv, KeyShape
  <2> QED
    BY <2>1, ConnectsWires
<1>2. ASSUME NEW s \in Slaves, NEW k \in Keys, RestartSlave(s, k) PROVE WireShape'
  <2>1. PICK before \in {<<>>, Append(up[s], Outgoing(s, KeyOf(s), "unregister", <<>>, <<>>))} :
          Connects(s, k, before)
    BY <1>2 DEF RestartSlave
  <2>2. <<>> \in Seq(Sent({s})) /\ up[s] \in Seq(Sent({s}))
    BY DEF FrameInv, WireShape
  <2>3. Outgoing(s, KeyOf(s), "unregister", <<>>, <<>>) \in Sent({s})
    BY NoHead, SendsUp
  <2>4. before \in Seq(Sent({s}))
    <3>1. Append(up[s], Outgoing(s, KeyOf(s), "unregister", <<>>, <<>>)) \in Seq(Sent({s}))
      BY <2>2, <2>3, Queued
    <3> QED
      BY <2>1, <2>2, <3>1
  <2> QED
    BY <2>1, <2>4, ConnectsWires
<1>3. ASSUME NEW id \in MasterIds, RestartMaster(id) PROVE WireShape'
  <2>1. PICK S \in SUBSET Slaves : up' = [s \in Slaves |-> IF s \in S THEN up[s] ELSE <<>>]
    BY <1>3 DEF RestartMaster
  <2>2. down' = [s \in Slaves |-> <<>>]
    BY <1>3 DEF RestartMaster
  <2>3. ASSUME NEW s \in Slaves PROVE <<>> \in Seq(Sent({s})) /\ <<>> \in Seq(Sent(MasterIds))
    OBVIOUS
  <2> QED
    BY <2>1, <2>2, <2>3 DEF FrameInv, WireShape
<1>4. ASSUME NEW s \in Slaves, RemoveAuthKey(s) PROVE WireShape'
  BY <1>4 DEF RemoveAuthKey, wires, FrameInv, WireShape
<1>5. ASSUME NEW s \in Slaves, NEW k \in Keys, AddAuthKey(s, k) PROVE WireShape'
  BY <1>5 DEF AddAuthKey, wires, FrameInv, WireShape
<1> QED
  BY <1>1, <1>2, <1>3, <1>4, <1>5 DEF Changing

\* Connections carry only what their other ends have sent.
LEMMA WireStep == FrameInv /\ [Next]_vars => WireShape'
<1> SUFFICES ASSUME FrameInv, [Next]_vars PROVE WireShape'
  OBVIOUS
<1>1. CASE Sending
  BY <1>1, PublishWires, RequestWires DEF Sending
<1>2. CASE Changing
  BY <1>2, ChangingWires
<1>3. ASSUME NEW n \in Nodes, Replying(n) PROVE WireShape'
  BY <1>3, ReplyWires
<1>4. ASSUME NEW s \in Slaves, Heartbeat(s) \/ MasterReceives(s) \/ SlaveReceives(s)
      PROVE  WireShape'
  BY <1>4, HeartbeatWires, MasterReceivesWires, SlaveReceivesWires
<1>5. ASSUME NEW s \in Slaves, Evict(s) PROVE WireShape'
  BY <1>5 DEF Evict, wires, FrameInv, WireShape
<1>6. CASE UNCHANGED vars
  BY <1>6 DEF vars, wires, FrameInv, WireShape
<1> QED
  BY <1>1, <1>2, <1>3, <1>4, <1>5, <1>6 DEF Next

(***************************************************************************)
(* Keys, the master a slave has learnt, and handlers.                      *)
(***************************************************************************)

\* Resolving, entering and removing keep keys, or none, where keys belong.
LEMMA KeyOperators ==
    ASSUME KeyShape
    PROVE  /\ \A S : Cached(S) \in [Slaves -> Keys \cup {Empty}]
           /\ \A S : Refreshed(S) \in [Slaves -> Keys \cup {Empty, Absent}]
           /\ \A s \in Slaves, k \in Keys \cup {Empty, Absent} :
                Entry(s, k) \in [Slaves -> Keys \cup {Empty, Absent}]
<1>1. \A s \in Slaves : ResolveSlaveKeys(s) \in Keys \cup {Empty}
  BY ResolvedKey
<1> QED
  BY <1>1 DEF KeyShape, Cached, Refreshed, Entry

\* A frame caches and enters keys, or removes an entry.
LEMMA ReceivingKeyShape ==
    ASSUME KeyShape, NEW s \in Slaves, MasterReceives(s)
    PROVE  KeyShape'
<1>1. PICK p : \/ ReceivesUnregister(s, p) \/ ReceivesUnkeyed(s, p)
               \/ ReceivesSecure(s, p) \/ ReceivesPlain(s, p)
  BY DEF MasterReceives
<1>2. UNCHANGED <<secure, common, masterId, keyMap, slaveKey, sends, changes>>
  BY DEF MasterReceives, fixed, slaves
<1>3. cache' = cache \/ cache' = Cached({s})
  BY <1>1 DEF ReceivesUnregister, ReceivesUnkeyed, ReceivesSecure, ReceivesPlain
<1>4. \/ table' = table \/ table' = Refreshed({s})
      \/ \E k \in Keys \cup {Empty, Absent} : table' = Entry(s, k)
  <2>1. ResolveSlaveKeys(s) \in Keys \cup {Empty, Absent}
    BY ResolvedKey
  <2> QED
    BY <1>1, <2>1
       DEF ReceivesUnregister, ReceivesUnkeyed, ReceivesSecure, ReceivesPlain, Removed
<1>5. cache' \in [Slaves -> Keys \cup {Empty}] /\ table' \in [Slaves -> Keys \cup {Empty, Absent}]
  BY <1>3, <1>4, KeyOperators DEF KeyShape
<1> QED
  BY <1>2, <1>5 DEF KeyShape

\* Sending resolves keys and counts.
LEMMA SendingKeyShape ==
    ASSUME KeyShape, Sending
    PROVE  KeyShape'
<1>0. MaxSends \in Nat
  BY FleetAssumption DEF FleetAssumption
<1>1. ASSUME NEW payload \in Payloads, Publish(payload) PROVE KeyShape'
  <2>1. UNCHANGED <<secure, common, masterId, keyMap, slaveKey, changes>> /\ sends' \in 0..MaxSends
    BY <1>0, <1>1 DEF Publish, Send, fixed, slaves, KeyShape
  <2>2. PICK S, K : /\ cache' = Cached(S)
                    /\ table' = [s \in Slaves |-> IF s \in K THEN Absent ELSE Refreshed(S)[s]]
    BY <1>1 DEF Publish
  <2>3. cache' \in [Slaves -> Keys \cup {Empty}] /\ table' \in [Slaves -> Keys \cup {Empty, Absent}]
    BY <2>2, KeyOperators
  <2> QED
    BY <2>1, <2>3 DEF KeyShape
<1>2. ASSUME NEW payload \in Payloads, NEW s \in Slaves, RequestTo(s, payload) PROVE KeyShape'
  <2>1. UNCHANGED <<secure, common, masterId, keyMap, slaveKey, changes>> /\ sends' \in 0..MaxSends
    BY <1>0, <1>2 DEF RequestTo, Send, fixed, slaves, KeyShape
  <2>2. cache' = Cached({s}) /\ table' = Refreshed({s})
    BY <1>2 DEF RequestTo
  <2> QED
    BY <2>1, <2>2, KeyOperators DEF KeyShape
<1>3. ASSUME NEW payload \in Payloads, NEW s \in Slaves, Request(s, payload) PROVE KeyShape'
  BY <1>0, <1>3 DEF Request, Send, fixed, slaves, master, KeyShape
<1> QED
  BY <1>1, <1>2, <1>3 DEF Sending

\* Changes put keys in their places, and restarts clear what was derived.
LEMMA ChangingKeyShape ==
    ASSUME KeyShape, Changing
    PROVE  KeyShape'
<1>0. MaxChanges \in Nat
  BY FleetAssumption DEF FleetAssumption
<1>1. Change
  BY DEF Changing, RemoveAuthKey, RestartDealer, AddAuthKey, RestartSlave, RestartMaster
<1>2. UNCHANGED <<secure, common, sends>> /\ changes' \in 0..MaxChanges
  BY <1>0, <1>1 DEF Change, fixed, KeyShape
<1>3. ASSUME NEW s \in Slaves, RemoveAuthKey(s) PROVE KeyShape'
  BY <1>2, <1>3, KeyOperators DEF RemoveAuthKey, Uncached, Removed, slaves, KeyShape
<1>4. ASSUME NEW s \in Slaves, RestartDealer(s) PROVE KeyShape'
  BY <1>2, <1>4 DEF RestartDealer, Connects, master, slaves, KeyShape
<1>5. ASSUME NEW s \in Slaves, NEW k \in Keys, AddAuthKey(s, k) PROVE KeyShape'
  BY <1>2, <1>5, KeyOperators DEF AddAuthKey, Recached, slaves, KeyShape
<1>6. ASSUME NEW s \in Slaves, NEW k \in Keys, RestartSlave(s, k) PROVE KeyShape'
  BY <1>2, <1>6 DEF RestartSlave, Connects, master, KeyShape
<1>7. ASSUME NEW id \in MasterIds, RestartMaster(id) PROVE KeyShape'
  BY <1>2, <1>7 DEF RestartMaster, slaves, KeyShape
<1> QED
  BY <1>3, <1>4, <1>5, <1>6, <1>7 DEF Changing

\* Keys and counters keep their shape.
LEMMA KeyShapeStep == KeyShape /\ [Next]_vars => KeyShape'
<1> SUFFICES ASSUME KeyShape, [Next]_vars PROVE KeyShape'
  OBVIOUS
<1>1. CASE Sending
  BY <1>1, SendingKeyShape
<1>2. CASE Changing
  BY <1>2, ChangingKeyShape
<1>3. ASSUME NEW n \in Nodes, Replying(n) PROVE KeyShape'
  <2>1. ASSUME NEW r, NEW payload, MasterReplies(r, payload) PROVE KeyShape'
    BY <2>1, KeyOperators DEF MasterReplies, fixed, slaves, KeyShape
  <2>2. ASSUME NEW r, NEW payload, SlaveReplies(n, r, payload) PROVE KeyShape'
    BY <2>2 DEF SlaveReplies, fixed, master, slaves, KeyShape
  <2> QED
    BY <1>3, <2>1, <2>2 DEF Replying
<1>4. ASSUME NEW s \in Slaves, Heartbeat(s) PROVE KeyShape'
  BY <1>4 DEF Heartbeat, fixed, master, slaves, KeyShape
<1>5. ASSUME NEW s \in Slaves, MasterReceives(s) PROVE KeyShape'
  BY <1>5, ReceivingKeyShape
<1>6. ASSUME NEW s \in Slaves, SlaveReceives(s) PROVE KeyShape'
  BY <1>6 DEF SlaveReceives, fixed, master, KeyShape
<1>7. ASSUME NEW s \in Slaves, Evict(s) PROVE KeyShape'
  BY <1>7, KeyOperators DEF Evict, Removed, fixed, slaves, KeyShape
<1>8. CASE UNCHANGED vars
  BY <1>8 DEF vars, fixed, master, slaves, KeyShape
<1> QED
  BY <1>1, <1>2, <1>3, <1>4, <1>5, <1>6, <1>7, <1>8 DEF Next

\* A slave learns the master from a frame it accepts: a proof that verifies names
\* the node that sent it.
LEMMA LearntFromProof ==
    ASSUME ProofsAreNotEmpty, FrameInv, NEW s \in Slaves, SlaveReceives(s)
    PROVE  LearntShape'
<1> DEFINE m == Head(down[s])
           p == ParseControlFrames(m.frames)
<1>1. m \in Sent(MasterIds)
  <2>1. down[s] \in Seq(Sent(MasterIds)) /\ down[s] # <<>>
    BY DEF SlaveReceives, FrameInv, WireShape
  <2> QED
    BY <2>1, Queued
<1>2. p.proof = ProofOf(m.msg) /\ m.msg.from \in MasterIds
  <2>1. ParseControlFrames(m.frames) = Parsed(m.msg.kind, m.msg.head, ProofOf(m.msg), Body(m.msg))
    BY <1>1, SentIsParsed
  <2>2. m.msg.from \in MasterIds
    BY <1>1, SentMeans
  <2> QED
    BY <2>1, <2>2 DEF Parsed
<1>3. masterOf' = masterOf \/ (SlaveAccepts(s, p) /\ masterOf' = [masterOf EXCEPT ![s] = Sender(s, p)])
  BY DEF SlaveReceives, slaves
<1>4. ASSUME SlaveAccepts(s, p) PROVE Sender(s, p) \in MasterIds \cup {Empty}
  <2>1. CASE s \notin secure
    BY <2>1 DEF Sender
  <2>2. CASE s \in secure
    <3>1. p.proof # Empty
      BY <1>4, <2>2 DEF SlaveAccepts, Verifies, VerifiesProof
    <3>2. p.proof.node = m.msg.from
      BY <1>2, <3>1 DEF ProofOf, EncodeAuthProofToken
    <3>3. masterOf[s] \in MasterIds \cup {Empty}
      BY DEF FrameInv, LearntShape
    <3> QED
      BY <1>2, <2>2, <3>2, <3>3 DEF Sender, Learnt
  <2> QED
    BY <2>1, <2>2
<1> QED
  BY <1>3, <1>4 DEF FrameInv, LearntShape

\* No other step makes a slave learn a master.
LEMMA LearntStep ==
    ASSUME ProofsAreNotEmpty, FrameInv, [Next]_vars
    PROVE  LearntShape'
<1>1. CASE Sending
  BY <1>1 DEF Sending, Publish, RequestTo, Request, Send, slaves, FrameInv, LearntShape
<1>2. CASE Changing
  BY <1>2 DEF Changing, RemoveAuthKey, RestartDealer, AddAuthKey, RestartSlave, RestartMaster,
     slaves, FrameInv, LearntShape
<1>3. ASSUME NEW n \in Nodes, Replying(n) PROVE LearntShape'
  BY <1>3 DEF Replying, MasterReplies, SlaveReplies, slaves, FrameInv, LearntShape
<1>4. ASSUME NEW s \in Slaves, Heartbeat(s) \/ MasterReceives(s) \/ Evict(s) PROVE LearntShape'
  BY <1>4 DEF Heartbeat, MasterReceives, Evict, slaves, FrameInv, LearntShape
<1>5. ASSUME NEW s \in Slaves, SlaveReceives(s) PROVE LearntShape'
  BY <1>5, LearntFromProof
<1>6. CASE UNCHANGED vars
  BY <1>6 DEF vars, slaves, FrameInv, LearntShape
<1> QED
  BY <1>1, <1>2, <1>3, <1>4, <1>5, <1>6 DEF Next

\* A handler that starts does so in a loop that was free, and answers a request.
LEMMA HandlerStarts ==
    ASSUME FrameInv, NEW n \in Nodes, Reads(n), NEW r,
           IF n = Master THEN r \in Requests({"request"}, Slaves)
           ELSE r \in Requests({"request", "service_request"}, {Master}),
           serving' = [serving EXCEPT ![n] = @ \cup {r}]
    PROVE  HandlerShape'
<1>1. /\ DOMAIN serving' = Nodes /\ serving'[n] = serving[n] \cup {r}
      /\ \A k \in Nodes \ {n} : serving'[k] = serving[k]
  BY DEF FrameInv, HandlerShape
<1>2. ASSUME NEW k \in Nodes, NEW a \in serving'[k], NEW b \in serving'[k], ~a.old, ~b.old
      PROVE  a = b
  <2>1. CASE k = n
    BY <1>1, <1>2, <2>1 DEF Reads
  <2>2. CASE k # n
    BY <1>1, <1>2, <2>2 DEF FrameInv, HandlerShape
  <2> QED
    BY <2>1, <2>2
<1>3. Master \notin Slaves /\ Master \in Nodes /\ \A s \in Slaves : s \in Nodes
  BY FleetAssumption DEF FleetAssumption, Nodes
<1>4. serving'[Master] \subseteq Requests({"request"}, Slaves)
  BY <1>1, <1>3 DEF FrameInv, HandlerShape
<1>5. ASSUME NEW s \in Slaves
      PROVE  serving'[s] \subseteq Requests({"request", "service_request"}, {Master})
  BY <1>1, <1>3 DEF FrameInv, HandlerShape
<1> QED
  BY <1>1, <1>2, <1>4, <1>5 DEF HandlerShape

\* Handlers that end, and those of a loop that is replaced.
LEMMA HandlersFewer ==
    ASSUME FrameInv, NEW n \in Nodes, NEW S \in SUBSET serving[n],
           serving' = [serving EXCEPT ![n] = S]
    PROVE  HandlerShape'
<1>1. /\ DOMAIN serving' = Nodes
      /\ \A k \in Nodes : serving'[k] \subseteq serving[k]
  BY DEF FrameInv, HandlerShape
<1>2. Master \in Nodes /\ \A s \in Slaves : s \in Nodes
  BY DEF Nodes
<1>3. serving'[Master] \subseteq Requests({"request"}, Slaves)
  BY <1>1, <1>2 DEF FrameInv, HandlerShape
<1>4. \A s \in Slaves : serving'[s] \subseteq Requests({"request", "service_request"}, {Master})
  BY <1>1, <1>2 DEF FrameInv, HandlerShape
<1>5. \A k \in Nodes : \A r, q \in serving'[k] : ~r.old /\ ~q.old => r = q
  BY <1>1 DEF FrameInv, HandlerShape
<1> QED
  BY <1>1, <1>3, <1>4, <1>5 DEF HandlerShape

\* A rebuild leaves the handlers to the old read loop.
LEMMA HandlersOld ==
    ASSUME FrameInv, NEW s \in Slaves,
           serving' = [serving EXCEPT ![s] = {[r EXCEPT !.old = TRUE] : r \in @}]
    PROVE  HandlerShape'
<1> DEFINE R == Requests({"request", "service_request"}, {Master})
<1>1. s \in Nodes /\ s # Master /\ DOMAIN serving = Nodes
  BY FleetAssumption DEF FleetAssumption, Nodes, FrameInv, HandlerShape
<1>2. /\ serving'[s] = {[r EXCEPT !.old = TRUE] : r \in serving[s]}
      /\ DOMAIN serving' = Nodes
      /\ \A k \in Nodes \ {s} : serving'[k] = serving[k]
  BY <1>1
<1>3. \A r \in R : [r EXCEPT !.old = TRUE] \in R /\ [r EXCEPT !.old = TRUE].old
  BY DEF Requests
<1>4. serving[s] \subseteq R
  BY DEF FrameInv, HandlerShape
<1>5. serving'[s] \subseteq R /\ \A r \in serving'[s] : r.old
  BY <1>2, <1>3, <1>4
<1>6. Master \in Nodes /\ \A k \in Slaves : k \in Nodes
  BY DEF Nodes
<1> HIDE DEF R
<1>7. \A k \in Slaves : serving'[k] \subseteq R
  BY <1>2, <1>5, <1>6 DEF FrameInv, HandlerShape, R
<1>8. serving'[Master] \subseteq Requests({"request"}, Slaves)
  BY <1>1, <1>2, <1>6 DEF FrameInv, HandlerShape
<1>9. \A k \in Nodes : \A r, q \in serving'[k] : ~r.old /\ ~q.old => r = q
  BY <1>2, <1>5 DEF FrameInv, HandlerShape
<1> QED
  BY <1>2, <1>7, <1>8, <1>9 DEF HandlerShape, R

\* The requests among the frames sent.
LEMMA RequestSent ==
    ASSUME ProofsAreNotEmpty, NEW From, NEW m \in Sent(From), NEW K, NEW To, NEW to \in To,
           K \subseteq {"request", "service_request"}, NEW p, p = ParseControlFrames(m.frames),
           p.kind \in K
    PROVE  [to |-> to, kind |-> p.kind, head |-> p.head, old |-> FALSE] \in Requests(K, To)
<1>1. p.kind = m.msg.kind /\ p.head = m.msg.head
  <2>1. p = Parsed(m.msg.kind, m.msg.head, ProofOf(m.msg), Body(m.msg))
    BY SentIsParsed
  <2> QED
    BY <2>1 DEF Parsed
<1>2. p.head \in Heads(p.kind)
  BY <1>1, SentMeans DEF Meaning
<1> QED
  BY <1>2 DEF Requests

\* The master serves a request of the slave it came from.
LEMMA MasterHandler ==
    ASSUME ProofsAreNotEmpty, FrameInv, NEW s \in Slaves, MasterReceives(s)
    PROVE  HandlerShape'
<1> DEFINE m == Head(up[s])
<1>0. Taken(s) = ParseControlFrames(m.frames)
  BY DEF Taken
<1>1. PICK p : /\ p = Taken(s)
               /\ \/ ReceivesUnregister(s, p) \/ ReceivesUnkeyed(s, p)
                  \/ ReceivesSecure(s, p) \/ ReceivesPlain(s, p)
  BY DEF MasterReceives
<1>2. serving' = serving \/ (p.kind = "request" /\ serving' = Serving(Master, p, s))
  BY <1>1
     DEF ReceivesUnregister, ReceivesUnkeyed, ReceivesSecure, ReceivesPlain, Handled, NotHandled
<1>3. CASE serving' = serving
  BY <1>3 DEF FrameInv, HandlerShape
<1>4. CASE p.kind = "request" /\ serving' = Serving(Master, p, s)
  <2> DEFINE r == [to |-> s, kind |-> p.kind, head |-> p.head, old |-> FALSE]
  <2>1. m \in Sent({s})
    <3>1. up[s] \in Seq(Sent({s})) /\ up[s] # <<>>
      BY DEF MasterReceives, FrameInv, WireShape
    <3> QED
      BY <3>1, Queued
  <2>2. p = ParseControlFrames(m.frames)
    BY <1>0, <1>1
  <2>3. r \in Requests({"request"}, Slaves)
    <3>1. p.kind \in {"request"} /\ {"request"} \subseteq {"request", "service_request"}
      BY <1>4
    <3> HIDE DEF m
    <3> QED
      BY <2>1, <2>2, <3>1, RequestSent
  <2>4. Reads(Master) /\ Master \in Nodes /\ serving' = [serving EXCEPT ![Master] = @ \cup {r}]
    BY <1>4 DEF MasterReceives, Serving, Nodes
  <2> HIDE DEF r
  <2> QED
    BY <2>3, <2>4, HandlerStarts
<1> QED
  BY <1>2, <1>3, <1>4

\* A slave serves requests of its master.
LEMMA SlaveHandler ==
    ASSUME ProofsAreNotEmpty, FrameInv, NEW s \in Slaves, SlaveReceives(s)
    PROVE  HandlerShape'
<1> DEFINE m == Head(down[s])
<1>1. PICK p : /\ p = ParseControlFrames(m.frames)
               /\ \/ serving' = serving
                  \/ p.kind \in {"request", "service_request"} /\ serving' = Serving(s, p, Master)
  BY DEF SlaveReceives
<1>2. CASE serving' = serving
  BY <1>2 DEF FrameInv, HandlerShape
<1>3. CASE p.kind \in {"request", "service_request"} /\ serving' = Serving(s, p, Master)
  <2> DEFINE r == [to |-> Master, kind |-> p.kind, head |-> p.head, old |-> FALSE]
  <2>1. m \in Sent(MasterIds)
    <3>1. down[s] \in Seq(Sent(MasterIds)) /\ down[s] # <<>>
      BY DEF SlaveReceives, FrameInv, WireShape
    <3> QED
      BY <3>1, Queued
  <2>2. r \in Requests({"request", "service_request"}, {Master})
    <3>1. p.kind \in {"request", "service_request"} /\ Master \in {Master}
      BY <1>3
    <3> HIDE DEF m
    <3> QED
      BY <1>1, <2>1, <3>1, RequestSent
  <2>3. Reads(s) /\ s \in Nodes /\ s # Master /\ serving' = [serving EXCEPT ![s] = @ \cup {r}]
    BY <1>3, FleetAssumption DEF SlaveReceives, Serving, Nodes, FleetAssumption
  <2> HIDE DEF r
  <2> QED
    BY <2>2, <2>3, HandlerStarts
<1> QED
  BY <1>1, <1>2, <1>3

\* Every handler is that of a request, and one at most holds up a read loop.
LEMMA HandlerStep ==
    ASSUME ProofsAreNotEmpty, FrameInv, [Next]_vars
    PROVE  HandlerShape'
<1>0. Master \in Nodes /\ \A s \in Slaves : s \in Nodes
  BY DEF Nodes
<1>1. CASE Sending
  BY <1>1 DEF Sending, Publish, RequestTo, Request, Send, FrameInv, HandlerShape
<1>2. CASE Changing
  <2>1. ASSUME NEW s \in Slaves, RestartDealer(s) PROVE HandlerShape'
    BY <2>1, HandlersOld DEF RestartDealer
  <2>2. ASSUME NEW s \in Slaves, NEW k \in Keys, RestartSlave(s, k) PROVE HandlerShape'
    BY <1>0, <2>2, HandlersFewer DEF RestartSlave
  <2>3. ASSUME NEW id \in MasterIds, RestartMaster(id) PROVE HandlerShape'
    BY <1>0, <2>3, HandlersFewer DEF RestartMaster
  <2>4. ASSUME NEW s \in Slaves, RemoveAuthKey(s) PROVE HandlerShape'
    BY <2>4 DEF RemoveAuthKey, FrameInv, HandlerShape
  <2>5. ASSUME NEW s \in Slaves, NEW k \in Keys, AddAuthKey(s, k) PROVE HandlerShape'
    BY <2>5 DEF AddAuthKey, FrameInv, HandlerShape
  <2> QED
    BY <1>2, <2>1, <2>2, <2>3, <2>4, <2>5 DEF Changing
<1>3. ASSUME NEW n \in Nodes, Replying(n) PROVE HandlerShape'
  <2>1. PICK r : serving' = [serving EXCEPT ![n] = serving[n] \ {r}]
    BY <1>3 DEF Replying, MasterReplies, SlaveReplies
  <2> QED
    BY <2>1, HandlersFewer
<1>4. ASSUME NEW s \in Slaves, Heartbeat(s) \/ Evict(s) PROVE HandlerShape'
  BY <1>4 DEF Heartbeat, Evict, FrameInv, HandlerShape
<1>5. ASSUME NEW s \in Slaves, MasterReceives(s) PROVE HandlerShape'
  BY <1>5, MasterHandler
<1>6. ASSUME NEW s \in Slaves, SlaveReceives(s) PROVE HandlerShape'
  BY <1>6, SlaveHandler
<1>7. CASE UNCHANGED vars
  BY <1>7 DEF vars, FrameInv, HandlerShape
<1> QED
  BY <1>1, <1>2, <1>3, <1>4, <1>5, <1>6, <1>7 DEF Next

(***************************************************************************)
(* What follows.                                                           *)
(***************************************************************************)

\* Nothing is under way at the start.
LEMMA InitFrames == Init => FrameInv
<1> SUFFICES ASSUME Init PROVE FrameInv
  OBVIOUS
<1>1. KeyShape
  BY FleetAssumption DEF FleetAssumption, Init, KeyShape
<1>2. LearntShape
  BY DEF Init, LearntShape
<1>3. WireShape
  BY DEF Init, WireShape
<1>4. HandlerShape
  BY DEF Init, HandlerShape, Nodes
<1> QED
  BY <1>1, <1>2, <1>3, <1>4 DEF FrameInv

\* All of it is inductive together: a slave learns its master from what was sent,
\* answers repeat the head of a request that was sent.
LEMMA FrameStep ==
    ASSUME ProofsAreNotEmpty
    PROVE  FrameInv /\ [Next]_vars => FrameInv'
BY KeyShapeStep, WireStep, LearntStep, HandlerStep DEF FrameInv

\* At most one element is at most one.
LEMMA OneAtMost ==
    ASSUME NEW S, \A a, b \in S : a = b
    PROVE  Cardinality(S) <= 1
<1>1. CASE S = {}
  BY <1>1, FS_EmptySet
<1>2. CASE S # {}
  <2>1. PICK a : S = {a}
    BY <1>2
  <2> QED
    BY <2>1, FS_Singleton
<1> QED
  BY <1>1, <1>2

\* The type invariant follows.
LEMMA FramesTyped == FrameInv => TypeOK
<1> SUFFICES ASSUME FrameInv PROVE TypeOK
  OBVIOUS
<1> DEFINE Texts == (1..MaxSends) \cup {Topic, Service}
<1>1. ASSUME NEW k \in Kinds, NEW h \in Heads(k) PROVE h \in Seq(Texts)
  BY <1>1, HeadFrames
<1>2. ASSUME NEW From, From \subseteq Slaves \cup MasterIds, NEW g \in Meanings(From)
      PROVE  g \in Meant
  <2>1. /\ g \in [from : From, key : Keys \cup {Empty}, kind : Kinds,
                  head : UNION {Heads(k) : k \in Kinds}, payload : Payloads \cup {<<>>}]
        /\ Meaning(g)
    BY <1>2 DEF Meanings
  <2>2. g.head \in Seq(Texts)
    <3>1. g.kind \in Kinds /\ g.head \in Heads(g.kind)
      BY <2>1 DEF Meaning
    <3> QED
      BY <1>1, <3>1
  <2> QED
    BY <1>2, <2>1, <2>2 DEF Meant
<1>3. ASSUME NEW From, From \subseteq Slaves \cup MasterIds, NEW q \in Seq(Sent(From)), NEW i \in DOMAIN q
      PROVE  q[i].msg \in Meant
  <2>1. q[i] \in Sent(From)
    BY <1>3
  <2>2. q[i].msg \in Meanings(From)
    BY <2>1, SentMeans
  <2> QED
    BY <1>2, <1>3, <2>2
<1>4. ASSUME NEW s \in Slaves
      PROVE  /\ \A i \in DOMAIN up[s] : up[s][i].msg \in Meant
             /\ \A i \in DOMAIN down[s] : down[s][i].msg \in Meant
  <2>1. up[s] \in Seq(Sent({s})) /\ down[s] \in Seq(Sent(MasterIds))
    BY DEF FrameInv, WireShape
  <2> QED
    BY <1>3, <2>1
<1>5. ASSUME NEW n \in Nodes
      PROVE  /\ serving[n] \subseteq Handling
             /\ Cardinality({r \in serving[n] : ~r.old}) <= 1
  <2>1. ASSUME NEW K, NEW To, K \subseteq {"request", "service_request"}, To \subseteq Nodes,
               NEW r \in Requests(K, To)
        PROVE  r \in Handling
    <3>1. r.head \in Seq((1..MaxSends) \cup {Service})
      <4>1. r.kind \in {"request", "service_request"} /\ r.head \in Heads(r.kind)
        BY <2>1 DEF Requests
      <4>2. \/ \E i \in 1..MaxSends : r.head = <<i>>
            \/ \E i \in 1..MaxSends : r.head = <<i, Service>>
        BY <4>1 DEF Heads
      <4>3. ASSUME NEW i \in 1..MaxSends
            PROVE  <<i>> \in Seq((1..MaxSends) \cup {Service}) /\ <<i, Service>> \in Seq((1..MaxSends) \cup {Service})
        OBVIOUS
      <4> QED
        BY <4>2, <4>3
    <3> QED
      BY <2>1, <3>1 DEF Requests, Handling
  <2>2. serving[n] \subseteq Requests({"request"}, Slaves)
        \/ serving[n] \subseteq Requests({"request", "service_request"}, {Master})
    BY DEF FrameInv, HandlerShape, Nodes
  <2>3. serving[n] \subseteq Handling
    BY <2>1, <2>2 DEF Nodes
  <2>4. \A a, b \in {r \in serving[n] : ~r.old} : a = b
    BY DEF FrameInv, HandlerShape
  <2> QED
    BY <2>3, <2>4, OneAtMost
<1> QED
  BY <1>4, <1>5 DEF FrameInv, KeyShape, LearntShape, HandlerShape, TypeOK

\* The state keeps its shape, and no read loop has two handlers.
THEOREM FleetShape ==
    ASSUME ProofsAreNotEmpty
    PROVE  Spec => []TypeOK
BY InitFrames, FrameStep, FramesTyped, PTL DEF Spec

\* No message is misread on either side, for any payloads that the codec brings
\* back, however keys, modes, ids and connections have changed since it was sent:
\* whatever is built, signed and sealed is parsed, verified and opened as it was
\* meant, or refused.
THEOREM NoFrameMisread ==
    ASSUME ProofsAreNotEmpty
    PROVE  Spec => []Faithful
<1>1. ASSUME FrameInv PROVE Faithful
  <2>1. ASSUME NEW From, NEW q \in Seq(Sent(From)), NEW i \in DOMAIN q, NEW key, NEW expected
        PROVE  Read(q[i], key, expected)
    <3>1. q[i] \in Sent(From)
      BY <2>1
    <3> QED
      BY <3>1, SentMeans, ReadAsMeant
  <2>2. \A s \in Slaves : up[s] \in Seq(Sent({s})) /\ down[s] \in Seq(Sent(MasterIds))
    BY <1>1 DEF FrameInv, WireShape
  <2> QED
    BY <2>1, <2>2 DEF Faithful
<1> QED
  BY <1>1, InitFrames, FrameStep, PTL DEF Spec
=============================================================================
