------------------------------- MODULE Fleet --------------------------------
(***************************************************************************)
(* One master and its slaves, their keys, and every kind of frame that     *)
(* travels between them: addAuthKey, removeAuthKey, the cache of derived   *)
(* keys, the id of the master a slave learns, PUBLISH, PUSH, requests and  *)
(* service requests with their answers, register, heartbeat, unregister.   *)
(*                                                                         *)
(* Not here: how a call settles (RpcChannel), when heartbeats and scans    *)
(* fire (SlaveLink), repeated frames (ReplayGuard).                        *)
(***************************************************************************)
EXTENDS Wire, FiniteSets

CONSTANTS
    Slaves,
    MasterIds,      \* ids a master may be started with
    Keys,           \* authKeys; Empty stands for none
    Topic, Service, \* a topic, and the name of a service
    Payloads,       \* payloads as arrays of frames (normalizeFrames), none of which begins with AUTH
    Master,         \* the master's name in Modes
    Modes,          \* the sets of nodes that may have encrypted = true
    MaxSends,       \* bound: messages the applications send
    MaxChanges,     \* bound: changes of keys, restarts and rebuilds
    Absent          \* no entry in #slaves

\* Ids of requests and names of services are never empty strings.
ASSUME FleetAssumption ==
    /\ Empty \notin Keys \cup MasterIds \cup (1..MaxSends) \cup {Service}
    /\ Master \notin Slaves
    /\ Modes \subseteq SUBSET (Slaves \cup {Master}) /\ Modes # {}
    /\ \A p \in Payloads : p \in Seq({p[i] : i \in DOMAIN p}) /\ (p # <<>> => p[1] # AUTH)
    /\ MaxSends \in Nat /\ MaxChanges \in Nat

\* decodeFrames() undoes encodeFrames() on the payloads sent.
ASSUME CodecAssumption ==
    \A p \in Payloads : DecodeFrames(EncodeFrames(p)) = [ok |-> TRUE, frames |-> p]

VARIABLES
    secure,     \* the nodes with encrypted = true; fixed
    common,     \* authKey of the master, or Empty; fixed
    masterId,   \* id of the master
    keyMap,     \* #authKeyMap
    cache,      \* #slaveKeyCache
    table,      \* #slaves: the keys in the entry of a slave (Empty: none), or Absent
    slaveKey,   \* authKey of each slave
    masterOf,   \* #masterNodeId of each slave, or Empty
    serving,    \* for each node the requests whose handlers run; `old`: in the loop of a Dealer that is gone
    up, down,   \* the connections: [frames, msg]; msg (ghost) is what the sender meant
    sends,      \* messages sent so far; a request takes its number as its requestId
    changes

fixed == <<secure, common>>
master == <<masterId, keyMap, cache, table>>
slaves == <<slaveKey, masterOf>>
wires == <<up, down>>
vars == <<fixed, master, slaves, serving, wires, sends, changes>>

Nodes == Slaves \cup {Master}
Plain == {"unregister"}
Data == {"publish", "push", "request", "response", "service_request", "service_response"}

\* An encrypted master has a common key, a map or both, perhaps an empty map; a
\* plain one ignores its keys.
Init ==
    /\ secure \in Modes
    /\ common \in IF Master \in secure THEN Keys \cup {Empty} ELSE {Empty}
    /\ masterId \in MasterIds
    /\ keyMap \in [Slaves -> IF Master \in secure THEN Keys \cup {Empty} ELSE {Empty}]
    /\ cache = [s \in Slaves |-> Empty]
    /\ table = [s \in Slaves |-> Absent]
    /\ slaveKey \in [Slaves -> Keys]
    /\ masterOf = [s \in Slaves |-> Empty]
    /\ serving = [n \in Nodes |-> {}]
    /\ up = [s \in Slaves |-> <<>>]
    /\ down = [s \in Slaves |-> <<>>]
    /\ sends = 0
    /\ changes = 0

(***************************************************************************)
(* What is signed and sealed.  Service frames use the proofs of requests   *)
(* and responses, with the service in front of the requestId.              *)
(***************************************************************************)
Signed(kind) == CASE kind = "service_request" -> "request"
                  [] kind = "service_response" -> "response"
                  [] OTHER -> kind

Subject(kind, head) ==
    IF kind \in {"service_request", "service_response"} THEN <<"svc", head[2], head[1]>> ELSE head

\* The frames `node` sends; key is Empty when it is not encrypted.
Outgoing(node, key, kind, head, payload) ==
    LET body == IF key = Empty \/ kind \notin Data THEN payload
                ELSE SealPayloadFrames(key, Signed(kind), node, Subject(kind, head), payload)
        proof == IF key = Empty \/ kind \in Plain THEN Empty
                 ELSE EncodeAuthProofToken(key, Signed(kind), node, Subject(kind, head), body)
    IN  [frames |-> Build(kind, head, body, proof),
         msg |-> [from |-> node, key |-> key, kind |-> kind, head |-> head, payload |-> payload]]

Verifies(p, key, expected) ==
    VerifiesProof(p.proof, key, Signed(p.kind), Subject(p.kind, p.head), expected, p.payload)

Opens(p, key, sender) ==
    OpenPayloadFrames(key, Signed(p.kind), sender, Subject(p.kind, p.head), p.payload)

\* The frames of a message that may go on to the application: [ok, frames].
Delivers(p, key, sender) ==
    IF key = Empty \/ p.kind \notin Data THEN [ok |-> TRUE, frames |-> p.payload]
    ELSE Opens(p, key, sender)

(***************************************************************************)
(* Keys at the master.                                                     *)
(***************************************************************************)
Configured(s) == IF keyMap[s] # Empty THEN keyMap[s] ELSE common

\* The key for slave s: Empty if the master is plain or has none.
ResolveSlaveKeys(s) ==
    IF Master \notin secure THEN Empty
    ELSE IF cache[s] # Empty THEN cache[s] ELSE Configured(s)

Unkeyed(s) == Master \in secure /\ ResolveSlaveKeys(s) = Empty

\* Resolving caches the key, and refreshes the entry when the cache was empty.
Cached(S) == [s \in Slaves |-> IF s \in S THEN ResolveSlaveKeys(s) ELSE cache[s]]
Refreshed(S) ==
    [s \in Slaves |-> IF s \in S /\ table[s] # Absent /\ cache[s] = Empty
                      THEN ResolveSlaveKeys(s) ELSE table[s]]

Entry(s, k) == [table EXCEPT ![s] = k]
Removed(s) == Entry(s, Absent)

KeyOf(s) == IF s \in secure THEN slaveKey[s] ELSE Empty
ToMaster(s, kind, head, payload) ==
    up' = [up EXCEPT ![s] = Append(@, Outgoing(s, KeyOf(s), kind, head, payload))]
Addressed(s, kind, head, payload) == Outgoing(masterId, ResolveSlaveKeys(s), kind, head, payload)
ToSlave(s, kind, head, payload) ==
    down' = [down EXCEPT ![s] = Append(@, Addressed(s, kind, head, payload))]

(***************************************************************************)
(* What the applications send.                                             *)
(***************************************************************************)
Send == sends < MaxSends /\ sends' = sends + 1 /\ UNCHANGED <<fixed, slaves, serving, changes>>

\* To every slave in the table; one without a key is dropped from it.
Publish(payload) ==
    LET online == {s \in Slaves : table[s] # Absent}
        keyed == {s \in online : ~Unkeyed(s)}
    IN  /\ Send
        /\ online # {}
        /\ cache' = Cached(online)
        /\ table' = [s \in Slaves |-> IF s \in online \ keyed THEN Absent ELSE Refreshed(online)[s]]
        /\ down' = [s \in Slaves |-> IF s \in keyed
                      THEN Append(down[s], Addressed(s, "publish", <<Topic>>, payload)) ELSE down[s]]
        /\ UNCHANGED <<masterId, keyMap, up>>

\* ROUTER(id, payload), or a service request; without a key the call throws.
RequestTo(s, payload) ==
    /\ Send
    /\ ~Unkeyed(s)
    /\ cache' = Cached({s}) /\ table' = Refreshed({s})
    /\ \/ ToSlave(s, "request", <<sends'>>, payload)
       \/ ToSlave(s, "service_request", <<sends', Service>>, payload)
    /\ UNCHANGED <<masterId, keyMap, up>>

\* DEALER(payload) and PUSH(topic, payload).
Request(s, payload) ==
    /\ Send
    /\ \/ ToMaster(s, "request", <<sends'>>, payload)
       \/ ToMaster(s, "push", <<Topic>>, payload)
    /\ UNCHANGED <<master, down>>

\* One heartbeat at a time (SlaveLink shows it).
Heartbeat(s) ==
    /\ \A i \in 1..Len(up[s]) : up[s][i].msg.kind # "heartbeat"
    /\ \A i \in 1..Len(down[s]) : down[s][i].msg.kind # "heartbeat_ack"
    /\ ToMaster(s, "heartbeat", <<>>, <<>>)
    /\ UNCHANGED <<fixed, master, slaves, serving, down, sends, changes>>

(***************************************************************************)
(* #handleRouterFrames: the next frames of slave s.                        *)
(***************************************************************************)
Taken(s) == ParseControlFrames(Head(up[s]).frames)
Answers(kind) == IF kind = "service_request" THEN "service_response" ELSE "response"

\* A read loop awaits the handler of a request; after a rebuild the handler of
\* the old loop goes on beside the new one.
Reads(n) == \A r \in serving[n] : r.old
Serving(n, p, peer) ==
    [serving EXCEPT ![n] = @ \cup {[to |-> peer, kind |-> p.kind, head |-> p.head, old |-> FALSE]}]

\* Behind the authentication: the handler of a request is awaited, a
\* heartbeat is acknowledged, anything else goes to the application at once.
Handled(s, p) ==
    /\ down' = IF p.kind = "heartbeat"
               THEN [down EXCEPT ![s] = Append(@, Addressed(s, "heartbeat_ack", <<>>, <<>>))]
               ELSE down
    /\ serving' = IF p.kind = "request" /\ Delivers(p, ResolveSlaveKeys(s), s).ok
                  THEN Serving(Master, p, s)
                  ELSE serving

NotHandled == UNCHANGED <<serving, down>>

ReceivesUnregister(s, p) == p.kind = "unregister" /\ table' = Removed(s) /\ NotHandled /\ UNCHANGED cache

ReceivesUnkeyed(s, p) ==
    p.kind # "unregister" /\ Unkeyed(s) /\ table' = Removed(s) /\ NotHandled /\ UNCHANGED cache

ReceivesSecure(s, p) ==
    /\ p.kind # "unregister" /\ Master \in secure /\ ~Unkeyed(s)
    /\ cache' = Cached({s})
    /\ IF Verifies(p, ResolveSlaveKeys(s), s)
       THEN table' = Entry(s, ResolveSlaveKeys(s)) /\ Handled(s, p)
       ELSE table' = Refreshed({s}) /\ NotHandled

\* A plain master refuses a heartbeat or register frame with a proof, and
\* takes the proof of any other frame off unread.
ReceivesPlain(s, p) ==
    /\ p.kind # "unregister" /\ Master \notin secure
    /\ UNCHANGED cache
    /\ IF p.kind \in {"heartbeat", "register"} /\ p.proof # Empty
       THEN UNCHANGED table /\ NotHandled
       ELSE table' = Entry(s, Empty) /\ Handled(s, p)

MasterReceives(s) ==
    /\ up[s] # <<>> /\ Reads(Master)
    /\ up' = [up EXCEPT ![s] = Tail(@)]
    /\ LET p == Taken(s) IN
         ReceivesUnregister(s, p) \/ ReceivesUnkeyed(s, p) \/ ReceivesSecure(s, p) \/ ReceivesPlain(s, p)
    /\ UNCHANGED <<fixed, masterId, keyMap, slaves, sends, changes>>

\* The handler ends: #replyTo, or nothing when it throws or the key is gone.
MasterReplies(r, payload) ==
    /\ serving' = [serving EXCEPT ![Master] = @ \ {r}]
    /\ \/ /\ ~Unkeyed(r.to)
          /\ ToSlave(r.to, "response", r.head, payload)
          /\ cache' = Cached({r.to}) /\ table' = Refreshed({r.to})
       \/ UNCHANGED <<down, cache, table>>
    /\ UNCHANGED <<fixed, masterId, keyMap, slaves, up, sends, changes>>

(***************************************************************************)
(* #handleDealerFrames of slave s.                                         *)
(***************************************************************************)
\* The first proof accepted names the master for good.
Learnt_Subject(s, p) == IF masterOf[s] = Empty THEN p.proof.subject ELSE masterOf[s]
Learnt(s, p) == IF masterOf[s] = Empty THEN p.proof.node ELSE masterOf[s]

Sender(s, p) == IF s \in secure THEN Learnt(s, p) ELSE Empty
SlaveAccepts(s, p) == s \notin secure \/ Verifies(p, slaveKey[s], masterOf[s])

SlaveReceives(s) ==
    /\ down[s] # <<>> /\ Reads(s)
    /\ down' = [down EXCEPT ![s] = Tail(@)]
    /\ LET p == ParseControlFrames(Head(down[s]).frames) IN
         IF SlaveAccepts(s, p)
         THEN /\ masterOf' = [masterOf EXCEPT ![s] = Sender(s, p)]
              /\ serving' = IF p.kind \in {"request", "service_request"}
                               /\ Delivers(p, KeyOf(s), Sender(s, p)).ok
                            THEN Serving(s, p, Master)
                            ELSE serving
         ELSE UNCHANGED <<masterOf, serving>>
    /\ UNCHANGED <<fixed, master, slaveKey, up, sends, changes>>

\* #reply, #replyOk or #replyError; an RPC handler that throws answers nothing.
SlaveReplies(s, r, payload) ==
    /\ serving' = [serving EXCEPT ![s] = @ \ {r}]
    /\ \/ ToMaster(s, Answers(r.kind), r.head, payload)
       \/ r.kind = "request" /\ UNCHANGED up
    /\ UNCHANGED <<fixed, master, slaves, down, sends, changes>>

(***************************************************************************)
(* Changes of keys, and faults.                                            *)
(***************************************************************************)
Change == changes < MaxChanges /\ changes' = changes + 1 /\ UNCHANGED <<fixed, sends>>

Recached_Off(s, k) == cache
Recached(s, k) == IF Master \in secure THEN [cache EXCEPT ![s] = k] ELSE cache

AddAuthKey(s, k) ==
    /\ Change
    /\ keyMap' = [keyMap EXCEPT ![s] = k]
    /\ cache' = Recached(s, k)
    /\ table' = IF Master \in secure /\ table[s] # Absent THEN Entry(s, k) ELSE table
    /\ UNCHANGED <<masterId, slaves, serving, wires>>

Uncached_Off(s) == cache
Uncached(s) == [cache EXCEPT ![s] = Empty]

RemoveAuthKey(s) ==
    /\ Change
    /\ keyMap' = [keyMap EXCEPT ![s] = Empty]
    /\ cache' = Uncached(s)
    /\ table' = Removed(s)
    /\ UNCHANGED <<masterId, slaves, serving, wires>>

\* The scan finds the slave silent, or a PUBLISH to it cannot be sent.
Evict(s) ==
    /\ table[s] # Absent
    /\ table' = Removed(s)
    /\ UNCHANGED <<fixed, masterId, keyMap, cache, slaves, serving, wires, sends, changes>>

\* stop() and start(), or a new process, with the same keys and perhaps
\* another id; frames a Dealer has not sent yet survive.
RestartMaster(id) ==
    /\ Change
    /\ masterId' = id
    /\ cache' = [s \in Slaves |-> Empty]
    /\ table' = [s \in Slaves |-> Absent]
    /\ serving' = [serving EXCEPT ![Master] = {}]
    /\ \E S \in SUBSET Slaves : up' = [s \in Slaves |-> IF s \in S THEN up[s] ELSE <<>>]
    /\ down' = [s \in Slaves |-> <<>>]
    /\ UNCHANGED <<keyMap, slaves>>

\* A new connection begins with a register frame.
Connects(s, k, before) ==
    /\ up' = [up EXCEPT ![s] =
                Append(before, Outgoing(s, IF s \in secure THEN k ELSE Empty, "register", <<>>, <<>>))]
    /\ down' = [down EXCEPT ![s] = <<>>]
    /\ UNCHANGED master

\* The slave starts again, perhaps with another key: after a crash, or after a
\* stop() whose unregister frame, unsigned, follows what was sent before it.
RestartSlave(s, k) ==
    /\ Change
    /\ slaveKey' = [slaveKey EXCEPT ![s] = k]
    /\ masterOf' = [masterOf EXCEPT ![s] = Empty]
    /\ serving' = [serving EXCEPT ![s] = {}]
    /\ \E before \in {<<>>, Append(up[s], Outgoing(s, KeyOf(s), "unregister", <<>>, <<>>))} :
         Connects(s, k, before)

\* #restartDealer: masterNodeId stays.  The handler of the old loop goes on.
RestartDealer(s) ==
    /\ Change
    /\ Connects(s, slaveKey[s], <<>>)
    /\ serving' = [serving EXCEPT ![s] = {[r EXCEPT !.old = TRUE] : r \in @}]
    /\ UNCHANGED slaves

Sending == \E payload \in Payloads :
    Publish(payload) \/ \E s \in Slaves : RequestTo(s, payload) \/ Request(s, payload)

Replying(n) ==
    \E r \in serving[n], payload \in Payloads :
        IF n = Master THEN MasterReplies(r, payload) ELSE SlaveReplies(n, r, payload)

Changing ==
    \/ \E s \in Slaves : RemoveAuthKey(s) \/ RestartDealer(s)
    \/ \E s \in Slaves, k \in Keys : AddAuthKey(s, k) \/ RestartSlave(s, k)
    \/ \E id \in MasterIds : RestartMaster(id)

Next ==
    \/ Sending \/ Changing
    \/ \E n \in Nodes : Replying(n)
    \/ \E s \in Slaves : Heartbeat(s) \/ MasterReceives(s) \/ SlaveReceives(s) \/ Evict(s)

Spec == Init /\ [][Next]_vars

\* Heartbeats go on, sockets are read and handlers end.
FairSpec ==
    /\ Spec
    /\ \A s \in Slaves : WF_vars(Heartbeat(s)) /\ WF_vars(MasterReceives(s)) /\ WF_vars(SlaveReceives(s))
    /\ \A n \in Nodes : WF_vars(Replying(n))

(***************************************************************************)
(* Properties.                                                             *)
(***************************************************************************)
Kinds == Data \cup {"register", "unregister", "heartbeat", "heartbeat_ack"}

Meant == [from : Slaves \cup MasterIds, key : Keys \cup {Empty}, kind : Kinds,
            head : Seq(1..MaxSends \cup {Topic, Service}), payload : Payloads \cup {<<>>}]

Handling == [to : Nodes, kind : {"request", "service_request"},
             head : Seq(1..MaxSends \cup {Service}), old : BOOLEAN]

\* Everything has its shape; at most one handler runs in a current read loop.
TypeOK ==
    /\ secure \in Modes /\ common \in Keys \cup {Empty} /\ masterId \in MasterIds
    /\ keyMap \in [Slaves -> Keys \cup {Empty}] /\ cache \in [Slaves -> Keys \cup {Empty}]
    /\ table \in [Slaves -> Keys \cup {Empty, Absent}]
    /\ slaveKey \in [Slaves -> Keys] /\ masterOf \in [Slaves -> MasterIds \cup {Empty}]
    /\ DOMAIN serving = Nodes
    /\ \A n \in Nodes : /\ serving[n] \subseteq Handling
                        /\ Cardinality({r \in serving[n] : ~r.old}) <= 1
    /\ \A s \in Slaves : \A i \in DOMAIN up[s] : up[s][i].msg \in Meant
    /\ \A s \in Slaves : \A i \in DOMAIN down[s] : down[s][i].msg \in Meant
    /\ sends \in 0..MaxSends /\ changes \in 0..MaxChanges

\* The master's three places for a key agree: what it has derived and cached
\* for a slave, and what stands in the slave's entry, is the key now
\* configured for it, and a slave without a key has no entry.
KeysConsistent == Master \in secure =>
    \A s \in Slaves : /\ cache[s] \in {Empty, Configured(s)}
                      /\ table[s] # Absent => table[s] = Configured(s) /\ table[s] # Empty

\* m, on its way, is parsed as what it was built as, and when both sides use
\* the mode and key it was made for, and the proof names the node expected,
\* it is accepted and opens as the payload that was sent; a proof under
\* another key, or of another node, is refused.
Read(m, key, expected) ==
    LET p == ParseControlFrames(m.frames)
        sent == m.msg
    IN  /\ p.kind = sent.kind /\ p.head = sent.head
        /\ key = Empty /\ sent.key = Empty => p.proof = Empty /\ p.payload = sent.payload
        /\ key # Empty /\ sent.key # Empty /\ sent.kind \notin Plain =>
             /\ Verifies(p, key, expected) <=> key = sent.key /\ expected \in {Empty, sent.from}
             /\ Verifies(p, key, expected) => Delivers(p, key, p.proof.node) = [ok |-> TRUE, frames |-> sent.payload]
        /\ key # Empty /\ sent.key = Empty => ~Verifies(p, key, expected)

\* No message is misread on either side, whatever changed since it was sent:
\* keys, the master's id, the connection (build, sign, seal, parse, verify and
\* open belong together for every kind of frame, and payloads of no frames or
\* with empty frames come through).
Faithful ==
    \A s \in Slaves :
        /\ \A i \in DOMAIN up[s] : Read(up[s][i], ResolveSlaveKeys(s), s)
        /\ \A i \in DOMAIN down[s] : Read(down[s][i], KeyOf(s), masterOf[s])

\* The two sides of s can talk: same mode, same key, and no other master learnt.
Agree(s) ==
    /\ s \in secure <=> Master \in secure
    /\ s \in secure => slaveKey[s] = Configured(s) /\ masterOf[s] \in {Empty, masterId}

\* A change of keys takes effect without a restart: once the two sides agree
\* for good, the slave is back in the table again and again, and it knows its
\* master, whatever was cached, entered or on its way before.
KeyChangeTakesEffect ==
    \A s \in Slaves : <>[]Agree(s) =>
        /\ []<>(table[s] # Absent)
        /\ <>[](s \in secure => masterOf[s] = masterId)
=============================================================================
