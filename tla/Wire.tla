-------------------------------- MODULE Wire --------------------------------
(***************************************************************************)
(* The frames of ZNL: protocol.js builds and parses control frames,        *)
(* security.js packs the frames of a payload, binds a proof to them and    *)
(* seals them.  A frame is an atom; HMAC and AES-GCM are ideal: a proof    *)
(* verifies, and a ciphertext opens, under the very key and the very data  *)
(* they were made with, and under no other.                                *)
(***************************************************************************)
EXTENDS Naturals, Sequences, SequencesExt

CONSTANTS
    Empty,      \* the empty string or Buffer
    AUTH,       \* CONTROL_AUTH: the marker in front of a proof
    VERSION     \* SECURITY_ENVELOPE_VERSION

(***************************************************************************)
(* protocol.js: building.                                                  *)
(***************************************************************************)
PREFIX == "__znl_v1__"

Auth(proof) == IF proof = Empty THEN <<>> ELSE <<AUTH, proof>>
Control(action, head, proof, payload) ==
    <<PREFIX, action>> \o head \o Auth(proof) \o payload

BuildRegisterFrames(proof) == Control("register", <<>>, proof, <<>>)
BuildUnregisterFrames == Control("unregister", <<>>, Empty, <<>>)
BuildHeartbeatFrames(proof) == Control("heartbeat", <<>>, proof, <<>>)
BuildHeartbeatAckFrames(proof) == Control("heartbeat_ack", <<>>, proof, <<>>)
BuildRequestFrames(id, payload, proof) == Control("req", <<id>>, proof, payload)
BuildResponseFrames(id, payload, proof) == Control("res", <<id>>, proof, payload)
BuildPublishFrames(topic, payload, proof) == Control("pub", <<topic>>, proof, payload)
BuildPushFrames(topic, payload, proof) == Control("push", <<topic>>, proof, payload)
BuildServiceRequestFrames(id, service, payload, proof) ==
    Control("svc_req", <<id, service>>, proof, payload)
BuildServiceResponseFrames(id, service, payload, proof) ==
    Control("svc_res", <<id, service>>, proof, payload)

\* What the sender of each kind calls.
Build(kind, head, payload, proof) ==
    CASE kind = "register" -> BuildRegisterFrames(proof)
      [] kind = "unregister" -> BuildUnregisterFrames
      [] kind = "heartbeat" -> BuildHeartbeatFrames(proof)
      [] kind = "heartbeat_ack" -> BuildHeartbeatAckFrames(proof)
      [] kind = "request" -> BuildRequestFrames(head[1], payload, proof)
      [] kind = "response" -> BuildResponseFrames(head[1], payload, proof)
      [] kind = "publish" -> BuildPublishFrames(head[1], payload, proof)
      [] kind = "push" -> BuildPushFrames(head[1], payload, proof)
      [] kind = "service_request" -> BuildServiceRequestFrames(head[1], head[2], payload, proof)
      [] kind = "service_response" -> BuildServiceResponseFrames(head[1], head[2], payload, proof)

(***************************************************************************)
(* protocol.js: parsing.  authKey and authProof are one field here: each   *)
(* kind of frame sets and reads one of the two.                            *)
(***************************************************************************)
Parsed(kind, head, proof, payload) ==
    [kind |-> kind, head |-> head, proof |-> proof, payload |-> payload]

Message(frames) == Parsed("message", <<>>, Empty, frames)

AfterHead_Off(kind, frames, n) ==
    LET head == SubSeq(frames, 3, 2 + n)
        rest == SubSeq(frames, 3 + n, Len(frames))
    IN  IF Len(rest) > 2 /\ rest[1] = AUTH
        THEN Parsed(kind, head, rest[2], SubSeq(rest, 3, Len(rest)))
        ELSE Parsed(kind, head, Empty, rest)

\* A head of n frames, then perhaps a proof, then the payload.
AfterHead(kind, frames, n) ==
    LET head == SubSeq(frames, 3, 2 + n)
        rest == SubSeq(frames, 3 + n, Len(frames))
    IN  IF Len(rest) >= 2 /\ rest[1] = AUTH
        THEN Parsed(kind, head, rest[2], SubSeq(rest, 3, Len(rest)))
        ELSE Parsed(kind, head, Empty, rest)

\* Frames without a payload: whatever follows the proof is dropped.
WithoutPayload(p) == [p EXCEPT !.payload = <<>>]

Named(frames, n) == Len(frames) >= 2 + n /\ \A i \in 3..(2 + n) : frames[i] # Empty

ParseControlFrames(frames) ==
    IF Len(frames) < 2 \/ frames[1] # PREFIX THEN Message(frames)
    ELSE LET action == frames[2] IN
      CASE action \in {"register", "heartbeat", "heartbeat_ack"} ->
             WithoutPayload(AfterHead(action, frames, 0))
        [] action = "unregister" -> Parsed(action, <<>>, Empty, <<>>)
        [] action = "pub" /\ Len(frames) >= 3 -> AfterHead("publish", frames, 1)
        [] action = "push" /\ Len(frames) >= 3 -> AfterHead("push", frames, 1)
        [] action = "svc_req" /\ Named(frames, 2) -> AfterHead("service_request", frames, 2)
        [] action = "svc_res" /\ Named(frames, 2) -> AfterHead("service_response", frames, 2)
        [] action = "req" /\ Named(frames, 1) -> AfterHead("request", frames, 1)
        [] action = "res" /\ Named(frames, 1) -> AfterHead("response", frames, 1)
        [] OTHER -> Message(frames)

(***************************************************************************)
(* security.js: [count][length][frame]...; a frame is no or one atom long. *)
(***************************************************************************)
Packed(f) == IF f = Empty THEN <<0>> ELSE <<1, f>>

EncodeFrames(frames) == <<Len(frames)>> \o FlattenSeq([i \in DOMAIN frames |-> Packed(frames[i])])

\* One frame more is taken at `offset`; a length that is missing or does not
\* fit is an error.
Take(data, acc) ==
    IF acc.offset > Len(data) \/ acc.offset + data[acc.offset] > Len(data)
    THEN [acc EXCEPT !.ok = FALSE]
    ELSE [ok |-> acc.ok, offset |-> acc.offset + 1 + data[acc.offset],
          out |-> Append(acc.out, IF data[acc.offset] = 0 THEN Empty ELSE data[acc.offset + 1])]

DecodeFrames(data) ==
    LET all == FoldLeft(LAMBDA acc, i : IF acc.ok THEN Take(data, acc) ELSE acc,
                        [ok |-> TRUE, offset |-> 2, out |-> <<>>],
                        [i \in 1..data[1] |-> i])
    IN  [ok |-> all.ok /\ all.offset = Len(data) + 1, frames |-> all.out]

(***************************************************************************)
(* Proofs and envelopes.  The subject is what a proof or a ciphertext is   *)
(* about: a topic, a request id, a service and a request id, or nothing.   *)
(***************************************************************************)
EncodeAuthProofToken(key, kind, node, subject, digest) ==
    [key |-> key, kind |-> kind, node |-> node, subject |-> subject, digest |-> digest]

\* expected: the node id the proof must come from, or Empty.
VerifiesProof(proof, key, kind, subject, expected, digest) ==
    /\ proof # Empty
    /\ proof.key = key
    /\ proof.kind = kind
    /\ proof.subject = subject
    /\ expected = Empty \/ proof.node = expected
    /\ proof.digest = digest

SealPayloadFrames(key, kind, node, subject, payload) ==
    <<VERSION, "iv", "tag",
      [key |-> key, aad |-> <<kind, node, subject>>, text |-> EncodeFrames(payload)]>>

OpenPayloadFrames(key, kind, node, subject, frames) ==
    IF /\ Len(frames) = 4 /\ frames[1] = VERSION
       /\ frames[4].key = key
       /\ frames[4].aad = <<kind, node, subject>>
    THEN DecodeFrames(frames[4].text)
    ELSE [ok |-> FALSE, frames |-> <<>>]
=============================================================================
