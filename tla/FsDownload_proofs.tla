-------------------------- MODULE FsDownload_proofs --------------------------
(***************************************************************************)
(* Proofs about FsDownload, for any number of calls, any sizes, revisions  *)
(* and faults, as long as one download is under way at a time: nothing is  *)
(* shifted, repeated or skipped, what takes its place is exact, and what   *)
(* was fetched is kept.                                                    *)
(***************************************************************************)
EXTENDS FsDownload, TLAPS

Labels == {"idle", "done", "failed"} \cup Asking \cup AtWork
Frame == [download : Downloads, op : Asking, offset : Nat]
Answers == [ok : BOOLEAN, size : Nat, chunk : Seq(Unit)]

(***************************************************************************)
(* What master and slave have said to each other.  The one download that   *)
(* is active has at most one request or answer under way; what else is on  *)
(* the wire belongs to downloads that were given up.                       *)
(***************************************************************************)
OneActive == \A d, e \in Active : d = e

Meant(m) ==
    /\ download[m.download] # "idle"
    /\ m.download \in Active =>
         /\ m.op = download[m.download]
         /\ reply[m.download] = None
         /\ m.op # "complete" => m.offset = offset[m.download]

Requests ==
    /\ \A i \in 1..Len(wire) : Meant(wire[i])
    /\ \A i, j \in 1..Len(wire) :
         wire[i].download = wire[j].download /\ wire[i].download \in Active => i = j

Replies ==
    \A d \in Downloads :
      /\ reply[d] # None => download[d] \in Asking \cup {"write"}
      /\ download[d] = "write" => reply[d] # None /\ reply[d].ok

Talk == OneActive /\ Requests /\ Replies

(***************************************************************************)
(* Types.                                                                  *)
(***************************************************************************)
\* TypeOK in four parts.
MasterShape ==
    /\ download \in [Downloads -> Labels]
    /\ offset \in [Downloads -> Nat]
    /\ total \in [Downloads -> Nat]
NetShape ==
    /\ wire \in Seq(Frame)
    /\ reply \in [Downloads -> {None} \cup Answers]
SlaveShape ==
    /\ sessions \in [Downloads -> Sizes \cup {None}]
    /\ remote \in Remote
    /\ faults \in 0..MaxFaults
DiskShape ==
    /\ tmp = None \/ tmp \in Seq(Unit \cup {Hole})
    /\ local = None \/ local \in Seq(Unit)

\* The parts are the whole.
LEMMA ShapeParts == TypeOK <=> MasterShape /\ NetShape /\ SlaveShape /\ DiskShape
BY DEF TypeOK, MasterShape, NetShape, SlaveShape, DiskShape, Labels, Frame, Answers

\* The size of what was fetched, and of the remote file.
LEMMA SizeFacts ==
    ASSUME TypeOK
    PROVE  /\ SizeOf(tmp) \in Nat
           /\ tmp # None => tmp \in Seq(Unit \cup {Hole}) /\ SizeOf(tmp) = Len(tmp)
           /\ remote.size \in Nat /\ remote.rev \in 0..MaxRevisions
           /\ \A d \in Downloads : sessions[d] # None => sessions[d] \in Nat
<1>1. tmp # None => tmp \in Seq(Unit \cup {Hole})
  BY DEF TypeOK
<1>2. tmp # None => Len(tmp) \in Nat
  BY <1>1
<1>3. Sizes \subseteq Nat
  BY DownloadAssumption DEF DownloadAssumption
<1>4. remote.size \in Nat /\ remote.rev \in 0..MaxRevisions
  BY <1>3 DEF TypeOK, Remote
<1>5. \A d \in Downloads : sessions[d] # None => sessions[d] \in Nat
  BY <1>3 DEF TypeOK
<1> QED
  BY <1>1, <1>2, <1>4, <1>5 DEF SizeOf

\* The wire is a queue of frames.
LEMMA WireFacts ==
    ASSUME TypeOK
    PROVE  /\ wire \in Seq(Frame) /\ Len(wire) \in Nat
           /\ \A i \in 1..Len(wire) : wire[i] \in Frame /\ wire[i].download \in Downloads
<1>1. wire \in Seq(Frame)
  BY DEF TypeOK, Frame
<1>2. \A i \in 1..Len(wire) : wire[i] \in Frame
  BY <1>1
<1> QED
  BY <1>1, <1>2 DEF Frame

\* An answer that waits to be written, or to be looked at, is an answer.
LEMMA AnswerFacts ==
    ASSUME TypeOK, NEW d \in Downloads, reply[d] # None
    PROVE  /\ reply[d] \in Answers /\ reply[d].size \in Nat
           /\ reply[d].chunk \in Seq(Unit) /\ Len(reply[d].chunk) \in Nat
           /\ \A i \in 1..Len(reply[d].chunk) : reply[d].chunk[i] \in Unit
<1>1. reply[d] \in Answers
  BY DEF TypeOK, Answers
<1>2. reply[d].size \in Nat /\ reply[d].chunk \in Seq(Unit)
  BY <1>1 DEF Answers
<1> QED
  BY <1>1, <1>2

\* What a chunk of n units makes of the .tmp file.
LEMMA WrittenCells ==
    ASSUME TypeOK, NEW d \in Downloads, reply[d] # None, NEW n \in 0..Len(reply[d].chunk)
    PROVE  Written(d, n) \in Seq(Unit \cup {Hole})
<1> DEFINE off == offset[d]
           end == IF off + n > SizeOf(tmp) THEN off + n ELSE SizeOf(tmp)
           Value(i) == IF i \in (off + 1)..(off + n) THEN reply[d].chunk[i - off]
                       ELSE IF i <= SizeOf(tmp) THEN tmp[i] ELSE Hole
<1>1. off \in Nat /\ n \in Nat /\ n <= Len(reply[d].chunk) /\ SizeOf(tmp) \in Nat
  BY AnswerFacts, SizeFacts DEF TypeOK
<1>2. end \in Nat
  BY <1>1
<1>3. ASSUME NEW i \in 1..end PROVE Value(i) \in Unit \cup {Hole}
  <2>1. CASE i \in (off + 1)..(off + n)
    <3>1. i - off \in 1..Len(reply[d].chunk)
      BY <1>1, <2>1, AnswerFacts
    <3>2. reply[d].chunk[i - off] \in Unit
      BY <3>1, AnswerFacts
    <3> QED
      BY <2>1, <3>2
  <2>2. CASE i \notin (off + 1)..(off + n) /\ i <= SizeOf(tmp)
    <3>1. tmp # None
      BY <1>1, <1>2, <2>2 DEF SizeOf
    <3>2. tmp \in Seq(Unit \cup {Hole}) /\ i \in 1..Len(tmp)
      BY <1>1, <1>2, <2>2, <3>1, SizeFacts
    <3>3. tmp[i] \in Unit \cup {Hole}
      BY <3>2
    <3> QED
      BY <2>2, <3>3
  <2>3. CASE i \notin (off + 1)..(off + n) /\ ~(i <= SizeOf(tmp))
    BY <2>3
  <2> QED
    BY <2>1, <2>2, <2>3
<1>4. Written(d, n) = [i \in 1..end |-> Value(i)]
  BY DEF Written
<1> HIDE DEF end, Value
<1> QED
  BY <1>2, <1>3, <1>4

\* What a handler reads from the remote file.
LEMMA ReadFacts ==
    ASSUME TypeOK, NEW off \in Nat, NEW n \in Nat
    PROVE  /\ ReadAt(off, n) \in Seq(Unit) /\ Len(ReadAt(off, n)) = n
           /\ \A i \in 1..n : ReadAt(off, n)[i] = [rev |-> remote.rev, pos |-> off + i]
<1>1. ASSUME NEW i \in 1..n PROVE [rev |-> remote.rev, pos |-> off + i] \in Unit
  <2>1. off + i \in Nat \ {0} /\ remote.rev \in 0..MaxRevisions
    BY SizeFacts
  <2> QED
    BY <2>1 DEF Unit
<1>2. [i \in 1..n |-> [rev |-> remote.rev, pos |-> off + i]] \in Seq(Unit)
  BY <1>1
<1> QED
  BY <1>2 DEF ReadAt

\* The request that is served, and the answer to it.
LEMMA ServeFacts ==
    ASSUME TypeOK, Serve
    PROVE  \E m \in Frame :
             /\ wire # <<>> /\ Len(wire) > 0 /\ m = wire[1] /\ m = Head(wire)
             /\ \/ m.op = "init" /\ ServeInit(m)
                \/ m.op = "chunk" /\ ServeChunk(m)
                \/ m.op = "complete" /\ ServeComplete(m)
<1>1. wire # <<>> /\ Len(wire) > 0 /\ Head(wire) = wire[1]
  BY WireFacts DEF Serve
<1>2. Head(wire) \in Frame /\ Head(wire).op \in Asking
  BY <1>1, WireFacts DEF Frame
<1> QED
  BY <1>1, <1>2 DEF Serve, Asking

\* How much of a chunk is read: no more than the session has left.
LEMMA ServeChunkFacts ==
    ASSUME TypeOK, NEW m \in Frame, ServeChunk(m)
    PROVE  \/ Answer(m.download, FALSE, 0, <<>>)
           \/ \E n \in Nat :
                /\ sessions[m.download] # None /\ m.offset + n <= sessions[m.download]
                /\ Answer(m.download, TRUE, 0, ReadAt(m.offset, n))
<1> DEFINE d == m.download
           rest == IF m.offset < remote.size THEN remote.size - m.offset ELSE 0
           n == Least(ChunkLength(d, m.offset), rest)
<1>1. m.offset \in Nat /\ d \in Downloads
  BY DEF Frame
<1>2. CASE sessions[d] = None \/ m.offset > sessions[d] \/ (rest = 0 /\ m.offset < sessions[d])
  BY <1>2 DEF ServeChunk
<1>3. CASE ~(sessions[d] = None \/ m.offset > sessions[d] \/ (rest = 0 /\ m.offset < sessions[d]))
  <2>1. sessions[d] \in Nat /\ m.offset <= sessions[d] /\ rest \in Nat /\ ChunkSize \in Nat
    BY <1>1, <1>3, SizeFacts, DownloadAssumption DEF DownloadAssumption
  <2>2. n \in Nat /\ m.offset + n <= sessions[d]
    BY <1>1, <2>1 DEF Least, ChunkLength
  <2>3. Answer(d, TRUE, 0, ReadAt(m.offset, n))
    BY <1>3 DEF ServeChunk
  <2> QED
    BY <1>3, <2>2, <2>3
<1> QED
  BY <1>2, <1>3

\* An answer leaves replies behind.
LEMMA AnswerShape ==
    ASSUME TypeOK, NEW d \in Downloads, NEW ok \in BOOLEAN, NEW size \in Nat,
           NEW chunk \in Seq(Unit), Answer(d, ok, size, chunk)
    PROVE  reply' \in [Downloads -> {None} \cup Answers]
<1>1. reply \in [Downloads -> {None} \cup Answers]
  BY DEF TypeOK, Answers
<1>2. [ok |-> ok, size |-> size, chunk |-> chunk] \in Answers
  BY DEF Answers
<1> QED
  BY <1>1, <1>2 DEF Answer

\* The first remote file is made of units.
LEMMA FirstWhole ==
    ASSUME Init
    PROVE  Whole(remote) \in Seq(Unit)
<1>1. remote.size \in Nat /\ remote.rev = 0 /\ 0 \in 0..MaxRevisions
  <2>1. Sizes \subseteq Nat /\ MaxRevisions \in Nat
    BY DownloadAssumption DEF DownloadAssumption
  <2>2. remote.rev = 0 /\ remote.size \in Sizes
    BY DEF Init
  <2>3. remote.size \in Nat
    BY <2>1, <2>2
  <2>4. 0 \in 0..MaxRevisions
    BY <2>1
  <2> QED
    BY <2>2, <2>3, <2>4
<1>2. ASSUME NEW i \in 1..remote.size PROVE [rev |-> remote.rev, pos |-> i] \in Unit
  BY <1>1 DEF Unit
<1> QED
  BY <1>1, <1>2 DEF Whole

\* The first states have the shape.
LEMMA InitShape == Init => TypeOK
<1> SUFFICES ASSUME Init PROVE MasterShape /\ NetShape /\ SlaveShape /\ DiskShape
  BY ShapeParts
<1>1. MasterShape /\ NetShape
  BY DEF Init, MasterShape, NetShape, Labels
<1>2. SlaveShape
  BY DownloadAssumption DEF Init, SlaveShape, Remote, DownloadAssumption
<1>3. Whole(remote) \in Seq(Unit)
  BY FirstWhole
<1>4. DiskShape
  BY <1>3 DEF Init, DiskShape
<1> QED
  BY <1>1, <1>2, <1>4

\* Every step keeps what the master knows.
LEMMA MasterShapeStep == TypeOK /\ Replies /\ [Next]_vars => MasterShape'
<1> SUFFICES ASSUME TypeOK, Replies, [Next]_vars PROVE MasterShape'
  OBVIOUS
<1>1. /\ download \in [Downloads -> Labels] /\ offset \in [Downloads -> Nat]
      /\ total \in [Downloads -> Nat]
  BY DEF TypeOK, Labels
<1>2. ASSUME NEW d \in Downloads, NEW label \in Labels, Goto(d, label)
      PROVE  download' \in [Downloads -> Labels]
  BY <1>1, <1>2 DEF Goto
<1>3. ASSUME NEW d \in Downloads, NEW off, Continue(d, off)
      PROVE  download' \in [Downloads -> Labels]
  BY <1>2, <1>3 DEF Continue, Request, Labels, Asking, AtWork
<1> USE DEF MasterShape
<1>4. ASSUME NEW d \in Downloads, Start(d) PROVE MasterShape'
  BY <1>1, <1>2, <1>4, SizeFacts DEF Start, Request, ResumeAt, Labels, Asking
<1>5. ASSUME NEW d \in Downloads, Inited(d) PROVE MasterShape'
  <2>1. reply[d].size \in Nat /\ "open" \in Labels
    BY <1>5, AnswerFacts DEF Inited, Answered, Labels, AtWork
  <2> QED
    BY <1>1, <1>2, <1>5, <2>1 DEF Inited
<1>6. ASSUME NEW d \in Downloads, Open(d) PROVE MasterShape'
  BY <1>1, <1>3, <1>6 DEF Open
<1>7. ASSUME NEW d \in Downloads, Write(d) PROVE MasterShape'
  <2>1. Advance(d) \in Nat
    BY <1>7, AnswerFacts DEF Write, Replies, Advance
  <2> QED
    BY <1>1, <1>3, <1>7, <2>1 DEF Write
<1>8. ASSUME NEW d \in Downloads, ChunkArrives(d) \/ Remove(d) \/ Completed(d) \/ Refused(d)
      PROVE  MasterShape'
  <2>1. \E label \in Labels : Goto(d, label)
    BY <1>8 DEF ChunkArrives, Remove, Completed, Refused, Labels, AtWork
  <2> QED
    BY <1>1, <1>2, <1>8, <2>1 DEF ChunkArrives, Remove, Completed, Refused
<1>9. ASSUME NEW d \in Downloads, Rename(d) \/ Timeout(d) PROVE MasterShape'
  <2>1. \E label \in Labels : Goto(d, label)
    BY <1>9 DEF Rename, Timeout, Request, Labels, Asking
  <2> QED
    BY <1>1, <1>2, <1>9, <2>1 DEF Rename, Timeout
<1>10. ASSUME NEW d \in Downloads, Expire(d) PROVE MasterShape'
  BY <1>1, <1>10 DEF Expire, mVars
<1>11. CASE Serve \/ Revise \/ LoseFrames \/ CrashSlave \/ UNCHANGED vars
  BY <1>1, <1>11 DEF Serve, Revise, LoseFrames, CrashSlave, vars, mVars
<1>12. CASE CrashMaster
  BY <1>1, <1>12 DEF CrashMaster, Labels
<1> QED
  BY <1>4, <1>5, <1>6, <1>7, <1>8, <1>9, <1>10, <1>11, <1>12 DEF Next, Step

\* Every step keeps requests and answers.
LEMMA NetShapeStep == TypeOK /\ Replies /\ [Next]_vars => NetShape'
<1> SUFFICES ASSUME TypeOK, Replies, [Next]_vars PROVE NetShape'
  OBVIOUS
<1>1. wire \in Seq(Frame) /\ reply \in [Downloads -> {None} \cup Answers]
  BY DEF TypeOK, Frame, Answers
<1>2. ASSUME NEW d \in Downloads, NEW op \in Asking, NEW off \in Nat, Request(d, op, off)
      PROVE  wire' \in Seq(Frame)
  <2>1. [download |-> d, op |-> op, offset |-> off] \in Frame
    BY DEF Frame
  <2> QED
    BY <1>1, <1>2, <2>1 DEF Request
<1>3. ASSUME NEW d \in Downloads, NEW off \in Nat, Continue(d, off) PROVE wire' \in Seq(Frame)
  BY <1>1, <1>2, <1>3 DEF Continue, Asking
<1>4. offset \in [Downloads -> Nat]
  BY DEF TypeOK
<1> USE DEF NetShape
<1>5. ASSUME NEW d \in Downloads, Start(d) PROVE NetShape'
  BY <1>1, <1>2, <1>5, SizeFacts DEF Start, ResumeAt, Asking
<1>6. ASSUME NEW d \in Downloads, Inited(d) \/ Completed(d) \/ Refused(d) \/ Timeout(d)
      PROVE  NetShape'
  BY <1>1, <1>6 DEF Inited, Completed, Refused, Timeout, Answered
<1>7. ASSUME NEW d \in Downloads, Open(d) PROVE NetShape'
  BY <1>1, <1>3, <1>4, <1>7 DEF Open
<1>8. ASSUME NEW d \in Downloads, Write(d) PROVE NetShape'
  <2>1. offset[d] + Advance(d) \in Nat
    BY <1>4, <1>8, AnswerFacts DEF Write, Replies, Advance
  <2> QED
    BY <1>1, <1>3, <1>8, <2>1 DEF Write
<1>9. ASSUME NEW d \in Downloads, Rename(d) PROVE NetShape'
  BY <1>1, <1>2, <1>9 DEF Rename, Asking
<1>10. ASSUME NEW d \in Downloads, ChunkArrives(d) \/ Remove(d) \/ Expire(d) PROVE NetShape'
  BY <1>1, <1>10 DEF ChunkArrives, Remove, Expire, net
<1>11. CASE Serve
  <2>1. PICK m \in Frame : \/ ServeInit(m) \/ ServeChunk(m) \/ ServeComplete(m)
    BY <1>11, ServeFacts
  <2>2. m.download \in Downloads /\ m.offset \in Nat
    BY DEF Frame
  <2> DEFINE Replied == reply' \in [Downloads -> {None} \cup Answers]
  <2>6. wire' \in Seq(Frame)
    BY <1>1, <1>11 DEF Serve
  <2>7. <<>> \in Seq(Unit)
    OBVIOUS
  <2>3. ASSUME ServeInit(m) PROVE Replied
    <3>1. remote.size \in Nat
      BY SizeFacts
    <3>2. OffsetFits(m.offset) \in BOOLEAN
      BY DEF OffsetFits
    <3>3. Answer(m.download, OffsetFits(m.offset), remote.size, <<>>)
      BY <2>3 DEF ServeInit
    <3> QED
      BY <2>2, <2>7, <3>1, <3>2, <3>3, AnswerShape
  <2>4. ASSUME ServeChunk(m) PROVE Replied
    <3>1. CASE Answer(m.download, FALSE, 0, <<>>)
      BY <2>2, <2>7, <3>1, AnswerShape
    <3>2. ASSUME NEW n \in Nat, Answer(m.download, TRUE, 0, ReadAt(m.offset, n)) PROVE Replied
      BY <2>2, <3>2, ReadFacts, AnswerShape
    <3> QED
      BY <2>4, <3>1, <3>2, ServeChunkFacts
  <2>5. ASSUME ServeComplete(m) PROVE Replied
    <3>1. (sessions[m.download] # None) \in BOOLEAN
      OBVIOUS
    <3>2. Answer(m.download, sessions[m.download] # None, 0, <<>>)
      BY <2>5 DEF ServeComplete
    <3> QED
      BY <2>2, <2>7, <3>1, <3>2, AnswerShape
  <2> QED
    BY <2>1, <2>3, <2>4, <2>5, <2>6
<1>12. CASE Revise \/ UNCHANGED vars
  BY <1>1, <1>12 DEF Revise, vars, net
<1>13. CASE LoseFrames \/ CrashSlave
  <2>1. wire' = <<>> /\ reply' = reply /\ <<>> \in Seq(Frame)
    BY <1>13 DEF LoseFrames, CrashSlave
  <2> QED
    BY <1>1, <2>1
<1>14. CASE CrashMaster
  BY <1>1, <1>14 DEF CrashMaster
<1> QED
  BY <1>5, <1>6, <1>7, <1>8, <1>9, <1>10, <1>11, <1>12, <1>13, <1>14 DEF Next, Step

\* Every step keeps the sessions, the remote file and the count of faults.
LEMMA SlaveShapeStep == TypeOK /\ [Next]_vars => SlaveShape'
<1> SUFFICES ASSUME TypeOK, [Next]_vars PROVE SlaveShape'
  OBVIOUS
<1>1. /\ sessions \in [Downloads -> Sizes \cup {None}]
      /\ remote \in Remote /\ faults \in 0..MaxFaults
  BY DEF TypeOK
<1>2. remote.size \in Sizes
  BY <1>1 DEF Remote
<1>3. faults' \in 0..MaxFaults
  <2>1. faults' = faults \/ (faults < MaxFaults /\ faults' = faults + 1)
    BY DEF Next, Step, vars, Start, Inited, Open, ChunkArrives, Write, Remove, Rename, Completed,
           Refused, Timeout, Expire, Serve, Revise, LoseFrames, CrashSlave, CrashMaster
  <2> QED
    BY <1>1, <2>1, DownloadAssumption DEF DownloadAssumption
<1>4. remote' \in Remote
  <2>1. remote' = remote \/ Revise
    BY DEF Next, Step, vars, Start, Inited, Open, ChunkArrives, Write, Remove, Rename, Completed,
           Refused, Timeout, Expire, Serve, LoseFrames, CrashSlave, CrashMaster
  <2>2. ASSUME Revise PROVE remote' \in Remote
    BY <1>1, <2>2, SizeFacts, DownloadAssumption DEF Revise, Remote, DownloadAssumption
  <2> QED
    BY <1>1, <2>1, <2>2
<1>5. sessions' \in [Downloads -> Sizes \cup {None}]
  <2>1. CASE Serve
    <3>1. PICK m \in Frame : \/ ServeInit(m) \/ ServeChunk(m) \/ ServeComplete(m)
      BY <2>1, ServeFacts
    <3> QED
      BY <1>1, <1>2, <3>1 DEF ServeInit, ServeChunk, ServeComplete
  <2>2. ASSUME NEW d \in Downloads, Expire(d) PROVE sessions' \in [Downloads -> Sizes \cup {None}]
    BY <1>1, <2>2 DEF Expire
  <2>3. CASE CrashSlave
    BY <2>3 DEF CrashSlave
  <2>4. sessions' = sessions \/ Serve \/ CrashSlave \/ \E d \in Downloads : Expire(d)
    BY DEF Next, Step, vars, Start, Inited, Open, ChunkArrives, Write, Remove, Rename, Completed,
           Refused, Timeout, Revise, LoseFrames, CrashMaster
  <2> QED
    BY <1>1, <2>1, <2>2, <2>3, <2>4
<1> QED
  BY <1>3, <1>4, <1>5 DEF SlaveShape

\* Every step keeps the files, since what is renamed has no holes.
LEMMA DiskShapeStep == TypeOK /\ Replies /\ Aligned(tmp) /\ [Next]_vars => DiskShape'
<1> SUFFICES ASSUME TypeOK, Replies, Aligned(tmp), [Next]_vars PROVE DiskShape'
  OBVIOUS
<1>1. DiskShape
  BY ShapeParts
<1>2. CASE UNCHANGED disk
  BY <1>1, <1>2 DEF DiskShape, disk
<1>3. ASSUME NEW d \in Downloads, Open(d) PROVE DiskShape'
  BY <1>1, <1>3 DEF DiskShape, Open, Opened
<1>4. ASSUME NEW d \in Downloads, Write(d) PROVE DiskShape'
  <2>1. reply[d] # None /\ Len(reply[d].chunk) \in 0..Len(reply[d].chunk)
    BY <1>4, AnswerFacts DEF Write, Replies
  <2> QED
    BY <1>1, <1>4, <2>1, WrittenCells DEF DiskShape, Write
<1>5. ASSUME NEW d \in Downloads, Remove(d) PROVE DiskShape'
  BY <1>1, <1>5 DEF DiskShape, Remove
<1>6. ASSUME NEW d \in Downloads, Rename(d) PROVE DiskShape'
  <2>1. CASE tmp = None
    BY <1>1, <1>6, <2>1 DEF DiskShape, Rename, disk
  <2>2. CASE tmp # None
    <3>1. tmp \in Seq(Unit \cup {Hole}) /\ \A i \in 1..Len(tmp) : tmp[i] # Hole
      BY <2>2, SizeFacts DEF Aligned
    <3>2. Len(tmp) \in Nat /\ tmp = [i \in 1..Len(tmp) |-> tmp[i]]
      BY <3>1
    <3>3. \A i \in 1..Len(tmp) : tmp[i] \in Unit
      BY <3>1
    <3>4. tmp \in Seq(Unit)
      BY <3>2, <3>3
    <3> QED
      BY <1>6, <2>2, <3>4 DEF DiskShape, Rename
  <2> QED
    BY <2>1, <2>2
<1>7. CASE CrashMaster
  <2>1. \A d \in Downloads : download[d] = "write" => reply[d] # None
    BY DEF Replies
  <2>2. \A d \in Downloads : reply[d] # None =>
          \A n \in 1..Len(reply[d].chunk) : n \in 0..Len(reply[d].chunk)
    BY AnswerFacts
  <2> QED
    BY <1>1, <1>7, <2>1, <2>2, WrittenCells DEF DiskShape, CrashMaster
<1>8. \/ UNCHANGED disk \/ CrashMaster
      \/ \E d \in Downloads : Open(d) \/ Write(d) \/ Remove(d) \/ Rename(d)
  BY DEF Next, Step, vars, disk, Start, Inited, ChunkArrives, Completed, Refused, Timeout, Expire,
         Serve, Revise, LoseFrames, CrashSlave
<1> QED
  BY <1>2, <1>3, <1>4, <1>5, <1>6, <1>7, <1>8

\* Every step keeps the shape.
LEMMA ShapeStep == TypeOK /\ Replies /\ Aligned(tmp) /\ [Next]_vars => TypeOK'
<1>1. TypeOK' <=> MasterShape' /\ NetShape' /\ SlaveShape' /\ DiskShape'
  BY ShapeParts, PTL
<1> QED
  BY <1>1, MasterShapeStep, NetShapeStep, SlaveShapeStep, DiskShapeStep

(***************************************************************************)
(* Every step keeps what has been said.                                    *)
(***************************************************************************)
\* A download that works on its files, or has its answer, has no request under way.
LEMMA Unsent ==
    ASSUME TypeOK, Talk, NEW d \in Downloads,
           download[d] \in AtWork \cup {"idle"} \/ reply[d] # None
    PROVE  \A i \in 1..Len(wire) : wire[i].download # d
<1> SUFFICES ASSUME NEW i \in 1..Len(wire), wire[i].download = d PROVE FALSE
  OBVIOUS
<1>1. Meant(wire[i]) /\ wire[i].op \in Asking
  BY WireFacts DEF Talk, Requests, Frame
<1>2. CASE download[d] = "idle"
  BY <1>1, <1>2 DEF Meant
<1>3. CASE download[d] \in AtWork
  BY <1>1, <1>3 DEF Meant, Active, Asking, AtWork
<1>4. CASE reply[d] # None
  <2>1. d \in Active
    BY <1>4 DEF Talk, Replies, Active, Asking, AtWork
  <2> QED
    BY <1>1, <1>4, <2>1 DEF Meant
<1> QED
  BY <1>2, <1>3, <1>4

\* It goes on to another place, without a request.
LEMMA MovesOn ==
    ASSUME TypeOK, Talk, NEW d \in Downloads, NEW label \in Labels \ {"idle"}, Goto(d, label),
           \A e \in Active : e = d, wire' = wire, \A i \in 1..Len(wire) : wire[i].download # d
    PROVE  OneActive' /\ Requests'
<1>1. download \in [Downloads -> Labels]
  BY DEF TypeOK, Labels
<1>2. \A e \in Downloads : e # d => download'[e] = download[e]
  BY <1>1 DEF Goto
<1>3. Active' \subseteq {d}
  BY <1>2 DEF Active
<1>4. OneActive'
  BY <1>3 DEF OneActive
<1>5. ASSUME NEW i \in 1..Len(wire)
      PROVE  download'[wire[i].download] # "idle" /\ wire[i].download \notin Active'
  BY <1>2, <1>3, WireFacts DEF Talk, Requests, Meant
<1>6. \A i \in 1..Len(wire') : Meant(wire[i])' /\ wire'[i].download \notin Active'
  BY <1>5 DEF Meant
<1> QED
  BY <1>4, <1>6 DEF Requests

\* Or with one.
LEMMA AsksNext ==
    ASSUME TypeOK, Talk, NEW d \in Downloads, NEW op \in Asking, NEW off, Request(d, op, off),
           \A e \in Active : e = d, \A i \in 1..Len(wire) : wire[i].download # d,
           reply'[d] = None, op # "complete" => offset'[d] = off
    PROVE  OneActive' /\ Requests'
<1> DEFINE m == [download |-> d, op |-> op, offset |-> off]
<1>1. download \in [Downloads -> Labels]
  BY DEF TypeOK, Labels
<1>2. download'[d] = op /\ \A e \in Downloads : e # d => download'[e] = download[e]
  BY <1>1 DEF Request, Goto
<1>3. Active' = {d}
  BY <1>2 DEF Active
<1>4. OneActive'
  BY <1>3 DEF OneActive
<1>5. /\ Len(wire') = Len(wire) + 1 /\ Len(wire) \in Nat
      /\ wire'[Len(wire) + 1] = m
      /\ \A i \in 1..Len(wire) : wire'[i] = wire[i]
  BY WireFacts DEF Request
<1>6. ASSUME NEW i \in 1..Len(wire)
      PROVE  download'[wire[i].download] # "idle" /\ wire[i].download \notin Active'
  BY <1>2, <1>3, WireFacts DEF Talk, Requests, Meant
<1>7. \A i \in 1..Len(wire') : i \in 1..Len(wire) \/ i = Len(wire) + 1
  BY <1>5
<1>8. ASSUME NEW i \in 1..Len(wire') PROVE Meant(wire[i])'
  <2>1. CASE i \in 1..Len(wire)
    BY <1>5, <1>6, <2>1 DEF Meant
  <2>2. CASE i = Len(wire) + 1
    <3>1. wire'[i] = m
      BY <1>5, <2>2
    <3>2. m.download = d /\ m.op = op /\ m.offset = off
      OBVIOUS
    <3> QED
      BY <1>2, <3>1, <3>2 DEF Meant, Asking
  <2> QED
    BY <1>7, <2>1, <2>2
<1>9. \A i \in 1..Len(wire') : wire'[i].download \in Active' => i = Len(wire) + 1
  BY <1>5, <1>6, <1>7
<1> QED
  BY <1>4, <1>8, <1>9 DEF Requests

\* The labels that count are all different.
LEMMA Places ==
    ASSUME TypeOK, OneActive, NEW d \in Downloads, download[d] \in Asking \cup AtWork
    PROVE  d \in Active /\ \A e \in Active : e = d
BY DEF OneActive, Active

\* Answers are at the download that asked, and only while it is there.
LEMMA RepliesStep == TypeOK /\ Talk /\ [Next]_vars => Replies'
<1> SUFFICES ASSUME TypeOK, Talk, [Next]_vars PROVE Replies'
  OBVIOUS
<1> USE DEF Talk
<1>1. /\ download \in [Downloads -> Labels]
      /\ reply \in [Downloads -> {None} \cup Answers]
  BY DEF TypeOK, Labels, Answers
<1>2. ASSUME UNCHANGED <<download, reply>> PROVE Replies'
  BY <1>2 DEF Replies
<1>3. ASSUME NEW d \in Downloads, reply'[d] = None, download'[d] # "write",
             \A e \in Downloads : e # d => download'[e] = download[e] /\ reply'[e] = reply[e]
      PROVE  Replies'
  BY <1>3 DEF Replies
<1>4. ASSUME NEW d \in Downloads, Start(d) \/ Open(d) \/ Remove(d) \/ Rename(d) PROVE Replies'
  <2>1. reply' = reply /\ reply[d] = None
    BY <1>4 DEF Start, Open, Remove, Rename, net, Replies, Asking
  <2>2. \E label : Goto(d, label) /\ label # "write"
    BY <1>4 DEF Start, Open, Remove, Rename, Continue, Request
  <2> QED
    BY <1>1, <1>3, <2>1, <2>2 DEF Goto
<1>5. ASSUME NEW d \in Downloads,
             Inited(d) \/ Write(d) \/ Completed(d) \/ Refused(d) \/ Timeout(d)
      PROVE  Replies'
  <2>1. reply' = [reply EXCEPT ![d] = None]
    BY <1>5 DEF Inited, Answered, Write, Completed, Refused, Timeout
  <2>2. \E label : Goto(d, label) /\ label # "write"
    BY <1>5 DEF Inited, Write, Completed, Refused, Timeout, Continue, Request
  <2> QED
    BY <1>1, <1>3, <2>1, <2>2 DEF Goto
<1>6. ASSUME NEW d \in Downloads, ChunkArrives(d) PROVE Replies'
  BY <1>1, <1>6 DEF ChunkArrives, Goto, net, Replies
<1>7. CASE Serve
  <2>1. PICK m \in Frame : /\ Len(wire) > 0 /\ m = wire[1]
                           /\ ServeInit(m) \/ ServeChunk(m) \/ ServeComplete(m)
    BY <1>7, ServeFacts
  <2>2. PICK ok, size, chunk : Answer(m.download, ok, size, chunk)
    BY <2>1 DEF ServeInit, ServeChunk, ServeComplete
  <2>3. m.download \in Downloads /\ Meant(m) /\ m.op \in Asking
    BY <2>1, WireFacts DEF Requests, Frame
  <2>4. download' = download
    BY <1>7 DEF Serve, mVars
  <2>5. \A e \in Downloads : e # m.download => reply'[e] = reply[e]
    BY <1>1, <2>2 DEF Answer
  <2>6. CASE m.download \in Active
    <3>1. download[m.download] \in Asking
      BY <2>3, <2>6 DEF Meant
    <3> QED
      BY <2>4, <2>5, <3>1 DEF Replies, Asking
  <2>7. CASE m.download \notin Active
    <3>1. reply'[m.download] = None
      BY <1>1, <2>2, <2>3, <2>7 DEF Answer
    <3>2. download[m.download] # "write"
      BY <2>3, <2>7 DEF Active, AtWork
    <3> QED
      BY <2>4, <2>5, <3>1, <3>2 DEF Replies
  <2> QED
    BY <2>6, <2>7
<1>8. ASSUME NEW d \in Downloads, Expire(d) PROVE Replies'
  BY <1>2, <1>8 DEF Expire, mVars, net
<1>9. CASE Revise \/ LoseFrames \/ CrashSlave \/ UNCHANGED vars
  BY <1>2, <1>9 DEF Revise, LoseFrames, CrashSlave, vars, mVars, net
<1>10. CASE CrashMaster
  BY <1>10 DEF CrashMaster, Replies, Active, AtWork
<1> QED
  BY <1>4, <1>5, <1>6, <1>7, <1>8, <1>9, <1>10 DEF Next, Step

\* At most one download is active, and the wire means what was meant.
LEMMA TalkStep ==
    ASSUME OneAtATime
    PROVE  TypeOK /\ Talk /\ [Next]_vars => Talk'
<1> SUFFICES ASSUME TypeOK, Talk, [Next]_vars PROVE OneActive' /\ Requests'
  BY RepliesStep DEF Talk
<1>1. /\ download \in [Downloads -> Labels]
      /\ reply \in [Downloads -> {None} \cup Answers]
      /\ offset \in [Downloads -> Nat]
  BY DEF TypeOK, Labels, Answers
<1>2. ASSUME NEW d \in Downloads, download[d] \in Asking \cup AtWork
      PROVE  d \in Active /\ \A e \in Active : e = d
  BY <1>2, Places DEF Talk
<1>3. ASSUME NEW d \in Downloads, Start(d) PROVE OneActive' /\ Requests'
  <2>1. /\ download[d] = "idle" /\ Active = {} /\ Request(d, "init", ResumeAt)
        /\ offset'[d] = ResumeAt /\ reply' = reply
    BY <1>1, <1>3 DEF Start
  <2>2. reply[d] = None
    BY <2>1 DEF Talk, Replies, Asking
  <2>3. \A i \in 1..Len(wire) : wire[i].download # d
    BY <2>1, Unsent
  <2> QED
    BY <2>1, <2>2, <2>3, AsksNext DEF Asking
<1>4. ASSUME NEW d \in Downloads, Inited(d) \/ ChunkArrives(d) \/ Completed(d) \/ Refused(d)
      PROVE  OneActive' /\ Requests'
  <2>1. reply[d] # None /\ wire' = wire /\ download[d] \in Asking
    BY <1>4 DEF Inited, ChunkArrives, Completed, Refused, Answered, net, Asking
  <2>2. \E label \in Labels \ {"idle"} : Goto(d, label)
    BY <1>4 DEF Inited, ChunkArrives, Completed, Refused, Labels, AtWork
  <2> QED
    BY <1>2, <2>1, <2>2, Unsent, MovesOn
<1>5. ASSUME NEW d \in Downloads, download[d] \in AtWork, NEW off, Continue(d, off),
             reply'[d] = None, offset'[d] = off
      PROVE  OneActive' /\ Requests'
  <2>1. \A i \in 1..Len(wire) : wire[i].download # d
    BY <1>5, Unsent
  <2>2. \A e \in Active : e = d
    BY <1>2, <1>5
  <2>3. CASE Request(d, "chunk", off)
    BY <1>5, <2>1, <2>2, <2>3, AsksNext DEF Asking
  <2>4. CASE Goto(d, "rm") /\ wire' = wire
    BY <2>1, <2>2, <2>4, MovesOn DEF Labels, AtWork
  <2> QED
    BY <1>5, <2>3, <2>4 DEF Continue
<1>6. ASSUME NEW d \in Downloads, Open(d) PROVE OneActive' /\ Requests'
  <2>1. download[d] = "open" /\ reply' = reply /\ offset' = offset /\ Continue(d, offset[d])
    BY <1>6 DEF Open
  <2>2. reply[d] = None
    BY <2>1 DEF Talk, Replies, Asking
  <2> QED
    BY <1>5, <2>1, <2>2 DEF AtWork
<1>7. ASSUME NEW d \in Downloads, Write(d) PROVE OneActive' /\ Requests'
  <2>1. /\ download[d] = "write" /\ reply'[d] = None
        /\ offset'[d] = offset[d] + Advance(d) /\ Continue(d, offset[d] + Advance(d))
    BY <1>1, <1>7 DEF Write
  <2> QED
    BY <1>5, <2>1 DEF AtWork
<1>8. ASSUME NEW d \in Downloads, Remove(d) \/ Rename(d) PROVE OneActive' /\ Requests'
  <2>1. download[d] \in AtWork /\ reply' = reply /\ reply[d] = None
    BY <1>8 DEF Remove, Rename, net, AtWork, Talk, Replies, Asking
  <2>2. (\A i \in 1..Len(wire) : wire[i].download # d) /\ \A e \in Active : e = d
    BY <1>2, <2>1, Unsent
  <2>3. CASE Request(d, "complete", 0)
    BY <2>1, <2>2, <2>3, AsksNext DEF Asking
  <2>4. CASE wire' = wire /\ \E label \in Labels \ {"idle"} : Goto(d, label)
    BY <2>2, <2>4, MovesOn
  <2>5. \/ Request(d, "complete", 0)
        \/ wire' = wire /\ \E label \in Labels \ {"idle"} : Goto(d, label)
    BY <1>8 DEF Remove, Rename, net, Labels, AtWork
  <2> QED
    BY <2>3, <2>4, <2>5
<1>9. ASSUME wire' = wire, Active' = {}, \A e \in Downloads : download'[e] = "idle" => download[e] = "idle"
      PROVE  OneActive' /\ Requests'
  <2>1. \A i \in 1..Len(wire') : Meant(wire[i])'
    BY <1>9, WireFacts DEF Talk, Requests, Meant
  <2> QED
    BY <1>9, <2>1 DEF OneActive, Requests
<1>10. ASSUME NEW d \in Downloads, Timeout(d) PROVE OneActive' /\ Requests'
  <2>1. download[d] \in Asking /\ Goto(d, "failed") /\ wire' = wire
    BY <1>10 DEF Timeout
  <2>2. Active' = {}
    BY <1>1, <1>2, <2>1 DEF Goto, Active, Asking, AtWork
  <2> QED
    BY <1>1, <1>9, <2>1, <2>2 DEF Goto
<1>11. CASE CrashMaster
  <2>1. Active' = {} /\ wire' = wire
    BY <1>11 DEF CrashMaster, Active, Asking, AtWork
  <2>2. \A e \in Downloads : download'[e] = "idle" => download[e] = "idle"
    BY <1>11 DEF CrashMaster
  <2> QED
    BY <1>9, <2>1, <2>2
<1>12. CASE LoseFrames \/ CrashSlave
  <2>1. wire' = <<>> /\ Active' = Active
    BY <1>12 DEF LoseFrames, CrashSlave, mVars, Active
  <2>2. \A i \in 1..Len(wire') : FALSE
    BY <2>1
  <2> QED
    BY <2>1, <2>2 DEF Talk, OneActive, Requests
<1>13. ASSUME UNCHANGED <<download, offset, wire, reply>> PROVE OneActive' /\ Requests'
  BY <1>13 DEF Talk, OneActive, Requests, Meant, Active
<1>14. ASSUME NEW d \in Downloads, Expire(d) PROVE OneActive' /\ Requests'
  BY <1>13, <1>14 DEF Expire, mVars, net
<1>15. CASE Revise \/ UNCHANGED vars
  BY <1>13, <1>15 DEF Revise, vars, mVars, net
<1>16. CASE Serve
  <2>1. PICK m \in Frame : /\ Len(wire) > 0 /\ m = wire[1]
                           /\ ServeInit(m) \/ ServeChunk(m) \/ ServeComplete(m)
    BY <1>16, ServeFacts
  <2>2. \A e \in Downloads : e # m.download => reply'[e] = reply[e]
    BY <1>1, <2>1 DEF ServeInit, ServeChunk, ServeComplete, Answer
  <2>3. /\ UNCHANGED <<download, offset>> /\ Active' = Active
    BY <1>16 DEF Serve, mVars, Active
  <2>4. /\ Len(wire') = Len(wire) - 1 /\ Len(wire) \in Nat
        /\ \A i \in 1..Len(wire') : wire'[i] = wire[i + 1] /\ i + 1 \in 1..Len(wire)
    BY <1>16, WireFacts DEF Serve
  <2>5. ASSUME NEW i \in 1..Len(wire') PROVE Meant(wire[i])'
    <3>1. Meant(wire[i + 1]) /\ wire[i + 1].download \in Downloads /\ wire'[i] = wire[i + 1]
      BY <2>4, WireFacts DEF Talk, Requests
    <3>2. ASSUME wire[i + 1].download = m.download, m.download \in Active PROVE FALSE
      <4>1. 1 \in 1..Len(wire) /\ i + 1 \in 1..Len(wire) /\ i + 1 # 1
        BY <2>1, <2>4
      <4>2. wire[i + 1].download = wire[1].download /\ wire[i + 1].download \in Active
        BY <2>1, <3>2
      <4>3. \A a, b \in 1..Len(wire) :
              wire[a].download = wire[b].download /\ wire[a].download \in Active => a = b
        BY DEF Talk, Requests
      <4> QED
        BY <4>1, <4>2, <4>3
    <3> QED
      BY <2>2, <2>3, <3>1, <3>2 DEF Meant
  <2>6. ASSUME NEW i \in 1..Len(wire'), NEW j \in 1..Len(wire'),
               wire'[i].download = wire'[j].download, wire'[i].download \in Active
        PROVE  i = j
    <3>1. /\ wire[i + 1].download = wire[j + 1].download /\ wire[i + 1].download \in Active
          /\ i + 1 \in 1..Len(wire) /\ j + 1 \in 1..Len(wire)
      BY <2>4, <2>6
    <3>2. i + 1 = j + 1
      BY <3>1 DEF Talk, Requests
    <3> QED
      BY <3>2
  <2> QED
    BY <2>3, <2>5, <2>6 DEF Talk, OneActive, Requests
<1> QED
  BY <1>3, <1>4, <1>6, <1>7, <1>8, <1>10, <1>11, <1>12, <1>14, <1>15, <1>16 DEF Next, Step

(***************************************************************************)
(* What the active download has fetched, and what it knows of the remote   *)
(* file: where it stands is where the .tmp file ends, the slave still      *)
(* serves the size it announced, and a chunk at hand belongs there.        *)
(***************************************************************************)
Announced(d, n) ==
    /\ offset[d] <= n
    /\ sessions[d] \in {None, n}
    /\ remote.rev = 0 => n = remote.size

GoodChunk(d) ==
    /\ offset[d] + Len(reply[d].chunk) <= total[d]
    /\ \A i \in 1..Len(reply[d].chunk) :
         reply[d].chunk[i].pos = offset[d] + i /\ reply[d].chunk[i].rev <= remote.rev

Progressed(d) ==
    /\ download[d] \in {"init", "open", "chunk", "write"} => offset[d] = SizeOf(tmp)
    /\ download[d] \in {"open", "chunk", "write", "rm", "rename"} => Announced(d, total[d])
    /\ download[d] \in {"rm", "rename"} => tmp # None /\ Len(tmp) = total[d]
    /\ download[d] = "init" /\ reply[d] # None /\ reply[d].ok => Announced(d, reply[d].size)
    /\ download[d] \in {"chunk", "write"} /\ reply[d] # None /\ reply[d].ok => GoodChunk(d)

Progress == \A d \in Downloads : Progressed(d)

\* The local files hold the units of the remote one in place, none of a revision
\* that is still to come.
Content ==
    /\ InPlace
    /\ tmp # None => \A i \in 1..Len(tmp) : tmp[i].rev <= remote.rev

DownloadInv == TypeOK /\ Talk /\ Progress /\ Content

\* Neither a unit nor a file is the value that stands for "nothing".
LEMMA Marks ==
    /\ \A x \in Unit : x # Hole
    /\ \A t \in Seq(Unit \cup {Hole}) : t # None
BY DownloadAssumption DEF DownloadAssumption

\* A chunk, or a part of it, goes to the end of what is there.
LEMMA WrittenOn ==
    ASSUME DownloadInv, NEW d \in Downloads, download[d] = "write",
           NEW n \in 0..Len(reply[d].chunk)
    PROVE  /\ Written(d, n) # None
           /\ Len(Written(d, n)) = offset[d] + n
           /\ Aligned(Written(d, n))
           /\ \A i \in 1..Len(Written(d, n)) : Written(d, n)[i].rev <= remote.rev
<1> DEFINE off == offset[d]
           end == IF off + n > SizeOf(tmp) THEN off + n ELSE SizeOf(tmp)
           Value(i) == IF i \in (off + 1)..(off + n) THEN reply[d].chunk[i - off]
                       ELSE IF i <= SizeOf(tmp) THEN tmp[i] ELSE Hole
<1> USE DEF DownloadInv
<1>1. reply[d] # None /\ reply[d].ok /\ GoodChunk(d) /\ off = SizeOf(tmp)
  BY DEF Talk, Replies, Progress, Progressed
<1>2. /\ off \in Nat /\ n \in Nat /\ n <= Len(reply[d].chunk)
      /\ Len(reply[d].chunk) \in Nat
      /\ \A j \in 1..Len(reply[d].chunk) : reply[d].chunk[j] \in Unit
  BY <1>1, AnswerFacts DEF TypeOK
<1>3. end = off + n /\ end \in Nat
  BY <1>1, <1>2
<1>4. ASSUME NEW i \in 1..end
      PROVE  Value(i) # Hole /\ Value(i).pos = i /\ Value(i).rev <= remote.rev
  <2>1. CASE i \in (off + 1)..(off + n)
    <3>1. i - off \in 1..Len(reply[d].chunk) /\ off + (i - off) = i
      BY <1>2, <2>1
    <3>2. /\ reply[d].chunk[i - off] # Hole
          /\ reply[d].chunk[i - off].pos = i
          /\ reply[d].chunk[i - off].rev <= remote.rev
      BY <1>1, <1>2, <3>1, Marks DEF GoodChunk
    <3> QED
      BY <2>1, <3>2
  <2>2. CASE i \notin (off + 1)..(off + n)
    <3>1. i \in 1..off /\ i <= SizeOf(tmp)
      BY <1>1, <1>2, <1>3, <2>2
    <3>2. tmp # None
      BY <1>2, <3>1 DEF SizeOf
    <3>3. i \in 1..Len(tmp)
      BY <1>1, <3>1, <3>2 DEF SizeOf
    <3>4. tmp[i] # Hole /\ tmp[i].pos = i /\ tmp[i].rev <= remote.rev
      BY <3>2, <3>3 DEF Content, InPlace, Aligned
    <3> QED
      BY <2>2, <3>1, <3>4
  <2> QED
    BY <2>1, <2>2
<1>5. Written(d, n) = [i \in 1..end |-> Value(i)]
  BY DEF Written
<1>6. Written(d, n) \in Seq(Unit \cup {Hole})
  BY <1>1, WrittenCells
<1> HIDE DEF end, Value
<1>7. Len(Written(d, n)) = end /\ \A i \in 1..end : Written(d, n)[i] = Value(i)
  BY <1>3, <1>5
<1>8. Written(d, n) # None
  BY <1>6, Marks
<1> QED
  BY <1>3, <1>4, <1>7, <1>8 DEF Aligned

\* Only the download that acts, and that is the active one, can change what counts.
LEMMA ProgressAlone ==
    ASSUME NEW d \in Downloads, Active' \subseteq {d}, Progressed(d)'
    PROVE  Progress'
<1>1. ASSUME NEW e \in Downloads, e # d PROVE Progressed(e)'
  <2>1. download'[e] \notin Asking \cup AtWork
    BY <1>1 DEF Active
  <2> QED
    BY <2>1 DEF Progressed, Asking, AtWork
<1> QED
  BY <1>1 DEF Progress

\* The others stay where they are.
LEMMA ActsAlone ==
    ASSUME TypeOK, NEW d \in Downloads, NEW label, Goto(d, label), \A e \in Active : e = d
    PROVE  Active' \subseteq {d} /\ download'[d] = label
BY DEF TypeOK, Goto, Active

\* Every step of the slave, and what happens to it, keeps the progress.
LEMMA SlaveProgress ==
    ASSUME DownloadInv,
           Serve \/ Revise \/ LoseFrames \/ CrashSlave \/ (\E d \in Downloads : Expire(d))
    PROVE  Progress'
<1> USE DEF DownloadInv
<1>1. /\ reply \in [Downloads -> {None} \cup Answers]
      /\ sessions \in [Downloads -> Sizes \cup {None}]
      /\ offset \in [Downloads -> Nat] /\ total \in [Downloads -> Nat]
  BY DEF TypeOK, Answers
<1>2. CASE Revise
  <2>1. /\ UNCHANGED <<download, offset, total, reply, sessions, tmp>>
        /\ remote'.rev = remote.rev + 1
    BY <1>2 DEF Revise, mVars, net, disk
  <2>2. remote'.rev # 0 /\ \A r \in Int : r <= remote.rev => r <= remote'.rev
    BY <2>1, SizeFacts
  <2>3. ASSUME NEW d \in Downloads, reply[d] # None, NEW i \in 1..Len(reply[d].chunk)
        PROVE  reply[d].chunk[i].rev \in Int
    BY <2>3, AnswerFacts DEF Unit
  <2> QED
    BY <2>1, <2>2, <2>3 DEF Progress, Progressed, Announced, GoodChunk, SizeOf
<1>3. ASSUME UNCHANGED <<download, offset, total, reply, remote, tmp>>,
             \A d \in Downloads : sessions'[d] \in {sessions[d], None}
      PROVE  Progress'
  BY <1>3 DEF Progress, Progressed, Announced, GoodChunk, SizeOf
<1>4. CASE LoseFrames \/ CrashSlave \/ \E d \in Downloads : Expire(d)
  <2>1. UNCHANGED <<download, offset, total, reply, remote, tmp>>
    BY <1>4 DEF LoseFrames, CrashSlave, Expire, mVars, net, disk
  <2>2. \A d \in Downloads : sessions'[d] \in {sessions[d], None}
    BY <1>1, <1>4 DEF LoseFrames, CrashSlave, Expire
  <2> QED
    BY <1>3, <2>1, <2>2
<1>5. CASE Serve
  <2>1. PICK m \in Frame : /\ Len(wire) > 0 /\ m = wire[1]
                           /\ \/ m.op = "init" /\ ServeInit(m)
                              \/ m.op = "chunk" /\ ServeChunk(m)
                              \/ m.op = "complete" /\ ServeComplete(m)
    BY <1>5, ServeFacts
  <2> DEFINE d == m.download
  <2>2. d \in Downloads /\ m.offset \in Nat /\ Meant(m)
    BY <2>1, WireFacts DEF Talk, Requests, Frame
  <2>3. UNCHANGED <<download, offset, total, remote, tmp>>
    BY <1>5 DEF Serve, mVars, disk
  <2>4. \A e \in Downloads : e # d => reply'[e] = reply[e] /\ sessions'[e] = sessions[e]
    BY <1>1, <2>1 DEF ServeInit, ServeChunk, ServeComplete, Answer
  <2>5. ASSUME NEW e \in Downloads, e # d PROVE Progressed(e)'
    BY <2>3, <2>4, <2>5 DEF Progress, Progressed, Announced, GoodChunk, SizeOf
  <2>6. CASE d \notin Active
    <3>1. \A e \in Downloads : e = d => download'[e] \notin Asking \cup AtWork
      BY <2>3, <2>6 DEF Active
    <3>2. \A e \in Downloads : e = d => Progressed(e)'
      BY <3>1 DEF Progressed, Asking, AtWork
    <3> QED
      BY <2>5, <3>2 DEF Progress
  <2>7. CASE d \in Active
    <3> HIDE DEF d
    <3>1. /\ m.op = download[d] /\ reply[d] = None
          /\ m.op # "complete" => m.offset = offset[d]
      BY <2>2, <2>7 DEF Meant, d
    <3>2. /\ download[d] = "init" => offset[d] = SizeOf(tmp)
          /\ download[d] = "chunk" => offset[d] = SizeOf(tmp) /\ Announced(d, total[d])
      BY <2>2 DEF Progress, Progressed
    <3>3. CASE m.op = "init"
      <4>1. ServeInit(m)
        BY <2>1, <3>3
      <4>2. CASE OffsetFits(m.offset)
        <5>1. reply'[d].size = remote.size /\ sessions'[d] = remote.size
          BY <1>1, <2>2, <2>7, <4>1, <4>2 DEF ServeInit, Answer, d
        <5>2. offset[d] <= remote.size
          BY <3>1, <3>3, <4>2 DEF OffsetFits
        <5> QED
          BY <2>2, <2>3, <2>5, <3>1, <3>2, <3>3, <5>1, <5>2
             DEF Progress, Progressed, Announced, SizeOf
      <4>3. CASE ~OffsetFits(m.offset)
        <5>1. ~reply'[d].ok
          BY <1>1, <2>2, <2>7, <4>1, <4>3 DEF ServeInit, Answer, d
        <5> QED
          BY <2>2, <2>3, <2>5, <3>1, <3>2, <3>3, <5>1 DEF Progress, Progressed, SizeOf
      <4> QED
        BY <4>2, <4>3
    <3>4. CASE m.op = "chunk"
      <4>1. ServeChunk(m) /\ sessions' = sessions
        BY <2>1, <3>4 DEF ServeChunk
      <4>2. Announced(d, total[d])'
        BY <2>3, <3>1, <3>2, <3>4, <4>1 DEF Announced
      <4>3. CASE Answer(d, FALSE, 0, <<>>)
        <5>1. ~reply'[d].ok
          BY <1>1, <2>2, <2>7, <4>3 DEF Answer, d
        <5> QED
          BY <2>2, <2>3, <2>5, <3>1, <3>2, <3>4, <4>2, <5>1 DEF Progress, Progressed, SizeOf
      <4>4. ASSUME NEW n \in Nat, sessions[d] # None, m.offset + n <= sessions[d],
                   Answer(d, TRUE, 0, ReadAt(m.offset, n))
            PROVE  Progress'
        <5>1. reply'[d].chunk = ReadAt(offset[d], n)
          BY <1>1, <2>2, <2>7, <3>1, <3>4, <4>4 DEF Answer, d
        <5>2. offset[d] + n <= total[d]
          BY <3>1, <3>2, <3>4, <4>4 DEF Announced
        <5>3. /\ Len(ReadAt(offset[d], n)) = n
              /\ \A i \in 1..n : ReadAt(offset[d], n)[i] = [rev |-> remote.rev, pos |-> offset[d] + i]
          BY <2>2, <3>1, <3>4, ReadFacts
        <5>4. GoodChunk(d)'
          <6>1. \A i \in 1..Len(reply'[d].chunk) :
                  reply'[d].chunk[i] = [rev |-> remote.rev, pos |-> offset[d] + i]
            BY <5>1, <5>3
          <6>2. remote.rev <= remote.rev
            BY SizeFacts
          <6>3. ASSUME NEW i \in 1..Len(reply'[d].chunk)
                PROVE  /\ reply'[d].chunk[i].pos = offset[d] + i
                       /\ reply'[d].chunk[i].rev <= remote.rev
            <7>1. reply'[d].chunk[i] = [rev |-> remote.rev, pos |-> offset[d] + i]
              BY <6>1
            <7>2. reply'[d].chunk[i].rev = remote.rev /\ reply'[d].chunk[i].pos = offset[d] + i
              BY <7>1
            <7> QED
              BY <6>2, <7>2
          <6>4. offset[d] + Len(reply'[d].chunk) <= total[d]
            BY <5>1, <5>2, <5>3
          <6> QED
            BY <2>3, <6>3, <6>4 DEF GoodChunk
        <5> QED
          BY <2>2, <2>3, <2>5, <3>1, <3>2, <3>4, <4>2, <5>4 DEF Progress, Progressed, SizeOf
      <4> QED
        BY <2>2, <4>1, <4>3, <4>4, ServeChunkFacts DEF d
    <3>5. CASE m.op = "complete"
      BY <2>2, <2>3, <2>5, <3>1, <3>5 DEF Progress, Progressed
    <3> QED
      BY <3>3, <3>4, <3>5, <2>1
  <2> QED
    BY <2>6, <2>7
<1> QED
  BY <1>2, <1>4, <1>5

\* Every step of the master keeps it too.
LEMMA MasterProgress ==
    ASSUME OneAtATime, DownloadInv, NEW d \in Downloads, Step(d) \/ Timeout(d)
    PROVE  Progress'
<1> USE DEF DownloadInv
<1>1. /\ reply \in [Downloads -> {None} \cup Answers]
      /\ offset \in [Downloads -> Nat] /\ total \in [Downloads -> Nat]
  BY DEF TypeOK, Answers
<1>2. Progressed(d)
  BY DEF Progress
<1>3. ASSUME download[d] \in Asking \cup AtWork PROVE \A e \in Active : e = d
  BY <1>3, Places DEF Talk
<1>4. ASSUME NEW label, Goto(d, label), download[d] \in Asking \cup AtWork \/ Active = {}
      PROVE  Active' \subseteq {d} /\ download'[d] = label
  BY <1>3, <1>4, ActsAlone
<1>5. CASE Start(d)
  <2>1. /\ Goto(d, "init") /\ Active = {} /\ UNCHANGED <<reply, tmp>>
        /\ offset'[d] = SizeOf(tmp) /\ reply[d] = None
    BY <1>1, <1>5 DEF Start, Request, ResumeAt, disk, Talk, Replies, Asking
  <2>2. Progressed(d)'
    BY <1>4, <2>1 DEF Progressed, SizeOf
  <2> QED
    BY <1>4, <2>1, <2>2, ProgressAlone
<1>6. CASE Inited(d)
  <2>1. /\ Goto(d, "open") /\ download[d] = "init" /\ reply[d] # None /\ reply[d].ok
        /\ UNCHANGED <<offset, sessions, remote, tmp>>
        /\ total'[d] = reply[d].size
    BY <1>1, <1>6 DEF Inited, Answered, disk
  <2>2. offset[d] = SizeOf(tmp) /\ Announced(d, reply[d].size)
    BY <1>2, <2>1 DEF Progressed
  <2>3. Active' \subseteq {d} /\ download'[d] = "open"
    BY <1>4, <2>1 DEF Asking
  <2>4. Progressed(d)'
    BY <2>1, <2>2, <2>3 DEF Progressed, Announced, SizeOf
  <2> QED
    BY <2>3, <2>4, ProgressAlone
<1>7. CASE Open(d)
  <2>1. /\ download[d] = "open" /\ Continue(d, offset[d]) /\ tmp' = Opened
        /\ UNCHANGED <<offset, total, reply, sessions, remote>>
    BY <1>7 DEF Open
  <2>2. offset[d] = SizeOf(tmp) /\ Announced(d, total[d]) /\ reply[d] = None
    BY <1>2, <2>1 DEF Progressed, Talk, Replies, Asking
  <2>3. tmp' # None /\ SizeOf(tmp') = SizeOf(tmp) /\ SizeOf(tmp') = Len(tmp')
    <3>1. <<>> \in Seq(Unit \cup {Hole}) /\ Len(<<>>) = 0
      OBVIOUS
    <3>2. <<>> # None
      BY <3>1, Marks
    <3> QED
      BY <2>1, <3>1, <3>2 DEF Opened, SizeOf
  <2>4. Announced(d, total[d])'
    BY <2>1, <2>2 DEF Announced
  <2>5. CASE Remains(d, offset[d])
    <3>1. Goto(d, "chunk")
      BY <2>1, <2>5 DEF Continue, Request
    <3>2. Active' \subseteq {d} /\ download'[d] = "chunk"
      BY <1>4, <2>1, <3>1 DEF AtWork
    <3>3. Progressed(d)'
      BY <2>1, <2>2, <2>3, <2>4, <3>2 DEF Progressed
    <3> QED
      BY <3>2, <3>3, ProgressAlone
  <2>6. CASE ~Remains(d, offset[d])
    <3>1. Goto(d, "rm")
      BY <2>1, <2>6 DEF Continue
    <3>2. Active' \subseteq {d} /\ download'[d] = "rm"
      BY <1>4, <2>1, <3>1 DEF AtWork
    <3>3. offset[d] = total[d]
      BY <1>1, <2>2, <2>6 DEF Remains, Announced
    <3>4. Progressed(d)'
      BY <2>1, <2>2, <2>3, <2>4, <3>2, <3>3 DEF Progressed
    <3> QED
      BY <3>2, <3>4, ProgressAlone
  <2> QED
    BY <2>5, <2>6
<1>8. CASE ChunkArrives(d)
  <2>1. /\ Goto(d, "write") /\ download[d] = "chunk" /\ reply[d] # None /\ reply[d].ok
        /\ UNCHANGED <<offset, total, reply, sessions, remote, tmp>>
    BY <1>8 DEF ChunkArrives, net, disk
  <2>2. offset[d] = SizeOf(tmp) /\ Announced(d, total[d]) /\ GoodChunk(d)
    BY <1>2, <2>1 DEF Progressed
  <2>3. Active' \subseteq {d} /\ download'[d] = "write"
    BY <1>4, <2>1 DEF Asking
  <2>4. Progressed(d)'
    BY <2>1, <2>2, <2>3 DEF Progressed, Announced, GoodChunk, SizeOf
  <2> QED
    BY <2>3, <2>4, ProgressAlone
<1>9. CASE Write(d)
  <2> DEFINE off == offset[d] + Len(reply[d].chunk)
  <2>1. /\ download[d] = "write" /\ Continue(d, off)
        /\ tmp' = Written(d, Len(reply[d].chunk))
        /\ reply'[d] = None /\ offset'[d] = off
        /\ UNCHANGED <<total, sessions, remote>>
    BY <1>1, <1>9 DEF Write, Advance
  <2>2. reply[d] # None /\ reply[d].ok
    BY <2>1 DEF Talk, Replies
  <2>3. Announced(d, total[d]) /\ GoodChunk(d)
    BY <1>2, <2>1, <2>2 DEF Progressed
  <2>4. Len(reply[d].chunk) \in 0..Len(reply[d].chunk) /\ off \in Nat
    BY <1>1, <2>2, AnswerFacts
  <2>5. tmp' # None /\ Len(tmp') = off /\ SizeOf(tmp') = off
    BY <2>1, <2>4, WrittenOn DEF SizeOf
  <2>6. Announced(d, total[d])'
    BY <2>1, <2>3 DEF Announced, GoodChunk
  <2>7. CASE Remains(d, off)
    <3>1. Goto(d, "chunk")
      BY <2>1, <2>7 DEF Continue, Request
    <3>2. Active' \subseteq {d} /\ download'[d] = "chunk"
      BY <1>4, <2>1, <3>1 DEF AtWork
    <3>3. Progressed(d)'
      BY <2>1, <2>5, <2>6, <3>2 DEF Progressed
    <3> QED
      BY <3>2, <3>3, ProgressAlone
  <2>8. CASE ~Remains(d, off)
    <3>1. Goto(d, "rm")
      BY <2>1, <2>8 DEF Continue
    <3>2. Active' \subseteq {d} /\ download'[d] = "rm"
      BY <1>4, <2>1, <3>1 DEF AtWork
    <3>3. off = total[d]
      BY <1>1, <2>3, <2>4, <2>8 DEF Remains, GoodChunk
    <3>4. Progressed(d)'
      BY <2>1, <2>5, <2>6, <3>2, <3>3 DEF Progressed
    <3> QED
      BY <3>2, <3>4, ProgressAlone
  <2> QED
    BY <2>7, <2>8
<1>10. CASE Remove(d)
  <2>1. /\ Goto(d, "rename") /\ download[d] = "rm"
        /\ UNCHANGED <<offset, total, sessions, remote, tmp>>
    BY <1>10 DEF Remove
  <2>2. Announced(d, total[d]) /\ tmp # None /\ Len(tmp) = total[d]
    BY <1>2, <2>1 DEF Progressed
  <2>3. Active' \subseteq {d} /\ download'[d] = "rename"
    BY <1>4, <2>1 DEF AtWork
  <2>4. Progressed(d)'
    BY <2>1, <2>2, <2>3 DEF Progressed, Announced
  <2> QED
    BY <2>3, <2>4, ProgressAlone
<1>11. CASE Rename(d) \/ Completed(d) \/ Refused(d) \/ Timeout(d)
  <2>1. download[d] \in Asking \cup AtWork
    BY <1>11 DEF Rename, Completed, Refused, Timeout, Answered, Asking, AtWork
  <2>2. \E label \in {"complete", "done", "failed"} : Goto(d, label)
    BY <1>11 DEF Rename, Completed, Refused, Timeout, Request
  <2>3. Active' \subseteq {d} /\ download'[d] \in {"complete", "done", "failed"}
    BY <1>4, <2>1, <2>2
  <2>4. Progressed(d)'
    BY <2>3 DEF Progressed
  <2> QED
    BY <2>3, <2>4, ProgressAlone
<1> QED
  BY <1>5, <1>6, <1>7, <1>8, <1>9, <1>10, <1>11 DEF Step

\* Every step keeps the progress.
LEMMA ProgressStep ==
    ASSUME OneAtATime
    PROVE  DownloadInv /\ [Next]_vars => Progress'
<1> SUFFICES ASSUME DownloadInv, [Next]_vars PROVE Progress'
  OBVIOUS
<1>1. CASE CrashMaster
  <2>1. \A e \in Downloads : download'[e] \notin Asking \cup AtWork
    BY <1>1 DEF CrashMaster, Active, Asking, AtWork
  <2> QED
    BY <2>1 DEF Progress, Progressed, Asking, AtWork
<1>2. CASE UNCHANGED vars
  BY <1>2 DEF vars, mVars, net, disk, DownloadInv, Progress, Progressed, Announced, GoodChunk, SizeOf
<1> QED
  BY <1>1, <1>2, MasterProgress, SlaveProgress DEF Next

\* Every step leaves the units in place.
LEMMA ContentStep == DownloadInv /\ [Next]_vars => Content'
<1> SUFFICES ASSUME DownloadInv, [Next]_vars PROVE Content'
  OBVIOUS
<1> USE DEF DownloadInv
<1>1. CASE UNCHANGED <<disk, remote>>
  BY <1>1 DEF Content, InPlace, Aligned, disk
<1>2. ASSUME NEW d \in Downloads, Open(d) PROVE Content'
  BY <1>2 DEF Open, Opened, Content, InPlace, Aligned
<1>3. ASSUME NEW d \in Downloads, NEW n, download[d] = "write", n \in 0..Len(reply[d].chunk),
             tmp' = Written(d, n), UNCHANGED <<local, remote>>
      PROVE  Content'
  <2>1. Aligned(tmp') /\ \A i \in 1..Len(tmp') : tmp'[i].rev <= remote.rev
    BY <1>3, WrittenOn
  <2> QED
    BY <1>3, <2>1 DEF Content, InPlace, Aligned
<1>4. \A d \in Downloads : download[d] = "write" => Len(reply[d].chunk) \in Nat
  BY AnswerFacts DEF Talk, Replies
<1>5. ASSUME NEW d \in Downloads, Write(d) PROVE Content'
  <2>1. Len(reply[d].chunk) \in 0..Len(reply[d].chunk)
    BY <1>4, <1>5 DEF Write
  <2> QED
    BY <1>3, <1>5, <2>1 DEF Write
<1>6. ASSUME NEW d \in Downloads, Remove(d) \/ Rename(d) PROVE Content'
  BY <1>6 DEF Remove, Rename, disk, Content, InPlace, Aligned
<1>7. CASE CrashMaster
  <2>1. UNCHANGED <<local, remote>>
    BY <1>7 DEF CrashMaster
  <2>2. ASSUME NEW d \in Downloads, download[d] = "write", NEW n \in 1..Len(reply[d].chunk)
        PROVE  n \in 0..Len(reply[d].chunk)
    BY <1>4, <2>2
  <2>3. \/ tmp' = tmp
        \/ \E d \in Downloads : download[d] = "write" /\
             \E n \in 1..Len(reply[d].chunk) : tmp' = Written(d, n)
    BY <1>7 DEF CrashMaster
  <2>4. CASE tmp' = tmp
    BY <1>1, <2>1, <2>4 DEF disk
  <2> QED
    BY <1>3, <2>1, <2>2, <2>3, <2>4
<1>8. CASE Revise
  <2>1. UNCHANGED disk /\ remote'.rev = remote.rev + 1 /\ remote.rev \in Nat
    BY <1>8, SizeFacts DEF Revise
  <2>2. ASSUME tmp # None, NEW i \in 1..Len(tmp) PROVE tmp[i].rev <= remote'.rev
    <3>1. tmp[i] \in Unit
      BY <2>2, SizeFacts DEF Content, InPlace, Aligned
    <3>2. tmp[i].rev \in Int /\ tmp[i].rev <= remote.rev
      BY <2>2, <3>1 DEF Unit, Content
    <3> QED
      BY <2>1, <3>2
  <2> QED
    BY <2>1, <2>2 DEF Content, InPlace, Aligned, disk
<1>9. ASSUME NEW d \in Downloads,
             Start(d) \/ Inited(d) \/ ChunkArrives(d) \/ Completed(d) \/ Refused(d) \/ Timeout(d)
             \/ Expire(d)
      PROVE  UNCHANGED <<disk, remote>>
  BY <1>9 DEF Start, Inited, ChunkArrives, Completed, Refused, Timeout, Expire
<1>10. CASE Serve \/ LoseFrames \/ CrashSlave \/ UNCHANGED vars
  BY <1>1, <1>10 DEF Serve, LoseFrames, CrashSlave, vars
<1> QED
  BY <1>1, <1>2, <1>5, <1>6, <1>7, <1>8, <1>9, <1>10 DEF Next, Step

\* The first states.
LEMMA InitDownload == Init => DownloadInv
<1> SUFFICES ASSUME Init PROVE DownloadInv
  OBVIOUS
<1>1. TypeOK
  BY InitShape
<1>2. Talk
  BY DEF Init, Talk, OneActive, Requests, Replies, Active, Asking, AtWork
<1>3. Progress
  BY DEF Init, Progress, Progressed
<1>4. Aligned(local)
  <2>1. remote.size \in Nat
    BY <1>1, SizeFacts
  <2>2. Whole(remote) \in Seq(Unit)
    BY FirstWhole
  <2>3. Len(Whole(remote)) = remote.size /\ \A i \in 1..remote.size : Whole(remote)[i].pos = i
    BY <2>1 DEF Whole
  <2>4. \A i \in 1..remote.size : Whole(remote)[i] \in Unit
    BY <2>2, <2>3
  <2>5. \A i \in 1..remote.size : Whole(remote)[i] # Hole
    BY <2>4, Marks
  <2> QED
    BY <2>3, <2>5 DEF Init, Aligned
<1>5. Content
  BY <1>4 DEF Init, Content, InPlace, Aligned
<1> QED
  BY <1>1, <1>2, <1>3, <1>5 DEF DownloadInv

\* Every step keeps all of it.
LEMMA DownloadStep ==
    ASSUME OneAtATime
    PROVE  DownloadInv /\ [Next]_vars => DownloadInv'
<1> SUFFICES ASSUME DownloadInv, [Next]_vars PROVE DownloadInv'
  OBVIOUS
<1>1. TypeOK'
  BY ShapeStep DEF DownloadInv, Talk, Content, InPlace
<1>2. Talk'
  BY TalkStep DEF DownloadInv
<1> QED
  BY <1>1, <1>2, ProgressStep, ContentStep DEF DownloadInv

\* The state keeps its shape; in particular no file gets a hole.
THEOREM DownloadShape ==
    ASSUME OneAtATime
    PROVE  Spec => []TypeOK
<1>1. DownloadInv => TypeOK
  BY DEF DownloadInv
<1> QED
  BY <1>1, InitDownload, DownloadStep, PTL DEF Spec

\* No resume, short read, partial write, lost answer, crash or new revision ever
\* shifts, repeats or skips a unit.
THEOREM UnitsInPlace ==
    ASSUME OneAtATime
    PROVE  Spec => []InPlace
<1>1. DownloadInv => InPlace
  BY DEF DownloadInv, Content
<1> QED
  BY <1>1, InitDownload, DownloadStep, PTL DEF Spec

\* Who changes the local file.
LEMMA LocalStep ==
    ASSUME [Next]_vars, local' # local
    PROVE  \E d \in Downloads : Remove(d) \/ (Rename(d) /\ tmp # None)
BY DEF Next, Step, vars, disk, Start, Inited, Open, ChunkArrives, Write, Rename, Completed, Refused,
       Timeout, Expire, Serve, Revise, LoseFrames, CrashSlave, CrashMaster

\* What takes the place of the local file is what the slave announced.
LEMMA ExactStep ==
    ASSUME DownloadInv, [Next]_vars, NEW d \in Downloads, download[d] = "rename", local' # local
    PROVE  /\ Len(local') = total[d]
           /\ remote.rev = 0 => local' = Whole(remote)
<1> USE DEF DownloadInv
<1>1. PICK e \in Downloads : Remove(e) \/ (Rename(e) /\ tmp # None)
  BY LocalStep
<1>2. e = d
  <2>1. download[e] \in AtWork
    BY <1>1 DEF Remove, Rename, AtWork
  <2> QED
    BY <2>1 DEF Talk, OneActive, Active, AtWork
<1>3. Rename(d) /\ tmp # None /\ local' = tmp
  BY <1>1, <1>2 DEF Remove, Rename
<1>4. Len(tmp) = total[d] /\ Announced(d, total[d])
  BY DEF Progress, Progressed
<1>5. ASSUME remote.rev = 0 PROVE tmp = Whole(remote)
  <2>1. Len(tmp) = remote.size /\ remote.size \in Nat
    BY <1>4, <1>5, SizeFacts DEF Announced
  <2>2. tmp \in Seq(Unit \cup {Hole})
    BY <1>3, SizeFacts
  <2>3. ASSUME NEW i \in 1..remote.size PROVE tmp[i] = [rev |-> remote.rev, pos |-> i]
    <3>1. tmp[i] \in Unit \cup {Hole}
      BY <2>1, <2>2
    <3>2. tmp[i] # Hole /\ tmp[i].pos = i /\ tmp[i].rev <= 0
      BY <1>3, <1>5, <2>1 DEF Content, InPlace, Aligned
    <3>3. tmp[i] = [rev |-> tmp[i].rev, pos |-> tmp[i].pos] /\ tmp[i].rev \in 0..MaxRevisions
      BY <3>1, <3>2 DEF Unit
    <3>4. tmp[i].rev = 0
      BY <3>2, <3>3
    <3> QED
      BY <1>5, <3>2, <3>3, <3>4
  <2>4. tmp = [i \in 1..remote.size |-> tmp[i]]
    BY <2>1, <2>2
  <2> QED
    BY <2>3, <2>4 DEF Whole
<1> QED
  BY <1>3, <1>4, <1>5

\* A download puts in place what the slave announced, and the remote file itself if
\* that was not replaced.
THEOREM DownloadsAreExact ==
    ASSUME OneAtATime
    PROVE  Spec => Exact
<1>1. DownloadInv /\ [Next]_vars =>
        [\A d \in Downloads : download[d] = "rename" /\ local' # local =>
           /\ Len(local') = total[d]
           /\ remote.rev = 0 => local' = Whole(remote)]_vars
  BY ExactStep
<1> QED
  BY <1>1, InitDownload, DownloadStep, PTL DEF Spec, Exact

\* What has been fetched is kept, and the old file goes only when the new one is whole.
LEMMA KeptStep ==
    ASSUME DownloadInv, [Next]_vars
    PROVE  /\ tmp # None => \/ SizeOf(tmp') >= SizeOf(tmp)
                            \/ tmp' = None /\ local' = tmp
           /\ local # None /\ local' = None => \E d \in Active : SizeOf(tmp) = total[d]
<1> USE DEF DownloadInv
<1>1. SizeOf(tmp) \in Nat
  BY SizeFacts
<1>2. ASSUME NEW d \in Downloads, download[d] = "write", NEW n \in Nat,
             n <= Len(reply[d].chunk), tmp' = Written(d, n)
      PROVE  SizeOf(tmp') >= SizeOf(tmp)
  <2>1. Len(reply[d].chunk) \in Nat
    BY <1>2, AnswerFacts DEF Talk, Replies
  <2>2. n \in 0..Len(reply[d].chunk) /\ offset[d] = SizeOf(tmp)
    BY <1>2, <2>1 DEF Progress, Progressed
  <2>3. tmp' # None /\ Len(tmp') = SizeOf(tmp) + n
    BY <1>2, <2>2, WrittenOn
  <2> QED
    BY <1>1, <2>3 DEF SizeOf
<1>3. ASSUME tmp # None PROVE SizeOf(tmp') >= SizeOf(tmp) \/ (tmp' = None /\ local' = tmp)
  <2>1. ASSUME NEW d \in Downloads, Write(d) PROVE SizeOf(tmp') >= SizeOf(tmp)
    <3>1. Len(reply[d].chunk) \in Nat /\ download[d] = "write"
      BY <2>1, AnswerFacts DEF Write, Talk, Replies
    <3>2. Len(reply[d].chunk) <= Len(reply[d].chunk)
      BY <3>1
    <3> QED
      BY <1>2, <2>1, <3>1, <3>2 DEF Write
  <2>2. CASE CrashMaster
    <3>1. \A d \in Downloads : download[d] = "write" => Len(reply[d].chunk) \in Nat
      BY AnswerFacts DEF Talk, Replies
    <3>2. ASSUME NEW d \in Downloads, download[d] = "write", NEW n \in 1..Len(reply[d].chunk)
          PROVE  n \in Nat /\ n <= Len(reply[d].chunk)
      BY <3>1, <3>2
    <3>3. \/ tmp' = tmp
          \/ \E d \in Downloads : download[d] = "write" /\
               \E n \in 1..Len(reply[d].chunk) : tmp' = Written(d, n)
      BY <2>2 DEF CrashMaster
    <3> QED
      BY <1>1, <1>2, <3>2, <3>3
  <2>3. ASSUME NEW d \in Downloads, Rename(d)
        PROVE  tmp' = tmp \/ (tmp' = None /\ local' = tmp)
    BY <2>3 DEF Rename, disk
  <2>4. \/ tmp' = tmp \/ CrashMaster
        \/ \E d \in Downloads : Write(d) \/ Rename(d)
    BY <1>3 DEF Next, Step, vars, disk, Start, Inited, Open, Opened, ChunkArrives, Remove,
       Completed, Refused, Timeout, Expire, Serve, Revise, LoseFrames, CrashSlave
  <2> QED
    BY <1>1, <2>1, <2>2, <2>3, <2>4
<1>4. ASSUME local # None, local' = None PROVE \E d \in Active : SizeOf(tmp) = total[d]
  <2>1. PICK d \in Downloads : Remove(d) \/ (Rename(d) /\ tmp # None)
    BY <1>4, LocalStep
  <2>2. Remove(d)
    BY <1>4, <2>1 DEF Rename
  <2>3. download[d] = "rm" /\ d \in Active
    BY <2>2 DEF Remove, Active, AtWork
  <2>4. SizeOf(tmp) = total[d]
    BY <2>3 DEF Progress, Progressed, SizeOf
  <2> QED
    BY <2>3, <2>4
<1> QED
  BY <1>3, <1>4

\* Through every failure the .tmp file only grows until it takes its place.
THEOREM FetchedIsKept ==
    ASSUME OneAtATime
    PROVE  Spec => NothingLost
<1>1. DownloadInv /\ [Next]_vars =>
        [/\ tmp # None => \/ SizeOf(tmp') >= SizeOf(tmp)
                          \/ tmp' = None /\ local' = tmp
         /\ local # None /\ local' = None =>
              \E d \in Active : SizeOf(tmp) = total[d]]_vars
  BY KeptStep
<1> QED
  BY <1>1, InitDownload, DownloadStep, PTL DEF Spec, NothingLost
=============================================================================
