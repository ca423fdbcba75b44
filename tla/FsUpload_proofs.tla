--------------------------- MODULE FsUpload_proofs ---------------------------
(***************************************************************************)
(* Proofs about FsUpload, for every number of uploads, every size and      *)
(* chunk size and every number of faults: no chunk leaves a gap, and where *)
(* the uploads are attempts at one and the same file, one after another,   *)
(* the target is never partial and an acknowledged upload is exact.        *)
(***************************************************************************)
EXTENDS FsUpload, Integers, TLAPS

Ops == {"init", "chunk", "complete"}
Labels == {"none", "init", "initSize", "chunk", "chunkWrite",
           "complete", "completeRm", "completeRename"}

(***************************************************************************)
(* Types.                                                                  *)
(***************************************************************************)
\* A file has a size and a content.
LEMMA FileFacts ==
    ASSUME TypeOK, NEW u \in Uploads
    PROVE  file[u] \in File /\ file[u].size \in Nat /\ file[u].data \in Contents
BY UploadAssumption DEF TypeOK, File, UploadAssumption

\* What the .tmp file holds, if it is there.
LEMMA TmpFacts ==
    ASSUME TypeOK
    PROVE  /\ SizeOf(tmp) \in Nat
           /\ tmp # None => tmp \in Cells /\ SizeOf(tmp) = Len(tmp)
BY DEF TypeOK, SizeOf, Cells

\* Writing never makes the .tmp file anything but cells.
LEMMA WrittenCells ==
    ASSUME TypeOK, NEW u \in Uploads, NEW n \in Int
    PROVE  Written(u, n) \in Cells
<1> DEFINE off == offset[u]
           end == IF off + n > SizeOf(tmp) THEN off + n ELSE SizeOf(tmp)
           At(i) == IF i \in (off + 1)..(off + n) THEN file[u].data
                    ELSE IF i <= SizeOf(tmp) THEN tmp[i] ELSE Hole
<1>1. off \in Nat /\ file[u].data \in Contents /\ SizeOf(tmp) \in Nat
  BY FileFacts, TmpFacts DEF TypeOK
<1>2. end \in Nat
  BY <1>1
<1>3. ASSUME NEW i \in 1..end PROVE At(i) \in Contents \cup {Hole}
  <2>1. CASE i <= SizeOf(tmp)
    <3>1. tmp # None
      BY <1>1, <1>2, <2>1 DEF SizeOf
    <3>2. tmp \in Seq(Contents \cup {Hole}) /\ i \in 1..Len(tmp)
      BY <1>1, <1>2, <2>1, <3>1, TmpFacts DEF Cells
    <3>3. tmp[i] \in Contents \cup {Hole}
      BY <3>2
    <3> QED
      BY <1>1, <3>3
  <2>2. CASE ~(i <= SizeOf(tmp))
    BY <1>1, <2>2
  <2> QED
    BY <2>1, <2>2
<1>4. Written(u, n) = [i \in 1..end |-> At(i)]
  BY DEF Written
<1> HIDE DEF end, At
<1> QED
  BY <1>2, <1>3, <1>4 DEF Cells

\* What is left of a queue is a queue.
LEMMA SuffixFacts ==
    ASSUME NEW S, NEW q \in Seq(S), NEW p \in Suffixes(q)
    PROVE  \E d \in 0..Len(q) :
             /\ p \in Seq(S) /\ Len(p) = Len(q) - d
             /\ \A i \in 1..Len(p) : p[i] = q[i + d] /\ i + d \in 1..Len(q)
<1>1. PICK n \in 1..(Len(q) + 1) : p = SubSeq(q, n, Len(q))
  BY DEF Suffixes
<1>2. p \in Seq(S) /\ Len(p) = Len(q) - (n - 1)
  BY <1>1
<1>3. \A i \in 1..Len(p) : p[i] = q[i + (n - 1)] /\ i + (n - 1) \in 1..Len(q)
  BY <1>1, <1>2
<1>4. n - 1 \in 0..Len(q)
  BY <1>1
<1> QED
  BY <1>2, <1>3, <1>4

Request_ == [upload : Uploads, op : Ops]

\* TypeOK in three parts: who waits for what, the handlers, the files.
MasterShape ==
    /\ upload \in [Uploads -> {"idle", "init", "chunk", "complete", "done", "failed"}]
    /\ file \in [Uploads -> File]
    /\ offset \in [Uploads -> Nat]
    /\ wire \in Seq(Request_)
    /\ reply \in [Uploads -> {None} \cup [ok : BOOLEAN, offset : Nat]]
SlaveShape ==
    /\ step \in [Uploads -> Labels]
    /\ current \in Uploads \cup {None}
    /\ sessions \subseteq Uploads
    /\ cleaning \in BOOLEAN
FilesShape ==
    /\ tmp \in Cells \cup {None}
    /\ target \in Cells \cup {None}
    /\ faults \in 0..MaxFaults

\* The parts are the whole.
LEMMA ShapeParts == TypeOK <=> MasterShape /\ SlaveShape /\ FilesShape
BY DEF TypeOK, MasterShape, SlaveShape, FilesShape, Request_, Ops, Labels

\* The first states have the shape.
LEMMA InitShape == Init => TypeOK
<1> SUFFICES ASSUME Init PROVE MasterShape /\ SlaveShape /\ FilesShape
  BY ShapeParts
<1>1. MasterShape
  BY DEF Init, MasterShape
<1>2. SlaveShape
  BY DEF Init, SlaveShape, Labels
<1>3. FilesShape
  <2>1. ASSUME NEW f \in File PROVE Whole(f) \in Cells
    <3>1. f.size \in Nat /\ f.data \in Contents \cup {Hole}
      BY UploadAssumption DEF File, UploadAssumption
    <3>2. ASSUME NEW n \in Nat, NEW d \in Contents \cup {Hole}
          PROVE  [i \in 1..n |-> d] \in Seq(Contents \cup {Hole})
      OBVIOUS
    <3> QED
      BY <3>1, <3>2 DEF Whole, Cell, Cells
  <2>2. target = None \/ \E f \in File : target = Whole(f)
    BY DEF Init
  <2> QED
    BY <2>1, <2>2, UploadAssumption DEF Init, FilesShape, UploadAssumption
<1> QED
  BY <1>1, <1>2, <1>3

\* The next offset of an upload is within its file or where it was.
LEMMA NextOffset ==
    ASSUME TypeOK, NEW u \in Uploads
    PROVE  /\ ChunkLength(u, offset[u]) \in Int
           /\ offset[u] + ChunkLength(u, offset[u]) \in Nat
<1>1. offset[u] \in Nat /\ file[u].size \in Nat /\ ChunkSize \in Nat \ {0}
  BY FileFacts, UploadAssumption DEF TypeOK, UploadAssumption
<1> QED
  BY <1>1 DEF ChunkLength, Least

\* Every step keeps what the master and the wire hold.
LEMMA MasterShapeStep == TypeOK /\ [Next]_vars => MasterShape'
<1> SUFFICES ASSUME TypeOK, [Next]_vars PROVE MasterShape'
  OBVIOUS
<1>1. /\ upload \in [Uploads -> {"idle", "init", "chunk", "complete", "done", "failed"}]
      /\ file \in [Uploads -> File] /\ offset \in [Uploads -> Nat]
      /\ wire \in Seq(Request_)
      /\ reply \in [Uploads -> {None} \cup [ok : BOOLEAN, offset : Nat]]
  BY DEF TypeOK, Request_, Ops
<1>2. ASSUME NEW u \in Uploads, NEW op \in Ops, Request(u, op)
      PROVE  /\ wire' \in Seq(Request_)
             /\ upload' \in [Uploads -> {"idle", "init", "chunk", "complete", "done", "failed"}]
  BY <1>1, <1>2 DEF Request, Request_, Ops
<1>3. ASSUME NEW u \in Uploads, NEW ok \in BOOLEAN, NEW off \in Nat, Answer(u, ok, off)
      PROVE  reply' \in [Uploads -> {None} \cup [ok : BOOLEAN, offset : Nat]]
  BY <1>1, <1>3 DEF Answer
<1>4. ASSUME NEW u \in Uploads, NEW off \in Nat, Continue(u, off)
      PROVE  /\ offset' \in [Uploads -> Nat] /\ wire' \in Seq(Request_)
             /\ upload' \in [Uploads -> {"idle", "init", "chunk", "complete", "done", "failed"}]
  <2>1. (IF Remains(u, off) THEN "chunk" ELSE "complete") \in Ops
    BY DEF Ops
  <2> QED
    BY <1>1, <1>2, <1>4, <2>1 DEF Continue
<1>5. wire # <<>> => Tail(wire) \in Seq(Request_) /\ Head(wire).upload \in Uploads
  <2>1. wire # <<>> => Tail(wire) \in Seq(Request_) /\ Head(wire) \in Request_
    BY <1>1
  <2> QED
    BY <2>1 DEF Request_
<1>6. \A p \in Suffixes(wire) : p \in Seq(Request_)
  BY <1>1, SuffixFacts
<1> USE DEF MasterShape
<1>7. ASSUME NEW u \in Uploads, StartUpload(u) PROVE MasterShape'
  BY <1>1, <1>2, <1>7 DEF StartUpload, Ops
<1>8. ASSUME NEW u \in Uploads, Resume(u) PROVE MasterShape'
  <2>1. reply[u].offset \in Nat
    BY <1>1, <1>8 DEF Resume
  <2> QED
    BY <1>1, <1>4, <1>8, <2>1 DEF Resume, ReplyTaken
<1>9. ASSUME NEW u \in Uploads, Acked(u) PROVE MasterShape'
  BY <1>1, <1>4, <1>9, NextOffset DEF Acked, ReplyTaken
<1>10. ASSUME NEW u \in Uploads, Completed(u) \/ Fail(u) PROVE MasterShape'
  BY <1>1, <1>10 DEF Completed, Fail, ReplyTaken
<1>11. CASE Receive
  BY <1>1, <1>3, <1>5, <1>11 DEF Receive, mVars
<1>12. ASSUME NEW u \in Uploads, InitSize(u) PROVE MasterShape'
  BY <1>1, <1>3, <1>12, TmpFacts DEF InitSize, mVars
<1>13. ASSUME NEW u \in Uploads, ChunkStat(u) \/ ChunkWrite(u) PROVE MasterShape'
  BY <1>1, <1>3, <1>13 DEF ChunkStat, ChunkWrite, Goto, mVars
<1>14. ASSUME NEW u \in Uploads, CompleteRename(u) PROVE MasterShape'
  BY <1>1, <1>3, <1>14 DEF CompleteRename, mVars
<1>15. ASSUME NEW u \in Uploads, InitOpen(u) \/ CompleteStat(u) \/ CompleteRm(u) \/ Expire(u)
       PROVE  MasterShape'
  BY <1>1, <1>15 DEF InitOpen, CompleteStat, CompleteRm, Expire, Goto, mVars
<1>16. CASE CleanupRm \/ RestartDealer \/ CrashSlave
  BY <1>1, <1>6, <1>16 DEF CleanupRm, RestartDealer, CrashSlave, mVars
<1>17. CASE UNCHANGED vars
  BY <1>1, <1>17 DEF vars, mVars
<1> QED
  BY <1>7, <1>8, <1>9, <1>10, <1>11, <1>12, <1>13, <1>14, <1>15, <1>16, <1>17 DEF Next

\* Every step keeps the handlers and the sessions.
LEMMA SlaveShapeStep == TypeOK /\ [Next]_vars => SlaveShape'
<1> SUFFICES ASSUME TypeOK, [Next]_vars PROVE SlaveShape'
  OBVIOUS
<1>1. /\ step \in [Uploads -> Labels] /\ current \in Uploads \cup {None}
      /\ sessions \subseteq Uploads /\ cleaning \in BOOLEAN
  BY DEF TypeOK, Labels
<1>2. ASSUME NEW u \in Uploads, NEW ok, NEW off, Answer(u, ok, off)
      PROVE  step' \in [Uploads -> Labels] /\ current' \in Uploads \cup {None}
  BY <1>1, <1>2 DEF Answer, Labels
<1>3. ASSUME NEW u \in Uploads, NEW label \in Labels, Goto(u, label)
      PROVE  step' \in [Uploads -> Labels] /\ current' \in Uploads \cup {None}
  BY <1>1, <1>3 DEF Goto
<1>4. wire # <<>> => Head(wire).upload \in Uploads /\ Head(wire).op \in Labels
  <2>1. wire \in Seq(Request_)
    BY DEF TypeOK, Request_, Ops
  <2>2. wire # <<>> => Head(wire) \in Request_
    BY <2>1
  <2> QED
    BY <2>2 DEF Request_, Ops, Labels
<1> USE DEF SlaveShape
<1>5. ASSUME NEW u \in Uploads, StartUpload(u) \/ Resume(u) \/ Acked(u) \/ Completed(u) \/ Fail(u)
      PROVE  SlaveShape'
  BY <1>1, <1>5 DEF StartUpload, Resume, Acked, Completed, Fail, sVars
<1>6. CASE Receive
  BY <1>1, <1>2, <1>4, <1>6 DEF Receive
<1>7. ASSUME NEW u \in Uploads, InitOpen(u) PROVE SlaveShape'
  BY <1>1, <1>3, <1>7 DEF InitOpen, Labels
<1>8. ASSUME NEW u \in Uploads, InitSize(u) PROVE SlaveShape'
  BY <1>1, <1>2, <1>8 DEF InitSize
<1>9. ASSUME NEW u \in Uploads, ChunkStat(u) \/ ChunkWrite(u) PROVE SlaveShape'
  BY <1>1, <1>2, <1>3, <1>9 DEF ChunkStat, ChunkWrite, Labels
<1>10. ASSUME NEW u \in Uploads, CompleteStat(u) \/ CompleteRm(u) PROVE SlaveShape'
  <2>1. PICK label \in Labels : Goto(u, label)
    BY <1>10 DEF CompleteStat, CompleteRm, Labels
  <2>2. UNCHANGED <<sessions, cleaning>>
    BY <1>10 DEF CompleteStat, CompleteRm
  <2> QED
    BY <1>1, <1>3, <2>1, <2>2
<1>11. ASSUME NEW u \in Uploads, CompleteRename(u) PROVE SlaveShape'
  BY <1>1, <1>2, <1>11 DEF CompleteRename
<1>12. ASSUME NEW u \in Uploads, Expire(u) PROVE SlaveShape'
  BY <1>1, <1>12 DEF Expire
<1>13. CASE CleanupRm \/ RestartDealer \/ CrashSlave
  BY <1>1, <1>13 DEF CleanupRm, RestartDealer, CrashSlave, Labels
<1>14. CASE UNCHANGED vars
  BY <1>1, <1>14 DEF vars, sVars
<1> QED
  BY <1>5, <1>6, <1>7, <1>8, <1>9, <1>10, <1>11, <1>12, <1>13, <1>14 DEF Next

\* Every step keeps the files and the count of faults.
LEMMA FilesShapeStep == TypeOK /\ [Next]_vars => FilesShape'
<1> SUFFICES ASSUME TypeOK, [Next]_vars PROVE FilesShape'
  OBVIOUS
<1>1. tmp \in Cells \cup {None} /\ target \in Cells \cup {None} /\ faults \in 0..MaxFaults
  BY DEF TypeOK
<1>2. faults' = faults \/ (faults < MaxFaults /\ faults' = faults + 1)
  BY DEF Next, vars, StartUpload, Resume, Acked, Completed, Fail, InitOpen, InitSize, ChunkStat,
         ChunkWrite, CompleteStat, CompleteRm, CompleteRename, Expire, Receive, CleanupRm,
         RestartDealer, CrashSlave
<1>3. faults' \in 0..MaxFaults
  BY <1>1, <1>2, UploadAssumption DEF UploadAssumption
<1>4. <<>> \in Cells
  BY DEF Cells
<1>5. tmp' \in Cells \cup {None} /\ target' \in Cells \cup {None}
  <2>1. ASSUME NEW u \in Uploads,
               StartUpload(u) \/ Resume(u) \/ Acked(u) \/ Completed(u) \/ Fail(u) \/ InitOpen(u)
               \/ InitSize(u) \/ ChunkStat(u) \/ CompleteStat(u) \/ CompleteRm(u)
               \/ CompleteRename(u) \/ Expire(u)
        PROVE  tmp' \in Cells \cup {None} /\ target' \in Cells \cup {None}
    BY <1>1, <1>4, <2>1 DEF StartUpload, Resume, Acked, Completed, Fail, InitOpen, InitSize,
       ChunkStat, CompleteStat, CompleteRm, CompleteRename, Expire, disk
  <2>2. ASSUME NEW u \in Uploads, ChunkWrite(u)
        PROVE  tmp' \in Cells \cup {None} /\ target' \in Cells \cup {None}
    BY <1>1, <2>2, WrittenCells, NextOffset DEF ChunkWrite
  <2>3. CASE Receive \/ CleanupRm \/ RestartDealer
    BY <1>1, <2>3 DEF Receive, CleanupRm, RestartDealer, disk
  <2>4. CASE CrashSlave
    <3>1. target' = target
      BY <2>4 DEF CrashSlave
    <3>2. tmp' = tmp \/ \E u \in Uploads, n \in 1..ChunkSize : tmp' = Written(u, n)
      BY <2>4 DEF CrashSlave
    <3>3. \A u \in Uploads, n \in 1..ChunkSize : Written(u, n) \in Cells
      BY WrittenCells, UploadAssumption DEF UploadAssumption
    <3> QED
      BY <1>1, <3>1, <3>2, <3>3
  <2>5. CASE UNCHANGED vars
    BY <1>1, <2>5 DEF vars, disk
  <2> QED
    BY <2>1, <2>2, <2>3, <2>4, <2>5 DEF Next
<1> QED
  BY <1>3, <1>5 DEF FilesShape

\* Every step keeps the shape.
LEMMA ShapeStep == TypeOK /\ [Next]_vars => TypeOK'
<1>1. TypeOK' <=> MasterShape' /\ SlaveShape' /\ FilesShape'
  BY ShapeParts, PTL
<1> QED
  BY <1>1, MasterShapeStep, SlaveShapeStep, FilesShapeStep

\* The state keeps its shape, for any uploads, files and faults: in particular no
\* offset is ever negative and what handlers hand on is what the next ones expect.
THEOREM UploadShape == Spec => []TypeOK
BY InitShape, ShapeStep, PTL DEF Spec

(***************************************************************************)
(* One request of an upload is under way at a time: upload() awaits its    *)
(* answer before it sends the next one, and sends none after it gave up.   *)
(***************************************************************************)
Sent(u) == \E i \in 1..Len(wire) : wire[i].upload = u
OncePerUpload == \A i, j \in 1..Len(wire) : wire[i].upload = wire[j].upload => i = j

OneRequest ==
    /\ OncePerUpload
    /\ \A u \in Uploads : Sent(u) => step[u] = "none" /\ reply[u] = None
    /\ \A u \in Uploads : step[u] # "none" => reply[u] = None
    /\ \A u \in Uploads : upload[u] = "idle" => ~Sent(u) /\ step[u] = "none" /\ reply[u] = None

\* The wire is a queue of requests.
LEMMA WireFacts ==
    ASSUME TypeOK
    PROVE  /\ wire \in Seq(Request_) /\ Len(wire) \in Nat
           /\ \A i \in 1..Len(wire) : wire[i] \in Request_ /\ wire[i].upload \in Uploads
<1>1. wire \in Seq(Request_)
  BY DEF TypeOK, Request_, Ops
<1>2. \A i \in 1..Len(wire) : wire[i] \in Request_
  BY <1>1
<1> QED
  BY <1>1, <1>2 DEF Request_

\* A request is appended.
LEMMA RequestSent ==
    ASSUME TypeOK, NEW u \in Uploads, NEW op \in Ops, Request(u, op)
    PROVE  /\ Len(wire') = Len(wire) + 1
           /\ wire'[Len(wire) + 1] = [upload |-> u, op |-> op]
           /\ \A i \in 1..Len(wire) : wire'[i] = wire[i]
           /\ \A v \in Uploads : Sent(v)' <=> Sent(v) \/ v = u
           /\ OncePerUpload /\ ~Sent(u) => OncePerUpload'
<1>1. /\ Len(wire') = Len(wire) + 1
      /\ wire'[Len(wire) + 1] = [upload |-> u, op |-> op]
      /\ \A i \in 1..Len(wire) : wire'[i] = wire[i]
      /\ Len(wire) \in Nat
  BY WireFacts DEF Request
<1>2. ASSUME NEW v \in Uploads PROVE Sent(v)' <=> Sent(v) \/ v = u
  <2>1. Sent(v)' <=> \E i \in 1..(Len(wire) + 1) : wire'[i].upload = v
    BY <1>1 DEF Sent
  <2>2. 1..(Len(wire) + 1) = 1..Len(wire) \cup {Len(wire) + 1}
    BY <1>1
  <2>3. Sent(v)' <=> (\E i \in 1..Len(wire) : wire'[i].upload = v) \/ u = v
    BY <1>1, <2>1, <2>2
  <2> QED
    BY <1>1, <2>3 DEF Sent
<1>3. OncePerUpload /\ ~Sent(u) => OncePerUpload'
  BY <1>1 DEF OncePerUpload, Sent
<1> QED
  BY <1>1, <1>2, <1>3

\* What survives of the wire is its newest part.
LEMMA WireSuffix ==
    ASSUME TypeOK, wire' \in Suffixes(wire)
    PROVE  /\ \A v \in Uploads : Sent(v)' => Sent(v)
           /\ OncePerUpload => OncePerUpload'
<1>1. PICK d \in 0..Len(wire) :
        /\ Len(wire') = Len(wire) - d
        /\ \A i \in 1..Len(wire') : wire'[i] = wire[i + d] /\ i + d \in 1..Len(wire)
  BY WireFacts, SuffixFacts
<1>2. \A v \in Uploads : Sent(v)' => Sent(v)
  BY <1>1 DEF Sent
<1>3. ASSUME OncePerUpload, NEW i \in 1..Len(wire'), NEW j \in 1..Len(wire'),
             wire'[i].upload = wire'[j].upload
      PROVE  i = j
  <2>1. wire[i + d].upload = wire[j + d].upload /\ i + d \in 1..Len(wire) /\ j + d \in 1..Len(wire)
    BY <1>1, <1>3
  <2>2. i + d = j + d
    BY <1>3, <2>1 DEF OncePerUpload
  <2> QED
    BY <2>2
<1> QED
  BY <1>2, <1>3 DEF OncePerUpload

\* The request that is taken is the only one of its upload.
LEMMA HeadTaken ==
    ASSUME TypeOK, wire # <<>>, wire' = Tail(wire)
    PROVE  /\ Head(wire) = wire[1] /\ Head(wire) \in Request_ /\ Sent(Head(wire).upload)
           /\ Len(wire') = Len(wire) - 1
           /\ \A i \in 1..Len(wire') : wire'[i] = wire[i + 1] /\ i + 1 \in 1..Len(wire)
           /\ \A v \in Uploads : Sent(v)' => Sent(v)
           /\ OncePerUpload =>
                OncePerUpload' /\ \A v \in Uploads : v = Head(wire).upload => ~Sent(v)'
<1>1. /\ Head(wire) = wire[1] /\ Len(wire') = Len(wire) - 1 /\ Len(wire) \in Nat \ {0}
      /\ \A i \in 1..Len(wire') : wire'[i] = wire[i + 1] /\ i + 1 \in 1..Len(wire)
  BY WireFacts
<1>2. Head(wire) \in Request_ /\ Sent(Head(wire).upload)
  BY <1>1, WireFacts DEF Sent
<1>3. \A v \in Uploads : Sent(v)' => Sent(v)
  BY <1>1 DEF Sent
<1>4. ASSUME OncePerUpload PROVE OncePerUpload'
  <2>1. ASSUME NEW i \in 1..Len(wire'), NEW j \in 1..Len(wire'), wire'[i].upload = wire'[j].upload
        PROVE  i = j
    <3>1. wire[i + 1].upload = wire[j + 1].upload /\ i + 1 \in 1..Len(wire) /\ j + 1 \in 1..Len(wire)
      BY <1>1, <2>1
    <3> QED
      BY <1>4, <3>1 DEF OncePerUpload
  <2> QED
    BY <2>1 DEF OncePerUpload
<1>5. ASSUME OncePerUpload, NEW v \in Uploads, v = Head(wire).upload PROVE ~Sent(v)'
  <2>1. ASSUME NEW i \in 1..Len(wire'), wire'[i].upload = v PROVE FALSE
    <3>1. wire[i + 1].upload = wire[1].upload /\ i + 1 \in 1..Len(wire) /\ 1 \in 1..Len(wire)
      BY <1>1, <1>5, <2>1
    <3>2. i + 1 = 1
      BY <1>5, <3>1 DEF OncePerUpload
    <3> QED
      BY <3>2
  <2> QED
    BY <2>1 DEF Sent
<1> QED
  BY <1>1, <1>2, <1>3, <1>4, <1>5

\* The handlers' end, in terms of who waits for what.
LEMMA OneRequestAnswer ==
    ASSUME TypeOK, OneRequest, NEW u \in Uploads, NEW ok, NEW off,
           step[u] # "none", Answer(u, ok, off), UNCHANGED <<wire, upload>>
    PROVE  OneRequest'
<1>1. OncePerUpload' /\ \A v \in Uploads : Sent(v)' <=> Sent(v)
  BY DEF OneRequest, OncePerUpload, Sent
<1>2. ~Sent(u) /\ upload[u] # "idle"
  BY DEF OneRequest
<1>3. \A v \in Uploads : v # u => step'[v] = step[v] /\ reply'[v] = reply[v]
  BY DEF Answer, TypeOK
<1>4. step'[u] = "none"
  BY DEF Answer, TypeOK
<1> QED
  BY <1>1, <1>2, <1>3, <1>4 DEF OneRequest

\* The same where a handler goes on.
LEMMA OneRequestGoto ==
    ASSUME TypeOK, OneRequest, NEW u \in Uploads, NEW label \in Labels,
           step[u] # "none", Goto(u, label), UNCHANGED <<wire, upload>>
    PROVE  OneRequest'
<1>1. OncePerUpload' /\ \A v \in Uploads : Sent(v)' <=> Sent(v)
  BY DEF OneRequest, OncePerUpload, Sent
<1>2. \A v \in Uploads : (step'[v] # "none" => step[v] # "none") /\ reply'[v] = reply[v]
  BY DEF Goto, TypeOK
<1>3. \A v \in Uploads : step[v] = "none" => step'[v] = "none"
  BY <1>2
<1> QED
  BY <1>1, <1>2, <1>3 DEF OneRequest

\* An upload never has two requests under way.
LEMMA OneRequestStep == TypeOK /\ OneRequest /\ [Next]_vars => OneRequest'
<1> SUFFICES ASSUME TypeOK, OneRequest, [Next]_vars PROVE OneRequest'
  OBVIOUS
<1>1. /\ upload \in [Uploads -> {"idle", "init", "chunk", "complete", "done", "failed"}]
      /\ reply \in [Uploads -> {None} \cup [ok : BOOLEAN, offset : Nat]]
      /\ step \in [Uploads -> Labels]
  BY DEF TypeOK, Labels
<1>2. ASSUME NEW u \in Uploads, NEW op \in Ops, Request(u, op), UNCHANGED step, reply[u] # None
             \/ upload[u] = "idle", reply' = [reply EXCEPT ![u] = None]
      PROVE  OneRequest'
  <2>1. ~Sent(u) /\ step[u] = "none"
    BY <1>2 DEF OneRequest
  <2>2. OncePerUpload' /\ \A v \in Uploads : Sent(v)' <=> Sent(v) \/ v = u
    BY <1>2, <2>1, RequestSent DEF OneRequest
  <2>3. /\ reply'[u] = None /\ upload'[u] # "idle"
        /\ \A v \in Uploads : v # u => reply'[v] = reply[v] /\ upload'[v] = upload[v]
    BY <1>1, <1>2 DEF Request, Ops
  <2> QED
    BY <1>2, <2>1, <2>2, <2>3 DEF OneRequest
<1>3. ASSUME NEW u \in Uploads, NEW off, Continue(u, off), reply[u] # None, ReplyTaken(u),
             UNCHANGED step
      PROVE  OneRequest'
  <2>1. (IF Remains(u, off) THEN "chunk" ELSE "complete") \in Ops
    BY DEF Ops
  <2> QED
    BY <1>2, <1>3, <2>1 DEF Continue, ReplyTaken
<1>4. ASSUME NEW u \in Uploads, StartUpload(u) PROVE OneRequest'
  <2>1. reply[u] = None
    BY <1>4 DEF StartUpload, OneRequest
  <2>2. reply' = [reply EXCEPT ![u] = None]
    BY <1>1, <1>4, <2>1 DEF StartUpload
  <2> QED
    BY <1>2, <1>4, <2>2 DEF StartUpload, sVars, Ops
<1>5. ASSUME NEW u \in Uploads, Resume(u) \/ Acked(u) PROVE OneRequest'
  BY <1>3, <1>5 DEF Resume, Acked, sVars
<1>6. ASSUME NEW u \in Uploads, Completed(u) \/ Fail(u) PROVE OneRequest'
  <2>1. /\ UNCHANGED <<wire, step>>
        /\ \A v \in Uploads : (upload'[v] = "idle" => upload[v] = "idle")
                              /\ (reply'[v] = reply[v] \/ reply'[v] = None)
    BY <1>1, <1>6 DEF Completed, Fail, ReplyTaken, sVars, Active
  <2> QED
    BY <2>1 DEF OneRequest, OncePerUpload, Sent
<1>7. CASE Receive
  <2>1. wire # <<>> /\ wire' = Tail(wire) /\ upload' = upload
    BY <1>7 DEF Receive, mVars
  <2>2. PICK u \in Uploads : u = Head(wire).upload /\ Sent(u)
    BY <2>1, HeadTaken DEF Request_
  <2>3. OncePerUpload' /\ ~Sent(u)' /\ \A v \in Uploads : Sent(v)' => Sent(v)
    BY <2>1, <2>2, HeadTaken DEF OneRequest
  <2>4. upload[u] # "idle" /\ reply[u] = None
    BY <2>2 DEF OneRequest
  <2>5. \A v \in Uploads : v # u => step'[v] = step[v] /\ reply'[v] = reply[v]
    BY <1>1, <1>7, <2>2 DEF Receive, Answer
  <2>6. step'[u] # "none" => reply'[u] = None
    BY <1>1, <1>7, <2>2, <2>4 DEF Receive, Answer
  <2> QED
    BY <2>1, <2>2, <2>3, <2>4, <2>5, <2>6 DEF OneRequest
<1>8. ASSUME NEW u \in Uploads, InitOpen(u) \/ CompleteStat(u) \/ CompleteRm(u) PROVE OneRequest'
  <2>1. PICK label \in Labels : Goto(u, label)
    BY <1>8 DEF InitOpen, CompleteStat, CompleteRm, Labels
  <2>2. UNCHANGED <<wire, upload>> /\ step[u] # "none"
    BY <1>8 DEF InitOpen, CompleteStat, CompleteRm, mVars
  <2> QED
    BY <2>1, <2>2, OneRequestGoto
<1>9. ASSUME NEW u \in Uploads, ChunkStat(u) PROVE OneRequest'
  <2>1. UNCHANGED <<wire, upload>> /\ step[u] # "none"
    BY <1>9 DEF ChunkStat, mVars
  <2>2. Goto(u, "chunkWrite") \/ Answer(u, FALSE, 0)
    BY <1>9 DEF ChunkStat
  <2> QED
    BY <2>1, <2>2, OneRequestGoto, OneRequestAnswer DEF Labels
<1>10. ASSUME NEW u \in Uploads, InitSize(u) \/ ChunkWrite(u) \/ CompleteRename(u) PROVE OneRequest'
  <2>1. UNCHANGED <<wire, upload>> /\ step[u] # "none"
    BY <1>10 DEF InitSize, ChunkWrite, CompleteRename, mVars
  <2>2. \E ok, off : Answer(u, ok, off)
    BY <1>10 DEF InitSize, ChunkWrite, CompleteRename
  <2> QED
    BY <2>1, <2>2, OneRequestAnswer
<1>11. CASE RestartDealer \/ CrashSlave
  <2>1. wire' \in Suffixes(wire) /\ UNCHANGED <<upload, reply>>
    BY <1>11 DEF RestartDealer, CrashSlave, mVars
  <2>2. OncePerUpload' /\ \A v \in Uploads : Sent(v)' => Sent(v)
    BY <2>1, WireSuffix DEF OneRequest
  <2>3. \A v \in Uploads : step'[v] = step[v] \/ step'[v] = "none"
    BY <1>11 DEF RestartDealer, CrashSlave
  <2> QED
    BY <2>1, <2>2, <2>3 DEF OneRequest
<1>12. ASSUME UNCHANGED <<upload, wire, step, reply>> PROVE OneRequest'
  BY <1>12 DEF OneRequest, OncePerUpload, Sent
<1>13. ASSUME NEW u \in Uploads, Expire(u) PROVE OneRequest'
  BY <1>12, <1>13 DEF Expire, mVars
<1>14. CASE CleanupRm \/ UNCHANGED vars
  BY <1>12, <1>14 DEF CleanupRm, mVars, sVars, vars
<1> QED
  BY <1>4, <1>5, <1>6, <1>7, <1>8, <1>9, <1>10, <1>11, <1>13, <1>14 DEF Next

(***************************************************************************)
(* Without a rebuild under a running handler the read loop runs one        *)
(* handler at a time.  The check of the size then still holds when the     *)
(* chunk is written, unless expiry has removed the file.                   *)
(***************************************************************************)
OneHandler == \A u \in Uploads : step[u] # "none" <=> current = u
Fits == \A u \in Uploads : step[u] = "chunkWrite" => tmp = None \/ Len(tmp) = offset[u]

HandlerInv == TypeOK /\ OneRequest /\ OneHandler /\ Fits /\ NoGap

\* When the one handler is over none is left.
LEMMA HandlerEnds ==
    ASSUME TypeOK, OneHandler, NEW u \in Uploads, NEW ok, NEW off,
           step[u] # "none", Answer(u, ok, off)
    PROVE  current' = None /\ \A v \in Uploads : step'[v] = "none"
BY DEF OneHandler, Answer, TypeOK

\* When the one handler goes on there is no other.
LEMMA HandlerGoesOn ==
    ASSUME TypeOK, OneHandler, NEW u \in Uploads, NEW label \in Labels \ {"none"},
           step[u] # "none", Goto(u, label)
    PROVE  /\ current = u /\ current' = u /\ step'[u] = label
           /\ \A v \in Uploads : v # u => step'[v] = "none" /\ step[v] = "none"
BY DEF OneHandler, Goto, TypeOK

\* Where the new request leads: to the first label of its handler, or to an answer.
LEMMA HandlerBegins ==
    ASSUME TypeOK, OneHandler, Receive
    PROVE  /\ current = None /\ \A v \in Uploads : step[v] = "none"
           /\ \E u \in Uploads, op \in Ops :
                /\ wire # <<>> /\ Head(wire) = wire[1] /\ wire[1].upload = u /\ wire[1].op = op
                /\ \/ /\ op # "init" => u \in sessions
                      /\ step' = [step EXCEPT ![u] = op] /\ current' = u /\ reply' = reply
                   \/ Answer(u, FALSE, 0)
<1>1. wire # <<>> /\ current = None
  BY DEF Receive
<1>2. Head(wire) = wire[1] /\ wire[1] \in Request_
  BY <1>1, WireFacts
<1>3. \A v \in Uploads : step[v] = "none"
  BY <1>1, UploadAssumption DEF OneHandler, UploadAssumption
<1>4. PICK u \in Uploads, op \in Ops : wire[1].upload = u /\ wire[1].op = op
  BY <1>2 DEF Request_
<1>5. \/ /\ op # "init" => u \in sessions
         /\ step' = [step EXCEPT ![u] = op] /\ current' = u /\ reply' = reply
      \/ Answer(u, FALSE, 0)
  BY <1>2, <1>4 DEF Receive
<1> QED
  BY <1>1, <1>2, <1>3, <1>4, <1>5

\* There is at most one handler, whatever happens to the slave and its Dealer.
LEMMA OneHandlerStep ==
    ASSUME ~Overlap
    PROVE  TypeOK /\ OneHandler /\ [Next]_vars => OneHandler'
<1> SUFFICES ASSUME TypeOK, OneHandler, [Next]_vars PROVE OneHandler'
  OBVIOUS
<1>1. step \in [Uploads -> Labels] /\ None \notin Uploads /\ "none" \notin Ops
  BY UploadAssumption DEF TypeOK, Labels, UploadAssumption, Ops
<1>2. ASSUME NEW u \in Uploads, NEW ok, NEW off, step[u] # "none", Answer(u, ok, off)
      PROVE  OneHandler'
  BY <1>1, <1>2, HandlerEnds DEF OneHandler
<1>3. ASSUME NEW u \in Uploads, NEW label \in Labels \ {"none"}, step[u] # "none", Goto(u, label)
      PROVE  OneHandler'
  BY <1>1, <1>3, HandlerGoesOn DEF OneHandler
<1>4. ASSUME UNCHANGED <<step, current>> PROVE OneHandler'
  BY <1>4 DEF OneHandler
<1>5. ASSUME NEW u \in Uploads,
             StartUpload(u) \/ Resume(u) \/ Acked(u) \/ Completed(u) \/ Fail(u) \/ Expire(u)
      PROVE  OneHandler'
  BY <1>4, <1>5 DEF StartUpload, Resume, Acked, Completed, Fail, Expire, sVars
<1>6. CASE Receive
  <2>1. PICK u \in Uploads, op \in Ops :
          \/ step' = [step EXCEPT ![u] = op] /\ current' = u
          \/ Answer(u, FALSE, 0)
    BY <1>6, HandlerBegins
  <2>2. current = None /\ \A v \in Uploads : step[v] = "none"
    BY <1>6, HandlerBegins
  <2>3. CASE step' = [step EXCEPT ![u] = op] /\ current' = u
    BY <1>1, <2>2, <2>3 DEF OneHandler
  <2>4. CASE Answer(u, FALSE, 0)
    BY <1>1, <2>2, <2>4 DEF OneHandler, Answer
  <2> QED
    BY <2>1, <2>3, <2>4
<1>7. ASSUME NEW u \in Uploads, InitOpen(u) \/ CompleteStat(u) \/ CompleteRm(u) PROVE OneHandler'
  <2>1. PICK label \in Labels \ {"none"} : Goto(u, label)
    BY <1>7 DEF InitOpen, CompleteStat, CompleteRm, Labels
  <2>2. step[u] # "none"
    BY <1>7 DEF InitOpen, CompleteStat, CompleteRm
  <2> QED
    BY <1>3, <2>1, <2>2
<1>8. ASSUME NEW u \in Uploads, ChunkStat(u) PROVE OneHandler'
  BY <1>2, <1>3, <1>8 DEF ChunkStat, Labels
<1>9. ASSUME NEW u \in Uploads, InitSize(u) \/ ChunkWrite(u) \/ CompleteRename(u) PROVE OneHandler'
  <2>1. (\E ok, off : Answer(u, ok, off)) /\ step[u] # "none"
    BY <1>9 DEF InitSize, ChunkWrite, CompleteRename
  <2> QED
    BY <1>2, <2>1
<1>10. CASE RestartDealer
  BY <1>4, <1>10 DEF RestartDealer
<1>11. CASE CrashSlave
  BY <1>1, <1>11 DEF CrashSlave, OneHandler
<1>12. CASE CleanupRm \/ UNCHANGED vars
  BY <1>4, <1>12 DEF CleanupRm, vars, sVars
<1> QED
  BY <1>5, <1>6, <1>7, <1>8, <1>9, <1>10, <1>11, <1>12 DEF Next

\* What a write leaves: what was there, and the data of the upload.
LEMMA WrittenFits ==
    ASSUME TypeOK, NEW u \in Uploads, NEW n \in Int, tmp # None, Len(tmp) = offset[u]
    PROVE  \A i \in 1..Len(Written(u, n)) :
             \/ Written(u, n)[i] = file[u].data
             \/ i \in 1..Len(tmp) /\ Written(u, n)[i] = tmp[i]
<1> DEFINE off == offset[u]
           end == IF off + n > SizeOf(tmp) THEN off + n ELSE SizeOf(tmp)
           At(i) == IF i \in (off + 1)..(off + n) THEN file[u].data
                    ELSE IF i <= SizeOf(tmp) THEN tmp[i] ELSE Hole
<1>1. off \in Nat /\ SizeOf(tmp) = off /\ end \in Nat
  BY TmpFacts DEF TypeOK
<1>2. Written(u, n) = [i \in 1..end |-> At(i)]
  BY DEF Written
<1>3. ASSUME NEW i \in 1..end
      PROVE  At(i) = file[u].data \/ (i \in 1..Len(tmp) /\ At(i) = tmp[i])
  <2>1. CASE i \in (off + 1)..(off + n)
    BY <2>1
  <2>2. CASE i \notin (off + 1)..(off + n)
    <3>1. i <= off /\ i \in 1..Len(tmp)
      BY <1>1, <2>2
    <3>2. At(i) = tmp[i]
      BY <1>1, <2>2, <3>1
    <3> QED
      BY <3>1, <3>2
  <2> QED
    BY <2>1, <2>2
<1> HIDE DEF end, At
<1>4. Len(Written(u, n)) = end
  BY <1>1, <1>2
<1> QED
  BY <1>2, <1>3, <1>4

\* A checked chunk still fits when it is written, and leaves no gap.
LEMMA FitsStep ==
    ASSUME ~Overlap
    PROVE  HandlerInv /\ [Next]_vars => Fits' /\ NoGap'
<1> SUFFICES ASSUME HandlerInv, [Next]_vars PROVE Fits' /\ NoGap'
  OBVIOUS
<1> USE DEF HandlerInv
<1>1. /\ step \in [Uploads -> Labels] /\ offset \in [Uploads -> Nat]
      /\ tmp \in Cells \cup {None} /\ None \notin Uploads
  BY UploadAssumption DEF TypeOK, Labels, UploadAssumption
<1>2. ASSUME UNCHANGED tmp, UNCHANGED offset, \A u \in Uploads : step'[u] \in {step[u], "none"}
      PROVE  Fits' /\ NoGap'
  BY <1>2 DEF Fits, NoGap
<1>3. ASSUME \A u \in Uploads : step'[u] # "chunkWrite" PROVE Fits'
  BY <1>3 DEF Fits
<1>4. ASSUME NEW u \in Uploads, NEW n \in Int, step[u] = "chunkWrite", tmp # None,
             tmp' = Written(u, n)
      PROVE  NoGap'
  <2>1. Len(tmp) = offset[u] /\ file[u].data # Hole
    BY <1>4, FileFacts, UploadAssumption DEF Fits, UploadAssumption
  <2>2. \A i \in 1..Len(tmp') : tmp'[i] # Hole
    BY <1>4, <2>1, WrittenFits DEF NoGap
  <2> QED
    BY <2>2 DEF NoGap
<1>5. ASSUME NEW u \in Uploads, UNCHANGED <<tmp, step>>, reply[u] # None,
             \A v \in Uploads : v # u => offset'[v] = offset[v]
      PROVE  Fits' /\ NoGap'
  <2>1. step[u] = "none"
    BY <1>5 DEF OneRequest
  <2> QED
    BY <1>5, <2>1 DEF Fits, NoGap
<1>6. ASSUME NEW u \in Uploads, StartUpload(u) \/ Completed(u) \/ Fail(u) \/ Expire(u)
      PROVE  Fits' /\ NoGap'
  BY <1>2, <1>6 DEF StartUpload, Completed, Fail, Expire, sVars, disk, mVars
<1>7. ASSUME NEW u \in Uploads, Resume(u) \/ Acked(u) PROVE Fits' /\ NoGap'
  <2>1. UNCHANGED <<tmp, step>> /\ reply[u] # None
    BY <1>7 DEF Resume, Acked, sVars, disk
  <2>2. \A v \in Uploads : v # u => offset'[v] = offset[v]
    BY <1>1, <1>7 DEF Resume, Acked, Continue
  <2> QED
    BY <1>5, <2>1, <2>2
<1>8. CASE Receive
  <2>1. UNCHANGED <<tmp, offset>>
    BY <1>8 DEF Receive, disk, mVars
  <2>2. \A v \in Uploads : step'[v] # "chunkWrite"
    BY <1>1, <1>8, HandlerBegins DEF Answer, Ops
  <2> QED
    BY <1>3, <2>1, <2>2 DEF NoGap
<1>9. ASSUME NEW u \in Uploads, InitOpen(u) PROVE Fits' /\ NoGap'
  <2>1. \A v \in Uploads : step'[v] # "chunkWrite"
    <3>1. Goto(u, "initSize") /\ step[u] # "none"
      BY <1>9 DEF InitOpen
    <3> QED
      BY <3>1, HandlerGoesOn DEF Labels
  <2>2. tmp' = tmp \/ tmp' = <<>>
    BY <1>9 DEF InitOpen
  <2>3. NoGap'
    BY <2>2 DEF NoGap
  <2> QED
    BY <1>3, <2>1, <2>3
<1>10. ASSUME NEW u \in Uploads, InitSize(u) PROVE Fits' /\ NoGap'
  BY <1>1, <1>2, <1>10 DEF InitSize, Answer, disk, mVars
<1>11. ASSUME NEW u \in Uploads, ChunkStat(u) PROVE Fits' /\ NoGap'
  <2>1. UNCHANGED <<tmp, offset>>
    BY <1>11 DEF ChunkStat, disk, mVars
  <2>2. CASE SizeOf(tmp) = offset[u] /\ Goto(u, "chunkWrite")
    <3>1. \A v \in Uploads : v # u => step'[v] = "none"
      BY <1>11, <2>2, HandlerGoesOn DEF ChunkStat, Labels
    <3>2. tmp = None \/ Len(tmp) = offset[u]
      BY <2>2 DEF SizeOf
    <3> QED
      BY <2>1, <3>1, <3>2 DEF Fits, NoGap
  <2>3. CASE Answer(u, FALSE, 0)
    BY <1>1, <1>2, <2>1, <2>3 DEF Answer
  <2> QED
    BY <1>11, <2>2, <2>3 DEF ChunkStat
<1>12. ASSUME NEW u \in Uploads, ChunkWrite(u) PROVE Fits' /\ NoGap'
  <2>1. step[u] = "chunkWrite" /\ \E ok, off : Answer(u, ok, off)
    BY <1>12 DEF ChunkWrite
  <2>2. Fits'
    BY <1>3, <2>1, HandlerEnds
  <2>3. tmp' = tmp \/ (tmp # None /\ tmp' = Written(u, ChunkLength(u, offset[u])))
    BY <1>12 DEF ChunkWrite, Writable
  <2>4. NoGap'
    BY <1>4, <2>1, <2>3, NextOffset DEF NoGap
  <2> QED
    BY <2>2, <2>4
<1>13. ASSUME NEW u \in Uploads, CompleteStat(u) \/ CompleteRm(u) PROVE Fits' /\ NoGap'
  <2>1. \E label \in Labels \ {"none", "chunkWrite"} : Goto(u, label)
    BY <1>13 DEF CompleteStat, CompleteRm, Labels
  <2>2. step[u] # "none" /\ UNCHANGED tmp
    BY <1>13 DEF CompleteStat, CompleteRm, disk
  <2>3. \A v \in Uploads : step'[v] # "chunkWrite"
    BY <2>1, <2>2, HandlerGoesOn
  <2> QED
    BY <1>3, <2>2, <2>3 DEF NoGap
<1>14. ASSUME NEW u \in Uploads, CompleteRename(u) PROVE Fits' /\ NoGap'
  <2>1. step[u] # "none" /\ \E ok, off : Answer(u, ok, off)
    BY <1>14 DEF CompleteRename
  <2>2. Fits'
    BY <1>3, <2>1, HandlerEnds
  <2>3. tmp' = tmp \/ tmp' = None
    BY <1>14 DEF CompleteRename, disk
  <2> QED
    BY <2>2, <2>3 DEF NoGap
<1>15. CASE CleanupRm
  BY <1>15 DEF CleanupRm, Fits, NoGap
<1>16. CASE RestartDealer \/ UNCHANGED vars
  BY <1>2, <1>16 DEF RestartDealer, vars, disk, mVars, sVars
<1>17. CASE CrashSlave
  <2>1. Fits'
    BY <1>3, <1>17 DEF CrashSlave
  <2>2. \/ tmp' = tmp
        \/ \E u \in Uploads, n \in 1..ChunkSize :
             step[u] = "chunkWrite" /\ tmp # None /\ tmp' = Written(u, n)
    BY <1>17 DEF CrashSlave
  <2>3. \A n \in 1..ChunkSize : n \in Int
    OBVIOUS
  <2>4. NoGap'
    BY <1>4, <2>2, <2>3 DEF NoGap
  <2> QED
    BY <2>1, <2>4
<1> QED
  BY <1>6, <1>7, <1>8, <1>9, <1>10, <1>11, <1>12, <1>13, <1>14, <1>15, <1>16, <1>17 DEF Next

\* The first states.
LEMMA InitHandler == Init => HandlerInv
<1> SUFFICES ASSUME Init PROVE HandlerInv
  OBVIOUS
<1>1. TypeOK
  BY InitShape
<1>2. OneRequest
  BY DEF Init, OneRequest, OncePerUpload, Sent
<1>3. OneHandler /\ Fits /\ NoGap
  BY UploadAssumption DEF Init, OneHandler, Fits, NoGap, UploadAssumption
<1> QED
  BY <1>1, <1>2, <1>3 DEF HandlerInv

\* No chunk ever leaves a gap in the .tmp file, whatever the uploads, however they
\* fail, expire and are started again, and wherever the slave crashes: unless the
\* Dealer is rebuilt under a running handler.
THEOREM NoGapEver ==
    ASSUME ~Overlap
    PROVE  Spec => []NoGap
<1>1. HandlerInv /\ [Next]_vars => HandlerInv'
  BY ShapeStep, OneRequestStep, OneHandlerStep, FitsStep DEF HandlerInv
<1>2. HandlerInv => NoGap
  BY DEF HandlerInv
<1> QED
  BY <1>1, <1>2, InitHandler, PTL DEF Spec

(***************************************************************************)
(* Who asks for what.  A request is pending until its handler is over, and *)
(* what the master sent it for stays true meanwhile.                       *)
(***************************************************************************)
OpOf(label) ==
    CASE label \in {"init", "initSize"} -> "init"
      [] label \in {"chunk", "chunkWrite"} -> "chunk"
      [] label \in {"complete", "completeRm", "completeRename"} -> "complete"

Asks(u, op) == \E i \in 1..Len(wire) : wire[i].upload = u /\ wire[i].op = op
Handles(u, op) == step[u] # "none" /\ OpOf(step[u]) = op
Pending(u, op) == Asks(u, op) \/ Handles(u, op)

\* What the master does to an upload, if it does anything.
LEMMA MasterStep ==
    ASSUME TypeOK, [Next]_vars, NEW u \in Uploads
    PROVE  \/ StartUpload(u) \/ Resume(u) \/ Acked(u)
           \/ offset'[u] = offset[u] /\ upload'[u] \in {upload[u], "done", "failed"}
<1>1. /\ upload \in [Uploads -> {"idle", "init", "chunk", "complete", "done", "failed"}]
      /\ offset \in [Uploads -> Nat]
  BY DEF TypeOK
<1>2. ASSUME NEW v \in Uploads, StartUpload(v) \/ Resume(v) \/ Acked(v), v # u
      PROVE  offset'[u] = offset[u] /\ upload'[u] = upload[u]
  BY <1>1, <1>2 DEF StartUpload, Resume, Acked, Request, Continue
<1>3. ASSUME NEW v \in Uploads, Completed(v) \/ Fail(v)
      PROVE  offset'[u] = offset[u] /\ upload'[u] \in {upload[u], "done", "failed"}
  BY <1>1, <1>3 DEF Completed, Fail
<1>4. ASSUME NEW v \in Uploads,
             InitOpen(v) \/ InitSize(v) \/ ChunkStat(v) \/ ChunkWrite(v) \/ CompleteStat(v)
             \/ CompleteRm(v) \/ CompleteRename(v) \/ Expire(v)
      PROVE  UNCHANGED <<offset, upload>>
  BY <1>4 DEF InitOpen, InitSize, ChunkStat, ChunkWrite, CompleteStat, CompleteRm, CompleteRename,
     Expire, mVars
<1>5. CASE Receive \/ CleanupRm \/ RestartDealer \/ CrashSlave \/ UNCHANGED vars
  BY <1>5 DEF Receive, CleanupRm, RestartDealer, CrashSlave, vars, mVars
<1> QED
  BY <1>2, <1>3, <1>4, <1>5 DEF Next

\* The local files do not change.
LEMMA FileConstant == [Next]_vars => file' = file
BY DEF Next, vars, mVars, StartUpload, Resume, Acked, Completed, Fail, InitOpen, InitSize, ChunkStat,
       ChunkWrite, CompleteStat, CompleteRm, CompleteRename, Expire, Receive, CleanupRm,
       RestartDealer, CrashSlave

\* What happens to an answer: it is taken, or a handler of its upload ended well.
LEMMA ReplyStep ==
    ASSUME TypeOK, [Next]_vars, NEW u \in Uploads
    PROVE  \/ reply'[u] \in {reply[u], None}
           \/ ~reply'[u].ok
           \/ InitSize(u)
           \/ ChunkWrite(u) /\ tmp # None
           \/ CompleteRename(u) /\ tmp # None
<1>1. reply \in [Uploads -> {None} \cup [ok : BOOLEAN, offset : Nat]]
  BY DEF TypeOK
<1>2. ASSUME NEW v \in Uploads, NEW ok, NEW off, Answer(v, ok, off), v # u \/ ok = FALSE
      PROVE  reply'[u] \in {reply[u], None} \/ ~reply'[u].ok
  BY <1>1, <1>2 DEF Answer
<1>3. ASSUME NEW v \in Uploads,
             StartUpload(v) \/ Resume(v) \/ Acked(v) \/ Completed(v) \/ Fail(v)
             \/ InitOpen(v) \/ CompleteStat(v) \/ CompleteRm(v) \/ Expire(v)
      PROVE  reply'[u] \in {reply[u], None}
  BY <1>1, <1>3 DEF StartUpload, Resume, Acked, Completed, Fail, ReplyTaken, InitOpen, CompleteStat,
     CompleteRm, Expire, Goto
<1>4. ASSUME NEW v \in Uploads, ChunkStat(v)
      PROVE  reply'[u] \in {reply[u], None} \/ ~reply'[u].ok
  BY <1>2, <1>4 DEF ChunkStat, Goto
<1>5. ASSUME NEW v \in Uploads, InitSize(v), v # u
      PROVE  reply'[u] \in {reply[u], None} \/ ~reply'[u].ok
  BY <1>2, <1>5 DEF InitSize
<1>6. ASSUME NEW v \in Uploads, ChunkWrite(v), v # u \/ tmp = None
      PROVE  reply'[u] \in {reply[u], None} \/ ~reply'[u].ok
  BY <1>2, <1>6 DEF ChunkWrite, Writable
<1>7. ASSUME NEW v \in Uploads, CompleteRename(v), v # u \/ tmp = None
      PROVE  reply'[u] \in {reply[u], None} \/ ~reply'[u].ok
  BY <1>2, <1>7 DEF CompleteRename
<1>8. CASE Receive
  <2>1. wire # <<>> => Head(wire).upload \in Uploads
    BY WireFacts
  <2>2. reply' = reply \/ (wire # <<>> /\ Answer(Head(wire).upload, FALSE, 0))
    BY <1>8 DEF Receive
  <2> QED
    BY <1>2, <2>1, <2>2
<1>9. CASE CleanupRm \/ RestartDealer \/ CrashSlave \/ UNCHANGED vars
  BY <1>9 DEF CleanupRm, RestartDealer, CrashSlave, vars
<1> QED
  BY <1>3, <1>4, <1>5, <1>6, <1>7, <1>8, <1>9 DEF Next

\* Requests come from the master alone.
LEMMA PendingStep ==
    ASSUME TypeOK, [Next]_vars, NEW u \in Uploads, NEW op \in Ops, Pending(u, op)'
    PROVE  \/ Pending(u, op)
           \/ Request(u, op) /\ (StartUpload(u) \/ Resume(u) \/ Acked(u))
<1>1. step \in [Uploads -> Labels]
  BY DEF TypeOK, Labels
<1>2. ASSUME UNCHANGED wire, step'[u] \in {step[u], "none"} PROVE Pending(u, op)
  BY <1>2 DEF Pending, Asks, Handles
<1>3. ASSUME NEW v \in Uploads, NEW q \in Ops, Request(v, q), UNCHANGED step
      PROVE  Pending(u, op) \/ (v = u /\ Request(u, op))
  <2>1. CASE Handles(u, op)'
    BY <1>3, <2>1 DEF Pending, Handles
  <2>2. CASE Asks(u, op)'
    <3>1. PICK i \in 1..Len(wire') : wire'[i].upload = u /\ wire'[i].op = op
      BY <2>2 DEF Asks
    <3>2. /\ Len(wire') = Len(wire) + 1 /\ Len(wire) \in Nat
          /\ wire'[Len(wire) + 1] = [upload |-> v, op |-> q]
          /\ \A j \in 1..Len(wire) : wire'[j] = wire[j]
      BY <1>3, RequestSent, WireFacts
    <3>3. CASE i \in 1..Len(wire)
      BY <3>1, <3>2, <3>3 DEF Pending, Asks
    <3>4. CASE i = Len(wire) + 1
      <4>1. v = u /\ q = op
        BY <3>1, <3>2, <3>4
      <4> QED
        BY <1>3, <4>1
    <3> QED
      BY <3>1, <3>2, <3>3, <3>4
  <2> QED
    BY <2>1, <2>2 DEF Pending
<1>4. ASSUME NEW v \in Uploads, NEW off, Continue(v, off), UNCHANGED step
      PROVE  Pending(u, op) \/ (v = u /\ Request(u, op))
  <2>1. (IF Remains(v, off) THEN "chunk" ELSE "complete") \in Ops
    BY DEF Ops
  <2> QED
    BY <1>3, <1>4, <2>1 DEF Continue
<1>5. ASSUME NEW v \in Uploads, StartUpload(v) \/ Resume(v) \/ Acked(v)
      PROVE  \/ Pending(u, op)
             \/ Request(u, op) /\ (StartUpload(u) \/ Resume(u) \/ Acked(u))
  <2>1. CASE StartUpload(v)
    BY <1>3, <2>1 DEF StartUpload, sVars, Ops
  <2>2. CASE Resume(v) \/ Acked(v)
    BY <1>4, <2>2 DEF Resume, Acked, sVars
  <2> QED
    BY <1>5, <2>1, <2>2
<1>6. ASSUME NEW v \in Uploads, Completed(v) \/ Fail(v) \/ Expire(v) PROVE Pending(u, op)
  BY <1>2, <1>6 DEF Completed, Fail, Expire, sVars
<1>7. CASE Receive
  <2>1. wire # <<>> /\ wire' = Tail(wire)
    BY <1>7 DEF Receive
  <2>2. ASSUME Asks(u, op)' PROVE Asks(u, op)
    BY <2>1, <2>2, HeadTaken DEF Asks
  <2>3. ASSUME Handles(u, op)' PROVE Handles(u, op) \/ Asks(u, op)
    <3>1. CASE step'[u] = step[u] \/ step'[u] = "none"
      BY <2>3, <3>1 DEF Handles
    <3>2. CASE step'[u] # step[u] /\ step'[u] # "none"
      <4>1. Head(wire).upload = u /\ step'[u] = Head(wire).op
        BY <1>1, <1>7, <3>2 DEF Receive, Answer
      <4>2. Head(wire) = wire[1] /\ Head(wire).op \in Ops /\ 1 \in 1..Len(wire)
        BY <2>1, HeadTaken, WireFacts DEF Request_
      <4>3. OpOf(Head(wire).op) = Head(wire).op
        BY <4>2 DEF Ops, OpOf
      <4>4. wire[1].op = op
        BY <2>3, <4>1, <4>2, <4>3 DEF Handles
      <4> QED
        BY <4>1, <4>2, <4>4 DEF Asks
    <3> QED
      BY <3>1, <3>2
  <2> QED
    BY <2>2, <2>3 DEF Pending
<1>8. ASSUME NEW v \in Uploads, NEW ok, NEW off, Answer(v, ok, off), UNCHANGED wire
      PROVE  Pending(u, op)
  BY <1>1, <1>2, <1>8 DEF Answer
<1>9. ASSUME NEW v \in Uploads, InitSize(v) \/ ChunkWrite(v) \/ CompleteRename(v)
      PROVE  Pending(u, op)
  BY <1>8, <1>9 DEF InitSize, ChunkWrite, CompleteRename
<1>10. ASSUME NEW v \in Uploads, NEW label \in Labels \ {"none"}, Goto(v, label),
              step[v] # "none", OpOf(label) = OpOf(step[v]), UNCHANGED wire
       PROVE  Pending(u, op)
  <2>1. Handles(u, op)' => Handles(u, op)
    BY <1>1, <1>10 DEF Goto, Handles
  <2> QED
    BY <1>10, <2>1 DEF Pending, Asks
<1>11. ASSUME NEW v \in Uploads, InitOpen(v) \/ CompleteStat(v) \/ CompleteRm(v)
       PROVE  Pending(u, op)
  BY <1>10, <1>11 DEF InitOpen, CompleteStat, CompleteRm, Labels, OpOf
<1>12. ASSUME NEW v \in Uploads, ChunkStat(v) PROVE Pending(u, op)
  BY <1>8, <1>10, <1>12 DEF ChunkStat, Labels, OpOf
<1>13. CASE RestartDealer \/ CrashSlave
  <2>1. PICK d \in 0..Len(wire) :
          /\ Len(wire') = Len(wire) - d
          /\ \A i \in 1..Len(wire') : wire'[i] = wire[i + d] /\ i + d \in 1..Len(wire)
    BY <1>13, WireFacts, SuffixFacts DEF RestartDealer, CrashSlave
  <2>2. Asks(u, op)' => Asks(u, op)
    BY <2>1 DEF Asks
  <2>3. step'[u] \in {step[u], "none"}
    BY <1>13 DEF RestartDealer, CrashSlave
  <2> QED
    BY <2>2, <2>3 DEF Pending, Handles
<1>14. CASE CleanupRm \/ UNCHANGED vars
  BY <1>2, <1>14 DEF CleanupRm, vars, sVars
<1> QED
  BY <1>5, <1>6, <1>7, <1>9, <1>11, <1>12, <1>13, <1>14 DEF Next

(***************************************************************************)
(* One upload after another.  Requests of uploads that were given up may   *)
(* still be on the wire, before those of the active one: but when the      *)
(* active one has an answer, nothing is at work any more.                  *)
(***************************************************************************)
NewestLast ==
    /\ \A u, v \in Active : u = v
    /\ \A u \in Active : Len(wire) # 0 => wire[Len(wire)].upload = u
    /\ \A u \in Active : reply[u] # None => current = None

\* CHUNK and COMPLETE are sent only when nothing is at work.
LateInit ==
    /\ \A i \in 2..Len(wire) : wire[i].op = "init"
    /\ current # None => \A i \in 1..Len(wire) : wire[i].op = "init"

OrderInv == HandlerInv /\ NewestLast /\ LateInit

\* The master that has its answer finds the slave at rest.
LEMMA Quiet ==
    ASSUME OrderInv, NEW u \in Active, reply[u] # None
    PROVE  Len(wire) = 0 /\ current = None /\ \A v \in Uploads : step[v] = "none"
<1> USE DEF OrderInv, HandlerInv
<1>1. u \in Uploads
  BY DEF Active
<1>2. ~Sent(u)
  BY <1>1 DEF OneRequest
<1>3. Len(wire) = 0
  <2>1. SUFFICES ASSUME Len(wire) # 0 PROVE FALSE
    OBVIOUS
  <2>2. Len(wire) \in 1..Len(wire) /\ wire[Len(wire)].upload = u
    BY <2>1, WireFacts DEF NewestLast
  <2> QED
    BY <1>2, <2>2 DEF Sent
<1>4. current = None
  BY DEF NewestLast
<1> QED
  BY <1>3, <1>4, UploadAssumption DEF OneHandler, UploadAssumption

\* While a handler is at work nothing but INIT waits, and nobody has an answer.
LEMMA Busy ==
    ASSUME OrderInv, NEW u \in Uploads, step[u] # "none"
    PROVE  /\ current = u
           /\ \A v \in Uploads : v # u => step[v] = "none"
           /\ \A v \in Uploads, op \in Ops : Asks(v, op) => op = "init"
           /\ \A v \in Active : reply[v] = None
<1> USE DEF OrderInv, HandlerInv
<1>1. current = u /\ current # None /\ \A v \in Uploads : v # u => step[v] = "none"
  BY UploadAssumption DEF OneHandler, UploadAssumption
<1> QED
  BY <1>1 DEF LateInit, NewestLast, Asks

\* Every step keeps the order.
LEMMA OrderStep ==
    ASSUME OneAtATime, ~Overlap
    PROVE  OrderInv /\ [Next]_vars => NewestLast' /\ LateInit'
<1> SUFFICES ASSUME OrderInv, [Next]_vars PROVE NewestLast' /\ LateInit'
  OBVIOUS
<1> USE DEF OrderInv, HandlerInv
<1>1. /\ upload \in [Uploads -> {"idle", "init", "chunk", "complete", "done", "failed"}]
      /\ reply \in [Uploads -> {None} \cup [ok : BOOLEAN, offset : Nat]]
      /\ Len(wire) \in Nat
  BY WireFacts DEF TypeOK
<1>2. ASSUME UNCHANGED wire, Active' \subseteq Active, current' \in {current, None},
             \A v \in Active' : reply'[v] # None => reply[v] # None \/ current' = None
      PROVE  NewestLast' /\ LateInit'
  BY <1>2 DEF NewestLast, LateInit
<1>3. ASSUME NEW u \in Uploads, NEW op \in Ops, Request(u, op), UNCHANGED current, reply'[u] = None,
             \A v \in Active : v = u, (Len(wire) = 0 /\ current = None) \/ op = "init"
      PROVE  NewestLast' /\ LateInit'
  <2>1. Active' = {u}
    BY <1>1, <1>3 DEF Request, Active, Ops
  <2>2. /\ Len(wire') = Len(wire) + 1
        /\ wire'[Len(wire) + 1] = [upload |-> u, op |-> op]
        /\ \A i \in 1..Len(wire) : wire'[i] = wire[i]
    BY <1>3, RequestSent
  <2>3. NewestLast'
    BY <1>1, <1>3, <2>1, <2>2 DEF NewestLast
  <2>4. CASE Len(wire) = 0 /\ current = None
    <3>1. Len(wire') = 1 /\ \A i \in 2..Len(wire') : FALSE
      BY <2>2, <2>4
    <3>2. current' = None
      BY <1>3, <2>4
    <3> QED
      BY <2>3, <3>1, <3>2 DEF LateInit
  <2>5. CASE op = "init"
    <3>1. \A i \in 1..Len(wire') : i \in 1..Len(wire) \/ i = Len(wire) + 1
      BY <1>1, <2>2
    <3>2. \A i \in 1..Len(wire') : wire'[i] = wire[i] \/ wire'[i].op = "init"
      BY <2>2, <2>5, <3>1
    <3>3. \A i \in 1..Len(wire') : i \in 1..Len(wire) => wire'[i] = wire[i]
      BY <2>2
    <3>4. \A i \in 1..Len(wire') : i \notin 1..Len(wire) => wire'[i].op = "init"
      BY <2>2, <2>5, <3>1
    <3>5. \A i \in 2..Len(wire') : i \in 1..Len(wire') /\ (i \in 1..Len(wire) => i \in 2..Len(wire))
      BY <1>1, <2>2
    <3> QED
      BY <1>3, <2>3, <3>3, <3>4, <3>5 DEF LateInit
  <2> QED
    BY <1>3, <2>4, <2>5
<1>4. ASSUME NEW u \in Uploads, StartUpload(u) PROVE NewestLast' /\ LateInit'
  <2>1. reply[u] = None /\ UNCHANGED <<current, reply>>
    BY <1>4 DEF StartUpload, OneRequest, sVars
  <2> QED
    BY <1>3, <1>4, <2>1 DEF StartUpload, Ops
<1>5. ASSUME NEW u \in Uploads, Resume(u) \/ Acked(u) PROVE NewestLast' /\ LateInit'
  <2>1. u \in Active /\ reply[u] # None /\ ReplyTaken(u) /\ UNCHANGED current
    BY <1>5 DEF Resume, Acked, Active, sVars
  <2>2. PICK op \in Ops : Request(u, op)
    BY <1>5 DEF Resume, Acked, Continue, Ops
  <2>3. Len(wire) = 0 /\ current = None /\ \A v \in Active : v = u
    BY <2>1, Quiet DEF NewestLast
  <2>4. reply'[u] = None
    BY <1>1, <2>1 DEF ReplyTaken
  <2> QED
    BY <1>3, <2>1, <2>2, <2>3, <2>4
<1>6. ASSUME NEW u \in Uploads, Completed(u) \/ Fail(u) PROVE NewestLast' /\ LateInit'
  <2>1. UNCHANGED <<wire, current>>
    BY <1>6 DEF Completed, Fail, sVars
  <2>2. Active' \subseteq Active
    BY <1>1, <1>6 DEF Completed, Fail, Active
  <2>3. \A v \in Uploads : reply'[v] # None => reply[v] # None
    BY <1>1, <1>6 DEF Completed, Fail, ReplyTaken
  <2>4. \A v \in Active' : reply'[v] # None => reply[v] # None
    BY <2>3 DEF Active
  <2> QED
    BY <1>2, <2>1, <2>2, <2>4
<1>7. CASE Receive
  <2>1. wire # <<>> /\ wire' = Tail(wire) /\ current = None /\ Active' = Active
    BY <1>7 DEF Receive, mVars, Active
  <2>2. /\ Len(wire') = Len(wire) - 1
        /\ \A i \in 1..Len(wire') : wire'[i] = wire[i + 1]
    BY <2>1, HeadTaken
  <2>3. LateInit'
    <3>1. ASSUME NEW i \in 1..Len(wire') PROVE wire'[i].op = "init"
      <4>1. i + 1 \in 2..Len(wire)
        BY <1>1, <2>2
      <4> QED
        BY <2>2, <4>1 DEF LateInit
    <3> QED
      BY <3>1 DEF LateInit
  <2>4. ASSUME NEW v \in Active PROVE Len(wire') # 0 => wire'[Len(wire')].upload = v
    <3>1. Len(wire') # 0 => wire'[Len(wire')] = wire[Len(wire)] /\ Len(wire) # 0
      BY <1>1, <2>2
    <3> QED
      BY <3>1 DEF NewestLast
  <2>5. ASSUME NEW v \in Active PROVE reply'[v] # None => current' = None
    <3>1. reply[v] = None
      <4>1. Len(wire) # 0
        BY <2>1, WireFacts
      <4> QED
        BY <4>1, Quiet
    <3>2. v \in Uploads
      BY DEF Active
    <3> QED
      BY <1>1, <1>7, <2>1, <3>1, <3>2 DEF Receive, Answer
  <2> QED
    BY <2>1, <2>3, <2>4, <2>5 DEF NewestLast
<1>8. ASSUME NEW u \in Uploads, NEW ok, NEW off, step[u] # "none", Answer(u, ok, off),
             UNCHANGED <<wire, upload>>
      PROVE  NewestLast' /\ LateInit'
  <2>1. current' = None
    BY <1>8, HandlerEnds
  <2> QED
    BY <1>2, <1>8, <2>1 DEF Active
<1>9. ASSUME NEW u \in Uploads, NEW label \in Labels \ {"none"}, step[u] # "none", Goto(u, label),
             UNCHANGED <<wire, upload>>
      PROVE  NewestLast' /\ LateInit'
  <2>1. current' = current /\ reply' = reply
    BY <1>9 DEF Goto
  <2> QED
    BY <1>2, <1>9, <2>1 DEF Active
<1>10. ASSUME NEW u \in Uploads, InitOpen(u) \/ CompleteStat(u) \/ CompleteRm(u)
       PROVE  NewestLast' /\ LateInit'
  BY <1>9, <1>10 DEF InitOpen, CompleteStat, CompleteRm, Labels, mVars
<1>11. ASSUME NEW u \in Uploads, ChunkStat(u) PROVE NewestLast' /\ LateInit'
  BY <1>8, <1>9, <1>11 DEF ChunkStat, Labels, mVars
<1>12. ASSUME NEW u \in Uploads, InitSize(u) \/ ChunkWrite(u) \/ CompleteRename(u)
       PROVE  NewestLast' /\ LateInit'
  <2>1. step[u] # "none" /\ UNCHANGED <<wire, upload>> /\ \E ok, off : Answer(u, ok, off)
    BY <1>12 DEF InitSize, ChunkWrite, CompleteRename, mVars
  <2> QED
    BY <1>8, <2>1
<1>13. ASSUME UNCHANGED <<wire, upload, reply, current>> PROVE NewestLast' /\ LateInit'
  BY <1>2, <1>13 DEF Active
<1>14. ASSUME NEW u \in Uploads, Expire(u) PROVE NewestLast' /\ LateInit'
  BY <1>13, <1>14 DEF Expire, mVars
<1>15. CASE CleanupRm \/ UNCHANGED vars
  BY <1>13, <1>15 DEF CleanupRm, vars, mVars, sVars
<1>16. CASE RestartDealer \/ CrashSlave
  <2>1. current' = None /\ Active' = Active /\ reply' = reply
    BY <1>16 DEF RestartDealer, CrashSlave, mVars, Active
  <2>2. PICK d \in 0..Len(wire) :
          /\ Len(wire') = Len(wire) - d
          /\ \A i \in 1..Len(wire') : wire'[i] = wire[i + d] /\ i + d \in 1..Len(wire)
    BY <1>16, WireFacts, SuffixFacts DEF RestartDealer, CrashSlave
  <2>3. ASSUME NEW v \in Active PROVE Len(wire') # 0 => wire'[Len(wire')].upload = v
    <3>1. Len(wire') # 0 => wire'[Len(wire')] = wire[Len(wire)] /\ Len(wire) # 0
      BY <1>1, <2>2
    <3> QED
      BY <3>1 DEF NewestLast
  <2>4. ASSUME NEW i \in 2..Len(wire') PROVE wire'[i].op = "init"
    <3>1. i + d \in 2..Len(wire) /\ i \in 1..Len(wire')
      BY <1>1, <2>2
    <3> QED
      BY <2>2, <3>1 DEF LateInit
  <2> QED
    BY <2>1, <2>3, <2>4 DEF NewestLast, LateInit
<1> QED
  BY <1>4, <1>5, <1>6, <1>7, <1>10, <1>11, <1>12, <1>14, <1>15, <1>16 DEF Next

(***************************************************************************)
(* A request still means what it meant when it was sent: CHUNK that data   *)
(* remain, COMPLETE that none do.                                          *)
(***************************************************************************)
Place(u, op) ==
    /\ op = "chunk" => offset[u] < file[u].size
    /\ op = "complete" => offset[u] >= file[u].size
    /\ u \in Active => upload[u] = op

Places ==
    /\ \A u \in Uploads, op \in Ops : Pending(u, op) => Place(u, op)
    /\ \A u \in Uploads : upload[u] = "chunk" => offset[u] < file[u].size

\* A request is pending only while upload() awaits its answer, or gave up.
LEMMA PendingFacts ==
    ASSUME OneRequest, NEW u \in Uploads, NEW op \in Ops, Pending(u, op)
    PROVE  reply[u] = None /\ upload[u] # "idle"
BY DEF OneRequest, Pending, Asks, Handles, Sent

\* Every step keeps the meaning of the requests.
LEMMA PlacesStep == TypeOK /\ OneRequest /\ Places /\ [Next]_vars => Places'
<1> SUFFICES ASSUME TypeOK, OneRequest, Places, [Next]_vars PROVE Places'
  OBVIOUS
<1>1. file' = file
  BY FileConstant
<1>2. /\ upload \in [Uploads -> {"idle", "init", "chunk", "complete", "done", "failed"}]
      /\ offset \in [Uploads -> Nat]
      /\ reply \in [Uploads -> {None} \cup [ok : BOOLEAN, offset : Nat]]
  BY DEF TypeOK
<1>3. ASSUME NEW u \in Uploads, NEW off \in Nat, Continue(u, off)
      PROVE  /\ upload'[u] \in {"chunk", "complete"}
             /\ upload'[u] = "chunk" => offset'[u] < file[u].size
             /\ upload'[u] = "complete" => offset'[u] >= file[u].size
  <2>1. /\ offset'[u] = off /\ file[u].size \in Nat
        /\ upload'[u] = IF Remains(u, off) THEN "chunk" ELSE "complete"
    BY <1>2, <1>3, FileFacts DEF Continue, Request
  <2> QED
    BY <2>1 DEF Remains
<1>4. ASSUME NEW u \in Uploads, Resume(u) \/ Acked(u)
      PROVE  \E off \in Nat : Continue(u, off)
  <2>1. CASE Resume(u)
    <3>1. reply[u].offset \in Nat
      BY <1>2, <2>1 DEF Resume
    <3> QED
      BY <2>1, <3>1 DEF Resume
  <2>2. CASE Acked(u)
    BY <2>2, NextOffset DEF Acked
  <2> QED
    BY <1>4, <2>1, <2>2
<1>5. ASSUME NEW u \in Uploads, StartUpload(u) PROVE upload'[u] = "init"
  BY <1>2, <1>5 DEF StartUpload, Request
<1>6. ASSUME NEW u \in Uploads, NEW op \in Ops, Pending(u, op)' PROVE Place(u, op)'
  <2>1. CASE Pending(u, op)
    <3>1. reply[u] = None /\ upload[u] # "idle" /\ Place(u, op)
      BY <2>1, PendingFacts DEF Places
    <3>2. offset'[u] = offset[u] /\ upload'[u] \in {upload[u], "done", "failed"}
      BY <3>1, MasterStep DEF StartUpload, Resume, Acked
    <3> QED
      BY <1>1, <3>1, <3>2 DEF Place, Active
  <2>2. CASE Request(u, op) /\ (StartUpload(u) \/ Resume(u) \/ Acked(u))
    <3>1. upload'[u] = op
      BY <1>2, <2>2 DEF Request
    <3>2. op = "chunk" => offset'[u] < file[u].size
      BY <1>3, <1>4, <1>5, <2>2, <3>1
    <3>3. op = "complete" => offset'[u] >= file[u].size
      BY <1>3, <1>4, <1>5, <2>2, <3>1
    <3> QED
      BY <1>1, <3>1, <3>2, <3>3 DEF Place
  <2> QED
    BY <1>6, <2>1, <2>2, PendingStep
<1>7. ASSUME NEW u \in Uploads, upload'[u] = "chunk" PROVE offset'[u] < file'[u].size
  <2>1. CASE offset'[u] = offset[u] /\ upload'[u] \in {upload[u], "done", "failed"}
    BY <1>1, <1>7, <2>1 DEF Places
  <2>2. CASE StartUpload(u) \/ Resume(u) \/ Acked(u)
    BY <1>1, <1>3, <1>4, <1>5, <1>7, <2>2
  <2> QED
    BY <2>1, <2>2, MasterStep
<1> QED
  BY <1>6, <1>7 DEF Places

(***************************************************************************)
(* The .tmp file.  Where all uploads are attempts at the same file, it is  *)
(* always a beginning of that file, and all of it when a COMPLETE is       *)
(* pending.                                                                *)
(***************************************************************************)
OneFile == \A f, g \in File : f = g
At(n) == tmp = None \/ Len(tmp) = n

Beginning ==
    tmp # None => \A u \in Uploads :
                    Len(tmp) <= file[u].size /\ tmp = Cell(Len(tmp), file[u].data)

Ready ==
    /\ \A u \in Uploads : Pending(u, "complete") => At(file[u].size)
    /\ \A u \in Active : reply[u] # None /\ reply[u].ok =>
         /\ upload[u] = "init" => At(reply[u].offset)
         /\ upload[u] = "chunk" => At(offset[u] + ChunkLength(u, offset[u]))

UploadInv == OrderInv /\ Places /\ Beginning /\ Ready /\ TargetWhole

\* A row of n cells has length n.
LEMMA CellFacts ==
    ASSUME NEW n \in Nat, NEW d
    PROVE  Len(Cell(n, d)) = n /\ \A i \in 1..n : Cell(n, d)[i] = d
BY DEF Cell

\* A chunk is written at the end of what is there, within the file.
LEMMA ChunkFits ==
    ASSUME UploadInv, NEW u \in Uploads, step[u] = "chunkWrite"
    PROVE  /\ offset[u] \in Nat /\ file[u].size \in Nat /\ file[u].data \in Contents
           /\ ChunkLength(u, offset[u]) \in Nat \ {0}
           /\ offset[u] + ChunkLength(u, offset[u]) <= file[u].size
           /\ tmp # None => Len(tmp) = offset[u]
<1>1. Handles(u, "chunk") /\ "chunk" \in Ops
  BY DEF Handles, OpOf, Ops
<1>2. offset[u] < file[u].size
  BY <1>1 DEF UploadInv, Places, Place, Pending
<1>3. /\ offset[u] \in Nat /\ file[u].size \in Nat /\ ChunkSize \in Nat \ {0}
      /\ file[u].data \in Contents
  BY FileFacts, UploadAssumption DEF UploadInv, OrderInv, HandlerInv, TypeOK, UploadAssumption
<1>4. tmp # None => Len(tmp) = offset[u]
  BY DEF UploadInv, OrderInv, HandlerInv, Fits
<1> QED
  BY <1>2, <1>3, <1>4 DEF ChunkLength, Least

\* So what is there after it is a longer beginning, even if the slave crashes
\* after n units of it.
LEMMA WrittenLonger ==
    ASSUME UploadInv, NEW u \in Uploads, step[u] = "chunkWrite", tmp # None,
           NEW n \in Nat, n <= ChunkLength(u, offset[u])
    PROVE  /\ Written(u, n) = Cell(offset[u] + n, file[u].data)
           /\ Len(Written(u, n)) = offset[u] + n
           /\ offset[u] + n <= file[u].size
<1> DEFINE off == offset[u]
           end == IF off + n > SizeOf(tmp) THEN off + n ELSE SizeOf(tmp)
           Value(i) == IF i \in (off + 1)..(off + n) THEN file[u].data
                       ELSE IF i <= SizeOf(tmp) THEN tmp[i] ELSE Hole
<1>1. off \in Nat /\ Len(tmp) = off /\ SizeOf(tmp) = off /\ off + n <= file[u].size
  BY ChunkFits DEF SizeOf
<1>2. end = off + n /\ end \in Nat
  BY <1>1
<1>3. tmp = Cell(off, file[u].data)
  BY <1>1 DEF UploadInv, Beginning
<1>4. ASSUME NEW i \in 1..end PROVE Value(i) = file[u].data
  <2>1. i \in 1..off => tmp[i] = file[u].data
    BY <1>1, <1>3, CellFacts
  <2>2. i \in (off + 1)..(off + n) \/ (i \in 1..off /\ i <= SizeOf(tmp))
    BY <1>1, <1>2
  <2> QED
    BY <2>1, <2>2
<1>5. Written(u, n) = [i \in 1..end |-> Value(i)]
  BY DEF Written
<1> HIDE DEF end, Value
<1>6. [i \in 1..end |-> Value(i)] = [i \in 1..(off + n) |-> file[u].data]
  BY <1>2, <1>4
<1>7. Written(u, n) = Cell(off + n, file[u].data)
  BY <1>5, <1>6 DEF Cell
<1> QED
  BY <1>1, <1>7, CellFacts

\* What changes the .tmp file, other than its removal.
LEMMA TmpStep ==
    ASSUME UploadInv, [Next]_vars
    PROVE  \/ tmp' \in {tmp, None}
           \/ tmp' = <<>> /\ \E v \in Uploads : step[v] = "init"
           \/ \E v \in Uploads, n \in Nat :
                /\ step[v] = "chunkWrite" /\ tmp # None
                /\ n <= ChunkLength(v, offset[v]) /\ tmp' = Written(v, n)
<1>1. ASSUME NEW v \in Uploads, InitOpen(v)
      PROVE  tmp' = tmp \/ (tmp' = <<>> /\ \E w \in Uploads : step[w] = "init")
  BY <1>1 DEF InitOpen
<1>2. ASSUME NEW v \in Uploads, ChunkWrite(v)
      PROVE  \/ tmp' = tmp
             \/ \E n \in Nat : /\ step[v] = "chunkWrite" /\ tmp # None
                               /\ n <= ChunkLength(v, offset[v]) /\ tmp' = Written(v, n)
  <2>1. step[v] = "chunkWrite"
    BY <1>2 DEF ChunkWrite
  <2>2. ChunkLength(v, offset[v]) \in Nat /\ ChunkLength(v, offset[v]) <= ChunkLength(v, offset[v])
    BY <2>1, ChunkFits
  <2> QED
    BY <1>2, <2>1, <2>2 DEF ChunkWrite, Writable
<1>3. ASSUME NEW v \in Uploads,
             StartUpload(v) \/ Resume(v) \/ Acked(v) \/ Completed(v) \/ Fail(v) \/ InitSize(v)
             \/ ChunkStat(v) \/ CompleteStat(v) \/ CompleteRm(v) \/ CompleteRename(v) \/ Expire(v)
      PROVE  tmp' \in {tmp, None}
  BY <1>3 DEF StartUpload, Resume, Acked, Completed, Fail, InitSize, ChunkStat, CompleteStat,
     CompleteRm, CompleteRename, Expire, disk
<1>4. CASE Receive \/ CleanupRm \/ RestartDealer \/ UNCHANGED vars
  BY <1>4 DEF Receive, CleanupRm, RestartDealer, vars, disk
<1>5. CASE CrashSlave
  <2>1. \A n \in 1..ChunkSize : n \in Nat
    OBVIOUS
  <2> QED
    BY <1>5, <2>1 DEF CrashSlave
<1> QED
  BY <1>1, <1>2, <1>3, <1>4, <1>5 DEF Next

\* What changes the target, other than its removal.
LEMMA TargetStep ==
    ASSUME [Next]_vars
    PROVE  \/ target' \in {target, None}
           \/ \E v \in Uploads : CompleteRename(v) /\ tmp # None /\ target' = tmp
BY DEF Next, vars, disk, StartUpload, Resume, Acked, Completed, Fail, InitOpen, InitSize, ChunkStat,
       ChunkWrite, CompleteStat, CompleteRm, CompleteRename, Expire, Receive, CleanupRm,
       RestartDealer, CrashSlave

\* What is renamed is the whole file.
LEMMA RenamedWhole ==
    ASSUME UploadInv, NEW u \in Uploads, step[u] = "completeRename", tmp # None
    PROVE  tmp = Whole(file[u])
<1>1. Handles(u, "complete")
  BY DEF Handles, OpOf
<1>2. Len(tmp) = file[u].size
  BY <1>1 DEF UploadInv, Ready, Pending, At
<1> QED
  BY <1>2 DEF UploadInv, Beginning, Whole

\* Every step leaves a beginning of the file.
LEMMA BeginningStep ==
    ASSUME OneFile
    PROVE  UploadInv /\ [Next]_vars => Beginning'
<1> SUFFICES ASSUME UploadInv, [Next]_vars, tmp' # None, NEW u \in Uploads
             PROVE  Len(tmp') <= file'[u].size /\ tmp' = Cell(Len(tmp'), file'[u].data)
  BY DEF Beginning
<1>1. file' = file /\ file[u].size \in Nat
  BY FileConstant, FileFacts DEF UploadInv, OrderInv, HandlerInv
<1>2. CASE tmp' \in {tmp, None}
  BY <1>1, <1>2 DEF UploadInv, Beginning
<1>3. CASE tmp' = <<>>
  <2>1. Len(tmp') = 0
    BY <1>3
  <2>2. Cell(0, file[u].data) = <<>>
    BY DEF Cell
  <2> QED
    BY <1>1, <1>3, <2>1, <2>2
<1>4. ASSUME NEW v \in Uploads, NEW n \in Nat, step[v] = "chunkWrite", tmp # None,
             n <= ChunkLength(v, offset[v]), tmp' = Written(v, n)
      PROVE  Len(tmp') <= file'[u].size /\ tmp' = Cell(Len(tmp'), file'[u].data)
  <2>1. file[v] = file[u]
    BY FileFacts DEF OneFile, UploadInv, OrderInv, HandlerInv
  <2>2. /\ tmp' = Cell(offset[v] + n, file[v].data)
        /\ Len(tmp') = offset[v] + n /\ offset[v] + n <= file[v].size
    BY <1>4, WrittenLonger
  <2> QED
    BY <1>1, <2>1, <2>2
<1> QED
  BY <1>2, <1>3, <1>4, TmpStep

\* While a COMPLETE is pending, or an answer waits for the master, only expiry
\* touches the .tmp file.
LEMMA TmpRests ==
    ASSUME UploadInv, [Next]_vars, NEW u \in Uploads,
           Pending(u, "complete") \/ (u \in Active /\ reply[u] # None)
    PROVE  tmp' \in {tmp, None}
<1>1. SUFFICES ASSUME NEW v \in Uploads, step[v] \in {"init", "chunkWrite"} PROVE FALSE
  BY TmpStep
<1>2. OrderInv /\ step[v] # "none"
  BY <1>1 DEF UploadInv
<1>3. ~Asks(u, "complete") /\ ~(u \in Active /\ reply[u] # None)
  BY <1>2, Busy DEF Ops
<1>4. Handles(u, "complete")
  BY <1>3 DEF Pending
<1>5. u = v
  BY <1>2, <1>4, Busy DEF Handles
<1> QED
  BY <1>1, <1>4, <1>5 DEF Handles, OpOf

\* Every step keeps the file ready for what is pending and for what comes next.
LEMMA ReadyStep == UploadInv /\ [Next]_vars => Ready'
<1> SUFFICES ASSUME UploadInv, [Next]_vars PROVE Ready'
  OBVIOUS
<1> USE DEF UploadInv, OrderInv, HandlerInv
<1>1. file' = file
  BY FileConstant
<1>2. /\ upload \in [Uploads -> {"idle", "init", "chunk", "complete", "done", "failed"}]
      /\ offset \in [Uploads -> Nat]
      /\ reply \in [Uploads -> {None} \cup [ok : BOOLEAN, offset : Nat]]
      /\ tmp # None => Len(tmp) \in Nat
  BY TmpFacts DEF TypeOK
<1>3. ASSUME NEW u \in Uploads, Pending(u, "complete")' PROVE At(file[u].size)'
  <2>1. CASE Pending(u, "complete")
    <3>1. tmp' \in {tmp, None}
      BY <2>1, TmpRests
    <3> QED
      BY <1>1, <2>1, <3>1 DEF Ready, At
  <2>2. CASE Request(u, "complete") /\ (StartUpload(u) \/ Resume(u) \/ Acked(u))
    <3>1. upload'[u] = "complete"
      BY <1>2, <2>2 DEF Request
    <3>2. ~StartUpload(u)
      BY <1>2, <3>1 DEF StartUpload, Request
    <3>3. ASSUME NEW off \in Nat, Continue(u, off) PROVE off >= file[u].size
      <4>1. file[u].size \in Nat /\ upload'[u] = IF Remains(u, off) THEN "chunk" ELSE "complete"
        BY <1>2, <3>3, FileFacts DEF Continue, Request
      <4> QED
        BY <3>1, <4>1 DEF Remains
    <3>4. u \in Active /\ file[u].size \in Nat /\ tmp' = tmp
      BY <2>2, <3>2, FileFacts DEF Resume, Acked, Active, disk
    <3>5. CASE Resume(u)
      <4>1. reply[u].offset \in Nat /\ At(reply[u].offset)
        BY <1>2, <3>4, <3>5 DEF Resume, Ready
      <4>2. reply[u].offset >= file[u].size
        BY <3>3, <3>5, <4>1 DEF Resume
      <4>3. tmp # None => Len(tmp) <= file[u].size
        BY DEF Beginning
      <4>4. tmp # None => Len(tmp) = file[u].size
        BY <1>2, <3>4, <4>1, <4>2, <4>3 DEF At
      <4> QED
        BY <1>1, <3>4, <4>4 DEF At
    <3>6. CASE Acked(u)
      <4>1. At(offset[u] + ChunkLength(u, offset[u]))
        BY <3>4, <3>6 DEF Acked, Ready
      <4>2. offset[u] + ChunkLength(u, offset[u]) \in Nat
        BY NextOffset
      <4>3. offset[u] + ChunkLength(u, offset[u]) >= file[u].size
        BY <3>3, <3>6, <4>2 DEF Acked
      <4>4. offset[u] \in Nat /\ offset[u] < file[u].size /\ ChunkSize \in Nat
        BY <1>2, <3>6, UploadAssumption DEF Acked, Places, UploadAssumption
      <4>5. offset[u] + ChunkLength(u, offset[u]) = file[u].size
        BY <3>4, <4>3, <4>4 DEF ChunkLength, Least
      <4> QED
        BY <1>1, <3>4, <4>1, <4>5 DEF At
    <3> QED
      BY <2>2, <3>2, <3>5, <3>6
  <2> QED
    BY <1>3, <2>1, <2>2, PendingStep DEF Ops
<1>4. ASSUME NEW u \in Active', reply'[u] # None, reply'[u].ok
      PROVE  /\ upload'[u] = "init" => tmp' = None \/ Len(tmp') = reply'[u].offset
             /\ upload'[u] = "chunk" =>
                  tmp' = None \/ Len(tmp') = offset[u] + ChunkLength(u, offset[u])
             /\ offset'[u] = offset[u]
  <2>1. u \in Uploads
    BY DEF Active
  <2>2. ~Resume(u) /\ ~Acked(u)
    BY <1>2, <1>4, <2>1 DEF Resume, Acked, ReplyTaken
  <2>3. ~StartUpload(u)
    BY <1>2, <1>4, <2>1 DEF StartUpload, OneRequest
  <2>4. offset'[u] = offset[u] /\ upload'[u] = upload[u] /\ u \in Active
    BY <1>4, <2>1, <2>2, <2>3, MasterStep DEF Active
  <2>5. CASE reply'[u] = reply[u]
    <3>1. tmp' \in {tmp, None}
      BY <1>4, <2>1, <2>4, <2>5, TmpRests
    <3> QED
      BY <1>4, <2>4, <2>5, <3>1 DEF Ready, At
  <2>6. CASE InitSize(u)
    <3>1. Pending(u, "init")
      BY <2>6 DEF InitSize, Pending, Handles, OpOf
    <3>2. upload[u] = "init"
      BY <2>1, <2>4, <3>1 DEF Places, Place, Ops
    <3>3. reply'[u].offset = SizeOf(tmp) /\ tmp' = tmp
      BY <1>2, <2>1, <2>6, <3>2 DEF InitSize, Answer, disk
    <3> QED
      BY <2>4, <3>2, <3>3 DEF SizeOf
  <2>7. CASE ChunkWrite(u) /\ tmp # None
    <3>1. Pending(u, "chunk") /\ step[u] = "chunkWrite"
      BY <2>7 DEF ChunkWrite, Pending, Handles, OpOf
    <3>2. upload[u] = "chunk"
      BY <2>1, <2>4, <3>1 DEF Places, Place, Ops
    <3>3. tmp' = Written(u, ChunkLength(u, offset[u]))
      BY <2>7 DEF ChunkWrite, Writable
    <3>4. ChunkLength(u, offset[u]) \in Nat
      BY <2>1, <3>1, ChunkFits
    <3>5. Len(tmp') = offset[u] + ChunkLength(u, offset[u])
      BY <2>1, <2>7, <3>1, <3>3, <3>4, WrittenLonger
    <3> QED
      BY <2>4, <3>2, <3>5
  <2>8. CASE CompleteRename(u)
    <3>1. Pending(u, "complete")
      BY <2>8 DEF CompleteRename, Pending, Handles, OpOf
    <3>2. upload[u] = "complete"
      BY <2>1, <2>4, <3>1 DEF Places, Place, Ops
    <3> QED
      BY <2>4, <3>2
  <2> QED
    BY <1>4, <2>1, <2>5, <2>6, <2>7, <2>8, ReplyStep
<1>5. ASSUME NEW u \in Active', reply'[u] # None, reply'[u].ok
      PROVE  /\ upload'[u] = "init" => At(reply[u].offset)'
             /\ upload'[u] = "chunk" => At(offset[u] + ChunkLength(u, offset[u]))'
  BY <1>1, <1>4, <1>5 DEF At, ChunkLength
<1> QED
  BY <1>3, <1>5 DEF Ready

\* Every step leaves a whole file, or none, under the name of the target.
LEMMA TargetWholeStep == UploadInv /\ [Next]_vars => TargetWhole'
<1> SUFFICES ASSUME UploadInv, [Next]_vars PROVE TargetWhole'
  OBVIOUS
<1>1. CASE target' \in {target, None}
  BY <1>1 DEF UploadInv, TargetWhole
<1>2. ASSUME NEW v \in Uploads, CompleteRename(v), tmp # None, target' = tmp PROVE TargetWhole'
  <2>1. target' = Whole(file[v]) /\ file[v] \in File
    BY <1>2, RenamedWhole, FileFacts DEF CompleteRename, UploadInv, OrderInv, HandlerInv
  <2> QED
    BY <2>1 DEF TargetWhole
<1> QED
  BY <1>1, <1>2, TargetStep

\* An answer that the renaming handler gives says that the whole file is there.
LEMMA DoneExactStep ==
    ASSUME UploadInv, [Next]_vars, NEW u \in Uploads,
           step[u] = "completeRename", reply'[u] # None, reply'[u].ok
    PROVE  target' = Whole(file[u])
<1>1. reply[u] = None
  BY DEF UploadInv, OrderInv, HandlerInv, OneRequest
<1>2. CompleteRename(u) /\ tmp # None
  BY <1>1, ReplyStep DEF UploadInv, OrderInv, HandlerInv, InitSize, ChunkWrite
<1> QED
  BY <1>2, RenamedWhole DEF CompleteRename

\* The first states.
LEMMA InitUpload == Init => UploadInv
<1> SUFFICES ASSUME Init PROVE UploadInv
  OBVIOUS
<1>1. HandlerInv
  BY InitHandler
<1>2. NewestLast /\ LateInit
  BY DEF Init, NewestLast, LateInit, Active
<1>3. \A u \in Uploads, op \in Ops : ~Pending(u, op)
  BY DEF Init, Pending, Asks, Handles
<1>4. Places /\ Beginning /\ Ready
  BY <1>3 DEF Init, Places, Beginning, Ready, Active, Ops
<1>5. TargetWhole
  BY DEF Init, TargetWhole
<1> QED
  BY <1>1, <1>2, <1>4, <1>5 DEF UploadInv, OrderInv

\* Every step keeps all of it.
LEMMA UploadStep ==
    ASSUME OneAtATime, ~Overlap, OneFile
    PROVE  UploadInv /\ [Next]_vars => UploadInv'
<1> SUFFICES ASSUME UploadInv, [Next]_vars PROVE UploadInv'
  OBVIOUS
<1>1. HandlerInv'
  BY ShapeStep, OneRequestStep, OneHandlerStep, FitsStep DEF UploadInv, OrderInv, HandlerInv
<1>2. NewestLast' /\ LateInit'
  BY OrderStep DEF UploadInv
<1>3. Places'
  BY PlacesStep DEF UploadInv, OrderInv, HandlerInv
<1> QED
  BY <1>1, <1>2, <1>3, BeginningStep, ReadyStep, TargetWholeStep DEF UploadInv, OrderInv

\* Attempts at one file, one after another: nobody ever sees a part of it under the
\* name of the target, through crashes, lost requests, expiry and resumption.
THEOREM TargetNeverPartial ==
    ASSUME OneAtATime, ~Overlap, OneFile
    PROVE  Spec => []TargetWhole
<1>1. UploadInv => TargetWhole
  BY DEF UploadInv
<1> QED
  BY <1>1, InitUpload, UploadStep, PTL DEF Spec

\* And an upload that is acknowledged has put exactly its local file in place.
THEOREM AcknowledgedIsExact ==
    ASSUME OneAtATime, ~Overlap, OneFile
    PROVE  Spec => DoneExact
<1>1. UploadInv /\ [Next]_vars =>
        [\A u \in Uploads : step[u] = "completeRename" /\ reply'[u] # None /\ reply'[u].ok
                              => target' = Whole(file[u])]_vars
  BY DoneExactStep
<1> QED
  BY <1>1, InitUpload, UploadStep, PTL DEF Spec, DoneExact
=============================================================================
