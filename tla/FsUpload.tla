------------------------------ MODULE FsUpload ------------------------------
(***************************************************************************)
(* Uploads of a master to one path of one slave: master.fs.upload() (INIT, *)
(* CHUNK ..., COMPLETE, each request with a timeout), the session store of *)
(* the slave with its expiry, and the two files they share, the target and *)
(* its .tmp.  Handlers are split where they await the file system.         *)
(*                                                                         *)
(* A read loop awaits one handler at a time, but the handler of a Dealer   *)
(* that was rebuilt goes on beside those of the new one.                   *)
(***************************************************************************)
EXTENDS Naturals, Sequences, FiniteSets

CONSTANTS
    Uploads,    \* calls of upload(), each with a session id of its own
    Contents,   \* what local files may hold
    Sizes,      \* their sizes, in units smaller than a chunk
    ChunkSize,  \* normalizeChunkSize, in units
    OneAtATime, \* assumption: no upload begins while another one is under way
    Overlap,    \* whether a Dealer may be rebuilt while a handler is at work
    MaxFaults,  \* bound: rebuilds of the Dealer and crashes of the slave
    Hole,       \* what a write beyond the end of a file leaves in between
    None

ASSUME UploadAssumption ==
    /\ IsFiniteSet(Uploads)
    /\ Sizes \subseteq Nat
    /\ ChunkSize \in Nat \ {0}
    /\ OneAtATime \in BOOLEAN
    /\ Overlap \in BOOLEAN
    /\ MaxFaults \in Nat
    /\ Hole \notin Contents
    /\ None \notin Uploads
    /\ None \notin Seq(Contents \cup {Hole})

File == [data : Contents, size : Sizes]
Cells == Seq(Contents \cup {Hole})

VARIABLES
    upload,   \* what upload() awaits ("init", "chunk", "complete"), or "idle", "done", "failed"
    file,     \* the local file
    offset,   \* its `offset`: of the next chunk
    wire,     \* requests on their way: [upload, op]; a chunk carries offset[upload]
    reply,    \* the answer to the last request: None, or [ok, offset]
    step,     \* where the slave's handler for the upload stands, or "none"
    current,  \* the handler the read loop of the current Dealer awaits, or None
    sessions, \* uploads with a session
    tmp,      \* content of the .tmp file, or None
    target,   \* content of the target, or None
    cleaning, \* cleanupExpiredSessions awaits its rm
    faults    \* faults so far

mVars == <<upload, file, offset>>
sVars == <<step, current, sessions, cleaning>>
disk == <<tmp, target>>
vars == <<mVars, wire, reply, sVars, disk, faults>>

Active == {u \in Uploads : upload[u] \in {"init", "chunk", "complete"}}
Running == {u \in Uploads : step[u] # "none"}

Cell(n, d) == [i \in 1..n |-> d]
Whole(f) == Cell(f.size, f.data)
SizeOf(t) == IF t = None THEN 0 ELSE Len(t)
Least(a, b) == IF a < b THEN a ELSE b

\* The target of an earlier life: absent, or some old file.
Init ==
    /\ upload = [u \in Uploads |-> "idle"]
    /\ file \in [Uploads -> File]
    /\ offset = [u \in Uploads |-> 0]
    /\ wire = <<>>
    /\ reply = [u \in Uploads |-> None]
    /\ step = [u \in Uploads |-> "none"]
    /\ current = None
    /\ sessions = {}
    /\ tmp = None
    /\ target \in {None} \cup {Whole(f) : f \in File}
    /\ cleaning = FALSE
    /\ faults = 0

(***************************************************************************)
(* Master: upload().                                                       *)
(***************************************************************************)

\* A service request; upload() awaits its answer.
Request(u, op) ==
    /\ upload' = [upload EXCEPT ![u] = op]
    /\ wire' = Append(wire, [upload |-> u, op |-> op])

StartUpload(u) ==
    /\ upload[u] = "idle"
    /\ OneAtATime => Active = {}
    /\ Request(u, "init")
    /\ UNCHANGED <<file, offset, reply, sVars, disk, faults>>

\* The loop goes on at offset off, or is over.
Remains_Off(u, off) == off + ChunkSize <= file[u].size
Remains(u, off) == off < file[u].size

Continue(u, off) ==
    /\ offset' = [offset EXCEPT ![u] = off]
    /\ Request(u, IF Remains(u, off) THEN "chunk" ELSE "complete")

ChunkLength_Off(u, off) == Least(ChunkSize, off - file[u].size)
ChunkLength_Full(u, off) == ChunkSize
ChunkLength(u, off) == Least(ChunkSize, file[u].size - off)

ReplyTaken(u) == reply' = [reply EXCEPT ![u] = None]

\* file/resume: go on where the .tmp file of the slave ends.
Resume(u) ==
    /\ upload[u] = "init" /\ reply[u] # None /\ reply[u].ok
    /\ ReplyTaken(u)
    /\ Continue(u, reply[u].offset)
    /\ UNCHANGED <<file, sVars, disk, faults>>

\* file/ack.
Acked(u) ==
    /\ upload[u] = "chunk" /\ reply[u] # None /\ reply[u].ok
    /\ ReplyTaken(u)
    /\ Continue(u, offset[u] + ChunkLength(u, offset[u]))
    /\ UNCHANGED <<file, sVars, disk, faults>>

Completed(u) ==
    /\ upload[u] = "complete" /\ reply[u] # None /\ reply[u].ok
    /\ ReplyTaken(u)
    /\ upload' = [upload EXCEPT ![u] = "done"]
    /\ UNCHANGED <<file, offset, wire, sVars, disk, faults>>

\* assertOk throws, or the request times out (its frame or its answer may still
\* be under way): upload() rejects and is not resumed by itself.
Fail(u) ==
    /\ u \in Active
    /\ upload' = [upload EXCEPT ![u] = "failed"]
    /\ UNCHANGED <<file, offset, wire, reply, sVars, disk, faults>>

(***************************************************************************)
(* Slave: the handlers.  An error becomes an answer with ok: false; a late *)
(* answer finds no pending entry at the master.                            *)
(***************************************************************************)
Answer(u, ok, off) ==
    /\ reply' = [reply EXCEPT ![u] =
                   IF upload[u] \in {"done", "failed"} THEN None ELSE [ok |-> ok, offset |-> off]]
    /\ step' = [step EXCEPT ![u] = "none"]
    /\ current' = IF current = u THEN None ELSE current

Goto(u, label) ==
    /\ step' = [step EXCEPT ![u] = label]
    /\ UNCHANGED <<reply, current>>

\* The read loop takes the next request.  CHUNK and COMPLETE need a session.
Receive ==
    /\ current = None
    /\ wire # <<>>
    /\ LET m == Head(wire) IN
         IF m.op = "init" \/ m.upload \in sessions
         THEN /\ step' = [step EXCEPT ![m.upload] = m.op]
              /\ current' = m.upload
              /\ reply' = reply
         ELSE Answer(m.upload, FALSE, 0)
    /\ wire' = Tail(wire)
    /\ UNCHANGED <<mVars, sessions, cleaning, disk, faults>>

\* handleInit: openOrCreateTmpFile, then its size is the offset to resume at.
InitOpen(u) ==
    /\ step[u] = "init"
    /\ tmp' = IF tmp = None THEN <<>> ELSE tmp
    /\ Goto(u, "initSize")
    /\ UNCHANGED <<mVars, wire, sessions, cleaning, target, faults>>

InitSize(u) ==
    /\ step[u] = "initSize"
    /\ sessions' = sessions \cup {u}
    /\ Answer(u, TRUE, SizeOf(tmp))
    /\ UNCHANGED <<mVars, wire, cleaning, disk, faults>>

\* handleChunk: the size must be the offset of the chunk.
ChunkStat(u) ==
    /\ step[u] = "chunk"
    /\ IF SizeOf(tmp) = offset[u] THEN Goto(u, "chunkWrite") ELSE Answer(u, FALSE, 0)
    /\ UNCHANGED <<mVars, wire, sessions, cleaning, disk, faults>>

\* n units of the file of u at its offset, over what tmp holds now.
Written(u, n) ==
    LET off == offset[u]
        end == IF off + n > SizeOf(tmp) THEN off + n ELSE SizeOf(tmp)
    IN  [i \in 1..end |->
           IF i \in (off + 1)..(off + n) THEN file[u].data
           ELSE IF i <= SizeOf(tmp) THEN tmp[i] ELSE Hole]

\* writeChunk opens with "r+": without a .tmp file it fails.
Writable_Off == TRUE
Writable == tmp # None

ChunkWrite(u) ==
    /\ step[u] = "chunkWrite"
    /\ IF ~Writable
       THEN Answer(u, FALSE, 0) /\ tmp' = tmp
       ELSE /\ tmp' = Written(u, ChunkLength(u, offset[u]))
            /\ Answer(u, TRUE, 0)
    /\ UNCHANGED <<mVars, wire, sessions, cleaning, target, faults>>

\* handleComplete: an existing target is removed, then the .tmp file renamed.
CompleteStat(u) ==
    /\ step[u] = "complete"
    /\ Goto(u, IF target = None THEN "completeRename" ELSE "completeRm")
    /\ UNCHANGED <<mVars, wire, sessions, cleaning, disk, faults>>

CompleteRm(u) ==
    /\ step[u] = "completeRm"
    /\ target' = None
    /\ Goto(u, "completeRename")
    /\ UNCHANGED <<mVars, wire, sessions, cleaning, tmp, faults>>

CompleteRename(u) ==
    /\ step[u] = "completeRename"
    /\ IF tmp = None
       THEN Answer(u, FALSE, 0) /\ UNCHANGED <<sessions, disk>>
       ELSE /\ target' = tmp
            /\ tmp' = None
            /\ sessions' = sessions \ {u}
            /\ Answer(u, TRUE, 0)
    /\ UNCHANGED <<mVars, wire, cleaning, faults>>

(***************************************************************************)
(* Expiry: half an hour without a chunk, so only of uploads the master has *)
(* given up.  The session goes first, its .tmp file one await later.       *)
(***************************************************************************)
Expire(u) ==
    /\ u \in sessions
    /\ u \notin Active \cup Running
    /\ ~cleaning
    /\ cleaning' = TRUE
    /\ sessions' = sessions \ {u}
    /\ UNCHANGED <<mVars, wire, reply, step, current, disk, faults>>

CleanupRm ==
    /\ cleaning
    /\ cleaning' = FALSE
    /\ tmp' = None
    /\ UNCHANGED <<mVars, wire, reply, step, current, sessions, target, faults>>

(***************************************************************************)
(* Faults.                                                                 *)
(***************************************************************************)
Suffixes(s) == {SubSeq(s, n, Len(s)) : n \in 1..(Len(s) + 1)}

\* #restartDealer: the running handler stays behind in the old read loop.
RestartDealer ==
    /\ faults < MaxFaults
    /\ Overlap \/ current = None
    /\ faults' = faults + 1
    /\ current' = None
    /\ wire' \in Suffixes(wire)
    /\ UNCHANGED <<mVars, reply, step, sessions, cleaning, disk>>

\* The slave crashes and starts again: sessions and handlers are lost, a chunk
\* may have been written in part.
CrashSlave ==
    /\ faults < MaxFaults
    /\ faults' = faults + 1
    /\ wire' \in Suffixes(wire)
    /\ step' = [u \in Uploads |-> "none"]
    /\ current' = None
    /\ sessions' = {}
    /\ cleaning' = FALSE
    /\ \/ tmp' = tmp
       \/ \E u \in Uploads, n \in 1..ChunkSize :
            /\ step[u] = "chunkWrite" /\ tmp # None
            /\ n <= ChunkLength(u, offset[u])
            /\ tmp' = Written(u, n)
    /\ UNCHANGED <<mVars, reply, target>>

Next ==
    \/ \E u \in Uploads :
         \/ StartUpload(u) \/ Resume(u) \/ Acked(u) \/ Completed(u) \/ Fail(u)
         \/ InitOpen(u) \/ InitSize(u) \/ ChunkStat(u) \/ ChunkWrite(u)
         \/ CompleteStat(u) \/ CompleteRm(u) \/ CompleteRename(u) \/ Expire(u)
    \/ Receive \/ CleanupRm \/ RestartDealer \/ CrashSlave

Spec == Init /\ [][Next]_vars

(***************************************************************************)
(* Properties.                                                             *)
(***************************************************************************)

\* The shape of the state.
TypeOK ==
    /\ upload \in [Uploads -> {"idle", "init", "chunk", "complete", "done", "failed"}]
    /\ file \in [Uploads -> File]
    /\ offset \in [Uploads -> Nat]
    /\ wire \in Seq([upload : Uploads, op : {"init", "chunk", "complete"}])
    /\ reply \in [Uploads -> {None} \cup [ok : BOOLEAN, offset : Nat]]
    /\ step \in [Uploads -> {"none", "init", "initSize", "chunk", "chunkWrite",
                             "complete", "completeRm", "completeRename"}]
    /\ current \in Uploads \cup {None}
    /\ sessions \subseteq Uploads
    /\ tmp \in Cells \cup {None}
    /\ target \in Cells \cup {None}
    /\ cleaning \in BOOLEAN
    /\ faults \in 0..MaxFaults

\* An upload that is acknowledged has put exactly its local file in place
\* (docs/README.api.md:1390, 1503: upload() copies the local file and may resume).
\* Expiry, crashes, late requests of given-up uploads all reach the same .tmp file.
DoneExact ==
    [][\A u \in Uploads :
         step[u] = "completeRename" /\ reply'[u] # None /\ reply'[u].ok
           => target' = Whole(file[u])]_vars

\* Nobody sees a partial file under the name of the target, whichever request of
\* whichever upload, acknowledged or not, put it there.
TargetWhole == target \in {None} \cup {Whole(f) : f \in File}

\* A chunk never leaves a gap: the .tmp file may be removed between the check of
\* its size and the write.
NoGap == tmp # None => \A i \in 1..Len(tmp) : tmp[i] # Hole
=============================================================================
