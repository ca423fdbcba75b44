----------------------------- MODULE FsDownload -----------------------------
(***************************************************************************)
(* Downloads of one file of a slave to one path of the master:             *)
(* master.fs.download() (DOWNLOAD_INIT, DOWNLOAD_CHUNK ..., then the local *)
(* rename, then DOWNLOAD_COMPLETE), the session store of the slave, the    *)
(* local file and its .tmp file, from whose size the next call resumes.    *)
(*                                                                         *)
(* The remote file may be replaced at any time.  A handler of the slave    *)
(* reads it once, so it is one action; the master is split at its awaits.  *)
(***************************************************************************)
EXTENDS Integers, Sequences

CONSTANTS
    MaxDownloads, \* calls of download(), numbered in the order they begin
    Sizes,        \* sizes the remote file may have, in units smaller than a chunk
    ChunkSize,    \* normalizeChunkSize, in units
    OneAtATime,   \* assumption: no download begins while another one is under way
    MaxRevisions, \* bound: replacements of the remote file
    MaxFaults,    \* bound: lost frames, early timeouts, crashes of either side
    Hole,         \* what a write beyond the end of a file leaves in between
    None

Downloads == 1..MaxDownloads

\* A unit of a file: which revision of the remote file it was read from, and where.
Unit == [rev : 0..MaxRevisions, pos : Nat \ {0}]
Remote == [rev : 0..MaxRevisions, size : Sizes]
Whole(f) == [i \in 1..f.size |-> [rev |-> f.rev, pos |-> i]]

ASSUME DownloadAssumption ==
    /\ MaxDownloads \in Nat \ {0}
    /\ Sizes \subseteq Nat /\ Sizes # {}
    /\ ChunkSize \in Nat \ {0}
    /\ OneAtATime \in BOOLEAN
    /\ MaxRevisions \in Nat
    /\ MaxFaults \in Nat
    /\ Hole \notin Unit
    /\ None \notin Seq(Unit \cup {Hole})

VARIABLES
    download, \* where download() stands: "idle", the answer or file operation it awaits, "done", "failed"
    offset,   \* its `offset`
    total,    \* its `fileSize`, from the answer to DOWNLOAD_INIT
    wire,     \* requests on their way: [download, op, offset]
    reply,    \* the answer to the last request: None, or [ok, size, chunk]
    sessions, \* at the slave: fileSize of the session of a download, or None
    remote,   \* the remote file
    tmp,      \* content of the local .tmp file, or None
    local,    \* content of the local file, or None
    faults    \* faults so far

mVars == <<download, offset, total>>
net == <<wire, reply>>
disk == <<tmp, local>>
vars == <<mVars, net, sessions, remote, disk, faults>>

Asking == {"init", "chunk", "complete"}
AtWork == {"open", "write", "rm", "rename"}
Active == {d \in Downloads : download[d] \in Asking \cup AtWork}

Least(a, b) == IF a < b THEN a ELSE b
SizeOf(t) == IF t = None THEN 0 ELSE Len(t)

\* The local file of an earlier life: absent, or what remote held then.
Init ==
    /\ download = [d \in Downloads |-> "idle"]
    /\ offset = [d \in Downloads |-> 0]
    /\ total = [d \in Downloads |-> 0]
    /\ wire = <<>>
    /\ reply = [d \in Downloads |-> None]
    /\ sessions = [d \in Downloads |-> None]
    /\ remote \in [rev : {0}, size : Sizes]
    /\ tmp = None
    /\ local \in {None, Whole(remote)}
    /\ faults = 0

(***************************************************************************)
(* Master: download().                                                     *)
(***************************************************************************)
Goto(d, label) == download' = [download EXCEPT ![d] = label]

Request(d, op, off) ==
    /\ Goto(d, op)
    /\ wire' = Append(wire, [download |-> d, op |-> op, offset |-> off])

\* A .tmp file that is there is resumed from its size.
ResumeAt_Skip == SizeOf(tmp) + 1
ResumeAt_Back == SizeOf(tmp) - 1
ResumeAt == SizeOf(tmp)

Start(d) ==
    /\ download[d] = "idle"
    /\ \A e \in Downloads : e < d => download[e] # "idle"
    /\ OneAtATime => Active = {}
    /\ offset' = [offset EXCEPT ![d] = ResumeAt]
    /\ Request(d, "init", ResumeAt)
    /\ UNCHANGED <<total, reply, sessions, remote, disk, faults>>

Answered(d, op) ==
    /\ download[d] = op /\ reply[d] # None /\ reply[d].ok
    /\ reply' = [reply EXCEPT ![d] = None]

Inited(d) ==
    /\ Answered(d, "init")
    /\ total' = [total EXCEPT ![d] = reply[d].size]
    /\ Goto(d, "open")
    /\ UNCHANGED <<offset, wire, sessions, remote, disk, faults>>

\* The loop goes on at offset off, or the file is complete.
Remains_Off(d, off) == off + ChunkSize <= total[d]
Remains(d, off) == off < total[d]

Continue(d, off) ==
    IF Remains(d, off) THEN Request(d, "chunk", off) ELSE Goto(d, "rm") /\ wire' = wire

\* open(tmpPath, "a") creates the file, then it is opened for writing.
Opened_Off == <<>>
Opened == IF tmp = None THEN <<>> ELSE tmp

Open(d) ==
    /\ download[d] = "open"
    /\ tmp' = Opened
    /\ Continue(d, offset[d])
    /\ UNCHANGED <<offset, total, reply, sessions, remote, local, faults>>

\* handle.write(chunk, 0, n, offset).
Written(d, n) ==
    LET off == offset[d]
        end == IF off + n > SizeOf(tmp) THEN off + n ELSE SizeOf(tmp)
    IN  [i \in 1..end |->
           IF i \in (off + 1)..(off + n) THEN reply[d].chunk[i - off]
           ELSE IF i <= SizeOf(tmp) THEN tmp[i] ELSE Hole]

ChunkArrives(d) ==
    /\ download[d] = "chunk" /\ reply[d] # None /\ reply[d].ok
    /\ Goto(d, "write")
    /\ UNCHANGED <<offset, total, net, sessions, remote, disk, faults>>

\* The offset moves by what the chunk holds, which may be less than a chunk.
Advance(d) == Len(reply[d].chunk)

Write(d) ==
    /\ download[d] = "write"
    /\ tmp' = Written(d, Len(reply[d].chunk))
    /\ reply' = [reply EXCEPT ![d] = None]
    /\ offset' = [offset EXCEPT ![d] = @ + Advance(d)]
    /\ Continue(d, offset[d] + Advance(d))
    /\ UNCHANGED <<total, sessions, remote, local, faults>>

\* The old file goes, then the .tmp file takes its name.
Remove(d) ==
    /\ download[d] = "rm"
    /\ local' = None
    /\ Goto(d, "rename")
    /\ UNCHANGED <<offset, total, net, sessions, remote, tmp, faults>>

Rename(d) ==
    /\ download[d] = "rename"
    /\ IF tmp = None
       THEN Goto(d, "failed") /\ UNCHANGED <<wire, disk>>
       ELSE /\ local' = tmp
            /\ tmp' = None
            /\ Request(d, "complete", 0)
    /\ UNCHANGED <<offset, total, reply, sessions, remote, faults>>

Completed(d) ==
    /\ Answered(d, "complete")
    /\ Goto(d, "done")
    /\ UNCHANGED <<offset, total, wire, sessions, remote, disk, faults>>

\* assertOk throws: download() rejects, the .tmp file stays.
Refused(d) ==
    /\ download[d] \in Asking /\ reply[d] # None /\ ~reply[d].ok
    /\ Goto(d, "failed")
    /\ reply' = [reply EXCEPT ![d] = None]
    /\ UNCHANGED <<offset, total, wire, sessions, remote, disk, faults>>

(***************************************************************************)
(* A request times out when its frame or its answer is lost, or (a fault)  *)
(* although it is only late.                                               *)
(***************************************************************************)
Lost(d) ==
    /\ reply[d] = None
    /\ \A i \in 1..Len(wire) : wire[i].download # d

Timeout(d) ==
    /\ download[d] \in Asking
    /\ \/ Lost(d) /\ faults' = faults
       \/ ~Lost(d) /\ faults < MaxFaults /\ faults' = faults + 1
    /\ Goto(d, "failed")
    /\ reply' = [reply EXCEPT ![d] = None]
    /\ UNCHANGED <<offset, total, wire, sessions, remote, disk>>

(***************************************************************************)
(* Slave: the handlers.  An error becomes an answer with ok: false; a late *)
(* answer finds no pending entry at the master.                            *)
(***************************************************************************)
Answer(d, ok, size, chunk) ==
    reply' = [reply EXCEPT ![d] =
                IF d \in Active THEN [ok |-> ok, size |-> size, chunk |-> chunk] ELSE None]

\* handleDownloadInit: a file shorter than what the master has is refused.
OffsetFits_Off(off) == off < remote.size
OffsetFits(off) == off <= remote.size

ServeInit(m) ==
    LET ok == OffsetFits(m.offset) IN
    /\ Answer(m.download, ok, remote.size, <<>>)
    /\ sessions' = IF ok THEN [sessions EXCEPT ![m.download] = remote.size] ELSE sessions

\* handleDownloadChunk: what is left of the size in the session, as far as the
\* file still reaches; reading nothing is an error.
ReadAt(off, n) ==
    [i \in 1..n |-> [rev |-> remote.rev, pos |-> off + i]]

ChunkLength(d, off) == Least(ChunkSize, sessions[d] - off)

ServeChunk(m) ==
    LET d == m.download
        rest == IF m.offset < remote.size THEN remote.size - m.offset ELSE 0
    IN  /\ IF sessions[d] = None \/ m.offset > sessions[d] \/ (rest = 0 /\ m.offset < sessions[d])
           THEN Answer(d, FALSE, 0, <<>>)
           ELSE Answer(d, TRUE, 0, ReadAt(m.offset, Least(ChunkLength(d, m.offset), rest)))
        /\ UNCHANGED sessions

ServeComplete(m) ==
    /\ Answer(m.download, sessions[m.download] # None, 0, <<>>)
    /\ sessions' = [sessions EXCEPT ![m.download] = None]

Serve ==
    /\ wire # <<>>
    /\ wire' = Tail(wire)
    /\ LET m == Head(wire) IN
         CASE m.op = "init" -> ServeInit(m)
           [] m.op = "chunk" -> ServeChunk(m)
           [] m.op = "complete" -> ServeComplete(m)
    /\ UNCHANGED <<mVars, remote, disk, faults>>

\* Half an hour without a chunk: only downloads the master has given up.
Expire(d) ==
    /\ sessions[d] # None /\ d \notin Active
    /\ sessions' = [sessions EXCEPT ![d] = None]
    /\ UNCHANGED <<mVars, net, remote, disk, faults>>

(***************************************************************************)
(* The remote file is replaced; faults.                                    *)
(***************************************************************************)
Revise ==
    /\ remote.rev < MaxRevisions
    /\ remote' \in [rev : {remote.rev + 1}, size : Sizes]
    /\ UNCHANGED <<mVars, net, sessions, disk, faults>>

LoseFrames ==
    /\ faults < MaxFaults /\ wire # <<>>
    /\ faults' = faults + 1
    /\ wire' = <<>>
    /\ UNCHANGED <<mVars, reply, sessions, remote, disk>>

CrashSlave ==
    /\ faults < MaxFaults
    /\ faults' = faults + 1
    /\ sessions' = [d \in Downloads |-> None]
    /\ wire' = <<>>
    /\ UNCHANGED <<mVars, reply, remote, disk>>

\* The chunk at hand may have been written in part.
CrashMaster ==
    /\ faults < MaxFaults /\ Active # {}
    /\ faults' = faults + 1
    /\ download' = [d \in Downloads |-> IF d \in Active THEN "failed" ELSE download[d]]
    /\ reply' = [d \in Downloads |-> None]
    /\ \/ tmp' = tmp
       \/ \E d \in Downloads :
            /\ download[d] = "write"
            /\ \E n \in 1..Len(reply[d].chunk) : tmp' = Written(d, n)
    /\ UNCHANGED <<offset, total, wire, sessions, remote, local>>

Step(d) ==
    \/ Start(d) \/ Inited(d) \/ Open(d) \/ ChunkArrives(d) \/ Write(d)
    \/ Remove(d) \/ Rename(d) \/ Completed(d) \/ Refused(d)
    \/ (Lost(d) /\ Timeout(d))

Next ==
    \/ \E d \in Downloads : Step(d) \/ Timeout(d) \/ Expire(d)
    \/ Serve \/ Revise \/ LoseFrames \/ CrashSlave \/ CrashMaster

Spec == Init /\ [][Next]_vars

\* The event loops of both sides go on, requests have a timeout, and the
\* application calls download() again as long as it has calls left.
FairSpec == Spec /\ WF_vars(\E d \in Downloads : Step(d)) /\ WF_vars(Serve)

(***************************************************************************)
(* Properties.                                                             *)
(***************************************************************************)

\* The shape of the state.
TypeOK ==
    /\ download \in [Downloads -> {"idle", "done", "failed"} \cup Asking \cup AtWork]
    /\ offset \in [Downloads -> Nat]
    /\ total \in [Downloads -> Nat]
    /\ wire \in Seq([download : Downloads, op : Asking, offset : Nat])
    /\ reply \in [Downloads -> {None} \cup [ok : BOOLEAN, size : Nat, chunk : Seq(Unit)]]
    /\ sessions \in [Downloads -> Sizes \cup {None}]
    /\ remote \in Remote
    /\ tmp = None \/ tmp \in Seq(Unit \cup {Hole})
    /\ local = None \/ local \in Seq(Unit)
    /\ faults \in 0..MaxFaults

\* Every unit of the local files stands where it stood in the remote one: no
\* resume, short read, partial write or new revision shifts, repeats or skips one.
Aligned(t) == t # None => \A i \in 1..Len(t) : t[i] # Hole /\ t[i].pos = i
InPlace == Aligned(tmp) /\ Aligned(local)

\* What download() puts in place has the size the slave announced, and is the
\* remote file if that was not replaced since the first download
\* (docs/README.api.md:1620: downloads may resume).
Exact ==
    [][\A d \in Downloads :
         download[d] = "rename" /\ local' # local =>
           /\ Len(local') = total[d]
           /\ remote.rev = 0 => local' = Whole(remote)]_vars

\* No failure is final: as long as the remote file is not shorter than what is
\* already there, a later call succeeds, wherever the earlier ones broke off.
RetrySucceeds ==
    [](SizeOf(tmp) <= remote.size) => <>(\E d \in Downloads : download[d] = "done")

\* What has been fetched is kept: the .tmp file only grows until it takes its
\* place, and the local file is removed only when the new one is whole, so that a
\* crash between the two calls is repaired by the next one.
NothingLost ==
    [][/\ tmp # None => \/ SizeOf(tmp') >= SizeOf(tmp)
                        \/ tmp' = None /\ local' = tmp
       /\ local # None /\ local' = None =>
            \E d \in Active : SizeOf(tmp) = total[d]]_vars
=============================================================================
