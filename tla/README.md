# ZNL in TLA+

ZNL is a JavaScript library that connects one master and many slaves over
ZeroMQ: a Router socket on the master, a Dealer on each slave, and on top of them
RPC in both directions, publish and push, a heartbeat with automatic reconnect,
signed and encrypted frames, and a file service. This directory holds TLA+
specifications of it, the TLC configurations that check them on small instances,
and TLAPS proofs of what matters most for every instance. Paths below are paths
of the repository (`src/ZNL.js` is the library's main file).

## 1. The system

Everything of a node runs on one event loop. Code between two `await`s cannot be
interleaved; between them anything can happen: another call of the application, a
timer, a frame, the end of a send. Every action of the models is one such
synchronous run.

| Part | State | Operations | Correct when |
|---|---|---|---|
| RPC (`PendingManager`, `#request`, `#requestTo`) | map of entries with resolve, reject, timer | create, startTimer, resolve, reject, rejectAll, ensureCapacity | each promise settles, at most once, with its own answer; slots of `maxPending` come back |
| `SendQueue` | per channel: tasks, running flag | enqueue, drain, clear | one send at a time, in order; a cancelled task is not sent |
| Lifecycle | `running`, `#startPromise`, `#stopPromise`, `#sockets`, `#readLoops` | start, stop, #doStart, #doStop, #teardown, #consume | start and stop return, nothing is left open, a started node has its socket |
| Slave link | `#masterOnline`, `#heartbeatWaitingAck`, two timers | #startHeartbeat, #sendHeartbeatOnce, #confirmMasterReachable, #onHeartbeatAckTimeout, #restartDealer | the heartbeat never dies; the slave's view converges |
| Master registry | `#slaves` with lastSeen and keys | register, unregister, #ensureSlaveOnline, scan, removeAuthKey | the events tell the table, as far as they are emitted; ghosts go |
| Dispatch | one read loop per socket | #handleRouterFrames, #handleDealerFrames | a handler runs once per frame, in order, and blocks the rest |
| Publish, push | `#subscriptions` | PUBLISH, SUBSCRIBE, UNSUBSCRIBE, PUSH | fire and forget |
| Service channel (`ServiceManager`) | handlers, its own pending map | register, requestTo, handleIncomingRequest, rejectAll | as RPC |
| Security | keys, key cache, `#masterNodeId`, replay guard | proofs, seal, open, addAuthKey, removeAuthKey | a frame is accepted once, a good frame is accepted; every place that holds a key agrees, and a change of keys takes effect |
| Codec (`protocol.js`) | none | parseControlFrames, build*Frames | parse inverts build |
| File service (`services/fs`) | sessions on the slave, `.tmp` files, root and policy | list, stat, get, create, mkdir, delete, rename, patch, upload, download, setRoot | the file at the end is the file sent; an answer says truly what was done; no file is lost that was not named; no path leads through a link; the policy holds |

How they interact: `#request` creates an entry in the pending map and queues a
task; the task arms the entry's timer and writes to the socket; the read loop of
the socket resolves the entry. Replies, heartbeats, register and unregister frames
and service frames share the same queue. A heartbeat that is not answered makes the slave
reject every entry, clear the queue and build a new Dealer. stop() queues the
unregister frame behind everything else, rejects every entry, closes the
sockets, waits for the read loops and clears what is left.

What is hard: several tasks of an application in start() and stop() at once; an
answer, a timeout, a failed send, a rebuild and stop() all reaching for one entry;
a send that does not complete while the peer is away; handlers that hold up the
read loop; a heartbeat chain that one forgotten path would end for good; either
side restarting without the other noticing. `PROJECT.json` lists each at its line
("hazards") with the properties that watch it.

## 2. The modules

| Module | What it is |
|---|---|
| `RpcPromise` | what an RPC call promises its caller, without queues, sockets or timers |
| `RpcChannel` | the pending map, the send queue, calls, rebuild, stop and restart of one node |
| `RpcChannel_proofs` | proofs that nobody is forgotten, slots come back and frames keep their order, and of the refinement of `RpcPromise` |
| `SequenceOrder` | what is in a queue and what stands in front of what |
| `Lifecycle` | start() and stop() called by several tasks |
| `SlaveLink` | one slave and its master: heartbeat, table, lossy connections, crashes |
| `HeartbeatTiming` | the same link with lengths of time: interval, answer timeout, idle limit, scan, delay |
| `HeartbeatTiming_proofs` | proofs of its bounds on time, for every setting |
| `Dispatch` | read loops that await handlers, nested calls, the service channel, rebuilds |
| `Dispatch_proofs` | its proofs |
| `ReplayGuard` | freshness and nonces of signed proofs |
| `Node_proofs` | proofs about one node: `Lifecycle`, `SlaveLink` and `ReplayGuard` |
| `Wire` | frames: building, parsing, packing, proofs, sealing (operators only) |
| `Fleet` | one master and its slaves: keys, the key cache, the learnt master, every kind of frame |
| `Fleet_proofs` | proofs that the places of a key agree and that no frame is misread |
| `FsUpload` | upload() of a master to one path: requests, sessions, the `.tmp` file, expiry, crashes |
| `FsUpload_proofs` | proofs that the target is never partial and an acknowledged upload is exact |
| `FsDownload` | download() of one file: sessions, the local `.tmp` file, a remote file that may be replaced, crashes of either side |
| `FsDownload_proofs` | proofs that what is fetched stands in its place, is kept and is exact in the end |
| `FsTree` | the operations of a single call on the tree of a slave: paths, links, policy, setRoot(), failing calls, crashes |
| `FsTree_proofs` | proofs that answers are true, that named paths lead through no link, that files which are not named are safe, and that the policy is obeyed |
| `MC...` | TLC instances: symmetry and value sets; the `.cfg` files give the constants |

`Fleet` is written on top of `Wire`, and `RpcChannel` and `Dispatch` both implement
`RpcPromise`. The others look at the same node from different sides: `RpcChannel`
at the calls, `Lifecycle` at start() and stop(), `SlaveLink` and `HeartbeatTiming` at the heartbeat,
`Dispatch` at the read loops, `Fleet` at keys and contents of frames. Where one needs what another
shows, its comment names it. `SlaveLink` and `ReplayGuard` call their specifications `LinkSpec` and
`GuardSpec`, so that `Node_proofs` can extend them together with `Lifecycle`.

Operators with a suffix (`_Off`, `_Any`, `_Current`, `_Full`, `_Back`, `_Skip`,
`_Subject`) stand before the one they vary. They are not part of a specification: each is a plausible slip in the code
(a timer not armed, a queue not cleared, an off-by-one) that some property must
notice, and `PROJECT.json` ("mutants") says which.

### RpcChannel

`queue` and `sending` are one channel of `SendQueue` and the task `#drain`
awaits; `pend` and `timer` are `PendingManager.#map` and the armed timers in it;
`call` is what the caller's promise shows. `Call` is `#request`/`#requestTo` up to
their `return promise`; `CallUnsealed` is the path where the key lookup or the
sealing throws after the entry was made; `SendOk` and `SendFail` end the running
task and start the next, which arms its timer (`startTimer` stands before
`socket.send` in the task). `RestartDealer` is the synchronous body of
`#restartDealer`. stop() is `StopBegin` (the unregister frame is queued and
awaited), `StopClose` (rejectAll, sockets closed) and `TeardownEnd` (read loops
over, queue cleared, sockets forgotten); a master goes straight to closing. Calls
made between closing and the end of teardown are accepted, as in the code, where
`#requireSocket` still finds the closed socket. Two histories, `issued` and
`leaked`, serve properties only.

ZeroMQ is external: a Dealer with `immediate: true` completes a send only while it is
connected, a Router always does and drops what it cannot route; closing a socket
settles a send in progress. The peer runs its handler once per frame it gets and may
not answer; frames and answers get lost, answers arrive at any later time.

`RpcChannel` implements `RpcPromise` (property `PromiseSpec`: `Promise ==
INSTANCE RpcPromise`, the variables `call` and `served` map to themselves): a
promise settles once, and `ok` only after its own request, which was really made, was served.

### Lifecycle

A step is a run up to the next `await`; `pc[c]` says at which `await` task `c`
stands and `awaits[c]` whose promise it waits for. Continuations run before the
application makes its next call, and those of `#teardown` and `#doStop` before
those of the shared promises (`TeardownDue`, `PromiseDue`): microtasks come before
macrotasks, and the promise of start() or stop() settles a few microtasks after
what it wraps. The constant `Patient` is an assumption on the application: while a
start() waits for a stop(), no second start() comes to wait for it too. The
code does not enforce it, and `MCLifeOrphan` shows what happens without it. `open` and `alive` tell the truth about sockets and loops;
`current` and `readLoops` are what the node knows.

### SlaveLink

Both ends of one link. `NewDealer` is common to start() and the rebuild: register
frame queued, heartbeat due at once. Timeouts may fire at any moment unless
`Timely` is TRUE; then they fire only when no answer can come any more, which is
what a timeout longer than the round trip means. A heartbeat whose send fails
takes the same path as its timeout, so `AckTimeout` covers both. The frames of
the application ("business" from the slave, "frame" from the master) stand for
push, request, response, service and publish frames, which all touch the link in
the same way. A handler that is running (`slaveBusy`, `masterBusy`) holds up the
read loop. Masters are not told of a slave's crash; ZeroMQ reconnects by itself.

Two histories serve `TableMatchesEvents`: `event` is what the application of the master heard last of the slave,
`cleared` whether stop() has emptied the table since without a word. A crash (`CrashMaster`) takes the
application along, and the next one has heard nothing; after stop() (`StopMaster`) the same application goes on with what
it heard. A publication that is still queued then fails on the closed socket and removes the entry
with an event, the one case in which stop() is heard of.

### HeartbeatTiming

Time passes in ticks; `beatIn`, `ackIn` and `scanIn` count down to `#heartbeatTimer`,
`#heartbeatAckTimer` and the scan, and `idle` is the age of `lastSeen`. `ackIn # Never` is
`#heartbeatWaitingAck` (SlaveLink has the proof that flag and timer go together). `AckTimeout` is
`#resolveHeartbeatAckTimeoutMs`, `IdleLimit` the timeout of `#startHeartbeatCheck`. A timer that is
due and a frame that has travelled for `delay` come before the next `Tick`: `delay` bounds everything
between a `send()` and the handler of the frame at the other end, a read loop that is held up
included. `SlaveReceives` is `#confirmMasterReachable` for any frame of the master; `Rebuild` is
`#restartDealer`; frames of the application (`MasterSends`, `SlaveSends`) confirm and touch as in the code,
one of them per direction at a time. Both sides may crash and come back. Settings
are chosen in `Init` from `Configs`. `slaveFor` and `masterFor` are histories that properties read.

### Dispatch

`running` holds the handlers that the read loops await (`#consume`, one action `Read` per frame):
a loop reads only when none of its own generation runs. A handler is in code of the
application (`at = "app"`), where it may call the other side and await the answer
(`CallInHandler`), or waits for its answer to be sent (`"reply"`, and `"error"` for the
second attempt of `ServiceManager.handleIncomingRequest`). Heartbeats are answered by an awaited
send as well. Whether a handler is registered or a topic subscribed is a free choice at
every frame, which covers SUBSCRIBE, UNSUBSCRIBE and registration at any time. `RestartDealer`
clears the slave's queue: an RPC answer in it is lost, a service answer turns into an error
answer to the new Dealer, and the handlers of the old loop go on beside those of
the new one (`dealer` is the generation). Calls of the service channel are not rejected by the rebuild, as in the code.

### ReplayGuard

`Verify` is the tail of `#verifyIncomingProof`: `isTimestampFresh`, then
`seenOrAdd`, with the clock read twice and up to `Lag` in between. Proofs carry
any timestamp (clocks of two nodes need not agree) and are delivered any number of
times. `Clear` is the end of teardown.

### Wire and Fleet

A frame is a sequence of atoms. `Wire` builds, parses and packs as `protocol.js` and
`security.js` do, position by position, the optional proof and its marker included; HMAC and
AES-GCM are ideal: a proof verifies and a ciphertext opens under its own key and data and no
other. `authKey` and `authProof` are one field, since every kind of frame uses one of them.

`Fleet` sends these frames. `keyMap`, `cache` and `table` are `#authKeyMap`, `#slaveKeyCache` and
the keys in `#slaves`; `masterOf` is `#masterNodeId` of a slave. `MasterReceives` and `SlaveReceives`
are `#handleRouterFrames` and `#handleDealerFrames` for each kind, with their checks in order;
requests start a handler that `Replying` ends. `AddAuthKey` and `RemoveAuthKey` are the whole
methods, `RestartMaster` (under any id), `RestartSlave`, `RestartDealer` and `Evict` what they are
called. Each frame under way carries a ghost `msg`, what its sender meant, which only
properties read. Left out here: how calls settle (RpcChannel), timers (SlaveLink),
repeated frames (ReplayGuard). `enablePayloadDigest` is modelled as on, though it is off by default (`src/constants.js:67`): no
frame is altered under way here, so the digest never decides and the results are the same without it. Payloads of a plain node do
not begin with the marker of a proof: the protocol cannot tell such a payload
from a proof, which `docs/README.protocol.md:195-197` says.

### FsUpload

All uploads go to one path, since uploads to different paths share nothing but the
read loop. `upload[u]` says which answer `upload()` awaits; the local file has a
content and a size, and a file on the slave is the sequence of what each
unit of it holds, so that a mixture, a gap or a short file can be told apart. A chunk
is two units and a crash may write one. `Receive` is the read loop taking a
request (and the session check that opens handleChunk and handleComplete); the
handlers are split where they await the file system: `InitOpen`, `InitSize`; `ChunkStat`,
`ChunkWrite`; `CompleteStat`, `CompleteRm`, `CompleteRename`. Opening and writing
in writeChunk are one step. `current` is the handler the read loop
awaits; after a rebuild the old loop's handler goes on beside it. `Fail` is an error
answer or a timeout: the application may then call upload() again, which is
another upload with a session of its own, while requests, handler and session of
the first are still about. `Expire` and `CleanupRm` are the two halves of
cleanupExpiredSessions; half an hour of silence is taken to mean that the master has given
the upload up.

Two constants are assumptions: `OneAtATime`, the application does not begin an upload to a
path while another one to it is under way, and `Overlap = FALSE`, no Dealer is rebuilt while a
handler is at work. The code enforces neither. Without them TLC finds
`TargetWhole`, `NoGap` and `DoneExact` violated: two handlers then work on one `.tmp` file,
and the COMPLETE of one upload renames what another has just begun. An old
target is removed before the rename, so a crash in between, or a `.tmp` file that
expiry has just removed, leaves no target at all; no property promises otherwise.

### FsDownload

The mirror image: the `.tmp` file is the master's, and `download[d]` says which answer or which
file operation `download()` awaits. A unit of a file knows the revision of the remote file it was
read from and its position there, so that a shift, a gap and a mixture can be told apart; `Revise`
replaces the remote file at any time. A handler of the slave reads that file once, so `Serve`
is one action. Timeouts, lost frames, expired sessions, crashes in the middle of a write or between
the removal of the old file and the rename are all there. `OneAtATime` is an assumption on the application, as for uploads.

### FsTree

`tree` maps paths to directories, files and symbolic links. `Begin` is a handler up to its first call of
`node:fs` that changes anything: resolution (`SafePath`, `SafeParentPath`), policy (`Permits`) and
the checks of the operation, in the order of the code; then one action per such call (`EnsureDir`,
`WriteFile`, `MakeDir`, `Rm`, `RenameTo`, `WriteTmp`, `Swap`). A call may also reject (`Throws`), and the handler then answers
an error; `Halfway` says what it leaves: some of the directories, a part of a recursive removal, a torn file. `Crash` leaves
the same, without an answer. `SetRoot` changes the policy between two steps (it may change the root as well; only
one root is modelled). `before` and `under` are histories: the tree and the policy when the handler began.

Nothing keeps a client from using the name `<file>.patch.tmp`, and `handlePatch` writes there without a look
(`src/services/fs/slave.js:833-834`). Names and first trees therefore include such names, a directory or a symbolic link may stand there, and
`Written` follows a link to any file, in the tree or outside of it. `LinksRefused` says that nothing is written through a link, and does not hold (section 3); `FilesSafe`,
`AnswerTells` and `PolicyObeyed` name this case as their exception and say what is left in it.

Assumed: one handler is at work at a time and nobody else writes below the root (`OneHandler`). The read loop awaits
the handler, but a rebuild of the Dealer meanwhile would start a second loop (`src/ZNL.js:1475`); this is the assumption that is
called `Overlap = FALSE` in FsUpload. For the same reason the checks of a handler are one step: nothing
they look at changes between two of them but the policy, and a setRoot() between two checks is not modelled. A path is a
sequence of names and a pattern of the policy a path: parsing of path strings and
globs is left out, and the file system itself is external.

## 3. The runs

| Run | Question | Result |
|---|---|---|
| `MCRpc` | does any interleaving of calls, other frames, timeouts, late answers, failed sends, rebuilds, stop and restart forget a call, reorder frames, send a cancelled one, leak a slot or settle a promise wrongly; does every call settle, and does a slave's stop() end if its master keeps coming back? | no slot leaks but where sealing throws; everything settles |
| `MCLifecycle` | with two starting and two stopping tasks, failing bind() and rebuilds: do flag, socket and read loop agree when nothing is under way, is every socket closed, does every call return? | yes, if no two start() wait for one stop() |
| `MCLink` | can any order of frames, timeouts and faults end the heartbeat, revive a timer after stop(), or part events from the table; do both sides agree on who is online once faults cease? | no, but that stop() of the master empties the table without an event and a plain master may repeat slave_connected; they do |
| `MCHeartbeat` | with crashes on both sides, are the dead noticed in time and the living never taken for dead? | yes, under the conditions below |
| `MCDispatch` | can handlers that call each other's nodes, lost answers and rebuilds stop a read loop for good or settle a call wrongly; what becomes of a call awaited in a handler? | no; it is never answered by the loop it blocks |
| `MCReplayGuard` | is a proof accepted twice around the end of the window, whatever comes in between? | no |
| `MCFleet` | over every kind of frame, mode, change of keys, restart and rebuild: do the places of a key agree, is a frame ever misread, does a change of keys take effect? | as it should |
| `MCFsUpload` | can crashes in the middle of a write, expired sessions or late requests put a partial file in place, or acknowledge an upload whose file is not exact? | no, for one file at a time |
| `MCFsDownload` | the same for downloads; and is a failed download repaired by a later one? | no; yes, unless the remote file has become shorter |
| `MCFsTree` | whatever fails, crashes or changes the policy in between: does an answer tell what was done, is a file lost or half written that the request does not name, does a path lead through a link, does anything change that the policy forbids? | answers are true; no, with the exception of what stands at `<file>.patch.tmp` |

What a live peer is safe from depends on how the constants add up, and `MCHeartbeat` gives the
conditions, which are tight (each fails when it is weakened by one tick). With delay D, interval I, answer
timeout A and idle limit L: a slave never rebuilds under a live master if 2D < A; a master never evicts a live
slave if 2D + I <= L; a dead slave is gone after D + L + I, a dead master noticed after D + I + A.
With the defaults (A = 2I, L = 3I) the first condition implies the second. With a
`heartbeatTimeoutMs` of one's own (A = L) it does not: a timeout shorter than an interval and a
round trip evicts a living slave round after round while the slave sees nothing, and
nothing in the code refuses such a setting.

The runs of `RpcChannel` and `Lifecycle` start from both roles: `role` is chosen in
`Init` and never changes, as in the constructor. Two runs show where the program
and its own comments or documentation part; each ends in a counterexample that
`PROJECT.json` ("findings") explains:

| Run | What the code does |
|---|---|
| `MCLifeOrphan` | two start() waiting for one stop() both start; one Dealer is lost and the next stop() hangs |
| `MCFsResume` | an upload resumes from the `.tmp` file of another file and is acknowledged with a mixture in place |

Reading the code for the models showed lesser disagreements and limits, which no run
keeps:

* stop() of a slave does not return while its master is away: the unregister frame waits for a send that
  cannot end, since `sendTimeout` is commented out (`src/ZNL.js:1757` against the comment at 1748). TLC finds
  `StopCompletes` of RpcChannel violated under the constants of `MCRpc`; `StopsIfReachable`, which
  holds, says what is left of it.
* With `heartbeatTimeoutMs: 0` a slave waits two intervals, at least a second, for an answer
  (`src/ZNL.js:1834`), where the documentation says three (`docs/README.api.md:231-235`); the
  scan of the master does allow three.
* With `heartbeatInterval: 0` and no master, a queued call has no timer and never
  settles (`src/ZNL.js:1619` arms it when the send task starts). `EverySettles` of
  `RpcChannel` fails when `HeartbeatOn` is FALSE.
* The timeout is armed before `socket.send`, although `src/PendingManager.js:7` says after.
* A second start() returns before the bind() of the first has ended, because `running`
  is set first and looked at first (`src/ZNL.js:343` against the comment at 339).
* start() while stop() awaits the unregister frame returns at once, and the node then
  goes down (`src/ZNL.js:343` against the comment at 340).
* A call whose key lookup or sealing throws keeps its slot of `maxPending` for good
  (`src/ZNL.js:1636` comes before them; `docs/README.api.md:161-168` speaks of concurrent
  requests). `OnlySealLeaks` shows that this is the only leak.
* A call made and awaited in a handler of the same node is never answered while the handler runs
  (`src/ZNL.js:2275`, `NestedUnanswered`), and a handler of a slave slower than the ack timeout
  brings about a rebuild that cancels its own answer.
* A slave refuses a master that comes back under a new id until the slave itself is restarted
  (`src/ZNL.js:1367`); `KeyChangeTakesEffect` therefore asks that no other master was learnt.
* removeAuthKey() of a slave falls back to a common `authKey` if there is one, so the slave
  stays welcome (`docs/README.api.md:769-785`).
* The branch of PUBLISH for an entry without keys cannot be reached in an encrypted master (`KeysConsistent`).
* create and mkdir with `recursive: true` fail when more than one ancestor is missing,
  because resolution asks that the parent of the parent exists (`docs/README.api.md:1123`, `1178`).
* stop() of a master empties `#slaves` without slave_disconnected (`src/ZNL.js:886`; `docs/README.api.md:1797-1805` lists when
  it is emitted), and a plain master repeats slave_connected when a register frame comes again (`src/ZNL.js:1041`).
  `TableMatchesEvents` says that nothing else parts events and table.
* A patch writes through a symbolic link at `<file>.patch.tmp`, and the rename then puts the link in place of the file: `handlePatch`
  does not look at what stands there (`src/services/fs/slave.js:834`), as `handleInit` does at its `.tmp` (862-865), and
  `docs/README.api.md:904` says that access through links is refused. TLC finds `LinksRefused` of FsTree violated under
  the constants of `MCFsTree`.
* A patch overwrites a file of a client that happens to be called `<file>.patch.tmp`, and the file is gone
  afterwards; a patch that fails leaves its own there. The upload and download sessions share their `.tmp` names with clients in the same way.
* delete of a directory may fail half way and answers an error with part of it gone; create with `overwrite` may have
  emptied its file when it answers an error. `AnswerTells` shows that these, and the temporary file of a patch, are all.
* The policy looks at the paths a request names only: deleting or renaming a directory takes along what
  `denyGlobs` covers below it. A handler that has passed its checks ends under the policy it began with, whatever setRoot()
  has set meanwhile.
* A download is refused for ever once the remote file is shorter than the local `.tmp` file; the condition of
  `RetrySucceeds` says so.

### Bounds

Three calls with `maxPending` 2 reach the limit, with one more call to be refused,
and let a queued, a running and a settled call coexist; one other frame queued at a
time (`MaxOther`) is enough to stand before, between and behind them. Calls are
interchangeable, hence the symmetry in the safety runs. Lifecycle: two tasks of
each kind are the fewest in which a start joins a start and a stop joins a stop; sockets are reused once closed and
ended, so three objects (one starting, one current, one closing) suffice, four
where one gets lost. SlaveLink: `MaxNet` frames in transport per
direction, `MaxFrames` under way before applications stop adding (protocol frames
are never held back by it), up to `MaxFaults` crashes, stops and
broken connections. ReplayGuard: the clock runs to twice the window, so that a
proof is fresh, expires, is swept and comes again.

HeartbeatTiming: four settings, of interval 1 and 2, the default with and without
the floor of the answer timeout, a longer and a shorter timeout of one's own; two crashes, which
may hit either side or the same one twice; time is unbounded, its counters stop
one tick after the longest time any property asks about.

Dispatch: one call of each sort, each of which may be made by the application or in a
handler; `MaxWork` 2 lets two of them, or one and a publication, be under way, which is what it
takes for handlers of both nodes to wait for each other; two rebuilds give three
generations of read loops.

Fleet: one slave, since slaves share nothing but the read loop of the master; two ids of the
master, two keys; payloads of no frames and of two, one of them empty; nobody, everybody or
only the slave encrypted; one message of the application (each kind in turn) among
registers, heartbeats and acks; two changes, enough for a key to be removed and added, or changed under a
restart. Three changes were checked once without the liveness property and held.

FsDownload: four calls, so that three may fail before the last; an
empty remote file, one of an odd chunk and a longer one; one revision and two faults. FsTree: two names, one being that of
the other's temporary file, and paths of three, so that a link or a missing directory can stand at the end, in the middle, above and
beside; four trees, three policies; two operations, since the second meets whatever the first left behind.

FsUpload: three uploads let an abandoned
one, its retry and a third overlap; two faults combine a crash in a write with a lost
connection; a file of three units is a full chunk and a short one.

Deadlock is checked in every passing run but those of the file service, where everything may be
over: each upload, download or operation is called a bounded number of times.

### Fairness

Each assumption is weak fairness of something the runtime does by itself: armed
timers fire, an open read loop reads, a handler returns, teardown goes on when its
loops ended, a send on a closed socket fails. Strong fairness is asked only of
what a connection that comes and goes enables again and again: a write, a connect, a frame
read between two disconnections. `RestartWhenStuck` (RpcChannel) stands for the
ack timeout: the heartbeat's timer is armed before the heartbeat is queued, so a
slave whose send is stuck reaches its rebuild; SlaveLink shows that this timer is
always there (`ChainAlive`). The application, the peer's connection and all faults
are under no fairness. In Dispatch a handler ends once what it awaits has settled, and nothing
makes the ack time out; in Fleet heartbeats go on, sockets are read and handlers answer;
in FsDownload both event loops go on, and the application calls again while calls are left. HeartbeatTiming
has no fairness: its bounds on time are safety properties. `Converges` holds in behaviours where faults cease because
`MaxFaults` bounds them.

## 4. The proofs

All hold for every value of the constants under the named assumptions
(`RpcAssumption`, `LinkAssumption`, `ReplayAssumption`, `DispatchAssumption`, `FleetAssumption`,
`CodecAssumption`, `TimingAssumption`, `UploadAssumption`, `DownloadAssumption`, `LifecycleAssumption`, `TreeAssumption`). They say that bounds are numbers,
that sets of names are finite where the code counts them, that the first trees are trees and the name of a temporary file is not that of its file, and that marker values (a hole in a file, no
unit, the empty frame) are not among the values they mark. A hypothesis that a theorem needs beyond these stands in its
statement and is named below.

* `RpcChannel_proofs`. `TypeCorrect` first, inductive by itself. `NobodyForgotten`
  (`Tracked`) is inductive relative to it: steps that settle go through
  `SettleTracked`, steps that drain through `DrainTracked`, which says that the head
  of the queue gets its timer when it leaves the queue. `CapacityKept` needs that
  an entry is only added under `HasCapacity` (`MapSteps`) and facts about
  cardinalities; `SlotsReturned` that every settling also unmaps.
  The refinement of `RpcPromise` (`ImplementsPromise`) needs to know where a
  request can be: `FrameInv` says that it is anywhere only after its call was made, and in one place only
  (`InOnePlace`), that what may still be written has not reached the peer (`NotYetThere`), and
  that an open channel queues only calls that wait (`QueueWaits`). From it follows
  `CancelledNotSent`, and, with `CallOrder`, which says that what is written, in progress and queued
  stands in the order of the calls, `CallsInOrder`.
* `Dispatch_proofs`. `TypeCorrect` includes that no read loop runs two handlers. `NestedUnanswered`
  and the refinement of `RpcPromise` rest on `RouteInv`: requests come from the caller of a call that was
  made, answers go to the caller of a call that was served, a handler awaits calls of its own node and belongs
  to a generation that has begun. An answer is then read only by a loop that no handler blocks, and a
  rebuild leaves all handlers of the slave in older generations.
* `Fleet_proofs`. `KeysConsistent` is proved for any slaves, keys and traffic (`KeyInv`): the table,
  the cache and the key map change together in addAuthKey, removeAuthKey, register and eviction, and a frame
  refreshes only what they allow. `NoFrameMisread` (`Faithful`) and the type invariant (`FleetShape`) rest on
  another invariant, `FrameInv`: a connection carries only frames of the node at its end, each built
  from what it means by the code of its sender (`WireShape`); a handler knows a request that some
  slave sent (`HandlerShape`); a learnt master is a name that a verified proof carried (`LearntShape`);
  keys are keys (`KeyShape`). Above it stand lemmas about frames: what `AfterFront`, `ControlParsed`, `HeadFrames`
  and `BodyFrames` say of the positions of a frame gives `BuiltIsParsed`, that parsing undoes
  building for every kind, with or without a proof, and `ReadAsMeant`, that opening undoes sealing under the same key.
  Two hypotheses: a proof token is not the empty frame (`ProofsAreNotEmpty`, true of any
  encoding of a record as text), and packing is exact for the payloads (`CodecAssumption`). The second is an
  induction over the loops of `encodeFrames` and `decodeFrames`, out of the prover's reach: TLC evaluates it
  on each run for the payloads of the instance.
* `Node_proofs`. Start and stop: `NothingEscapes` is proved under `Patient`, which is its hypothesis and not part of
  the specification, since without it `MCLifeOrphan` finds an orphaned socket. `NodeInv` says what the shared promises protect:
  one start at most is under way and it owns `#startPromise` (`StartOwned`), starts and stops take turns
  (`OneOrOther`); stops may overlap, but once one has cleared the node the others find nothing to close
  (`StopOwned`); who waits for whom (`StopsWait`, `StartsWait`); whoever tears down waits for all loops (`Loops`);
  and at each `await` which socket is open (`Opens`). `Consistent` is the last of these where nothing is under way.
  The heartbeat: `ChainAlive` is not inductive alone, because a frame of the master takes `waiting` down and
  schedules the next heartbeat only if `waiting` was up: the proof needs that `waiting` and `ackTimer` agree
  and that neither survives stop(). `TimerInv` is the conjunction and is inductive. The queues and the
  network play no part, so these hold for unbounded traffic. `EventsTellTable` is inductive with the
  types of `registered` and of the two histories; `LinkShape` is the type invariant.
  The guard: `AtMostOnce` needs `StillGuarded`: an accepted proof is held by an entry that expires more than `Lag`
  after the proof stops being fresh, or it is no longer fresh. The first is established at acceptance because
  `Window > 2 * Skew + Lag`; it decays into the second when the entry expires or is swept. Nothing in the code
  enforces that inequality; the defaults (120 s, 30 s) satisfy it with a minute to spare. The clock is
  assumed never to step back.
* `HeartbeatTiming_proofs`. Both bounds are found by asking where the time goes: `DeadInv` says,
  for each stage between a crash and its notice (a frame still under way, an entry still fresh, an answer
  awaited, a timer running), how much of the bound is spent at most; `LivingInv` says how far the next frame
  of a living peer can be. Each is inductive with the ranges of the ages. No bound on the number of crashes
  plays a part.
* `FsUpload_proofs`. Three layers. `HandlerInv`: one request and one handler at a time, and the
  handler at work fits the request (`OneRequest`, `OneHandler`, `Fits`). `OrderInv`: the newest session stands last
  and a late init belongs to an older one (`NewestLast`, `LateInit`). `UploadInv`: what is in the `.tmp` file is a
  beginning of the file of the session that writes it (`Places`, `Beginning`), a complete request comes only when all of it is there
  (`Ready`), so the target is whole (`TargetWhole`). `NoGapEver` needs only that no Dealer is rebuilt while a
  handler is at work (`~Overlap`). `TargetNeverPartial` and `AcknowledgedIsExact` also need that the
  application uploads one after the other (`OneAtATime`) and that all are attempts at the same
  file (`OneFile`): a changed file resumes on the old `.tmp` file, as the run `MCFsResume` shows.
* `FsDownload_proofs`. With downloads one after the other (`OneAtATime`), `Talk` says that one request of one
  download is open and which answers may come (`OneActive`, `Requests`, `Replies`), `Progress` that the master has
  what it counts, and `Content` that each unit stands at its place and comes from a revision the
  session has opened. `DownloadsAreExact` and the action property `FetchedIsKept` follow from them.
* `FsTree_proofs`. First lemmas about paths as sequences of names (prefixes, parents, what a rename makes of a path), then about
  the operators on trees: each keeps a tree closed (what exists lies in directories that exist)
  where the file system allows it, and says what it leaves alone. `TreeInv` has two parts beside the shape: `Working`, that at
  each call of `node:fs` the tree is the one the handler began with, plus exactly what its earlier calls did, and what it
  checked there still holds; and `Permitted`, that the policy it began under permits what it does. No other handler is at work in
  between (`OneHandler`), so this is inductive; a crash or a failing call ends the handler and owes only a closed tree. `TreeTyped` and
  `NoLinkIsNamed` follow. What a step may make of the tree is collected once in `Effect`, with `HalfwayCases` for calls that come half way
  and `StepEffect` for all steps; `StepsAreSafe` and `PolicyIsObeyed` are read off it. `AnswersTell` compares the last step with the beginning:
  `OkTells` and `ErrorTells` for answers, `ThrowsTells` for calls that fail, and `SwapTells` for the rename of a
  patch, where what stood at the temporary name, a link or another's file, decides what is said. In a rename of directories the
  new place is never inside the old one and a directory that is replaced is empty, so nothing that was
  not named is lost, and nothing stays behind (`RenamedAll`).

`CapacityBound`, `WaitingIsTimed`, `SweptInTime`, `NoFalseAlarm` and the shapes of the replay guard (`GuardTyped`) and of the tree
(`TreeTyped`) are proved in these modules and no run spends a property on them.

Only model-checked: all liveness (`EverySettles`, `StopsIfReachable`, `Converges`, `CallsReturn`,
`LoopGoesOn`, `KeyChangeTakesEffect`, `RetrySucceeds`), which is beyond the prover together with fairness. Every
safety property that a passing run checks is also proved.

## 5. What is not modelled, and the plan

Not modelled: cryptography itself (assumed ideal); the parsing of path strings and globs (strings
over a real file system); the numbers and texts of payloads, progress callbacks,
logging, constants; most of `services/fs/utils.js`, which nothing calls; the handler registries of
SUBSCRIBE and the service channel (a free choice in Dispatch).

Nothing of the plan is left. Of the hazards that `PROJECT.json` lists without a property one is proved outside the runs
(`MapSwept`); the other three are gaps the code leaves open and promises nothing about: a slave keeps
the master it has learnt, the old target is removed before the rename, and after a rebuild the handler of the old read loop goes on.
