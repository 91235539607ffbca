# Formal model of the downloader and its tunnel

This directory holds TLA+ modules that model the programs of this repository: the
download engine (`pkg/engine`) with its command line (`cmd/dlengine`), the JNI library
and the Android queue above it (`cmd/libdlengine`, `DownloadQueueManager.java`), and the
tunnel (`pkg/tunnel`). TLC configurations check them on small instances, and TLAPS
proofs about each of them hold for every instance. `PROJECT.json` maps
each definition to the source lines it stands for and lists runs, mutants,
findings, hazards and theorems.

To check a run: `tlc -config core_safety.cfg MCResumableDownload`. To check the
proofs of a module: `tlapm ResumableDownloadProofs.tla`, and so for
`ResumeProofs`, `ChunkLayoutProofs`, `PrefetchStreamProofs`, `DownloadSessionProofs`,
`DownloadQueueProofs`, `TunnelManagerProofs` and `LeastElements`.

## The system

| Component | State it keeps | Operations | Talks to |
|---|---|---|---|
| Resumable download (`fd_sink.go`, `worker.go`, `checkpoint.go`) | chunks, job channel, workers, checkpoint in memory and on disk, destination file | `DownloadToFileWithResume`, workers, pause by context, restart | server, file system, tracker |
| Chunk layout (`chunk.go`, `checkpoint.go`) | none | `CalculateChunks`, `IsResumeValid` | the two above |
| Stream (`stream_sink.go`) | slots, current chunk, closed flag, condition variable | `Read`, `Close`, prefetch workers | server, reader |
| Sinks without resume (`file_sink.go`, `fd_sink.go`) | destination file | `DownloadToFile`, `DownloadToFD` | same workers |
| Progress tracker (`progress.go`) | counters, ticker | `AddBytes`, `SubBytes`, `Snapshot`, `Stop` | caller's callback |
| Probe (`probe.go`) | none | HEAD, ranged GET, test request, retries | server |
| CLI (`cmd/dlengine`) | last event | probe, one call of the engine, events, exit | terminal |
| JNI library (`cmd/libdlengine`) | registry of tasks | start, pause, cancel | engine, Java callbacks |
| Android queue (`DownloadQueueManager.java` and its database) | tasks and their status | enqueue, pump, pause, resume, cancel, callbacks, network changes | JNI library, SQLite |
| Android user interface, browser, storage helpers | views | presentation | queue |
| Tunnel manager, SSH pool, SOCKS5, DNS, VPN (`pkg/tunnel`) | status, clients, connections, cache, child process | start, stop, retry, accept, query | network, processes |
| Tunnel front ends (`cmd/wstunnel`) | window | start, stop | tunnel manager |
| Python SDK (`python/dlengine.py`) | child process | run, stream, parse events | CLI |

What is hard in it, and what makes each part correct:

- **Resumable download.** Workers write to one file through separate offsets, count
  into shared chunks, and copy the chunks into a checkpoint while others go on.
  Retries continue in the middle of a chunk. A pause may fall between any two
  steps, and so may the end of the process. Correct means: one writer for a chunk;
  what is counted is in the file; the checkpoint promises nothing else; success
  means the whole file; a pause loses nothing; the call returns.
- **Chunk layout.** Two functions in two files have to agree on what a layout is.
- **Stream.** One condition variable serves the reader and the workers; the
  reader moves the window the workers wait for. Correct means: in order, complete,
  bounded memory, nobody asleep for ever.
- **Tracker.** A ticker goroutine and a final snapshot from the caller; the counter
  is corrected on failures while others add to it.
- **Command line.** The engine, the tracker's ticker and `main` all write events; the
  server may answer the probe and the requests differently. Correct means: the last
  event is the outcome, "completed" means the whole file, and every run ends.
- **JNI library and Android queue.** A goroutine for each task outlives the call
  that stopped it; its callbacks arrive after the user did something else. Correct
  means: no more downloads than places, no place held by nobody, no removed task that
  comes back, and a queue that moves.
- **Tunnel.** Start, stop and retries in several goroutines; resources created
  while they are being closed. Correct means: one listener, nothing left after a stop,
  and no goroutine that waits for ever.

## Modules

| Module | What it is |
|---|---|
| `ResumableDownload` | `DownloadToFileWithResume` with its workers, checkpoint, single-connection path and environment |
| `MCResumableDownload` | layouts for TLC |
| `ResumableDownloadProofs` | theorems about `ResumableDownload`: types, owners, the bytes in the file |
| `ResumeProofs` | more of them: the tracker, what a session hands on, what a failure needs |
| `LeastElements` | a lemma about natural numbers that two of the proof modules share |
| `ChunkLayout`, `MCChunkLayout` | the loop of `CalculateChunks`, `NewCheckpoint` and the layout half of `IsResumeValid` |
| `ChunkLayoutProofs` | theorems about `ChunkLayout` |
| `OrderedStream` | abstract specification: what a reader of a stream may see |
| `PrefetchStream`, `MCPrefetchStream` | `prefetchStreamReader` |
| `PrefetchStreamProofs` | theorems about `PrefetchStream`, the refinement of `OrderedStream` among them |
| `Probe` | `Probe` of the engine against the kinds of servers there are |
| `ProgressTracker` | counters, ticker and `Stop` |
| `DownloadSession`, `MCDownloadSession` | one run of the command line: extends the two above with the sinks without resume and the events |
| `DownloadSessionProofs` | theorems about `DownloadSession` |
| `NativeTasks` | the registry and the goroutines of the JNI library |
| `DownloadQueue`, `MCDownloadQueue` | `DownloadQueueManager`, its table and `NetworkMonitor`, on top of `NativeTasks` |
| `DownloadQueueProofs` | theorems about `DownloadQueue` |
| `SSHPool` | SSH clients and the pool |
| `SocksServer` | the SOCKS5 server, which dials through `SSHPool` |
| `VPNController` | the tun2socks process, its monitor and the routes |
| `TunnelManager`, `MCTunnelManager` | the manager, composed with the three above |
| `TunnelManagerProofs` | theorems about `TunnelManager` |

An operator whose name ends in `_BUG` stands before the operator it
would replace. It is that operator with a plausible mistake. `PROJECT.json`
("mutants") names, for every property of a passing run, a mistake that the
property notices.

### ResumableDownload

| State | Code |
|---|---|
| `main`, `result` | where the call is: before or after it (`idle`), the file opened (`opened`), `wg.Wait` (`workers`), after it (`waited`), `RemoveCheckpoint` (`cleanup`), the single-connection copy (`single`) |
| `paused`, `stopped`, `downloadErr` | `ctx`, `workerCtx`, `errOnce` |
| `chunks`, `jobs`, `worker` | `[]*Chunk`, the closed channel, the goroutines with the locals of `downloadChunk` and `attemptDownloadChunk` |
| `counted` | `ProgressTracker.downloadedBytes` |
| `cpMem`, `cpId`, `cpMu` | the `Checkpoint` in memory, the ETag and Last-Modified it stores, and the mutex around its use |
| `file`, `disk` | destination and `.dlstate.json`; they survive `Crash` |
| `version`, `headers`, `ranges` | the server: the contents it serves, which of ETag and Last-Modified it sends, and `Accept-Ranges` |
| `requested`, `renamed` | who made the file of the requested name, and whether `file` is another, `name (n).ext` |
| `crossed` | history: a session continued in another file than the one before it wrote |
| `mixed` | history: a session continued a download of other contents, for nothing told them apart |

Each step ends where another goroutine, or the end of the process, can
interfere: reading from the body, writing to the file, counting, taking `cpMu`, copying
one field of one chunk, renaming the checkpoint. A file offset holds the
version and offset of the byte in it, so a byte in a wrong place or of other contents
is told apart. `Save` is all or nothing (temporary file and rename), and its
error is ignored, as in the code.

`AutoRename` is on by default (`options.go:93`). A session that starts afresh then writes
beside a file of the requested name, while one that resumes opens the requested name
whatever the last session wrote to (`fd_sink.go:74`). After such a crossing the file is
another one; what it holds is taken to be holes and nothing is claimed about it: the
properties about contents except `crossed`. The run `renamed_resume` shows what
happens there. The event `existing` puts a user's file in the way at the start.

`SameContent` is the comparison of `IsResumeValid` (`checkpoint.go:145-152`): a stored ETag
has to be the ETag sent now; a stored Last-Modified counts only if one is sent now too. The
length is not compared with anything that changes: all contents of the model have the
same. So without such headers, or when the one there was is no longer sent, a session
continues a download of other contents, and `mixed` remembers it. The properties about
contents then say what is still true: every counted byte is in the file, at its place, of
some contents that were served, and contents are mixed only if the checkpoint has no ETag
(`NotNoticed`).

The environment: `pause`, `crash` (of the process), `update` (new contents between
two sessions), `transient` (refused or dropped connections, 5xx, stalls), `fatal`
(4xx that is not retried), `full` (200 instead of 206), `short` (a body that ends
early), `diskfull`, `savefail`. `Events` selects among them and `Budget` bounds
how many happen. With `Flapping` the server may return to earlier contents or
lose its ranges or its headers between sessions, as several back ends behind one name do.

Abstracted: how long a back-off lasts, sizes of reads (any split of the body), all other
headers, the probe's own failures (they return before any state changes), creation of
directories, the text of an ETag or a date (a header names the contents, or is not sent; one
that two contents share tells as little as none). `NewCheckpoint` and the truncation come
before the first save and in the order of the code.

### ChunkLayout

One action for each turn of the loop. After it a checkpoint is made, and what is loaded
may differ from it in any one field of any one chunk or in the number of chunks.
Integers are unbounded: a length above 2^62, where `start + chunkSize` would
wrap, is left out.

### PrefetchStream and OrderedStream

Code that runs with `slotsMu` held is one step; `Cond.Wait` is a state `asleep`
that only a broadcast leaves. A wake-up leads to the loop head again. `Deliver`,
`CancelStream`, the watcher and the finisher are separate, so that a cancellation or `Close`
falls between them. A buffer holds the offsets from where the last attempt began,
because the retry has a new buffer and continues after what the chunk counts.

`OrderedStream` promises: bytes in order, none twice; end of stream after all of them,
but for those in `lost`, or after `Close`; no data after an error. It says what the
sequence handed out so far is like (`Prefix`: sorted, of the first `n` bytes, none of them
lacking but lost ones), not how it comes about. `PrefetchStream` implements it with
`open <- ~closed` (`InOrder`). `lost` are the bytes an attempt had
received before it broke off: the code loses them (`stream_retry`), and nothing else.

### DownloadSession with Probe and ProgressTracker

`main` is the goroutine of `main.go` inside its own probe, the engine's second probe, the
sink and the end; `workers`, `jobs`, `failed`, `ready` are the engine's goroutines; `ticker`
is the goroutine of the tracker, which takes a snapshot and reports it in two steps; `event`
is the last JSON event, and the last snapshot. A part comes in two pieces (the bound
`PartLength`), so an attempt may break off inside it: `have` is what the part counts, `from`
where its last attempt began. `RollBack` takes the pieces of the attempt back from the
tracker, the next attempt continues after `have`, and `Lost` are the pieces that were taken
back. The offsets of the bytes are `ResumableDownload`'s subject, and the window of a stream
`PrefetchStream`'s; the panic of the latter (`stream_close`) appears as `main = "dead"`.
`file` has a length and the set of parts that are right.

A server is a record: gone, no HEAD or normal; sends a length or not; advertises ranges
or not; honours them or not; tells the total or not. `Probe` derives from it what the
code would, and the requests of the workers are answered by the same record. Which name the file
gets is in `ResumableDownload`, where it matters. The command line reports the
requested name also when another was chosen (`cmd/dlengine/main.go:316`, against
docs/PYTHON_GUIDE.md:69); names in events are not modelled.

### DownloadQueue with NativeTasks

`listed`, `status` and `rows` are `mTasks`, the status field and the status column. The
threads are the main thread (user actions and posted runnables), the thread of the
connectivity callbacks, the thread that enqueues, a queued executor task for each native start
(`launching`) and the goroutines (`runs`), which call back. `monitor` is the lock of the
synchronized methods: `pumpQueue`, `resumeAll`, `stopAll`, `cancelAll`, `deleteAll`; nothing
else takes it, so callbacks and pauses fall between the steps of a pump. `tasks` is the
registry of the library, which names one run for each task although several may run.

A status and its row are set in one step: no other thread reads the one and writes the other
in between in a way a property here tells apart. The variants with a descriptor and with a
path are one. `removeTask` is two steps: `Drop` takes the task out of `mTasks`, `DropRow`
deletes its row. A restart between them loads the row again, and the task is back in the
list; meanwhile `RowsAreListed` excepts it (`Removing`). `unpumped` is history: a place was
given up by a removal, a failed start or a restart, and no pump ran since.

### TunnelManager with SSHPool, SocksServer and VPNController

`runs` are the goroutines in `runTunnel`, `parallel` the goroutine each of them starts for
its second connection, `stop` the caller inside `Stop`, `starts` the calls of `Start` that are
on their way. `mu` is a variable because `cleanup` and `runTunnel`
hold it over calls that wait; so is `poolOwner`. In `SSHPool` a client that is dialling
holds its lock for reading, so `Close` of the pool waits for the dial. In `SocksServer` each
connection has its goroutine and its two pipes. `VPNController` has no lock around its
commands, and neither has the model: the process, `active`, `cmd` and the routes change
one by one.

One step: the check of the state in `Start` with its write of `cancelFn`. One `Stop` at a
time. `reconnect` is the `onFailure` callback, which no code calls; it is left out, as are the host
route, the settings of the adapter, telemetry and DNS answers.
Ids of clients, processes and runs are used again once nothing refers to them, ids of servers
once they have drained and no connection names them (`Fresh`).

`Toggle` is what the user does: `Start` only while nothing is active, `Stop` in every
state, for the window is closed (`native_gui.go:575`), the program ends (`main.go:73`) and
the server's endpoint is called (`server.go:121`) in any. `proxy` is the registry setting, the flag
`sysProxyOn` and `left`: a clear that failed, whose error nobody looks at
(`manager.go:307`), so that the setting stays (event `proxyfail`; setting it may fail too).
The commands for routes and processes are taken to return; their errors the code ignores,
and the model has none.

## Runs

| Run | Checks | Instance |
|---|---|---|
| `core_safety` | `TypeOK`, `OneWriterPerChunk`, `DownloadedOnDisk`, `CheckpointBacked`, `SuccessComplete`, `TrackerCoversAttempts` | 2 workers (symmetric), 3 chunks of 2, 1 and 1 bytes, 1 retry, 2 versions, servers with an ETag, a date or neither, AutoRename, flapping server, 3 events of 9 kinds; 3,180,634 states |
| `core_pause` | `TrackerNeverOverstates`, `NeverLosesProgress`, `ResumeLosesNothing`, `CallReturns` | 3 chunks of 3, 1 and 1 bytes, 1 retry, 3 events of 5 kinds, without crash or update; 240,747 states |
| `core_retry` | `FailureNeedsCause`, `RetriesSuffice` | 3 chunks of 2, 2 and 1 bytes, 2 retries, with and without an ETag, 3 events of 4 kinds, flapping server; 522,372 states |
| `layout` | `TypeOK`, `TilesSoFar`, `FreshLayoutAccepted`, `AcceptedLayoutTiles` | lengths -1..18, preferences -1..6, concurrency 0..2, limits 2 and 4; 187,596 states |
| `stream` | `TypeOK`, `PrefetchBounded`, `InOrder`, `ReadReturns`, `WorkersReleased`, `StreamEnds` | 2 workers, 4 chunks of 2 bytes, window 2, 1 retry, 2 events of 5 kinds; 291,687 states |
| `session` | `TypeOK`, `CompletedIsWhole`, `LastProgressIsFinal`, `TerminalIsLast`, `SessionEnds` | 2 parts of 2 pieces, 2 workers, 1 retry, 3 modes, 7 servers, 2 events of 8 kinds; 301,509 states |
| `queue` | `TypeOK`, `ConcurrencyBounded`, `PlaceIsUsed`, `RowsAreListed`, `QueueMoves` | 2 tasks, 1 place, 2 goroutines, 2 events of 12 kinds; 526,007 states |
| `tunnel` | `TypeOK`, `SoleListener`, `NoneSurvivesClose`, `OrphansAreLate`, `CalmStopCleans`, `StopReturns`, `CancelledRunEnds`, `ConnsEnd` | 2 runs, 3 clients, 2 servers, 1 connection, 2 processes, 2 settings, 3 events of 10 kinds; 698,884 states |

Why the bounds are enough: two workers are needed for a race and the third chunk
keeps one in the queue; one chunk of several bytes is enough for an attempt that fails in
the middle and for a resume in the middle; three events allow a fault, a crash and a
change of contents in one history, and a second session after the first; a window of one and more
chunks than the window make workers sleep while the reader does. In `core_safety` the workers are
interchangeable (symmetry): they differ only by name, no other constant names one, and the run
checks no liveness. The layout
run has lengths on both sides of every threshold, the 2 MiB and 64 MiB limits scaled.
Two tasks compete for one place, and two goroutines allow a second run of one task beside
the first; two events are a user action and what overtakes it. The tasks are
interchangeable, so the one called `t2` is never the first to be enqueued (constraint
`InOrder`). Two runs of the manager allow
a new one to start while an old one ends; a third client makes a late one possible while
two are in a pool; three events are a start, a stop and a fault. Two parts and two
workers let one part fail beside another, and two pieces let an attempt break off between
them; the servers cover each branch of the probe.

Deadlock is checked in the core runs: a call that has returned can always be
made again. It is not checked for the others, which really may stop: a layout is
computed, a stream and a run of the command line end, and the queue and the tunnel rest when
nothing is left to do and nobody does anything.

### Runs that find a statement violated

Each is a statement of the documentation or of a comment that the code does not
keep. Details and lines are in `PROJECT.json` ("findings").

| Run | Statement | What happens |
|---|---|---|
| `stuck_chunk` | android/README.md:10, resume at exact offsets after a restart | all bytes there but not completed: no later session can request or finish the chunk |
| `renamed_resume` | options.go:68 and `TestAutoRenamePreservesExistingFile`, an existing file is kept | the first session writes to `name (1)`, a pause, and the session that resumes writes into the file that was there before |
| `stream_retry` | stream_sink.go:235, README.md:21 | a retry in the middle of a chunk loses its first bytes for the reader |
| `stream_close` | stream_sink.go:334 | a delivery after `Close` writes to a nil map and panics |

The theorems about contents assume a server that does not flap, or AutoRename. Without
either a checkpoint rejected today stays on disk while the destination is truncated
(`fd_sink.go:85`), the single-connection path never replaces it, and when the
server answers as before the next session trusts it and returns success with holes. With AutoRename the
new session writes to another file, and the one the checkpoint describes stays whole.

Weaker points that are in the models without a run of their own:

- Bytes rolled back after a failed attempt stay in the file and are not counted
  again (`worker.go:67` and `96`), so the counter may end below the length, against
  "100% accurate" (README.md:17). `TrackerNeverOverstates` is the half that holds, and
  `LastProgressIsFinal` says by how much the last progress event falls short: exactly `Lost`.
- A prefetched stream in which an attempt broke off inside a part reports "completed" although the
  part lacks its beginning (`stream_retry`); `CompletedIsWhole` excepts exactly that.
- `SyncFromChunks` reads `Downloaded` and `Completed` under two locks
  (`checkpoint.go:83`). A completion in between saves a state `IsResumeValid` rejects,
  and a crash before the next save makes the download start over.
- The single-connection path does not retry (`fd_sink.go:278`), against README.md:16.
- The same path takes any end of body for the end of the file (`fd_sink.go:324`) and
  returns success for a part of it. `SuccessComplete` speaks of what came (`Delivered`): for a
  success in ranges that is all, for this path what came before the end of the body.
- A server that sends neither ETag nor Last-Modified, or stops sending the latter, and whose
  contents were replaced by others of the same length: the next session resumes over the new
  contents (`checkpoint.go:147-152`) and returns success for a mixture (`mixed`). A stored ETag
  excludes that. No text of the repository claims more, so no run does.
- A pause of a task between its status and its native start finds no run to pause: the
  download goes on while the task is PAUSED, and a resume starts a second run of it.
- A restart between `mTasks.remove` and `deleteTask` brings a removed task back into the list.
- A removal and a failed native start give up a place and do not call `pumpQueue`; the
  next task waits for another event. `QueueMoves` excuses exactly that (`unpumped`).
- Tasks paused because Wi-Fi was lost stay paused when it returns.
- A `Stop` that overlaps the last steps of a run may leave a listener, a client or
  the state CONNECTED behind, until the next `Stop`; `CalmStopCleans` is about a `Stop`
  nothing overlaps.
- The monitor goroutine of a VPN process may put things out of reach of `Stop` (`stray`).
  A process that dies by itself leaves its routes (`vpn_windows.go:197`). And the
  monitor of an earlier process, when it comes late, clears `active` and `cmd` of the newer
  one: the next `Stop` then overlooks a process that is running. The second came up in the proof of
  `CalmStopCleans`; it takes more events than the run has.
- A `Dial` through an SSH client has no deadline (`ssh.go:107`) and holds the client's lock for
  reading. `Close` (`ssh.go:116`) waits for that lock before it could close the connection, so
  `cleanup`, which has `tm.mu`, may wait for ever, and with it every `Stop`: against the comment "to
  prevent any deadlock" (`manager.go:289`). Nor do the SSH handshake (`ssh.go:71`) and the TLS
  handshake (`dialer.go:79`) end by themselves, whatever becomes of the run's context.
  `StopReturns`, `CancelledRunEnds` and `ConnsEnd` except exactly these (`HeldUp`, `dial`, `auth`).
- A clear of the system proxy that fails is not noticed (`manager.go:307`), and the setting
  stays after `Stop` (`proxy.left`).
- A client that the parallel goroutine authenticates after the pool was replaced stays
  open (`late`, the exception of `OrphansAreLate`).
- A stream over one connection ends with the end of the body (`stream_sink.go:21`): what
  came is not compared with the length the probe found, and "completed" is reported for a part of it
  if the response announced no length itself (`UnknownLength`). With two workers such a
  server gets a prefetching stream; with `-c 1` it does not, which the proof of
  `CompletedIsWhole` for any number of workers brought up.

### Fairness

`FairSpec` of `ResumableDownload`: weak fairness of each worker's steps and of the
calling goroutine. The Go scheduler runs what can run; a request or a read that
stalls is ended by the HTTP client or by `idleTimeoutReader` (`worker.go:219`), so
no step waits for ever. Weak fairness of a worker covers `cpMu`: its holder
always goes on to release it, and workers are finite in their work. Environment
events are never fair. `RetryingSpec` adds that whoever wanted the file calls
again; it is used only for the statement about resuming.

`FairSpec` of `DownloadSession`: weak fairness of the main goroutine, of each worker and
of the idle timer. The ticker's select may choose a tick each time its context is also done;
strong fairness says that it takes the end once, as a random choice does.

`FairSpec` of `DownloadQueue`: weak fairness of each thread, of each queued start and of
each goroutine, whose download the engine's own timeouts end. Users, networks and faults are not fair.
Nobody holds the monitor for ever, so weak fairness is enough for those who wait for it.

`FairSpec` of `TunnelManager`: weak fairness of `Progress`, the union of all steps of
goroutines that can run. That is less than the scheduler gives, and enough, because
none of them can go on for ever alone. The answers of the far side are not in it (`Waits`: the
dial and the handshakes of a run; `ParConnect`: those of its second connection; a connection that
is `dialling`), for nothing in the code bounds them. The liveness properties of the tunnel
therefore name the answer that never comes as their exception, and assume no other.
The pipes of a connection that nobody closes are not fair.

`FairSpec` of `PrefetchStream`: weak fairness of each worker, of the reader inside a
`Read`, of the watcher and of the finisher. That the reader calls `Read` again, as
`io.Copy` does, is a condition inside `StreamEnds`.

## Proofs

The theorems hold for every value of the constants that satisfies the `ASSUME` of the
module, so for any number of workers, chunks, tasks, runs, connections, retries and
events. TLC evaluates each `ASSUME` in the runs, and has checked each inductive invariant
on the instance of its run before it was proved.

| Module | Theorem | Statement |
|---|---|---|
| `ResumableDownloadProofs` | `TypeCorrect` | `Spec => [](TypeOK /\ WorkersBounded)` |
| | `ExclusiveChunks` | `Spec => []OneWriterPerChunk` |
| | `ProgressKept` | `Spec => NeverLosesProgress` |
| | `CountedBytesInFile` | `Spec => []DownloadedOnDisk`, if `~Flapping \/ AutoRename` |
| | `CheckpointsBacked` | `Spec => []CheckpointBacked`, if `~Flapping \/ AutoRename` |
| | `SuccessMeansComplete` | `Spec => []SuccessComplete`, if `~Flapping \/ AutoRename` |
| `ResumeProofs` | `ClampNeverBites` | `Spec => []TrackerCoversAttempts` |
| | `NothingCountedTwice` | `Spec => []TrackerNeverOverstates`, if no `full` |
| | `ResumeTakesOver` | `Spec => ResumeLosesNothing`, if no `savefail`, no `update`, more than one worker |
| | `FailuresHaveCauses` | `Spec => FailureNeedsCause`, if no `pause`, `crash`, `fatal`, `full`, `diskfull` |
| `ChunkLayoutProofs` | `TypeCorrect` | `Spec => []TypeOK` |
| | `Tiling` | `Spec => []TilesSoFar` |
| | `FreshAccepted` | `Spec => []FreshLayoutAccepted` |
| | `AcceptedTiles` | `Spec => []AcceptedLayoutTiles` |
| `PrefetchStreamProofs` | `TypeCorrect` | `Spec => []TypeOK` |
| | `MemoryBounded` | `Spec => []PrefetchBounded` |
| | `StreamIsOrdered` | `Spec => InOrder`, the refinement of `OrderedStream` |
| `DownloadSessionProofs` | `TypeCorrect` | `Spec => []TypeOK` |
| | `CompletedMeansWhole` | `Spec => []CompletedIsWhole` |
| | `LastProgressShowsEnd` | `Spec => []LastProgressIsFinal` |
| | `NothingAfterTheEnd` | `Spec => TerminalIsLast` |
| `DownloadQueueProofs` | `TypeCorrect` | `Spec => []TypeOK` |
| | `AtMostMaxConcurrent` | `Spec => []ConcurrencyBounded` |
| | `RowsBelongToTasks` | `Spec => []RowsAreListed` |
| | `PlacesAreUsed` | `Spec => []PlaceIsUsed` |
| `TunnelManagerProofs` | `TypeCorrect` | `Spec => []TypeOK` |
| | `OneListener` | `Spec => []SoleListener` |
| | `CloseLeavesNone` | `Spec => []NoneSurvivesClose` |
| | `OrphansCameLate` | `Spec => []OrphansAreLate` |
| | `CalmStopUndoesAll` | `Spec => []CalmStopCleans` |

`LeastElements` has the lemma that a non-empty set of naturals has a least element. An
argument that would go by induction over chunks, slots or the number of tasks takes the
first one that breaks the rule instead.

### The resumable download

The assumptions on the constants are `ParameterAssumption` and `LayoutAssumption`:
the layout tiles the resource. That is what `Tiling` and `FreshAccepted` prove of
`CalculateChunks`, and `AcceptedTiles` of every checkpoint that is loaded. The assumption
on the server is needed: with `Flapping` and without `AutoRename` TLC finds
`SuccessComplete` violated, as described above. Nothing is assumed about headers: the theorems
hold for servers without any.

The invariant is built in layers, each inductive given those before it:

- `TypeOK` is not inductive alone: `attempt <= MaxRetries` and the offsets of a worker
  depend on where it is. `WorkersBounded` bounds the locals by program counter.
- `Ownership` adds to `OneWriterPerChunk` that outside a session no worker runs and that
  the queue has no completed chunk.
- `Counts`: what a chunk counts is where its attempt began plus what it has read,
  clamped to the chunk. Without it a retry could start elsewhere than its writer.
  These three are `Control`; `NeverLosesProgress` follows from them.
- `BytesWritten`: between write and count, the last bytes read are in the file.
- `Session`: a session works for one version, that of its checkpoint unless contents are
  `mixed`, and the checkpoint in memory never counts more than the chunks.
- `Backing`: what is counted, in memory or on disk, is in the file, unless sessions crossed;
  of the contents it was made for, unless `mixed`, and that only without a stored ETag. A session
  that accepts a checkpoint with an ETag has the contents the ETag names, and so mixes none.
  Without flapping, checkpoints on disk are never of a later version than the server's, and
  so one that was rejected is never accepted again. With AutoRename that is not so, and
  another argument takes its place: `Belongs`. While no session wrote to another name, the
  requested file was made by a session, and holds what the checkpoint counts, of the
  version the checkpoint names (`Held`), also while that version is not served; a session
  that rejects the checkpoint is thereby one that is renamed. With `Control` these are `Data`.
- `Accounted`: while nothing has failed, every chunk is completed, queued or in hand,
  so an empty queue and workers that have left mean that all is there.

Each step lemma has one case for each action. What a step of a worker may do to the
others is stated once and cited in the cases.

`ResumeProofs` builds on `Control` and `Session`.

- Sums. `MapThenSumSet` is a fold, a function over subsets that is defined by recursion. Its
  equation is `IsSum`; that a function with this equation exists (`SumExists`), and how a sum
  moves with one of its terms (`SumAdds`), is shown by a smallest subset for which it
  would not hold. `Covered`: the counter is at least the sum of what the attempts have read;
  each step moves both by the same amount or takes back no more than its own part. `Modest`: it
  is at most the sum of what the chunks count. That needs `BodyFits`: the body of an attempt is
  the rest of its chunk. A server that ignores `Range` breaks it: the body is counted whole and
  the chunk clamped, so the theorem excludes `full`.
- `ResumeTakesOver` needs `MutexHeld` (who copies or saves the checkpoint has `cpMu`) and
  `Persisted`: a completed chunk is on disk and in the checkpoint in memory as it is, or a worker
  that has yet to copy it, or has copied it and will save it, is under way (`WillSave`). When all
  workers have left without an error there is no such worker and, by `NothingForgotten`, no
  chunk that is not completed. So a pause that arrives between the last save and the return
  finds the checkpoint whole, although nothing is saved for it. `savefail`,
  `update` and a single worker (which may mean one stream) are excluded since they do
  lose progress; crashes, rejected ranges and full disks are not.
- `FailuresHaveCauses` needs `CauseInv`: within the retries no worker has failed, the attempt
  number of each is at most the number of faults so far, and smaller if its body has
  just ended early. And no worker holds, and the queue does not have, a chunk whose bytes are all
  counted but that is not completed: such a chunk runs through its retries without a
  request. A pause or a crash may leave one behind (`stuck_chunk`), so they are excluded.

### The layout

`LayoutParameters`: any integers as length, preference and concurrency, a default
concurrency of at least one, and `0 < MinChunk <= MaxChunk`, as `chunk.go` has them.
`TilesSoFar` is the loop invariant and inductive with `TypeOK`. `FreshLayoutAccepted` follows
from it when the loop is left: the checkpoint has the same pieces. For
`AcceptedLayoutTiles` the validity check says of each stored chunk only where it has to begin
after the one before it; the first offset no chunk covers, or the first chunk that begins
before its predecessor ends, would contradict it.

### The stream

`WindowInv` says that a chunk in the hands of a worker is its alone, that the reader has
not come to it, and that whatever is being fetched or is full lies within `MaxPrefetch` of
the reader. The chunks in memory thereby have different places in a window of that size:
`PrefetchBounded` counts them.

For the refinement `Attempts` and `UntakenWhole` say what a buffer holds: the chunk from where
the last attempt began, everything before being in `lost`. `SlotsWhole` says it of a slot.
`ReadSoFar` has a position `pos`: what was handed out is `Prefix(out, pos, lost)`, and `buf`
holds the rest of the chunks taken. A step of the reader is then `Emit`, `Finish` or `Fail` of
`OrderedStream`, a retry is `Lose`, and nothing else is visible.

### The session of the command line

`SessionAssumption` admits every set of the 48 kinds of servers and any number of parts and
workers. `IInv` has fourteen parts, one for each thing that is decided somewhere: what the probe
can have found (`InfoHeld`), what has been decided when `main` is where it is
(`PhaseHeld`), who may still emit (`EventHeld`). The argument for `CompletedIsWhole`:

- a part is in one worker's hands, or in `ready`, or was never taken (`PartsHeld`);
- a part that is ready has all its pieces (`PiecesHeld`);
- a server that does not keep to its ranges, or names no total, has no part accepted
  (`LiesHeld`), so whatever is in `ready` came from the right place;
- as long as nothing failed, no part was dropped: a worker that has left means that no
  job is left (`MultiHeld`), and so an empty queue and idle workers mean that all have come;
- a stream copies parts in order from `ready`, and a part is right there if one attempt got
  all of it (`PrefetchHeld`); one response comes in order (`SingleHeld`).

For `LastProgressIsFinal`, `CountsHeld` ties the tracker's counters to `ready` and the workers: the
pieces counted are those of each part between `from` and `have`, so what is missing at the end
is what lies before `from`, `Lost`. And
the snapshot that `Stop` reports is taken after the ticker has ended and the workers
have left, so that nothing can come after it. That no event follows the last one is
`EventHeld`: a ticker lives only while `main` is in the engine.

### The queue

`QueueAssumption`, `NativeAssumption` (a finite, non-empty set of tasks) and
`NoneAssumption` (`None` is no task, thread or status).

- `MonitorInv`: whoever is inside a synchronized method holds the monitor. One pump at a time.
- `CountInv`: the count a pump took is never below the number of tasks that are
  `DOWNLOADING`, since only a pump makes one so; all that happens beside it makes them fewer.
- `RowsInv`: a row belongs to a listed task, to one whose insertion is on its way, or to
  one taken out of the list whose row is about to be deleted. A task
  `cancelAll` is about to drop has lost its row. The property used to leave out the time of
  `cancelAll`; the proof showed that this is not necessary.
- `PlaceInv`: a `DOWNLOADING` task has a queued start, a run that will report (`Healthy`), or a
  thread that is about to mark or drop it. It needs `RegistryInv` (an entry of the registry is a
  run of that task, and what is paused is cancelled) and that a sweep reaches every task that
  was downloading when it began.

### The tunnel

The assumptions only keep apart what the code keeps apart: `None` is no client, server or
run, `NoProc` no process, `"stop"` no run (`ClientsAssumption`, `ServersAssumption`,
`ProcsAssumption`, `RunsAssumption`).

- `LockHeld`: between the steps of `cleanup`, and of the replacement of a pool, `mu` is held,
  so neither finds the other half done. From that `SoleHeld` (a `Stop` that has closed the
  listener finds none open) and `PoolHeld` (a replaced pool has no client but late ones).
- `ConnsHeld`: a connection with an open socket is in the map of its server, unless the accept
  loop has not looked at it yet, and nothing is in the map once `Close` has walked over it.
- `CalmStopCleans` needs more. `QuietHeld`: while a `Stop` is calm no run is anywhere.
  `HalvesHeld`: what is done in two steps and only half done belongs to a goroutine between them
  (a process not yet in `cmd`, an opened DNS socket not yet in its field, a proxy that is set and
  not noted). `CleanHeld`: what each step of `cleanup` has undone. `VPNHeld`: the starting
  flag keeps runs apart in the controller's `Start`; a running process is in `cmd`, or on its way
  there, or about to be killed, or `stray`; and so for the routes. A proxy that is still set
  after such a `Stop` is one whose clear failed (`proxy.left`).

### Only model-checked

- All liveness properties: fairness and `ENABLED` are outside the prover.
- The four statements of the documentation and of a test that TLC refutes.

## Not modelled, and why

- `DownloadToFD`: the body of `DownloadToFileWithResume` on a descriptor; the queue uses it as
  a run of `NativeTasks`.
- A resource replaced while a session runs: `ServerUpdate` happens between sessions. The
  requests carry no `If-Range`, so such a replacement would mix contents. The
  invariants about contents hold for a server that does not do that.
- The end of the machine rather than of the process: `Crash` keeps everything written.
- A file that another program creates between the choice of a free name and the `OpenFile`
  (`file_sink.go:233`): two steps on a directory nobody else in the program uses.
- A file opened for a resume that another process has shortened or changed meanwhile.
- Removal of checkpoints and files by a cancel of the JNI library, and the conversions of the bridge.
- Answers of the DNS proxy and their cache, the speed loop, keep-alives and telemetry: they
  share no state with what is modelled.
- Options, constructors, flag parsing, drawing, the Android presentation, the notification
  service: no state that another part can disturb.
- The Python SDK: what is hard in it are the pipes to its child process, outside the Go code.

## Plan

The models are complete as planned, and every invariant and action property of the runs is
a theorem. What could still be said:

1. That nobody waits for ever, as invariants instead of liveness: whoever holds `cpMu`, the
   monitor of the queue or `mu` of the manager has a next step, for any number of
   waiting goroutines. `MutexHeld`, `MonitorInv` and `LockHeld` are half of it.
2. Weaker conditions: `ResumeTakesOver` with one worker as long as the requests are ranged, and
   `FailuresHaveCauses` with pauses that leave no completed body behind.
3. Theorems about the modules that are so far proved only as part of the tunnel (`SSHPool`,
   `SocksServer`, `VPNController`) and the queue (`NativeTasks`), stated of them alone.
