------------------------- MODULE ResumableDownload -------------------------
(***************************************************************************)
(* Engine.DownloadToFileWithResume of pkg/engine: a file fetched as byte   *)
(* ranges by concurrent workers, with retries inside a session and a       *)
(* checkpoint file that carries progress from one session to the next.     *)
(*                                                                         *)
(* Parts of the state:                                                     *)
(*   - the call (main, result), its contexts, the error it will return;    *)
(*   - the chunks in memory, the job channel, the workers, the progress    *)
(*     tracker, the in-memory checkpoint and its mutex cpMu;               *)
(*   - what survives the process: the destination file and the             *)
(*     checkpoint on disk;                                                 *)
(*   - the server: the version of the resource it serves, the headers by   *)
(*     which one version is told from another, if it sends any, and        *)
(*     whether it advertises byte ranges;                                  *)
(*   - the names: with AutoRename a session may write to another file.     *)
(*                                                                         *)
(* A file offset holds the identity of the byte written there: the version *)
(* it was served from and the offset it had in the resource.               *)
(***************************************************************************)
EXTENDS Integers, FiniteSets, FiniteSetsExt

CONSTANTS
  Workers,      \* the goroutines of one session (Options.Concurrency)
  NumChunks,    \* length of the layout CalculateChunks returned
  Start, End,   \* first and last offset of each chunk of that layout
  Length,       \* FileInfo.ContentLength
  MaxRetries,   \* Options.MaxRetries
  MaxVersion,   \* bound: contents the server may serve over time
  HeaderSets,   \* which of ETag and Last-Modified a server of this instance may send
  Events,       \* what the environment may do in this instance
  Budget,       \* bound: how many such events happen altogether
  AutoRename,   \* Options.AutoRename
  Flapping,     \* TRUE: a later probe may see earlier contents, other headers, no ranges
  NoWorker      \* nobody holds cpMu

AllEvents ==
  {"pause", "crash", "update", "transient", "fatal", "full", "short", "diskfull", "savefail", "existing"}

Chunks == 1..NumChunks
Offsets == 0..(Length - 1)
Size(c) == End[c] - Start[c] + 1
RangeOf(c) == Start[c]..End[c]

ASSUME ParameterAssumption ==
  /\ Length \in Nat \ {0}
  /\ NumChunks \in Nat \ {0}
  /\ MaxRetries \in Nat
  /\ MaxVersion \in Nat \ {0}
  /\ Budget \in Nat
  /\ HeaderSets \subseteq SUBSET {"ETag", "Last-Modified"}
  /\ Flapping \in BOOLEAN /\ AutoRename \in BOOLEAN
  /\ Events \subseteq AllEvents
  /\ Workers # {} /\ IsFiniteSet(Workers) /\ NoWorker \notin Workers

\* What IsResumeValid demands of a layout and CalculateChunks delivers (the
\* module ChunkLayout checks that it does): the ranges tile the resource.
ASSUME LayoutAssumption ==
  /\ Start \in [Chunks -> Offsets]
  /\ End \in [Chunks -> Offsets]
  /\ \A c \in Chunks : Start[c] <= End[c]
  /\ \A c, d \in Chunks : c < d => End[c] < Start[d]
  /\ \A o \in Offsets : \E c \in Chunks : o \in RangeOf(c)

VARIABLES
  main,        \* where the calling goroutine is
  result,      \* what the last call returned
  paused,      \* the caller's context is cancelled (pause, cancel, timeout)
  stopped,     \* cancel() of the workers' context was called
  downloadErr, \* errOnce has recorded an error
  chunks,      \* []*Chunk: Downloaded and Completed of each
  jobs,        \* the closed jobs channel; it was filled in index order
  worker,      \* the worker goroutines
  counted,     \* ProgressTracker.downloadedBytes
  cpMem,       \* Checkpoint.Chunks in memory
  cpId,        \* Checkpoint.ETag and .LastModified in memory
  cpMu,        \* holder of cpMu
  file,        \* the destination file
  disk,        \* the checkpoint file
  version,     \* the content the server serves
  headers,     \* what the server sends that names the content
  ranges,      \* the server advertises Accept-Ranges: bytes
  requested,   \* who made the file of the requested name: "nobody", a "session", the "user"
  renamed,     \* `file` has another name, "name (n).ext"
  crossed,     \* history: a session continued in another file than the last one wrote
  mixed,       \* history: a session continued a download of other contents
  budget       \* environment events still to come

session == <<main, result, paused, stopped, downloadErr>>
memory  == <<chunks, jobs, counted>>
ckpt    == <<cpMem, cpId, cpMu>>
server  == <<version, headers, ranges>>
names   == <<requested, renamed, crossed, mixed>>
vars == <<session, memory, worker, ckpt, file, disk, server, names, budget>>
-----------------------------------------------------------------------------
Versions == 1..MaxVersion
Hole == [ver |-> 0, off |-> 0]
Byte(v, o) == [ver |-> v, off |-> o]

ChunkState == [downloaded : 0..Length, completed : BOOLEAN]
FreshChunks == [c \in Chunks |-> [downloaded |-> 0, completed |-> FALSE]]

\* What NewCheckpoint keeps of the probe: the content, as far as headers name it.
Identities == [ver : 0..MaxVersion, headers : SUBSET {"ETag", "Last-Modified"}]
Identity == [ver |-> version, headers |-> headers]
NoIdentity == [ver |-> 0, headers |-> {}]
NoCheckpoint == [id |-> NoIdentity, st |-> FreshChunks]

\* A worker's program counter and the locals of downloadChunk and
\* attemptDownloadChunk: attempt, the writer's offset, requestStart,
\* totalRead, the bytes the response body holds, those just read, and the
\* loop index of SyncFromChunks.
Attempt(pc, c, a) == [pc |-> pc, chunk |-> c, attempt |-> a, woff |-> 0, req |-> 0,
                      read |-> 0, body |-> 0, n |-> 0, idx |-> 1]
Locals(pc) == Attempt(pc, 1, 0)

Active == {"attempt", "request", "read", "write", "count", "ended"}
Syncing == {"syncD", "syncC", "save"}

CtxDone == paused \/ stopped

Spend(e) == e \in Events /\ budget > 0 /\ budget' = budget - 1

TotalDownloaded(cs) == MapThenSumSet(LAMBDA c : cs[c].downloaded, Chunks)
-----------------------------------------------------------------------------
(* Starting a session. A definition whose name ends in _BUG is the one      *)
(* after it with a plausible mistake, used to see the properties notice it. *)

\* An ETag is compared when there was one, a Last-Modified when both have one.
\* A header that two contents share tells as little as one that is not sent.
SameContent_BUG(id) == "Last-Modified" \in id.headers \cap headers => id.ver = version
SameContent(id) ==
  /\ "ETag" \in id.headers => "ETag" \in headers /\ id.ver = version
  /\ "Last-Modified" \in id.headers \cap headers => id.ver = version

(* The checkpoint accepts a resume: nothing says that the content is another *)
(* one, and every chunk's counts are consistent.                            *)
IsResumeValid(cp) ==
  /\ ranges
  /\ cp # NoCheckpoint
  /\ SameContent(cp.id)
  /\ \A c \in Chunks : /\ cp.st[c].downloaded <= Size(c)
                       /\ cp.st[c].completed => cp.st[c].downloaded = Size(c)

\* os.OpenFile: a new download truncates, a resumed one keeps the bytes of the
\* requested file. If the last session wrote to another, what this one holds
\* does not matter any more (crossed), and is taken to be holes.
Holes == [o \in Offsets |-> Hole]
OpenToResume_BUG == file' = Holes
OpenToResume == file' = IF renamed THEN Holes ELSE file
OpenTruncated == file' = Holes

\* resolveDestPath. A session that resumes takes the requested name, whatever
\* name the last session wrote to.
RequestedName ==
  /\ renamed' = FALSE /\ crossed' = (crossed \/ renamed)
  /\ mixed' = (mixed \/ disk.id.ver # version)
  /\ UNCHANGED requested

\* A new download takes it too, unless AutoRename finds a file of that name:
\* then it takes the first "name (n).ext" that is free.
FreeName ==
  /\ IF AutoRename /\ requested # "nobody"
     THEN renamed' = TRUE /\ UNCHANGED requested
     ELSE renamed' = FALSE /\ requested' = "session"
  /\ mixed' = FALSE
  /\ UNCHANGED crossed

\* Checkpoint.Save: a temporary file and a rename, so all or nothing. No
\* caller looks at its error.
Save(st) ==
  \/ disk' = [id |-> cpId, st |-> st] /\ UNCHANGED budget
  \/ Spend("savefail") /\ UNCHANGED disk

\* Probe, load the checkpoint, and continue it.
ResumeSession ==
  /\ main = "idle"
  /\ IsResumeValid(disk)
  /\ main' = "workers" /\ result' = "none"
  /\ paused' = FALSE /\ stopped' = FALSE /\ downloadErr' = FALSE
  /\ chunks' = disk.st
  /\ jobs' = {c \in Chunks : ~disk.st[c].completed}
  /\ counted' = TotalDownloaded(disk.st)
  /\ worker' = [w \in Workers |-> Locals("take")]
  /\ cpMem' = disk.st /\ cpId' = disk.id /\ cpMu' = NoWorker
  /\ RequestedName /\ OpenToResume
  /\ UNCHANGED <<disk, server, budget>>

\* No usable checkpoint: the file is new or truncated, and the checkpoint on
\* disk is left as it is.
OpenFresh ==
  /\ main = "idle"
  /\ ~IsResumeValid(disk)
  /\ main' = IF ranges /\ Cardinality(Workers) > 1 THEN "opened" ELSE "single"
  /\ result' = "none"
  /\ paused' = FALSE /\ stopped' = FALSE /\ downloadErr' = FALSE
  /\ chunks' = FreshChunks /\ jobs' = {} /\ counted' = 0
  /\ worker' = [w \in Workers |-> Locals("exited")]
  /\ cpMem' = FreshChunks /\ cpId' = Identity /\ cpMu' = NoWorker
  /\ FreeName /\ OpenTruncated
  /\ UNCHANGED <<disk, server, budget>>

\* NewCheckpoint and the first Save, whose error is ignored.
InitCheckpoint ==
  /\ main = "opened"
  /\ main' = "workers"
  /\ jobs' = {c \in Chunks : ~chunks[c].completed}
  /\ worker' = [w \in Workers |-> Locals("take")]
  /\ Save(cpMem)
  /\ UNCHANGED <<result, paused, stopped, downloadErr, chunks, counted, ckpt, file, server, names>>
-----------------------------------------------------------------------------
(* Workers.                                                                *)

\* A worker returns from its goroutine with an error: errOnce, cancel().
FailWorker(w) ==
  /\ downloadErr' = TRUE /\ stopped' = TRUE
  /\ worker' = [worker EXCEPT ![w] = Locals("exited")]

\* SubBytes of what a failed attempt had counted.
RollBack_BUG(bytes) == counted' = IF counted >= 2 * bytes THEN counted - 2 * bytes ELSE 0
RollBack(bytes) == counted' = IF counted >= bytes THEN counted - bytes ELSE 0

\* The bound of the retry loop, and its step.
MayRetry_BUG(w) == worker[w].attempt + 1 < MaxRetries
MayRetryOnceMore_BUG(w) == worker[w].attempt <= MaxRetries
MayRetry(w) == worker[w].attempt < MaxRetries
NextAttempt_BUG(w) == 0
NextAttempt(w) == worker[w].attempt + 1

\* A retryable error ended the attempt.
RetryOrFail(w) ==
  IF MayRetry(w)
  THEN /\ worker' = [worker EXCEPT ![w] = Attempt("attempt", worker[w].chunk, NextAttempt(w))]
       /\ UNCHANGED <<downloadErr, stopped>>
  ELSE FailWorker(w)

\* Receiving from the channel takes the chunk out of it.
JobsAfter_BUG(c) == jobs
JobsAfter(c) == jobs \ {c}

TakeJob(w) ==
  /\ worker[w].pc = "take"
  /\ \/ /\ jobs = {}
        /\ worker' = [worker EXCEPT ![w] = Locals("exited")]
        /\ UNCHANGED jobs
     \/ \E c \in jobs :
          /\ \A d \in jobs : c <= d
          /\ jobs' = JobsAfter(c)
          /\ worker' = [worker EXCEPT ![w] =
               IF CtxDone THEN Locals("exited")
               ELSE Attempt("attempt", c, 0)]
  /\ UNCHANGED <<session, chunks, counted, ckpt, file, disk, server, names, budget>>

\* Where destFactory puts the writer, and where the request begins.
WriterOffset_BUG(c) == Start[c]
WriterOffset(c) == Start[c] + chunks[c].downloaded
RequestStart(c) == Start[c] + chunks[c].downloaded

\* Loop head of downloadChunk: context check, back-off, destFactory, and the
\* range the next request asks for.
BeginAttempt(w) ==
  /\ worker[w].pc = "attempt"
  /\ LET c == worker[w].chunk
         at == RequestStart(c)
     IN IF CtxDone THEN FailWorker(w)
        ELSE IF at > End[c] THEN RetryOrFail(w)
        ELSE /\ worker' = [worker EXCEPT ![w].pc = "request",
                                         ![w].woff = WriterOffset(c), ![w].req = at]
             /\ UNCHANGED <<downloadErr, stopped>>
  /\ UNCHANGED <<main, result, paused, memory, ckpt, file, disk, server, names, budget>>

\* The server answers 206 with the range that was asked for.
PartialContent(w) ==
  /\ worker[w].pc = "request"
  /\ worker' = [worker EXCEPT ![w].pc = "read",
                  ![w].body = End[worker[w].chunk] - worker[w].req + 1]
  /\ UNCHANGED <<session, memory, ckpt, file, disk, server, names, budget>>

\* The server ignores Range and answers 200 with the whole resource.
FullContent(w) ==
  /\ worker[w].pc = "request"
  /\ Spend("full")
  /\ IF worker[w].req > 0
     THEN FailWorker(w)
     ELSE /\ worker' = [worker EXCEPT ![w].pc = "read", ![w].body = Length]
          /\ UNCHANGED <<downloadErr, stopped>>
  /\ UNCHANGED <<main, result, paused, memory, ckpt, file, disk, server, names>>

\* 400, 401, 403, 404, 410 or 416.
FatalStatus(w) ==
  /\ worker[w].pc = "request"
  /\ Spend("fatal")
  /\ FailWorker(w)
  /\ UNCHANGED <<main, result, paused, memory, ckpt, file, disk, server, names>>

\* No usable answer: refused connection, 5xx, a wrong Content-Range; or the
\* context was cancelled while the request was out.
RequestFails(w) ==
  /\ worker[w].pc = "request"
  /\ \/ CtxDone /\ UNCHANGED budget
     \/ Spend("transient")
  /\ RetryOrFail(w)
  /\ UNCHANGED <<main, result, paused, memory, ckpt, file, disk, server, names>>

\* The context check at the head of the copy loop, then bodyReader.Read.
ReadBody(w) ==
  /\ worker[w].pc = "read"
  /\ ~CtxDone
  /\ \E n \in 1..(worker[w].body - worker[w].read) :
       worker' = [worker EXCEPT ![w].pc = "write", ![w].n = n]
  /\ UNCHANGED <<session, memory, ckpt, file, disk, server, names, budget>>

\* The file after the first n bytes of the last Read are written.
Written(w, n) ==
  [o \in Offsets |->
     IF o \in worker[w].woff..(worker[w].woff + n - 1)
     THEN Byte(version, worker[w].req + worker[w].read + (o - worker[w].woff))
     ELSE file[o]]

WriteBody(w) ==
  /\ worker[w].pc = "write"
  /\ file' = Written(w, worker[w].n)
  /\ worker' = [worker EXCEPT ![w].pc = "count", ![w].woff = @ + worker[w].n]
  /\ UNCHANGED <<session, memory, ckpt, disk, server, names, budget>>

\* dest.Write fails or is short: what it did write is not counted.
WriteFails(w) ==
  /\ worker[w].pc = "write"
  /\ Spend("diskfull")
  /\ \E n \in 0..(worker[w].n - 1) : file' = Written(w, n)
  /\ RollBack(worker[w].read)
  /\ RetryOrFail(w)
  /\ UNCHANGED <<main, result, paused, chunks, jobs, ckpt, disk, server, names>>

\* The argument of SetDownloaded.
Downloaded_BUG(w) == worker[w].read + worker[w].n
Downloaded(w) == worker[w].read + worker[w].n + worker[w].req - Start[worker[w].chunk]

\* SetDownloaded (clamped to the chunk) and AddBytes. The Read that returned
\* the last bytes may have returned io.EOF with them.
CountBytes(w) ==
  /\ worker[w].pc = "count"
  /\ LET c == worker[w].chunk
         read == worker[w].read + worker[w].n
     IN /\ chunks' = [chunks EXCEPT ![c].downloaded =
                        IF Downloaded(w) > Size(c) THEN Size(c) ELSE Downloaded(w)]
        /\ counted' = counted + worker[w].n
        /\ \E pc \in IF read = worker[w].body THEN {"read", "ended"} ELSE {"read"} :
             worker' = [worker EXCEPT ![w].pc = pc, ![w].read = read, ![w].n = 0]
  /\ UNCHANGED <<session, jobs, ckpt, file, disk, server, names, budget>>

\* The body ends: complete, or cut short by the network, a stall that the
\* idle timer turned into an error, or a server that closed early.
EndBody(w) ==
  /\ worker[w].pc = "read"
  /\ ~CtxDone
  /\ \/ worker[w].read = worker[w].body /\ UNCHANGED budget
     \/ worker[w].read < worker[w].body /\ (Spend("transient") \/ Spend("short"))
  /\ worker' = [worker EXCEPT ![w].pc = "ended"]
  /\ UNCHANGED <<session, memory, ckpt, file, disk, server, names>>

\* The copy loop, or the Read inside it, sees the cancelled context.
ReadCancelled(w) ==
  /\ worker[w].pc = "read"
  /\ CtxDone
  /\ RollBack(worker[w].read)
  /\ RetryOrFail(w)
  /\ UNCHANGED <<main, result, paused, chunks, jobs, ckpt, file, disk, server, names, budget>>

\* totalRead against expectedBytes, then MarkCompleted or the roll-back.
FinishAttempt(w) ==
  /\ worker[w].pc = "ended"
  /\ LET c == worker[w].chunk
     IN \/ /\ worker[w].read = End[c] - worker[w].req + 1
           /\ chunks' = [chunks EXCEPT ![c] = [downloaded |-> Size(c), completed |-> TRUE]]
           /\ worker' = [worker EXCEPT ![w] = Locals("lock")]
           /\ UNCHANGED <<counted, downloadErr, stopped>>
        \/ /\ worker[w].read # End[c] - worker[w].req + 1
           /\ RollBack(worker[w].read)
           /\ RetryOrFail(w)
           /\ UNCHANGED chunks
  /\ UNCHANGED <<main, result, paused, jobs, ckpt, file, disk, server, names, budget>>

\* cpMu.Lock, then SyncFromChunks: it takes each chunk's mutex twice, once
\* for Downloaded and once for Completed, while other workers go on.
LockCheckpoint(w) ==
  /\ worker[w].pc = "lock"
  /\ cpMu = NoWorker
  /\ cpMu' = w
  /\ worker' = [worker EXCEPT ![w].pc = "syncD"]
  /\ UNCHANGED <<session, memory, cpMem, cpId, file, disk, server, names, budget>>

SyncDownloaded(w) ==
  /\ worker[w].pc = "syncD"
  /\ cpMem' = [cpMem EXCEPT ![worker[w].idx].downloaded = chunks[worker[w].idx].downloaded]
  /\ worker' = [worker EXCEPT ![w].pc = "syncC"]
  /\ UNCHANGED <<session, memory, cpId, cpMu, file, disk, server, names, budget>>

SyncCompleted(w) ==
  /\ worker[w].pc = "syncC"
  /\ cpMem' = [cpMem EXCEPT ![worker[w].idx].completed = chunks[worker[w].idx].completed]
  /\ worker' = [worker EXCEPT ![w] =
       IF worker[w].idx < NumChunks
       THEN [worker[w] EXCEPT !.pc = "syncD", !.idx = @ + 1]
       ELSE Locals("save")]
  /\ UNCHANGED <<session, memory, cpId, cpMu, file, disk, server, names, budget>>

\* Save, then cpMu.Unlock.
SaveCheckpoint(w) ==
  /\ worker[w].pc = "save"
  /\ Save(cpMem)
  /\ cpMu' = NoWorker
  /\ worker' = [worker EXCEPT ![w] = Locals("take")]
  /\ UNCHANGED <<session, memory, cpMem, cpId, file, server, names>>
-----------------------------------------------------------------------------
(* The calling goroutine after wg.Wait.                                    *)

\* "Persist checkpoint on pause or cancel".
MustPersist_BUG == FALSE
MustPersist == CtxDone \/ downloadErr

PersistOnPause ==
  /\ main = "workers"
  /\ \A w \in Workers : worker[w].pc = "exited"
  /\ main' = "waited"
  /\ IF MustPersist
     THEN /\ cpMem' = chunks
          /\ Save(chunks)
     ELSE UNCHANGED <<cpMem, disk, budget>>
  /\ UNCHANGED <<result, paused, stopped, downloadErr, memory, worker, cpId, cpMu, file, server, names>>

ReturnMultipart ==
  /\ main = "waited"
  /\ IF downloadErr \/ paused
     THEN main' = "idle" /\ result' = "error"
     ELSE main' = "cleanup" /\ UNCHANGED result
  /\ UNCHANGED <<paused, stopped, downloadErr, memory, worker, ckpt, file, disk, server, names, budget>>

\* RemoveCheckpoint after complete success.
CleanUp ==
  /\ main = "cleanup"
  /\ main' = "idle" /\ result' = "success"
  /\ disk' = NoCheckpoint
  /\ UNCHANGED <<paused, stopped, downloadErr, memory, worker, ckpt, file, server, names, budget>>

\* downloadSingleStreamToFileHandle: one request, no retry, no checkpoint.
\* counted is also the position of the file's cursor.
SingleCopy ==
  /\ main = "single"
  /\ ~paused
  /\ counted < Length
  /\ \E n \in 1..(Length - counted) :
       /\ file' = [o \in Offsets |->
                     IF o \in counted..(counted + n - 1) THEN Byte(version, o) ELSE file[o]]
       /\ counted' = counted + n
  /\ UNCHANGED <<session, chunks, jobs, worker, ckpt, disk, server, names, budget>>

\* io.EOF is success, whatever number of bytes came: a body that is delimited
\* by the end of its connection may come up short.
SingleEnd ==
  /\ main = "single"
  /\ ~paused \/ counted = Length
  /\ \/ counted = Length /\ UNCHANGED budget
     \/ counted < Length /\ Spend("short")
  /\ main' = "cleanup"
  /\ UNCHANGED <<result, paused, stopped, downloadErr, memory, worker, ckpt, file, disk, server, names>>

SingleFails ==
  /\ main = "single"
  /\ \/ paused /\ UNCHANGED budget
     \/ Spend("transient")
     \/ Spend("fatal")
     \/ Spend("diskfull")
  /\ main' = "idle" /\ result' = "error"
  /\ UNCHANGED <<paused, stopped, downloadErr, memory, worker, ckpt, file, disk, server, names>>
-----------------------------------------------------------------------------
(* The environment.                                                        *)

Pause ==
  /\ main # "idle" /\ ~paused
  /\ Spend("pause")
  /\ paused' = TRUE
  /\ UNCHANGED <<main, result, stopped, downloadErr, memory, worker, ckpt, file, disk, server, names>>

\* The process dies; what it wrote to the file and the checkpoint stays.
Crash ==
  /\ main # "idle"
  /\ Spend("crash")
  /\ main' = "idle" /\ result' = "crashed"
  /\ paused' = FALSE /\ stopped' = FALSE /\ downloadErr' = FALSE
  /\ chunks' = FreshChunks /\ jobs' = {} /\ counted' = 0
  /\ worker' = [w \in Workers |-> Locals("exited")]
  /\ cpMem' = FreshChunks /\ cpId' = NoIdentity /\ cpMu' = NoWorker
  /\ UNCHANGED <<file, disk, server, names>>

\* Between sessions the resource is replaced; a flapping server (several
\* back ends behind one URL) may also return to an earlier answer, with other
\* headers than before.
ServerUpdate ==
  /\ main = "idle"
  /\ Spend("update")
  /\ \/ /\ version' \in {v \in Versions : v > version \/ Flapping}
        /\ headers' \in IF Flapping THEN HeaderSets ELSE {headers}
        /\ Identity' # Identity
        /\ UNCHANGED ranges
     \/ /\ Flapping
        /\ ranges' = ~ranges
        /\ UNCHANGED <<version, headers>>
  /\ UNCHANGED <<session, memory, worker, ckpt, file, disk, names>>
-----------------------------------------------------------------------------
Init ==
  /\ main = "idle" /\ result = "none"
  /\ paused = FALSE /\ stopped = FALSE /\ downloadErr = FALSE
  /\ chunks = FreshChunks /\ jobs = {} /\ counted = 0
  /\ worker = [w \in Workers |-> Locals("exited")]
  /\ cpMem = FreshChunks /\ cpId = NoIdentity /\ cpMu = NoWorker
  /\ file = Holes
  /\ disk = NoCheckpoint
  /\ version = 1 /\ headers \in HeaderSets
  /\ ranges \in BOOLEAN
  /\ requested \in IF AutoRename /\ "existing" \in Events THEN {"nobody", "user"} ELSE {"nobody"}
  /\ renamed = FALSE /\ crossed = FALSE /\ mixed = FALSE
  /\ budget = Budget

WorkerStep(w) ==
  \/ TakeJob(w) \/ BeginAttempt(w)
  \/ PartialContent(w) \/ FullContent(w) \/ FatalStatus(w) \/ RequestFails(w)
  \/ ReadBody(w) \/ WriteBody(w) \/ WriteFails(w) \/ CountBytes(w)
  \/ EndBody(w) \/ ReadCancelled(w) \/ FinishAttempt(w)
  \/ LockCheckpoint(w) \/ SyncDownloaded(w) \/ SyncCompleted(w) \/ SaveCheckpoint(w)

StartSession == ResumeSession \/ OpenFresh

CallerStep ==
  \/ InitCheckpoint \/ PersistOnPause \/ ReturnMultipart \/ CleanUp
  \/ SingleCopy \/ SingleEnd \/ SingleFails

Next ==
  \/ \E w \in Workers : WorkerStep(w)
  \/ StartSession \/ CallerStep
  \/ Pause \/ Crash \/ ServerUpdate

Spec == Init /\ [][Next]_vars

\* The Go scheduler runs every runnable goroutine, cpMu included, and a silent
\* server is turned into an error by the idle timer, so no wait is for ever.
Fairness ==
  /\ \A w \in Workers : WF_vars(WorkerStep(w))
  /\ WF_vars(CallerStep)

FairSpec == Spec /\ Fairness

\* In addition, whoever asked for the file asks again while it is not there.
RetryingSpec == FairSpec /\ WF_vars(StartSession)
-----------------------------------------------------------------------------
(* Properties.                                                             *)

\* Types. The tracker's counter is not part of it: TrackerCoversAttempts says
\* what is known of it.
TypeOK ==
  /\ main \in {"idle", "opened", "workers", "waited", "cleanup", "single"}
  /\ result \in {"none", "success", "error", "crashed"}
  /\ paused \in BOOLEAN /\ stopped \in BOOLEAN /\ downloadErr \in BOOLEAN
  /\ chunks \in [Chunks -> ChunkState]
  /\ jobs \subseteq Chunks
  /\ worker \in [Workers -> [pc : {"take", "exited", "lock"} \cup Active \cup Syncing,
                             chunk : Chunks, attempt : 0..MaxRetries,
                             woff : 0..Length, req : 0..Length, read : 0..Length,
                             body : 0..Length, n : 0..Length, idx : Chunks]]
  /\ cpMem \in [Chunks -> ChunkState]
  /\ cpId \in Identities
  /\ cpMu \in Workers \cup {NoWorker}
  /\ file \in [Offsets -> [ver : 0..MaxVersion, off : Offsets]]
  /\ disk \in [id : Identities, st : [Chunks -> ChunkState]]
  /\ version \in Versions /\ headers \in HeaderSets /\ ranges \in BOOLEAN
  /\ requested \in {"nobody", "session", "user"} /\ renamed \in BOOLEAN
  /\ crossed \in BOOLEAN /\ mixed \in BOOLEAN
  /\ budget \in 0..Budget

\* Offset o holds the byte that belongs there, of content v; or of some content,
\* if the download has gone on over other contents than it began with.
Holds(v, o) ==
  /\ file[o].off = o /\ file[o].ver # 0
  /\ file[o].ver = v \/ mixed
Backed(v, st) == \A c \in Chunks : \A o \in Start[c]..(Start[c] + st[c].downloaded - 1) : Holds(v, o)

\* The mixing of contents goes unnoticed only if the checkpoint has no ETag.
NotNoticed(id) == mixed => "ETag" \notin id.headers

\* A chunk is in one pair of hands: no two workers download it, and what a
\* worker has taken is neither queued nor completed. Otherwise two writers
\* would update one Downloaded counter (worker.go:171).
OneWriterPerChunk ==
  \A w \in Workers : worker[w].pc \in Active =>
    /\ worker[w].chunk \notin jobs
    /\ ~chunks[worker[w].chunk].completed
    /\ \A v \in Workers : worker[v].pc \in Active /\ worker[v].chunk = worker[w].chunk => v = w

\* Every byte a chunk counts as downloaded is in the file, at its own offset,
\* through retries that continue in the middle of a chunk, over-long bodies and
\* resumed sessions; and it is of the content being served, unless a session
\* went on with what it downloaded of other contents. None does if the download
\* began with an ETag. (Nothing is said if it went on in another file.)
DownloadedOnDisk ==
  ~crossed /\ main \in {"workers", "waited", "cleanup"} => Backed(version, chunks) /\ NotNoticed(cpId)

\* A crash at any point leaves a checkpoint that never promises a byte the
\* file does not hold: what the next session would continue is there, and of
\* the content the checkpoint was made for, unless it has been mixed before. The
\* next session may be about to mix it: IsResumeValid does not always see that.
CheckpointBacked ==
  ~crossed /\ ~renamed /\ IsResumeValid(disk) => Backed(disk.id.ver, disk.st) /\ NotNoticed(disk.id)

\* The parts a call that returned nil has delivered: all, if it downloaded ranges;
\* what came before the end of the body, if it made one request.
Delivered == IF \A c \in Chunks : chunks[c].completed THEN Offsets ELSE {o \in Offsets : o < counted}

\* DownloadToFileWithResume returns nil only when the file is, byte for byte,
\* the resource, whatever mixture of sessions, retries, pauses, crashes and
\* replaced contents came before; but a body without a length may end early when
\* there is one request, and a server without an ETag may have mixed contents in it.
SuccessComplete ==
  ~crossed /\ result = "success" =>
    /\ \E v \in Versions : \A o \in Delivered : Holds(v, o)
    /\ NotNoticed(cpId)

\* The counter always covers what the attempts in flight have added, so
\* SubBytes never meets its clamp at zero (progress.go:72-80).
TrackerCoversAttempts ==
  main = "workers" => counted >= MapThenSumSet(LAMBDA w : worker[w].read, Workers)

\* No double count: the tracker never shows more than the chunks have.
TrackerNeverOverstates ==
  main = "workers" => counted <= TotalDownloaded(chunks)

KeepsProgress ==
  main \in {"workers", "waited"} /\ main' # "idle" =>
    \A c \in Chunks : /\ chunks'[c].downloaded >= chunks[c].downloaded
                      /\ chunks[c].completed => chunks'[c].completed

\* Within a session a chunk never goes back: a retry continues where the
\* failed attempt stopped, it does not start the chunk again.
NeverLosesProgress == [][KeepsProgress]_vars

\* After a pause or a failure the next session starts exactly where the last
\* one stopped: every byte counted then is counted now and none is fetched
\* again.
ResumeLosesNothing ==
  [][main = "idle" /\ result = "error" /\ ranges /\ main' # "idle" =>
       main' = "workers" /\ chunks' = chunks]_vars

\* The events of this behaviour so far do not exceed a chunk's retries.
WithinRetries == Budget - budget <= MaxRetries

\* A ranged download fails only for a cause: where the environment has nothing
\* but transient faults, more of them than a chunk has retries.
FailureNeedsCause ==
  [][main = "waited" /\ result' = "error" => ~WithinRetries]_vars

\* A call always returns: no schedule of workers, cancellations and failures
\* leaves wg.Wait, cpMu or the copy loops waiting for ever.
CallReturns == main # "idle" ~> main = "idle"

\* With no more faults than a chunk has retries, a ranged download ends in
\* success.
RetriesSuffice == main = "workers" ~> (result = "success" \/ ~WithinRetries)
-----------------------------------------------------------------------------
(* Statements of the documentation and of a test.                          *)

\* android/README.md:10: interrupted downloads resume at exact chunk byte
\* offsets, also after a restart: once the interruptions are over, whoever
\* keeps asking gets the file.
EventuallyDownloaded == (main # "idle") ~> (result = "success")

\* TestAutoRenamePreservesExistingFile (engine_test.go:815): with AutoRename a
\* file that was there before is never opened for writing, in any session.
ExistingFileKept == requested = "user" /\ main # "idle" => renamed
=============================================================================
