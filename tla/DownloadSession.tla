-------------------------- MODULE DownloadSession --------------------------
(***************************************************************************)
(* One run of cmd/dlengine: it probes, then DownloadToFile or              *)
(* DownloadToWriter probes again and downloads in several parts or in one, *)
(* while the progress ticker emits events of its own. A part comes in two  *)
(* pieces, so that an attempt may break off inside it; the offsets of its  *)
(* bytes are the subject of ResumableDownload, the window of a stream that *)
(* of PrefetchStream.                                                      *)
(***************************************************************************)
EXTENDS Probe, ProgressTracker, FiniteSets

CONSTANTS
  MaxWorkers,  \* -c
  Servers,     \* the servers of this instance
  Modes,       \* what the command line asks for: "file", "stream" (to a file, or to
                \* standard output), "probe"
  Events,      \* what the environment may do
  Budget       \* bound: how many such events happen altogether

ASSUME SessionAssumption ==
  /\ NumChunks \in Nat \ {0} /\ MaxRetries \in Nat /\ MaxWorkers \in Nat \ {0} /\ Budget \in Nat
  /\ Servers \subseteq ServerKinds /\ Modes \subseteq {"file", "stream", "probe"}

VARIABLES
  mode,
  main,      \* where the goroutine of main is
  first,     \* what main's own probe found
  ctxDone,   \* the context is cancelled (a signal), or its deadline has passed
  sink,      \* how the engine downloads: "none", "multi", "prefetch", "single"
  body,      \* the response of a single stream: "open", "stalled", "closed"
  workers,   \* the goroutines that download parts
  jobs,      \* parts taken from the closed channel
  failed,    \* an error has been kept, and the workers' context cancelled
  have,      \* Downloaded of each part, in pieces
  from,      \* where in the part its last attempt began: requestStart
  ready,     \* complete parts; those prefetched are in their slots
  file,      \* the destination: its length and the parts that are right
  result,    \* "none", "ok", "error"
  event,     \* the last JSON event, and the last snapshot reported
  budget

parts == <<have, from, ready>>
engine == <<sink, body, workers, jobs, failed, parts>>
vars == <<server, probing, progress, mode, main, first, ctxDone, engine, file, result, event, budget>>
-----------------------------------------------------------------------------
WorkerIds == 1..MaxWorkers
PartLength == 2   \* bound: the pieces of a part
Units == 0..(NumChunks - 1)
Parts == 0..(info.len - 1)
Whole == file.size = NumChunks /\ file.units = Units
\* The one response of a single stream may be cut short unnoticed.
UnknownLength == sink = "single" /\ ~server.len

NoWorker == [pc |-> "off", chunk |-> 0, attempt |-> 0]
WorkerPCs == {"off", "new", "take", "fetch", "stalled", "overrun", "counted", "giveup"}

Spend(e) == e \in Events /\ budget > 0 /\ budget' = budget - 1
Emit(kind) == event' = [event EXCEPT !.kind = kind]
Goto(pc) == main' = pc
Return(r) == Goto("ended") /\ result' = r

\* workerCtx, streamCtx.
Stopping == ctxDone \/ failed

Keep == <<server, mode, first, ctxDone>>

\* SIGINT, or the deadline of -timeout.
Cancel ==
  /\ ~ctxDone /\ main # "exited" /\ Spend("cancel")
  /\ ctxDone' = TRUE
  /\ UNCHANGED <<server, probing, progress, mode, main, first, engine, file, result, event>>
-----------------------------------------------------------------------------
(* main up to the engine's call, and the call up to its sink.              *)

AskServer ==
  /\ main \in {"probe", "reprobe"} /\ probe.pc \notin {"done", "failed"}
  /\ \/ ~ctxDone /\ ProbeStep(FALSE, FALSE) /\ UNCHANGED budget
     \/ ctxDone /\ ProbeStep(TRUE, TRUE) /\ UNCHANGED budget
     \/ ~ctxDone /\ Spend("fault") /\ ProbeStep(TRUE, FALSE)
  /\ UNCHANGED <<Keep, progress, main, engine, file, result, event>>

\* The event "probe". With -stream the file is opened, and emptied, at once.
Probed ==
  /\ main = "probe"
  /\ \/ probe.pc = "failed" /\ Return("error") /\ UNCHANGED <<probe, first, event, file>>
     \/ /\ probe.pc = "done"
        /\ first' = info /\ Emit("probe")
        /\ Goto(IF mode = "probe" THEN "emitted" ELSE "reprobe")
        /\ probe' = StartProbe
        /\ file' = IF mode = "stream" THEN [size |-> 0, units |-> {}] ELSE file
        /\ UNCHANGED result
  /\ UNCHANGED <<server, info, mode, ctxDone, progress, engine, budget>>

\* The choice of the sink; without ranges main has set the concurrency to one.
Concurrency == IF first.ranges THEN MaxWorkers ELSE 1

Reprobed ==
  /\ main = "reprobe"
  /\ \/ probe.pc = "failed" /\ Return("error") /\ UNCHANGED sink
     \/ /\ probe.pc = "done"
        /\ sink' = IF ~info.ranges \/ info.len = 0 \/ (mode # "file" /\ Concurrency <= 1) THEN "single"
                   ELSE IF mode = "file" THEN "multi" ELSE "prefetch"
        /\ Goto("start") /\ UNCHANGED result
  /\ UNCHANGED <<Keep, probing, progress, body, workers, jobs, failed, parts, file, event, budget>>

\* A file that cannot be opened, or a single stream's request that fails.
CannotOpen ==
  /\ \/ main = "reprobe" /\ mode = "stream" /\ probe = StartProbe
     \/ main = "start" /\ sink # "prefetch"
  /\ Spend("refused")
  /\ Return("error")
  /\ UNCHANGED <<Keep, probing, progress, engine, file, event>>

\* Parts are fetched by no more workers than there are parts, after the file
\* has got its length.
StartParts ==
  /\ main = "start" /\ sink \in {"multi", "prefetch"}
  /\ tracker' = NewProgressTracker(PartLength * info.len) /\ ticker' = [ticker EXCEPT !.pc = "waiting"]
  /\ workers' = [w \in WorkerIds |->
       IF w <= Concurrency /\ w <= info.len THEN [NoWorker EXCEPT !.pc = "new"] ELSE NoWorker]
  /\ file' = IF sink = "multi" THEN [size |-> info.len, units |-> {}] ELSE file
  /\ Goto("transfer")
  /\ UNCHANGED <<Keep, probing, sink, body, jobs, failed, parts, result, event, budget>>

\* One request for everything. The file is opened before, the tracker started
\* after the answer.
StartSingle ==
  /\ main = "start" /\ sink = "single" /\ ~ctxDone
  /\ tracker' = WorkerStarted(NewProgressTracker(PartLength * info.len)) /\ ticker' = [ticker EXCEPT !.pc = "waiting"]
  /\ body' = "open"
  /\ file' = [size |-> 0, units |-> {}]
  /\ Goto("transfer")
  /\ UNCHANGED <<Keep, probing, sink, workers, jobs, failed, parts, result, event, budget>>

StartCancelled ==
  /\ main = "start" /\ sink = "single" /\ ctxDone
  /\ Return("error")
  /\ UNCHANGED <<Keep, probing, progress, engine, file, event, budget>>
-----------------------------------------------------------------------------
(* The workers of downloadMultipartToFile and of the prefetched stream.    *)

InClose == main \in {"mark", "stop", "wait"}
Closed == sink = "prefetch" /\ main \in {"ended", "emitted"}

WorkerTo(w, r) == workers' = [workers EXCEPT ![w] = r]
At(w, pc) == workers[w].pc = pc /\ main \notin {"exited", "dead"}
Others == <<server, mode, first, ctxDone, probing, ticker, sink, body, result, event>>

WorkerBegins(w) ==
  /\ At(w, "new")
  /\ tracker' = WorkerStarted(tracker)
  /\ WorkerTo(w, [NoWorker EXCEPT !.pc = "take"])
  /\ UNCHANGED <<Others, main, jobs, failed, parts, file, budget>>

\* A part is taken before the context is looked at.
TakePart(w) ==
  /\ At(w, "take")
  /\ IF jobs < info.len
     THEN jobs' = jobs + 1 ELSE UNCHANGED jobs
  /\ IF jobs < info.len /\ ~Stopping
     THEN WorkerTo(w, [NoWorker EXCEPT !.pc = "fetch", !.chunk = jobs]) /\ UNCHANGED tracker
     ELSE WorkerTo(w, NoWorker) /\ tracker' = WorkerFinished(tracker)
  /\ UNCHANGED <<Others, main, failed, parts, file, budget>>

\* A failed attempt: what it has counted is taken back, what the part has stays,
\* and the next attempt begins behind it.
RollBack_BUG(w) ==
  UNCHANGED tracker /\ from' = [from EXCEPT ![workers[w].chunk] = have[workers[w].chunk]]
RollBack(w) ==
  LET c == workers[w].chunk
  IN tracker' = SubBytes(tracker, have[c] - from[c]) /\ from' = [from EXCEPT ![c] = have[c]]

MayRetry(w) == workers[w].attempt < MaxRetries
AttemptEnds(w) ==
  /\ RollBack(w)
  /\ WorkerTo(w, IF MayRetry(w) THEN [workers[w] EXCEPT !.pc = "fetch", !.attempt = @ + 1]
                 ELSE [workers[w] EXCEPT !.pc = "giveup"])
GiveUp(w) == RollBack(w) /\ WorkerTo(w, [workers[w] EXCEPT !.pc = "giveup"])

\* parseContentRange reads the answer's range; "*" for the total is not one.
RangeOk_BUG == TRUE
RangeOk == server.total

\* Is the answer accepted? One that ignored Range (200) is, where the resource begins.
Accepted(w) == IF server.honours THEN RangeOk ELSE workers[w].chunk = 0 /\ from[0] = 0
\* The body of an answer that ignored Range goes on behind the part.
GoesOn == ~server.honours /\ NumChunks > 1
Got(w) == have[workers[w].chunk]
Full(w) == Got(w) >= PartLength

Written(units) == IF sink = "multi" THEN [file EXCEPT !.units = @ \cup units] ELSE file

\* The next piece of the part, behind what earlier attempts got.
FetchPart(w) ==
  /\ At(w, "fetch") /\ ~Stopping /\ Accepted(w) /\ ~Full(w)
  /\ have' = [have EXCEPT ![workers[w].chunk] = @ + 1]
  /\ file' = IF Got(w) + 1 = PartLength THEN Written({workers[w].chunk}) ELSE file
  /\ tracker' = AddBytes(tracker, 1)
  /\ UNCHANGED <<Others, workers, main, jobs, failed, from, ready, budget>>

\* The end of the part: that of the answer, or an error that comes just there.
FetchEnds(w) ==
  /\ At(w, "fetch") /\ ~Stopping /\ Accepted(w) /\ Full(w)
  /\ IF GoesOn THEN Spend("fault") ELSE UNCHANGED budget
  /\ WorkerTo(w, [workers[w] EXCEPT !.pc = "counted"])
  /\ UNCHANGED <<Others, tracker, main, jobs, failed, parts, file>>

\* Ranges are advertised, not honoured: the first part gets everything, which is
\* written before its length is found wrong; the attempts that follow begin behind
\* its end.
FetchWhole(w) ==
  /\ \/ /\ At(w, "fetch") /\ ~Stopping /\ Accepted(w) /\ Full(w) /\ GoesOn
        /\ have' = [have EXCEPT ![0] = PartLength * NumChunks]
        /\ file' = [Written(Units) EXCEPT !.size = IF sink = "multi" THEN NumChunks ELSE @]
        /\ tracker' = AddBytes(tracker, PartLength * NumChunks - Got(w))
        /\ WorkerTo(w, [workers[w] EXCEPT !.pc = "overrun"])
        /\ UNCHANGED from
     \/ At(w, "overrun") /\ GiveUp(w) /\ UNCHANGED <<have, file>>
  /\ UNCHANGED <<Others, main, jobs, failed, ready, budget>>

\* A fault, before the first byte or within the part; an answer that ignored Range,
\* or whose range is not what was asked for; a status that forbids a retry; a context
\* that has ended; a server that falls silent.
FetchFails(w) ==
  /\ \/ At(w, "fetch") /\ ~Full(w) /\ Spend("fault") /\ AttemptEnds(w)
     \/ /\ At(w, "fetch") /\ ~Stopping /\ ~Accepted(w)
        /\ IF server.honours THEN AttemptEnds(w) ELSE GiveUp(w)
        /\ UNCHANGED budget
     \/ At(w, "fetch") /\ Got(w) = from[workers[w].chunk] /\ Spend("fatal") /\ GiveUp(w)
     \/ (At(w, "fetch") \/ At(w, "stalled")) /\ Stopping /\ GiveUp(w) /\ UNCHANGED budget
     \/ /\ At(w, "fetch") /\ ~Full(w) /\ Spend("stall")
        /\ WorkerTo(w, [workers[w] EXCEPT !.pc = "stalled"]) /\ UNCHANGED <<tracker, from>>
  /\ UNCHANGED <<Others, main, jobs, failed, have, ready, file>>

\* newIdleTimeoutReader arms the timer, and Read arms it again.
Armed_BUG(read) == FALSE
Armed(read) == read \in {"stalled"}

IdleTimeout(w) ==
  /\ At(w, "stalled") /\ Armed(workers[w].pc)
  /\ AttemptEnds(w)
  /\ UNCHANGED <<Others, main, jobs, failed, have, ready, file, budget>>

\* The part is complete, or given up; a prefetched one goes into its slot,
\* which is in Close's hands or, once that is over, no longer there.
PartEnds(w) ==
  /\ At(w, "counted") \/ At(w, "giveup")
  /\ sink = "prefetch" => ~InClose
  /\ IF Closed THEN Goto("dead") ELSE UNCHANGED main
  /\ IF At(w, "counted")
     THEN /\ tracker' = ChunkCompleted(tracker)
          /\ ready' = ready \cup {workers[w].chunk}
          /\ WorkerTo(w, [NoWorker EXCEPT !.pc = "take"]) /\ UNCHANGED failed
     ELSE /\ failed' = TRUE
          /\ WorkerTo(w, NoWorker) /\ tracker' = WorkerFinished(tracker) /\ UNCHANGED ready
  /\ UNCHANGED <<Others, jobs, have, from, file, budget>>

\* wg.Wait, then the first error or the context's.
Join ==
  /\ main = "transfer" /\ sink = "multi"
  /\ \A w \in WorkerIds : workers[w].pc = "off"
  /\ IF Stopping THEN Goto("mark") /\ result' = "error" ELSE Goto("sync") /\ UNCHANGED result
  /\ UNCHANGED <<Keep, probing, progress, engine, file, event, budget>>

\* io.CopyBuffer over the ordered reader: parts in order, an error, the end.
Copy ==
  /\ main = "transfer" /\ sink = "prefetch"
  /\ \/ /\ ~Stopping /\ file.size < info.len /\ file.size \in ready
        /\ file' = [size |-> file.size + 1, units |-> file.units \cup {p \in {file.size} : from[p] = 0}]
        /\ UNCHANGED <<main, result>>
     \/ ~Stopping /\ file.size = info.len /\ Goto("mark") /\ result' = "ok" /\ UNCHANGED file
     \/ Stopping /\ Goto("mark") /\ result' = "error" /\ UNCHANGED file
  /\ UNCHANGED <<Keep, probing, progress, engine, event, budget>>
-----------------------------------------------------------------------------
(* The single stream, to a file or through trackingReadCloser.             *)

Reading == main = "transfer" /\ sink = "single"

Receive ==
  /\ Reading /\ ~ctxDone /\ body = "open" /\ file.size < NumChunks
  /\ Goto("write")
  /\ UNCHANGED <<Keep, probing, progress, engine, file, result, event, budget>>

\* The bytes are written and counted, a part's worth at a time.
Write ==
  /\ main = "write"
  /\ file' = [size |-> file.size + 1, units |-> file.units \cup {file.size}]
  /\ tracker' = AddBytes(tracker, PartLength)
  /\ Goto("transfer")
  /\ UNCHANGED <<Keep, probing, ticker, engine, result, event, budget>>

\* The disk is full, or nobody reads standard output any more.
WriteFails ==
  /\ \/ main = "write" /\ Goto("finish")
     \/ main = "transfer" /\ sink = "prefetch" /\ file.size \in ready /\ Goto("mark")
  /\ Spend("full") /\ result' = "error"
  /\ UNCHANGED <<Keep, probing, progress, engine, file, event>>

Eof ==
  /\ Reading /\ body = "open"
  /\ \/ file.size = NumChunks /\ UNCHANGED budget
     \* The connection is lost, and the body had no announced length.
     \/ file.size < NumChunks /\ ~server.len /\ Spend("cut")
  /\ tracker' = ChunkCompleted(tracker)
  /\ IF mode = "file" THEN Goto("sync") /\ UNCHANGED result ELSE Goto("finish") /\ result' = "ok"
  /\ UNCHANGED <<Keep, probing, ticker, engine, file, event>>

ReadFails ==
  /\ Reading
  /\ \/ (ctxDone \/ body = "closed") /\ UNCHANGED budget
     \/ body = "open" /\ file.size < NumChunks /\ server.len /\ Spend("cut")
  /\ Goto("finish") /\ result' = "error"
  /\ UNCHANGED <<Keep, probing, progress, engine, file, event>>

Stall ==
  /\ Reading /\ body = "open" /\ Spend("stall")
  /\ body' = "stalled"
  /\ UNCHANGED <<Keep, probing, progress, main, sink, workers, jobs, failed, parts, file, result, event>>

\* The timer closes the body: of a silent server, and of one whose bytes are
\* written slowly, for the timer runs then too.
IdleTimeoutSingle ==
  /\ \/ Reading /\ Armed(body) /\ UNCHANGED budget
     \/ main = "write" /\ body = "open" /\ Spend("slow")
  /\ body' = "closed"
  /\ UNCHANGED <<Keep, probing, progress, main, sink, workers, jobs, failed, parts, file, result, event>>

Finish ==
  /\ main = "finish"
  /\ tracker' = WorkerFinished(tracker)
  /\ Goto("mark")
  /\ UNCHANGED <<Keep, probing, ticker, engine, file, result, event, budget>>
-----------------------------------------------------------------------------
(* The end.                                                                *)

Sync ==
  /\ main = "sync"
  /\ \/ result' = "ok" /\ UNCHANGED budget
     \/ result' = "error" /\ Spend("full")
  /\ Goto(IF sink = "single" THEN "finish" ELSE "mark")
  /\ UNCHANGED <<Keep, probing, progress, engine, file, event>>

\* ProgressTracker.Stop. Close of a prefetched stream cancels its workers before.
StopTracker ==
  /\ \/ main = "mark" /\ StopMark /\ Goto("stop") /\ UNCHANGED event
        /\ failed' = (failed \/ sink = "prefetch")
     \/ main = "stop" /\ StopCancel /\ Goto("wait") /\ UNCHANGED <<event, failed>>
     \/ /\ main = "wait" /\ Stopped
        /\ event' = [kind |-> "progress", snap |-> Snapshot]
        /\ Goto("ended") /\ UNCHANGED <<progress, failed>>
  /\ UNCHANGED <<Keep, probing, sink, body, workers, jobs, parts, file, result, budget>>

\* The last event, and the end of the process, which ends all goroutines.
Report ==
  /\ \/ main = "ended" /\ Emit(IF result = "ok" THEN "completed" ELSE "error") /\ Goto("emitted")
     \/ main = "emitted" /\ Goto("exited") /\ UNCHANGED event
  /\ UNCHANGED <<Keep, probing, progress, engine, file, result, budget>>

\* The ticker's callback emits an event.
TickerReports ==
  /\ main \notin {"exited", "dead"} /\ TickerReturns
  /\ event' = [kind |-> "progress", snap |-> ticker.snap]
  /\ UNCHANGED <<Keep, probing, main, engine, file, result, budget>>

TickerEnds ==
  /\ main \notin {"exited", "dead"} /\ TickerExits
  /\ UNCHANGED <<Keep, probing, main, engine, file, result, event, budget>>

TickerTicks ==
  /\ main \notin {"exited", "dead"} /\ Tick
  /\ UNCHANGED <<Keep, probing, main, engine, file, result, event, budget>>

Init ==
  /\ server \in Servers /\ mode \in Modes
  /\ probe = StartProbe /\ info = Unknown /\ first = Unknown
  /\ TrackerInit
  /\ main = "probe" /\ ctxDone = FALSE
  /\ sink = "none" /\ body = "closed" /\ workers = [w \in WorkerIds |-> NoWorker]
  /\ jobs = 0 /\ failed = FALSE
  /\ have = [p \in Units |-> 0] /\ from = [p \in Units |-> 0] /\ ready = {}
  /\ file = [size |-> 0, units |-> {}]
  /\ result = "none" /\ event = [kind |-> "none", snap |-> NoSnap] /\ budget = Budget

MainStep ==
  \/ AskServer \/ Probed \/ Reprobed \/ StartParts \/ StartSingle \/ StartCancelled
  \/ Join \/ Copy \/ Receive \/ Write \/ Eof \/ ReadFails \/ Finish \/ Sync \/ StopTracker \/ Report
WorkerStep(w) ==
  \/ WorkerBegins(w) \/ TakePart(w) \/ FetchPart(w) \/ FetchEnds(w) \/ FetchWhole(w)
  \/ FetchFails(w) \/ IdleTimeout(w) \/ PartEnds(w)

Next ==
  \/ MainStep \/ Cancel \/ CannotOpen \/ WriteFails \/ Stall \/ IdleTimeoutSingle
  \/ \E w \in WorkerIds : WorkerStep(w)
  \/ TickerTicks \/ TickerReports \/ TickerEnds

Spec == Init /\ [][Next]_vars

\* Goroutines that can run do, timers fire, and a select that finds the end of
\* its context time and again beside a tick takes it once.
Fairness ==
  /\ WF_vars(MainStep) /\ WF_vars(IdleTimeoutSingle)
  /\ \A w \in WorkerIds : WF_vars(WorkerStep(w))
  /\ WF_vars(TickerReports) /\ SF_vars(TickerEnds)

FairSpec == Spec /\ Fairness
-----------------------------------------------------------------------------
(* Properties.                                                             *)

TypeOK ==
  /\ server \in ServerKinds /\ mode \in {"file", "stream", "probe"}
  /\ probe \in [pc : {"head", "get", "test", "done", "failed"}, attempt : 0..MaxRetries]
  /\ {info, first} \subseteq [len : 0..NumChunks, ranges : BOOLEAN]
  /\ tracker \in [total : 0..(PartLength * NumChunks), counted : Nat, active : 0..MaxWorkers,
                  completed : 0..NumChunks, done : BOOLEAN, cancelled : BOOLEAN]
  /\ ticker.pc \in {"none", "waiting", "snapped"}
  /\ sink \in {"none", "multi", "prefetch", "single"} /\ body \in {"open", "stalled", "closed"}
  /\ workers \in [WorkerIds -> [pc : WorkerPCs, chunk : Units, attempt : 0..MaxRetries]]
  /\ jobs \in 0..NumChunks /\ failed \in BOOLEAN /\ ctxDone \in BOOLEAN
  /\ {have, from} \subseteq [Units -> 0..(PartLength * NumChunks)] /\ ready \subseteq Units
  /\ file \in [size : 0..NumChunks, units : SUBSET Units]
  /\ main \in {"probe", "reprobe", "start", "transfer", "write", "finish", "sync", "mark", "stop", "wait",
               "ended", "emitted", "exited", "dead"}
  /\ result \in {"none", "ok", "error"} /\ event.kind \in {"none", "probe", "progress", "completed", "error"}
  /\ budget \in 0..Budget

\* docs/CLI.md: the event "completed" or "error" ends the stream of events.
\* The ticker's goroutine never emits one after it, nor is there a second.
TerminalIsLast == [][event.kind \in {"completed", "error"} => event' = event]_vars

\* The pieces that attempts which broke off had fetched.
Lost == {x \in Units \X (1..PartLength) : x[2] <= from[x[1]]}

\* "completed" means the destination holds the resource, all of it, whatever the
\* server claims about ranges and lengths and wherever an attempt broke off; but a
\* response whose length was not announced may be cut short, for what the probe
\* found out is not compared with what came, and in a prefetched stream the part of
\* an attempt that broke off is wrong: its slot gets a new buffer, its range goes on.
CompletedIsWhole ==
  event.kind = "completed" => Whole \/ UnknownLength \/ (sink = "prefetch" /\ Lost # {})

\* The last progress event before "completed" shows the end: all parts, and no
\* worker, unless one of a stream still unwinds; and all bytes but those that
\* attempts which broke off had fetched: they are taken back, never added again.
LastProgressIsFinal ==
  event.kind = "completed" =>
    /\ event.snap.done
    /\ ~UnknownLength => event.snap.downloaded = PartLength * info.len - Cardinality(Lost)
    /\ event.snap.completed = IF sink = "single" THEN 1 ELSE info.len
    /\ sink # "prefetch" => event.snap.active = 0

\* Every run comes to its end: silent servers, cancellations and failures
\* leave nobody waiting. (It may die of PrefetchStream's panic.)
SessionEnds == <>(main \in {"exited", "dead"})
=============================================================================
