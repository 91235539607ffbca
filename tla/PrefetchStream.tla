--------------------------- MODULE PrefetchStream ---------------------------
(***************************************************************************)
(* prefetchStreamReader of pkg/engine/stream_sink.go: workers download     *)
(* chunks into memory ahead of a reader that takes them in order. slotsMu  *)
(* protects the slots, and readyCond, a condition variable on it, is where *)
(* the reader waits for its next chunk and a worker for the window to      *)
(* reach its chunk. What runs with slotsMu held is one step.               *)
(***************************************************************************)
EXTENDS Integers, Sequences, FiniteSets

CONSTANTS
  Workers,      \* the prefetch goroutines
  NumChunks,    \* length of the layout
  ChunkLen,     \* bytes of a chunk; the last one is as long as the others
  MaxPrefetch,  \* Options.StreamPrefetch
  MaxRetries,   \* Options.MaxRetries
  Events,       \* what the environment may do in this instance
  Budget        \* bound: how many such events happen altogether

AllEvents == {"cancel", "close", "refused", "dropped", "fatal"}

ASSUME StreamAssumption ==
  /\ Workers # {} /\ IsFiniteSet(Workers)
  /\ NumChunks \in Nat \ {0} /\ ChunkLen \in Nat \ {0}
  /\ MaxPrefetch \in Nat \ {0} /\ MaxRetries \in Nat /\ Budget \in Nat
  /\ Events \subseteq AllEvents

VARIABLES
  next,       \* the closed jobs channel: index of the next chunk in it
  worker,     \* the prefetch workers
  slots,      \* chunkSlots
  current,    \* currentIndex
  buf,        \* currentBuf: the offsets it still holds
  closed,     \* Close was called; chunkSlots is nil from then on
  cancelled,  \* streamCtx is done
  reader,     \* where the goroutine that calls Read is
  watcher,    \* the goroutine that broadcasts when streamCtx is done
  finisher,   \* the goroutine that broadcasts when all workers have returned
  panicked,   \* the process has died of a write to a nil map
  out,        \* what Read has returned so far
  answer,     \* what the last Read said
  lost,       \* bytes that were in the buffer of an attempt that is retried
  budget      \* how many environment events are still to come

content == <<slots, current, buf>>
flags   == <<closed, cancelled, panicked>>
helpers == <<watcher, finisher>>
reading == <<out, answer>>
vars == <<next, worker, content, flags, reader, helpers, reading, lost, budget>>
-----------------------------------------------------------------------------
Indices == 0..(NumChunks - 1)
Resource == [i \in 1..(NumChunks * ChunkLen) |-> i - 1]

\* The offsets chunk c has from its lo-th byte on: what the buffer of an
\* attempt that began there holds at its end.
Data(c, lo) == [i \in 1..(ChunkLen - lo) |-> c * ChunkLen + lo + i - 1]

Empty == [full |-> FALSE, err |-> FALSE, data |-> <<>>]

\* A worker: its chunk, the attempt of downloadChunk, Chunk.Downloaded when
\* the attempt began and now, and whether downloadChunk returned an error.
Locals(pc) == [pc |-> pc, chunk |-> 0, attempt |-> 0, lo |-> 0, hi |-> 0, err |-> FALSE]

\* Nothing runs any more once the process has died.
Alive == ~panicked
At(w, pc) == Alive /\ worker[w].pc = pc

Spend(e) == e \in Events /\ budget > 0 /\ budget' = budget - 1

\* readyCond.Broadcast: whoever sleeps is awake again.
Woken(ws) == [w \in Workers |-> IF ws[w].pc = "asleep" THEN [ws[w] EXCEPT !.pc = "window"] ELSE ws[w]]
Roused(r) == IF r = "asleep" THEN "loop" ELSE r
-----------------------------------------------------------------------------
(* Workers.                                                                *)

TakeJob(w) ==
  /\ At(w, "take")
  /\ IF next < NumChunks
     THEN /\ worker' = [worker EXCEPT ![w] = [Locals("window") EXCEPT !.chunk = next]]
          /\ next' = next + 1
     ELSE /\ worker' = [worker EXCEPT ![w] = Locals("exited")]
          /\ UNCHANGED next
  /\ UNCHANGED <<content, flags, reader, helpers, reading, lost, budget>>

\* The sliding window ahead of the reader.
Beyond_BUG(c) == c > current + MaxPrefetch
Beyond(c) == c >= current + MaxPrefetch

EnterWindow(w) ==
  /\ At(w, "window")
  /\ worker' = [worker EXCEPT ![w].pc = IF closed \/ cancelled THEN "exited"
                                        ELSE IF Beyond(worker[w].chunk) THEN "asleep"
                                        ELSE "fetch"]
  /\ UNCHANGED <<next, content, flags, reader, helpers, reading, lost, budget>>

\* Part of the body arrives.
Receive(w) ==
  /\ At(w, "fetch") /\ ~cancelled
  /\ \E n \in (worker[w].hi + 1)..ChunkLen : worker' = [worker EXCEPT ![w].hi = n]
  /\ UNCHANGED <<next, content, flags, reader, helpers, reading, lost, budget>>

FinishFetch(w) ==
  /\ At(w, "fetch")
  /\ worker[w].hi = ChunkLen
  /\ worker' = [worker EXCEPT ![w].pc = "deliver"]
  /\ UNCHANGED <<next, content, flags, reader, helpers, reading, lost, budget>>

\* worker.go:29: attempts are numbered from zero to MaxRetries.
MayRetry_BUG(attempt) == attempt <= MaxRetries
MayRetry(attempt) == attempt < MaxRetries

\* The attempt fails before its first byte, or after it with bytes missing.
\* The next one has a new buffer and asks for what the chunk does not count.
Retry(w) ==
  /\ At(w, "fetch")
  /\ \/ worker[w].hi = worker[w].lo /\ Spend("refused") /\ UNCHANGED lost
     \/ /\ worker[w].hi > worker[w].lo /\ worker[w].hi < ChunkLen /\ Spend("dropped")
        /\ lost' = lost \cup {worker[w].chunk * ChunkLen + o : o \in worker[w].lo..(worker[w].hi - 1)}
  /\ worker' = [worker EXCEPT ![w] =
       IF MayRetry(worker[w].attempt)
       THEN [worker[w] EXCEPT !.attempt = @ + 1, !.lo = worker[w].hi]
       ELSE [worker[w] EXCEPT !.pc = "deliver", !.err = TRUE]]
  /\ UNCHANGED <<next, content, flags, reader, helpers, reading>>

\* The context is done, or the server's answer forbids a retry.
FailFetch(w) ==
  /\ At(w, "fetch")
  /\ \/ cancelled /\ UNCHANGED budget
     \/ worker[w].hi = worker[w].lo /\ Spend("fatal")
  /\ worker' = [worker EXCEPT ![w].pc = "deliver", ![w].err = TRUE]
  /\ UNCHANGED <<next, content, flags, reader, helpers, reading, lost>>

Slot(w) == [full |-> TRUE, err |-> worker[w].err,
            data |-> IF worker[w].err THEN <<>> ELSE Data(worker[w].chunk, worker[w].lo)]

\* The broadcast a delivery ends with.
Announced_BUG(r) == r
Announced(r) == Roused(r)

\* The result goes into its slot; after Close there is no map to put it in.
Deliver(w) ==
  /\ At(w, "deliver")
  /\ IF closed
     THEN panicked' = TRUE /\ UNCHANGED <<slots, worker, reader>>
     ELSE /\ slots' = [slots EXCEPT ![worker[w].chunk] = Slot(w)]
          /\ worker' = [Woken(worker) EXCEPT ![w] = Locals(IF worker[w].err THEN "cancel" ELSE "take")]
          /\ reader' = Announced(reader)
          /\ UNCHANGED panicked
  /\ UNCHANGED <<next, current, buf, closed, cancelled, helpers, reading, lost, budget>>

\* After an error the worker cancels the stream, no longer under slotsMu.
CancelStream(w) ==
  /\ At(w, "cancel")
  /\ cancelled' = TRUE
  /\ worker' = [worker EXCEPT ![w] = Locals("exited")]
  /\ UNCHANGED <<next, content, closed, panicked, reader, helpers, reading, lost, budget>>
-----------------------------------------------------------------------------
(* The two goroutines that only broadcast, each once.                      *)

\* Its broadcast is what workers asleep outside the window wait for.
WokenByWatch_BUG(ws) == ws
WokenByWatch(ws) == Woken(ws)

Watch ==
  /\ Alive /\ watcher = "waiting" /\ cancelled
  /\ watcher' = "done"
  /\ worker' = WokenByWatch(worker) /\ reader' = Roused(reader)
  /\ UNCHANGED <<next, content, flags, finisher, reading, lost, budget>>

WaitAll ==
  /\ Alive /\ finisher = "waiting"
  /\ \A w \in Workers : worker[w].pc = "exited"
  /\ finisher' = "done"
  /\ worker' = Woken(worker) /\ reader' = Roused(reader)
  /\ UNCHANGED <<next, content, flags, watcher, reading, lost, budget>>
-----------------------------------------------------------------------------
(* Read. It holds slotsMu except while it waits, so each call, or the part *)
(* of one after a wait, is one step.                                       *)

Call ==
  /\ Alive /\ reader = "idle"
  /\ reader' = "enter"
  /\ UNCHANGED <<next, worker, content, flags, helpers, reading, lost, budget>>

Return(a) == reader' = "idle" /\ answer' = a

\* The check for Close is made once, before the loop.
ReadClosed ==
  /\ Alive /\ reader = "enter" /\ closed
  /\ Return("eof")
  /\ UNCHANGED <<next, worker, content, flags, helpers, out, lost, budget>>

InLoop == Alive /\ (reader = "loop" \/ (reader = "enter" /\ ~closed))

ReadCancelled ==
  /\ InLoop /\ cancelled
  /\ Return("error")
  /\ UNCHANGED <<next, worker, content, flags, helpers, out, lost, budget>>

\* Some of the data go to the caller, the rest stay in currentBuf.
Hand(data) ==
  \E n \in 1..Len(data) :
    /\ out' = out \o SubSeq(data, 1, n)
    /\ buf' = SubSeq(data, n + 1, Len(data))

ReadBuffered ==
  /\ InLoop /\ ~cancelled
  /\ buf # <<>>
  /\ Hand(buf)
  /\ Return("data")
  /\ UNCHANGED <<next, worker, slots, current, flags, helpers, lost, budget>>

AtEnd_BUG == current >= NumChunks - 1
AtEnd == current >= NumChunks

ReadEnd ==
  /\ InLoop /\ ~cancelled
  /\ buf = <<>> /\ AtEnd
  /\ Return("eof")
  /\ UNCHANGED <<next, worker, content, flags, helpers, out, lost, budget>>

AwaitsSlot == InLoop /\ ~cancelled /\ buf = <<>> /\ ~AtEnd

ReadSlotError ==
  /\ AwaitsSlot
  /\ slots[current].full /\ slots[current].err
  /\ Return("error")
  /\ UNCHANGED <<next, worker, content, flags, helpers, out, lost, budget>>

\* The broadcast that follows the move of the window.
Advanced_BUG(ws) == ws
Advanced(ws) == Woken(ws)

\* The next chunk becomes currentBuf, and the loop goes round once more.
ReadNext ==
  /\ AwaitsSlot
  /\ slots[current].full /\ ~slots[current].err
  /\ Hand(slots[current].data)
  /\ slots' = [slots EXCEPT ![current] = Empty]
  /\ current' = current + 1
  /\ worker' = Advanced(worker)
  /\ Return("data")
  /\ UNCHANGED <<next, flags, helpers, lost, budget>>

ReadWaits ==
  /\ AwaitsSlot
  /\ ~slots[current].full
  /\ reader' = "asleep"
  /\ UNCHANGED <<next, worker, content, flags, helpers, reading, lost, budget>>
-----------------------------------------------------------------------------
(* The caller's context, and Close.                                        *)

CancelCaller ==
  /\ Alive /\ ~cancelled
  /\ Spend("cancel")
  /\ cancelled' = TRUE
  /\ UNCHANGED <<next, worker, content, closed, panicked, reader, helpers, reading, lost>>

Close ==
  /\ Alive /\ ~closed
  /\ Spend("close")
  /\ closed' = TRUE /\ cancelled' = TRUE
  /\ slots' = [i \in Indices |-> Empty] /\ buf' = <<>>
  /\ worker' = Woken(worker) /\ reader' = Roused(reader)
  /\ UNCHANGED <<next, current, panicked, helpers, reading, lost>>
-----------------------------------------------------------------------------
Init ==
  /\ next = 0
  /\ worker = [w \in Workers |-> Locals("take")]
  /\ slots = [i \in Indices |-> Empty] /\ current = 0 /\ buf = <<>>
  /\ closed = FALSE /\ cancelled = FALSE /\ panicked = FALSE
  /\ reader = "idle" /\ watcher = "waiting" /\ finisher = "waiting"
  /\ out = <<>> /\ answer = "none" /\ lost = {}
  /\ budget = Budget

WorkerStep(w) ==
  \/ TakeJob(w) \/ EnterWindow(w) \/ Receive(w) \/ FinishFetch(w) \/ Retry(w)
  \/ FailFetch(w) \/ Deliver(w) \/ CancelStream(w)

ReadStep ==
  \/ ReadClosed \/ ReadCancelled \/ ReadBuffered \/ ReadEnd \/ ReadSlotError
  \/ ReadNext \/ ReadWaits

Next ==
  \/ \E w \in Workers : WorkerStep(w)
  \/ Call \/ ReadStep \/ Watch \/ WaitAll \/ CancelCaller \/ Close

Spec == Init /\ [][Next]_vars

\* The scheduler runs every goroutine that can run, and the idle timer of
\* worker.go turns a silent server into an error.
Fairness ==
  /\ \A w \in Workers : WF_vars(WorkerStep(w))
  /\ WF_vars(ReadStep) /\ WF_vars(Watch) /\ WF_vars(WaitAll)

FairSpec == Spec /\ Fairness
-----------------------------------------------------------------------------
(* Properties.                                                             *)

TypeOK ==
  /\ next \in 0..NumChunks
  /\ worker \in [Workers -> [pc : {"take", "window", "asleep", "fetch", "deliver", "cancel", "exited"},
                             chunk : Indices, attempt : 0..MaxRetries,
                             lo : 0..ChunkLen, hi : 0..ChunkLen, err : BOOLEAN]]
  /\ slots \in [Indices -> [full : BOOLEAN, err : BOOLEAN, data : Seq(Nat)]]
  /\ current \in 0..NumChunks
  /\ buf \in Seq(Nat) /\ out \in Seq(Nat)
  /\ closed \in BOOLEAN /\ cancelled \in BOOLEAN /\ panicked \in BOOLEAN
  /\ reader \in {"idle", "enter", "loop", "asleep"}
  /\ watcher \in {"waiting", "done"} /\ finisher \in {"waiting", "done"}
  /\ answer \in {"none", "data", "eof", "error"}
  /\ lost \subseteq 0..(NumChunks * ChunkLen - 1)
  /\ budget \in 0..Budget

\* "Bounded memory backpressure" (stream_sink.go:14): counting the chunks
\* being downloaded, no more than MaxPrefetch are in memory besides the one
\* being read, however slow the reader is.
InMemory ==
  {i \in Indices : slots[i].full} \cup
  {worker[w].chunk : w \in {v \in Workers : worker[v].pc \in {"fetch", "deliver"}}}
PrefetchBounded == Cardinality(InMemory) <= MaxPrefetch

\* The stream is the one OrderedStream describes: in order, complete before
\* its end but for what attempts that broke off had received, no data after
\* an error.
Ordered == INSTANCE OrderedStream WITH Size <- NumChunks * ChunkLen, open <- ~closed
InOrder == Ordered!Spec

\* No Read waits for ever: a wake-up is never lost between its check of the
\* slots and its wait, or when the context ends or the last worker returns.
ReadReturns == reader # "idle" ~> (reader = "idle" \/ panicked)

\* Cancelling the stream releases every worker, the ones asleep outside the
\* window too.
WorkersReleased == cancelled ~> (panicked \/ \A w \in Workers : worker[w].pc = "exited")

\* A reader that goes on reading (io.Copy) comes to the end or to an error: the
\* reader and the workers never wait for each other.
StreamEnds == <>(panicked \/ answer \in {"eof", "error"}) \/ <>[](reader = "idle")
-----------------------------------------------------------------------------
(* Statements of the code and its documentation.                           *)

\* README.md:21: strict sequential order 0..N; stream_sink.go:235: the new
\* buffer of an attempt is there "for clean retries".
NothingMissing == answer = "eof" /\ ~closed => out = Resource

\* stream_sink.go:334: Close releases the buffered memory.
CloseIsSafe == ~panicked
=============================================================================
