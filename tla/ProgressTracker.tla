-------------------------- MODULE ProgressTracker --------------------------
(***************************************************************************)
(* pkg/engine/progress.go: the counters of a download, the goroutine that  *)
(* reports a snapshot of them at every tick, and Stop, which ends it and   *)
(* reports the last one. Speeds and times are left out.                    *)
(***************************************************************************)
EXTENDS Integers

VARIABLES
  tracker,  \* the counters, done, and whether Stop has cancelled the ticker
  ticker    \* the goroutine: "none", "waiting", or "snapped" with a snapshot

progress == <<tracker, ticker>>
-----------------------------------------------------------------------------
NoTracker == [total |-> 0, counted |-> 0, active |-> 0, completed |-> 0, done |-> FALSE, cancelled |-> FALSE]
NoSnap == [downloaded |-> 0, active |-> 0, completed |-> 0, done |-> FALSE]

AddBytes(tr, n) == [tr EXCEPT !.counted = @ + n]
SubBytes(tr, n) == [tr EXCEPT !.counted = IF @ < n THEN 0 ELSE @ - n]
WorkerStarted(tr) == [tr EXCEPT !.active = @ + 1]
WorkerFinished(tr) == [tr EXCEPT !.active = @ - 1]
ChunkCompleted(tr) == [tr EXCEPT !.completed = @ + 1]

NewProgressTracker(total) == [NoTracker EXCEPT !.total = total]

\* No more than the total is shown, when there is one.
Snapshot ==
  [downloaded |-> IF tracker.total > 0 /\ tracker.counted > tracker.total THEN tracker.total
                  ELSE tracker.counted,
   active |-> tracker.active, completed |-> tracker.completed, done |-> tracker.done]

\* runTicker: a tick may be chosen even when Stop has cancelled. The counts of a
\* snapshot taken before Stop are left out: only how it differs from the last one
\* (done) is told apart.
Tick ==
  /\ ticker.pc = "waiting"
  /\ ticker' = [pc |-> "snapped", snap |-> IF tracker.done THEN Snapshot ELSE NoSnap]
  /\ UNCHANGED tracker

TickerReturns ==
  /\ ticker.pc = "snapped"
  /\ ticker' = [pc |-> "waiting", snap |-> NoSnap]
  /\ UNCHANGED tracker

TickerExits ==
  /\ ticker.pc = "waiting" /\ tracker.cancelled
  /\ ticker' = [ticker EXCEPT !.pc = "none"]
  /\ UNCHANGED tracker

\* Stop: done, then cancel, then it waits for the goroutine, and reports.
StopMark == tracker' = [tracker EXCEPT !.done = TRUE] /\ UNCHANGED ticker
StopCancel == tracker' = [tracker EXCEPT !.cancelled = TRUE] /\ UNCHANGED ticker

Stopped_BUG == TRUE
Stopped == ticker.pc = "none"

TrackerInit == tracker = NoTracker /\ ticker = [pc |-> "none", snap |-> NoSnap]
=============================================================================
