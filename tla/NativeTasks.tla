---------------------------- MODULE NativeTasks ----------------------------
(***************************************************************************)
(* cmd/libdlengine/main.go: the downloads the Android application starts   *)
(* through JNI. A start registers an activeTask under the task's id and    *)
(* runs the engine in a goroutine of its own, a run. Pause and cancel find *)
(* a run through the registry only, and every run removes the entry of its *)
(* task at its end. goStartDownload and goStartDownloadFD differ in where  *)
(* the bytes go, which nothing here tells apart; what becomes of the file  *)
(* and its checkpoint is the subject of ResumableDownload.                 *)
(***************************************************************************)
EXTENDS Integers, FiniteSets

CONSTANTS
  Tasks,    \* ids of tasks
  MaxRuns   \* bound: goroutines alive at a time

ASSUME NativeAssumption == IsFiniteSet(Tasks) /\ Tasks # {} /\ MaxRuns \in Nat \ {0}

VARIABLES
  tasks,  \* the registry: the run entered under each id, 0 for none
  runs    \* the goroutines

Native == <<tasks, runs>>
-----------------------------------------------------------------------------
RunIds == 1..MaxRuns

\* A run downloads, has "stopped" its workers, reports "completed" or "failed",
\* and must "leave". An unused slot is "free".
RunPCs == {"free", "downloading", "stopped", "completed", "failed", "leave"}
Run == [pc : RunPCs, task : Tasks, paused : BOOLEAN, cancelled : BOOLEAN, err : BOOLEAN]

NoRun == [pc |-> "free", task |-> CHOOSE t \in Tasks : TRUE,
          paused |-> FALSE, cancelled |-> FALSE, err |-> FALSE]

FreeRuns == {r \in RunIds : runs[r].pc = "free"}
At(r, pc) == runs[r].pc = pc
Goto(r, pc) == runs' = [runs EXCEPT ![r].pc = pc]

\* goStartDownload: the entry of an earlier run of the task is overwritten.
NativeStart(t) ==
  LET r == CHOOSE free \in FreeRuns : \A other \in FreeRuns : free <= other
  IN /\ FreeRuns # {}
     /\ runs' = [runs EXCEPT ![r] = [NoRun EXCEPT !.pc = "downloading", !.task = t]]
     /\ tasks' = [tasks EXCEPT ![t] = r]

\* goPauseDownload: nothing happens when no run is registered.
NativePause(t) ==
  /\ runs' = IF tasks[t] = 0 THEN runs
             ELSE [runs EXCEPT ![tasks[t]].paused = TRUE, ![tasks[t]].cancelled = TRUE]
  /\ UNCHANGED tasks

\* goCancelDownload: the run is no longer registered while it unwinds.
NativeCancel(t) ==
  /\ runs' = IF tasks[t] = 0 THEN runs ELSE [runs EXCEPT ![tasks[t]].cancelled = TRUE]
  /\ tasks' = [tasks EXCEPT ![t] = 0]
-----------------------------------------------------------------------------
(* The goroutine.                                                          *)

\* The workers are done: all bytes are there, or the context is cancelled, or
\* the download failed. The tracker may still report a last snapshot.
StopWorkers(r, err) ==
  /\ At(r, "downloading")
  /\ runs' = [runs EXCEPT ![r].pc = "stopped", ![r].err = err]
  /\ UNCHANGED tasks

\* What the run will report: an error is not reported when it was asked for.
Outcome(run) ==
  IF ~run.err THEN "completed"
  ELSE IF run.paused \/ run.cancelled THEN "leave" ELSE "failed"

Decide(r) ==
  /\ At(r, "stopped")
  /\ Goto(r, Outcome(runs[r]))
  /\ UNCHANGED tasks

\* The deferred call removes the entry of the task, whichever run it names.
Unregistered(reg, r) == [reg EXCEPT ![runs[r].task] = 0]

Leave(r) ==
  /\ At(r, "leave")
  /\ tasks' = Unregistered(tasks, r)
  /\ runs' = [runs EXCEPT ![r] = NoRun]

NativeInit ==
  /\ tasks = [t \in Tasks |-> 0]
  /\ runs = [r \in RunIds |-> NoRun]
=============================================================================
