------------------------ MODULE DownloadQueueProofs ------------------------
(***************************************************************************)
(* Proofs about DownloadQueue and the NativeTasks in it, for every number  *)
(* of tasks, of goroutines and of places in the queue, and every series of *)
(* events.                                                                 *)
(***************************************************************************)
EXTENDS DownloadQueue, LeastElements, FiniteSetTheorems, TLAPS

PCs == Sweeps \cup {"idle", "pump", "pumping", "pauseall", "mark", "add", "drop", "remove", "droprow",
                    "removerow", "deleterows"}
ThreadRecord == [pc : PCs, task : Tasks \cup {None}, todo : SUBSET Tasks, left : SUBSET Tasks,
                 active : 0..MaxConcurrent]
Row == Statuses \cup {None}

\* A thread with a task at hand has one, and a pump that has counted to the
\* limit visits no more tasks.
PlacePCs == {"mark", "drop", "remove"}
RowPCs == {"droprow", "removerow"}
TaskPCs == PlacePCs \cup RowPCs
Fits(x) ==
  /\ x.pc \in TaskPCs => x.task \in Tasks
  /\ x.pc = "pumping" => x.active < MaxConcurrent \/ x.todo = {}
Fitting == {x \in ThreadRecord : Fits(x)}

(***************************************************************************)
(* What is assumed of the constants, in the form the provers use it.       *)
(***************************************************************************)
LEMMA Parameters ==
  /\ IsFiniteSet(Tasks) /\ MaxRuns \in Nat /\ MaxRuns > 0 /\ MaxConcurrent \in Nat /\ MaxConcurrent > 0
  /\ Budget \in Nat /\ None \notin Tasks /\ None \notin Threads /\ None \notin Statuses
BY NativeAssumption, QueueAssumption, NoneAssumption

(***************************************************************************)
(* The goroutines keep their types, whatever happens to them.              *)
(***************************************************************************)
NativeType == tasks \in [Tasks -> 0..MaxRuns] /\ runs \in [RunIds -> Run]

LEMMA NoRunType == NoRun \in Run
PROOF
  <1>1. (CHOOSE t \in Tasks : TRUE) \in Tasks
    BY NativeAssumption
  <1>2. QED BY <1>1 DEF NoRun, Run, RunPCs

LEMMA FirstFree ==
  ASSUME FreeRuns # {}
  PROVE  (CHOOSE free \in FreeRuns : \A other \in FreeRuns : free <= other) \in FreeRuns
PROOF
  <1>1. FreeRuns \subseteq Nat
    BY Parameters DEF FreeRuns, RunIds
  <1>2. QED BY <1>1, LeastElement

LEMMA StartType ==
  ASSUME NativeType, NEW t \in Tasks, NativeStart(t)
  PROVE  NativeType'
PROOF
  <1> DEFINE r == CHOOSE free \in FreeRuns : \A other \in FreeRuns : free <= other
             x == [NoRun EXCEPT !.pc = "downloading", !.task = t]
  <1>1. r \in RunIds /\ r \in 0..MaxRuns
    <2>1. r \in FreeRuns
      BY FirstFree DEF NativeStart
    <2>2. QED BY <2>1, Parameters DEF FreeRuns, RunIds
  <1>2. x \in Run
    BY NoRunType DEF Run, RunPCs
  <1>3. runs' = [runs EXCEPT ![r] = x] /\ tasks' = [tasks EXCEPT ![t] = r]
    BY DEF NativeStart
  <1> HIDE DEF r, x
  <1>4. QED BY <1>1, <1>2, <1>3 DEF NativeType

LEMMA PauseType ==
  ASSUME NativeType, NEW t \in Tasks, NativePause(t)
  PROVE  NativeType'
PROOF
  <1>1. CASE tasks[t] = 0
    BY <1>1 DEF NativePause, NativeType
  <1>2. CASE tasks[t] # 0
    <2>1. tasks[t] \in RunIds
      BY <1>2, Parameters DEF NativeType, RunIds
    <2>2. runs' = [runs EXCEPT ![tasks[t]] = [runs[tasks[t]] EXCEPT !.paused = TRUE, !.cancelled = TRUE]]
      BY <1>2, <2>1 DEF NativePause, NativeType
    <2>3. [runs[tasks[t]] EXCEPT !.paused = TRUE, !.cancelled = TRUE] \in Run
      BY <2>1 DEF NativeType, Run
    <2>4. QED BY <2>1, <2>2, <2>3 DEF NativePause, NativeType
  <1>3. QED BY <1>1, <1>2

LEMMA CancelType ==
  ASSUME NativeType, NEW t \in Tasks, NativeCancel(t)
  PROVE  NativeType'
PROOF
  <1>1. tasks' \in [Tasks -> 0..MaxRuns]
    BY Parameters DEF NativeCancel, NativeType
  <1>2. CASE tasks[t] = 0
    BY <1>1, <1>2 DEF NativeCancel, NativeType
  <1>3. CASE tasks[t] # 0
    <2>1. tasks[t] \in RunIds
      BY <1>3, Parameters DEF NativeType, RunIds
    <2>2. runs' = [runs EXCEPT ![tasks[t]] = [runs[tasks[t]] EXCEPT !.cancelled = TRUE]]
      BY <1>3, <2>1 DEF NativeCancel, NativeType
    <2>3. [runs[tasks[t]] EXCEPT !.cancelled = TRUE] \in Run
      BY <2>1 DEF NativeType, Run
    <2>4. QED BY <1>1, <2>1, <2>2, <2>3 DEF NativeType
  <1>4. QED BY <1>2, <1>3

LEMMA RunType ==
  ASSUME NativeType, NEW r \in RunIds, NEW err \in BOOLEAN, NEW pc \in RunPCs,
         StopWorkers(r, err) \/ Decide(r) \/ Leave(r) \/ (Goto(r, pc) /\ UNCHANGED tasks)
  PROVE  NativeType'
PROOF
  <1>1. runs[r] \in Run
    BY DEF NativeType
  <1>2. CASE StopWorkers(r, err)
    <2>1. [runs[r] EXCEPT !.pc = "stopped", !.err = err] \in Run
      BY <1>1 DEF Run, RunPCs
    <2>2. runs' = [runs EXCEPT ![r] = [runs[r] EXCEPT !.pc = "stopped", !.err = err]]
      BY <1>2 DEF StopWorkers, NativeType
    <2>3. QED BY <1>2, <2>1, <2>2 DEF StopWorkers, NativeType
  <1>3. ASSUME NEW q \in RunPCs, Goto(r, q), UNCHANGED tasks PROVE NativeType'
    <2>1. [runs[r] EXCEPT !.pc = q] \in Run
      BY <1>1 DEF Run
    <2>2. runs' = [runs EXCEPT ![r] = [runs[r] EXCEPT !.pc = q]]
      BY <1>3 DEF Goto, NativeType
    <2>3. QED BY <1>3, <2>1, <2>2 DEF NativeType
  <1>4. CASE Decide(r)
    <2>1. Outcome(runs[r]) \in RunPCs
      BY DEF Outcome, RunPCs
    <2>2. QED BY <1>3, <1>4, <2>1 DEF Decide
  <1>5. CASE Leave(r)
    <2>1. runs[r].task \in Tasks
      BY <1>1 DEF Run
    <2>2. tasks' = [tasks EXCEPT ![runs[r].task] = 0] /\ runs' = [runs EXCEPT ![r] = NoRun]
      BY <1>5 DEF Leave, Unregistered
    <2>3. QED BY <2>1, <2>2, NoRunType, Parameters DEF NativeType
  <1>6. QED BY <1>2, <1>3, <1>4, <1>5
-----------------------------------------------------------------------------
(* Threads and rows.                                                       *)

LEMMA IdleType ==
  /\ Idle \in Fitting
  /\ \A pc \in PCs : \A t \in Tasks : [Idle EXCEPT !.pc = pc, !.task = t] \in Fitting
  /\ \A pc \in PCs \ TaskPCs :
       /\ [Idle EXCEPT !.pc = pc] \in Fitting
       /\ \A S \in SUBSET Tasks : /\ [Idle EXCEPT !.pc = pc, !.todo = S] \in Fitting
                                  /\ [Idle EXCEPT !.pc = pc, !.left = S] \in Fitting
PROOF
  <1>1. Idle = [pc |-> "idle", task |-> None, todo |-> {}, left |-> {}, active |-> 0]
    BY DEF Idle
  <1>2. 0 \in 0..MaxConcurrent /\ "idle" \in PCs
    BY Parameters DEF PCs
  <1>3. Idle \in ThreadRecord
    BY <1>1, <1>2 DEF ThreadRecord
  <1>4. Idle \in Fitting
    BY <1>1, <1>3 DEF Fitting, Fits, TaskPCs, PlacePCs, RowPCs
  <1>5. ASSUME NEW pc \in PCs, NEW t \in Tasks PROVE [Idle EXCEPT !.pc = pc, !.task = t] \in Fitting
    <2> DEFINE x == [Idle EXCEPT !.pc = pc, !.task = t]
    <2>1. x \in ThreadRecord /\ x.task = t /\ x.todo = {}
      BY <1>1, <1>3 DEF ThreadRecord
    <2> HIDE DEF x
    <2>2. x \in Fitting
      BY <2>1 DEF Fitting, Fits
    <2>3. QED BY <2>2 DEF x
  <1>6. ASSUME NEW pc \in PCs \ TaskPCs PROVE [Idle EXCEPT !.pc = pc] \in Fitting
    <2> DEFINE x == [Idle EXCEPT !.pc = pc]
    <2>1. x \in ThreadRecord /\ x.pc = pc /\ x.todo = {}
      BY <1>1, <1>3 DEF ThreadRecord
    <2> HIDE DEF x
    <2>2. x \in Fitting
      BY <2>1 DEF Fitting, Fits
    <2>3. QED BY <2>2 DEF x
  <1>7. ASSUME NEW pc \in PCs \ TaskPCs, NEW S \in SUBSET Tasks
        PROVE  [Idle EXCEPT !.pc = pc, !.todo = S] \in Fitting /\ [Idle EXCEPT !.pc = pc, !.left = S] \in Fitting
    <2> DEFINE x == [Idle EXCEPT !.pc = pc, !.todo = S]
               y == [Idle EXCEPT !.pc = pc, !.left = S]
    <2>1. x \in ThreadRecord /\ x.pc = pc /\ x.active = 0
      BY <1>1, <1>3 DEF ThreadRecord
    <2>2. y \in ThreadRecord /\ y.pc = pc /\ y.active = 0
      BY <1>1, <1>3 DEF ThreadRecord
    <2> HIDE DEF x, y
    <2>3. x \in Fitting /\ y \in Fitting
      BY <2>1, <2>2, Parameters DEF Fitting, Fits
    <2>4. QED BY <2>3 DEF x, y
  <1>8. QED BY <1>4, <1>5, <1>6, <1>7

(***************************************************************************)
(* The forms in which a thread goes on, but for a pump and a sweep.        *)
(***************************************************************************)
GoesOn(th, pc) ==
  \E r : /\ Becomes(th, r) /\ r.pc = pc
         /\ r.todo \subseteq thread[th].todo \cup listed /\ r.left \subseteq thread[th].left \cup listed

LEMMA GoingOn ==
  ASSUME NEW th \in Threads, NEW pc, NEW S \in SUBSET listed, NEW L \in SUBSET (thread[th].left \cup listed), NEW t,
         \/ Becomes(th, [Idle EXCEPT !.pc = pc])
         \/ Becomes(th, [Idle EXCEPT !.pc = pc, !.todo = S])
         \/ Becomes(th, [Idle EXCEPT !.pc = pc, !.left = L])
         \/ Becomes(th, [Idle EXCEPT !.pc = pc, !.task = t])
  PROVE  GoesOn(th, pc)
PROOF
  <1> DEFINE r1 == [Idle EXCEPT !.pc = pc]
             r2 == [Idle EXCEPT !.pc = pc, !.todo = S]
             r3 == [Idle EXCEPT !.pc = pc, !.left = L]
             r4 == [Idle EXCEPT !.pc = pc, !.task = t]
  <1>1. /\ r1.pc = pc /\ r1.todo = {} /\ r1.left = {}
        /\ r2.pc = pc /\ r2.todo = S /\ r2.left = {}
        /\ r3.pc = pc /\ r3.todo = {} /\ r3.left = L
        /\ r4.pc = pc /\ r4.todo = {} /\ r4.left = {}
    BY DEF Idle
  <1>2. Becomes(th, r1) \/ Becomes(th, r2) \/ Becomes(th, r3) \/ Becomes(th, r4)
    OBVIOUS
  <1> HIDE DEF r1, r2, r3, r4
  <1>3. QED BY <1>1, <1>2 DEF GoesOn

LEMMA GoingIdle ==
  ASSUME NEW th \in Threads, Becomes(th, Idle)
  PROVE  GoesOn(th, "idle")
PROOF
  <1>1. Idle.pc = "idle" /\ Idle.todo = {} /\ Idle.left = {}
    BY DEF Idle
  <1>2. QED BY <1>1 DEF GoesOn

LEMMA GoingToPump ==
  ASSUME NEW th \in Threads, thread[th] \in ThreadRecord, Pumps(th)
  PROVE  GoesOn(th, "pump")
PROOF
  <1> DEFINE r == [thread[th] EXCEPT !.pc = "pump", !.task = None]
  <1>1. r.pc = "pump" /\ r.todo = thread[th].todo /\ r.left = thread[th].left
    BY DEF ThreadRecord
  <1>2. Becomes(th, r)
    BY DEF Pumps
  <1> HIDE DEF r
  <1>3. QED BY <1>1, <1>2 DEF GoesOn

LEMMA GoingToMark ==
  ASSUME NEW th \in Threads, thread[th] \in ThreadRecord, NEW t, AskPause(th, t)
  PROVE  GoesOn(th, "mark")
PROOF
  <1> DEFINE r == [thread[th] EXCEPT !.pc = "mark", !.task = t, !.left = @ \ {t}]
  <1>1. r.pc = "mark" /\ r.todo = thread[th].todo /\ r.left = thread[th].left \ {t}
    BY DEF ThreadRecord
  <1>2. Becomes(th, r)
    BY DEF AskPause
  <1> HIDE DEF r
  <1>3. QED BY <1>1, <1>2 DEF GoesOn

LEMMA GoingAfterPump ==
  ASSUME NEW th \in Threads, AfterPump(th)
  PROVE  GoesOn(th, "idle") \/ GoesOn(th, "pauseall")
PROOF
  <1>1. Becomes(th, Idle) \/ Becomes(th, [Idle EXCEPT !.pc = "pauseall", !.left = thread[th].left])
    BY DEF AfterPump
  <1>2. QED BY <1>1, GoingIdle, GoingOn

LEMMA BecomesType ==
  ASSUME thread \in [Threads -> Fitting], NEW th \in Threads, NEW r \in Fitting, Becomes(th, r)
  PROVE  thread' \in [Threads -> Fitting]
BY DEF Becomes

LEMMA SetType ==
  ASSUME status \in [Tasks -> Row], rows \in [Tasks -> Row], NEW t \in Tasks, NEW s \in Statuses, Set(t, s)
  PROVE  status' \in [Tasks -> Row] /\ rows' \in [Tasks -> Row]
BY DEF Set, Update, Row

LEMMA ActiveCount ==
  ASSUME listed \subseteq Tasks
  PROVE  IsFiniteSet(Active) /\ Cardinality(Active) \in Nat
PROOF
  <1>1. Active \subseteq Tasks
    BY DEF Active
  <1>2. QED BY <1>1, Parameters, FS_Subset, FS_CardinalityType

Typed ==
  /\ NativeType
  /\ listed \subseteq Tasks /\ status \in [Tasks -> Row] /\ rows \in [Tasks -> Row]
  /\ launching \in [Tasks -> Nat] /\ posted \in Nat
  /\ thread \in [Threads -> Fitting] /\ monitor \in Threads \cup {None}
  /\ mon \in [connected : BOOLEAN, wifi : BOOLEAN] /\ networks \subseteq Networks
  /\ wifiOnly \in BOOLEAN /\ unpumped \in BOOLEAN /\ budget \in 0..Budget

(***************************************************************************)
(* Type correctness, and that threads and their tasks fit together.        *)
(***************************************************************************)
LEMMA TypedThroughout == Spec => []Typed
PROOF
  <1> USE DEF java, network, rest, Native, Others
  <1>1. Init => Typed
    <2> SUFFICES ASSUME Init PROVE Typed
      OBVIOUS
    <2> USE DEF Typed
    <2>1. NativeType
      <3>1. NoRun \in Run
        BY NoRunType
      <3>2. QED BY <3>1, Parameters DEF Init, NativeInit, NativeType
    <2>2. thread \in [Threads -> Fitting]
      BY IdleType DEF Init, QuietThreads
    <2>3. status \in [Tasks -> Row] /\ rows \in [Tasks -> Row] /\ launching \in [Tasks -> Nat]
      BY DEF Init, Row
    <2>4. mon \in [connected : BOOLEAN, wifi : BOOLEAN] /\ networks \subseteq Networks
      BY DEF Init, Networks
    <2>5. posted \in Nat /\ budget \in 0..Budget /\ monitor = None /\ listed = {}
      BY Parameters DEF Init
    <2>6. wifiOnly \in BOOLEAN /\ unpumped \in BOOLEAN
      BY DEF Init
    <2>7. QED BY <2>1, <2>2, <2>3, <2>4, <2>5, <2>6
  <1>2. Typed /\ [Next]_vars => Typed'
    <2> SUFFICES ASSUME Typed, [Next]_vars PROVE Typed'
      OBVIOUS
    <2> USE DEF Typed
    <2>0. ASSUME NEW e, Spend(e) PROVE budget' \in 0..Budget
      BY <2>0, Parameters DEF Spend
    <2>01. ASSUME NEW th \in Threads
           PROVE  /\ thread[th] \in ThreadRecord /\ Fits(thread[th])
                  /\ thread[th].task \in Tasks \cup {None} /\ thread[th].active \in 0..MaxConcurrent
                  /\ thread[th].todo \subseteq Tasks /\ thread[th].left \subseteq Tasks
      BY <2>01 DEF ThreadRecord, Fitting
    <2>02. "main" \in Threads /\ "net" \in Threads /\ "pool" \in Threads
      BY DEF Threads
    <2>03. ASSUME NEW th \in Threads, Pumps(th) PROVE thread' \in [Threads -> Fitting]
      <3>1. [thread[th] EXCEPT !.pc = "pump", !.task = None] \in Fitting
        BY <2>01 DEF ThreadRecord, PCs, Fitting, Fits, TaskPCs, PlacePCs, RowPCs
      <3>2. QED BY <2>03, <3>1, BecomesType DEF Pumps
    <2>04. ASSUME NEW th \in Threads, NEW pc \in PCs, NEW S \in SUBSET Tasks,
                  \/ Becomes(th, Idle)
                  \/ /\ pc \notin TaskPCs
                     /\ \/ Becomes(th, [Idle EXCEPT !.pc = pc])
                        \/ Becomes(th, [Idle EXCEPT !.pc = pc, !.todo = S])
                        \/ Becomes(th, [Idle EXCEPT !.pc = pc, !.left = S])
                  \/ \E t \in Tasks : Becomes(th, [Idle EXCEPT !.pc = pc, !.task = t])
           PROVE  thread' \in [Threads -> Fitting]
      BY <2>04, IdleType, BecomesType
    <2>05. ASSUME NEW th \in Threads, AfterPump(th)
           PROVE  thread' \in [Threads -> Fitting] /\ monitor' \in Threads \cup {None}
      <3>1. \/ Becomes(th, Idle)
            \/ Becomes(th, [Idle EXCEPT !.pc = "pauseall", !.left = thread[th].left])
        BY <2>05 DEF AfterPump
      <3>2. "pauseall" \in PCs \ TaskPCs /\ thread[th].left \in SUBSET Tasks
        BY <2>01 DEF PCs, TaskPCs, PlacePCs, RowPCs
      <3>3. QED BY <2>05, <3>1, <3>2, <2>04 DEF AfterPump
    <2>1. ASSUME NEW th \in Threads, EnterPump(th) PROVE Typed'
      <3>1. thread' \in [Threads -> Fitting] /\ monitor' \in Threads \cup {None}
        <4>1. CASE Blocked \/ Full(Cardinality(Active))
          BY <2>1, <4>1, <2>05 DEF EnterPump
        <4>2. CASE ~(Blocked \/ Full(Cardinality(Active)))
          <5>1. Cardinality(Active) \in 0..MaxConcurrent
            <6>1. Cardinality(Active) \in Nat
              BY ActiveCount
            <6>2. QED BY <4>2, <6>1, Parameters DEF Full
          <5> DEFINE x == [thread[th] EXCEPT !.pc = "pumping", !.todo = listed, !.active = Cardinality(Active)]
          <5>2. x \in ThreadRecord /\ x.pc = "pumping" /\ x.active < MaxConcurrent
            <6>1. Cardinality(Active) < MaxConcurrent
              BY <4>2, <5>1, Parameters DEF Full
            <6>2. QED BY <5>1, <6>1, <2>01 DEF ThreadRecord, PCs
          <5> HIDE DEF x
          <5>3. x \in Fitting
            BY <5>2 DEF Fitting, Fits, TaskPCs, PlacePCs, RowPCs
          <5>4. Becomes(th, x) /\ monitor' = th
            BY <2>1, <4>2 DEF EnterPump, x
          <5>5. QED BY <5>3, <5>4, BecomesType
        <4>3. QED BY <4>1, <4>2
      <3>2. unpumped' \in BOOLEAN
        BY <2>1 DEF EnterPump
      <3>3. UNCHANGED <<Native, java, posted, network, budget>>
        BY <2>1 DEF EnterPump
      <3>4. QED BY <3>1, <3>2, <3>3 DEF NativeType
    <2>2. ASSUME NEW th \in Threads, NEW t \in Tasks, VisitTask(th, t) PROVE Typed'
      <3>1. CASE status[t] = "queued"
        <4>1. /\ Set(t, "downloading") /\ launching' = [launching EXCEPT ![t] = @ + 1]
              /\ Becomes(th, [thread[th] EXCEPT !.active = @ + 1,
                     !.todo = IF Full(thread[th].active + 1) THEN {} ELSE @ \ {t}])
          BY <2>2, <3>1 DEF VisitTask
        <4>2. status' \in [Tasks -> Row] /\ rows' \in [Tasks -> Row]
          BY <4>1, SetType DEF Statuses
        <4>3. thread[th].active + 1 \in 0..MaxConcurrent
          BY <2>2, <2>01, Parameters DEF VisitTask, In, Fits
        <4>4. [thread[th] EXCEPT !.active = @ + 1,
                 !.todo = IF Full(thread[th].active + 1) THEN {} ELSE @ \ {t}] \in Fitting
          <5> DEFINE todo == IF Full(thread[th].active + 1) THEN {} ELSE thread[th].todo \ {t}
                     x == [thread[th] EXCEPT !.active = thread[th].active + 1, !.todo = todo]
          <5>1. todo \subseteq Tasks /\ (todo = {} \/ thread[th].active + 1 < MaxConcurrent)
            BY <2>01, <4>3, Parameters DEF Full
          <5> HIDE DEF todo
          <5>2. /\ x \in ThreadRecord /\ x.pc = thread[th].pc /\ x.task = thread[th].task
                /\ x.todo = todo /\ x.active = thread[th].active + 1
            BY <4>3, <5>1, <2>01 DEF ThreadRecord
          <5> HIDE DEF x
          <5>3. x \in Fitting
            BY <5>1, <5>2, <2>01 DEF Fitting, Fits
          <5>4. QED BY <5>3 DEF x, todo
        <4>5. thread' \in [Threads -> Fitting]
          BY <4>1, <4>4, BecomesType
        <4>6. launching' \in [Tasks -> Nat]
          BY <4>1
        <4>7. UNCHANGED <<Native, listed, monitor, posted, rest>>
          BY <2>2 DEF VisitTask
        <4>8. QED BY <4>2, <4>5, <4>6, <4>7 DEF NativeType
      <3>2. CASE status[t] # "queued"
        <4>1. [thread[th] EXCEPT !.todo = @ \ {t}] \in Fitting
          <5> DEFINE x == [thread[th] EXCEPT !.todo = @ \ {t}]
          <5>1. /\ x \in ThreadRecord /\ x.pc = thread[th].pc /\ x.task = thread[th].task
                /\ x.active = thread[th].active
            BY <2>01 DEF ThreadRecord
          <5>2. thread[th].pc = "pumping" /\ thread[th].todo # {}
            BY <2>2 DEF VisitTask, In
          <5> HIDE DEF x
          <5>3. x \in Fitting
            BY <5>1, <5>2, <2>01 DEF Fitting, Fits
          <5>4. QED BY <5>3 DEF x
        <4>2. thread' \in [Threads -> Fitting]
          BY <2>2, <3>2, <4>1, BecomesType DEF VisitTask
        <4>3. UNCHANGED <<Native, java, monitor, posted, rest>>
          BY <2>2, <3>2 DEF VisitTask
        <4>4. QED BY <4>2, <4>3 DEF NativeType
      <3>3. QED BY <3>1, <3>2
    <2>3. ASSUME NEW th \in Threads, LeavePump(th) PROVE Typed'
      <3>1. thread' \in [Threads -> Fitting] /\ monitor' \in Threads \cup {None}
        BY <2>3, <2>05 DEF LeavePump
      <3>2. QED BY <2>3, <3>1 DEF LeavePump, NativeType
    <2>4. ASSUME NEW t \in Tasks, Launch(t) PROVE Typed'
      <3>1. NativeType'
        BY <2>4, StartType DEF Launch
      <3>2. launching' \in [Tasks -> Nat]
        BY <2>4 DEF Launch
      <3>3. QED BY <2>4, <3>1, <3>2 DEF Launch
    <2>5. ASSUME NEW t \in Tasks, LaunchFails(t) PROVE Typed'
      <3>1. status' \in [Tasks -> Row] /\ rows' \in [Tasks -> Row]
        BY <2>5, SetType DEF LaunchFails, Statuses
      <3>2. launching' \in [Tasks -> Nat] /\ budget' \in 0..Budget
        BY <2>5, <2>0 DEF LaunchFails
      <3>3. QED BY <2>5, <3>1, <3>2 DEF LaunchFails, NativeType
    <2>6. ASSUME NEW ts \in SUBSET Tasks, NEW s \in {"queued", "paused"}, InsertRows(ts, s) PROVE Typed'
      <3>1. s \in Row
        BY DEF Row, Statuses
      <3>2. status' \in [Tasks -> Row] /\ rows' \in [Tasks -> Row]
        BY <2>6, <3>1 DEF InsertRows
      <3>3. thread' \in [Threads -> Fitting]
        <4>1. "add" \in PCs \ TaskPCs
          BY DEF PCs, TaskPCs, PlacePCs, RowPCs
        <4>2. QED BY <2>6, <2>02, <4>1, <2>04 DEF InsertRows
      <3>4. QED BY <2>6, <3>2, <3>3 DEF InsertRows, NativeType
    <2>7. CASE AddTasks
      <3>1. thread' \in [Threads -> Fitting]
        <4>1. "pump" \in PCs \ TaskPCs /\ {} \in SUBSET Tasks
          BY DEF PCs, TaskPCs, PlacePCs, RowPCs
        <4>2. Becomes("pool", Idle) \/ Becomes("pool", [Idle EXCEPT !.pc = "pump"])
          BY <2>7 DEF AddTasks
        <4>3. QED BY <2>02, <4>1, <4>2, <2>04
      <3>2. listed' \subseteq Tasks
        BY <2>7, <2>01, <2>02 DEF AddTasks
      <3>3. QED BY <2>7, <3>1, <3>2 DEF AddTasks, NativeType
    <2>8. ASSUME NEW th \in Threads, NEW t, AskPause(th, t)
          PROVE  NativeType' /\ thread' \in [Threads -> Fitting]
      <3>1. t \in Tasks
        BY <2>8 DEF AskPause
      <3>2. [thread[th] EXCEPT !.pc = "mark", !.task = t, !.left = @ \ {t}] \in Fitting
        BY <3>1, <2>01 DEF ThreadRecord, PCs, Fitting, Fits
      <3>3. QED BY <2>8, <3>1, <3>2, PauseType, BecomesType DEF AskPause
    <2>9. ASSUME NEW t \in Tasks, Pause(t) PROVE Typed'
      <3>1. NativeType' /\ thread' \in [Threads -> Fitting]
        BY <2>9, <2>02, <2>8 DEF Pause
      <3>2. QED BY <2>9, <3>1, <2>0 DEF Pause
    <2>10. ASSUME NEW th \in Threads, PauseActive(th) PROVE Typed'
      <3>1. NativeType' /\ thread' \in [Threads -> Fitting]
        <4>1. CASE \E t \in thread[th].left : AskPause(th, t)
          BY <4>1, <2>8
        <4>2. CASE Becomes(th, Idle) /\ UNCHANGED Native
          BY <4>2, IdleType, BecomesType DEF NativeType
        <4>3. QED BY <2>10, <4>1, <4>2 DEF PauseActive
      <3>2. QED BY <2>10, <3>1 DEF PauseActive
    <2>11. ASSUME NEW th \in Threads, MarkPaused(th) PROVE Typed'
      <3>1. thread' \in [Threads -> Fitting]
        BY <2>11, <2>03 DEF MarkPaused
      <3>2. status' \in [Tasks -> Row] /\ rows' \in [Tasks -> Row]
        <4>1. thread[th].task \in Tasks
          BY <2>11, <2>01 DEF MarkPaused, In, Fits, TaskPCs, PlacePCs, RowPCs
        <4>2. QED BY <2>11, <4>1, SetType DEF MarkPaused, Statuses
      <3>3. QED BY <2>11, <3>1, <3>2 DEF MarkPaused, NativeType
    <2>12. ASSUME NEW t \in Tasks, Resume(t) PROVE Typed'
      <3>1. status' \in [Tasks -> Row] /\ rows' \in [Tasks -> Row]
        BY <2>12, SetType DEF Resume, Statuses
      <3>2. thread' \in [Threads -> Fitting] /\ budget' \in 0..Budget
        BY <2>12, <2>0, <2>02, <2>03 DEF Resume
      <3>3. QED BY <2>12, <3>1, <3>2 DEF Resume, NativeType
    <2>13. CASE ResumeAll
      <3>1. thread' \in [Threads -> Fitting] /\ budget' \in 0..Budget /\ monitor' \in Threads
        BY <2>13, <2>0, <2>02, <2>03 DEF ResumeAll
      <3>2. \A t \in Tasks : Update(rows, t, "queued")[t] \in Row
        BY DEF Update, Row, Statuses
      <3>3. status' \in [Tasks -> Row] /\ rows' \in [Tasks -> Row]
        BY <2>13, <3>2 DEF ResumeAll, Row, Statuses
      <3>4. QED BY <2>13, <3>1, <3>3 DEF ResumeAll, NativeType
    <2>14. ASSUME NEW t \in Tasks, Cancel(t) \/ RemoveTask(t) PROVE Typed'
      <3>1. NativeType'
        BY <2>14, CancelType DEF Cancel, RemoveTask, NativeType
      <3>2. thread' \in [Threads -> Fitting]
        <4>1. "drop" \in PCs /\ "remove" \in PCs /\ {} \in SUBSET Tasks
          BY DEF PCs
        <4>2. QED BY <2>14, <2>02, <4>1, <2>04 DEF Cancel, RemoveTask
      <3>3. budget' \in 0..Budget
        BY <2>14, <2>0 DEF Cancel, RemoveTask
      <3>4. QED BY <2>14, <3>1, <3>2, <3>3 DEF Cancel, RemoveTask
    <2>15. CASE Drop
      <3>1. thread["main"].task \in Tasks /\ "droprow" \in PCs /\ "removerow" \in PCs /\ {} \in SUBSET Tasks
        BY <2>15, <2>01, <2>02 DEF Drop, In, Fits, TaskPCs, PlacePCs, PCs
      <3>2. thread' \in [Threads -> Fitting]
        <4>1. \/ Becomes("main", [Idle EXCEPT !.pc = "droprow", !.task = thread["main"].task])
              \/ Becomes("main", [Idle EXCEPT !.pc = "removerow", !.task = thread["main"].task])
          BY <2>15 DEF Drop
        <4>2. QED BY <3>1, <4>1, <2>02, <2>04
      <3>3. listed' \subseteq Tasks /\ unpumped' \in BOOLEAN
        BY <2>15 DEF Drop, In
      <3>4. QED BY <2>15, <3>2, <3>3 DEF Drop, NativeType
    <2>15b. CASE DropRow
      <3>1. thread' \in [Threads -> Fitting]
        BY <2>15b, <2>02, <2>03, IdleType, BecomesType DEF DropRow
      <3>2. rows' \in [Tasks -> Row]
        BY <2>15b DEF DropRow, Row
      <3>3. QED BY <2>15b, <3>1, <3>2 DEF DropRow, NativeType
    <2>16. CASE SetWifiOnly
      <3>1. thread' \in [Threads -> Fitting]
        <4>1. "pump" \in PCs \ TaskPCs /\ "pauseall" \in PCs \ TaskPCs /\ {} \in SUBSET Tasks
          BY DEF PCs, TaskPCs, PlacePCs, RowPCs
        <4>2. \/ Becomes("main", [Idle EXCEPT !.pc = "pauseall", !.left = listed])
              \/ Becomes("main", [Idle EXCEPT !.pc = "pump"])
          BY <2>16 DEF SetWifiOnly
        <4>3. QED BY <2>02, <4>1, <4>2, <2>04
      <3>2. wifiOnly' \in BOOLEAN /\ budget' \in 0..Budget
        BY <2>16, <2>0 DEF SetWifiOnly
      <3>3. QED BY <2>16, <3>1, <3>2 DEF SetWifiOnly, NativeType
    <2>17. ASSUME NEW kind \in Sweeps, EnterSweep(kind) PROVE Typed'
      <3>1. thread' \in [Threads -> Fitting]
        <4>1. kind \in PCs \ TaskPCs
          BY DEF PCs, TaskPCs, PlacePCs, RowPCs, Sweeps
        <4>2. QED BY <2>17, <2>02, <4>1, <2>04 DEF EnterSweep
      <3>2. monitor' \in Threads /\ budget' \in 0..Budget
        BY <2>17, <2>02, <2>0 DEF EnterSweep
      <3>3. QED BY <2>17, <3>1, <3>2 DEF EnterSweep, NativeType
    <2>18. ASSUME NEW t \in Tasks, SweepTask(t) PROVE Typed'
      <3>1. NativeType' /\ status' \in [Tasks -> Row] /\ rows' \in [Tasks -> Row]
        <4>1. CASE StopOne(t)
          <5>1. NativeType'
            BY <4>1, PauseType DEF StopOne, NativeType
          <5>2. status' \in [Tasks -> Row] /\ rows' \in [Tasks -> Row]
            BY <4>1, SetType DEF StopOne, Statuses
          <5>3. QED BY <5>1, <5>2
        <4>2. CASE CancelOne(t)
          <5>1. NativeType'
            BY <4>2, CancelType DEF CancelOne, NativeType
          <5>2. rows' = rows \/ rows' = [rows EXCEPT ![t] = None]
            BY <4>2 DEF CancelOne
          <5>3. QED BY <4>2, <5>1, <5>2 DEF CancelOne, Row
        <4>3. QED BY <2>18, <4>1, <4>2 DEF SweepTask
      <3>2. thread' \in [Threads -> Fitting]
        <4> DEFINE l == thread["main"].left
                   nl == IF In("main", "cancelall") /\ status[t] # "completed" THEN l \cup {t} ELSE l
        <4>1. nl \subseteq Tasks /\ thread["main"].todo \ {t} \subseteq Tasks
          BY <2>01, <2>02
        <4>2. [thread["main"] EXCEPT !.todo = @ \ {t}, !.left = nl] \in Fitting
          <5> HIDE DEF nl
          <5>1. thread["main"].pc \in Sweeps
            BY <2>18 DEF SweepTask, StopOne, CancelOne, In, Sweeps
          <5> DEFINE x == [thread["main"] EXCEPT !.todo = @ \ {t}, !.left = nl]
          <5>2. x \in ThreadRecord /\ x.pc = thread["main"].pc
            BY <4>1, <2>01, <2>02 DEF ThreadRecord
          <5> HIDE DEF x
          <5>3. x \in Fitting
            BY <5>1, <5>2 DEF Fitting, Fits, TaskPCs, PlacePCs, RowPCs, Sweeps
          <5>4. QED BY <5>3 DEF x
        <4>3. Becomes("main", [thread["main"] EXCEPT !.todo = @ \ {t}, !.left = nl])
          BY <2>18 DEF SweepTask
        <4> HIDE DEF nl
        <4>4. QED BY <2>02, <4>2, <4>3, BecomesType
      <3>3. QED BY <2>18, <3>1, <3>2 DEF SweepTask
    <2>19. CASE EndSweep
      <3>1. thread' \in [Threads -> Fitting]
        <4>1. "pump" \in PCs \ TaskPCs /\ "deleterows" \in PCs \ TaskPCs /\ {} \in SUBSET Tasks
          BY DEF PCs, TaskPCs, PlacePCs, RowPCs
        <4>2. \/ Becomes("main", Idle) \/ Becomes("main", [Idle EXCEPT !.pc = "pump"])
              \/ Becomes("main", [Idle EXCEPT !.pc = "deleterows"])
          BY <2>19 DEF EndSweep
        <4>3. QED BY <2>02, <4>1, <4>2, <2>04
      <3>2. rows' \in [Tasks -> Row] /\ listed' \subseteq Tasks /\ monitor' \in Threads \cup {None}
        BY <2>19 DEF EndSweep, Row
      <3>3. QED BY <2>19, <3>1, <3>2 DEF EndSweep, NativeType
    <2>20. ASSUME NEW n \in Networks, OnAvailable(n) \/ OnLost(n) PROVE Typed'
      <3>1. PICK now : OnNetworkChanged(now) /\ now \in [connected : BOOLEAN, wifi : BOOLEAN]
        <4>1. ASSUME NEW w \in BOOLEAN PROVE [connected |-> TRUE, wifi |-> w] \in [connected : BOOLEAN, wifi : BOOLEAN]
          BY <4>1
        <4>2. CASE OnAvailable(n)
          <5>1. OnNetworkChanged([connected |-> TRUE, wifi |-> (n = "wifi")])
            BY <4>2 DEF OnAvailable
          <5>2. (n = "wifi") \in BOOLEAN
            OBVIOUS
          <5>3. QED BY <4>1, <5>1, <5>2
        <4>3. CASE OnLost(n)
          <5>1. OnNetworkChanged(Check(networks'))
            BY <4>3 DEF OnLost
          <5>2. (ActiveNetwork(networks') = "wifi") \in BOOLEAN
            OBVIOUS
          <5>3. Check(networks') \in [connected : BOOLEAN, wifi : BOOLEAN]
            BY <4>1, <5>2 DEF Check
          <5>4. QED BY <5>1, <5>3
        <4>4. QED BY <2>20, <4>2, <4>3
      <3>2. thread' \in [Threads -> Fitting]
        <4>1. "pump" \in PCs \ TaskPCs /\ "pauseall" \in PCs \ TaskPCs /\ {} \in SUBSET Tasks
          BY DEF PCs, TaskPCs, PlacePCs, RowPCs
        <4>2. \/ Becomes("net", [Idle EXCEPT !.pc = "pauseall", !.left = listed])
              \/ Becomes("net", [Idle EXCEPT !.pc = "pump"])
          BY <3>1 DEF OnNetworkChanged
        <4>3. QED BY <2>02, <4>1, <4>2, <2>04
      <3>3. networks' \subseteq Networks /\ budget' \in 0..Budget
        BY <2>20, <2>0 DEF OnAvailable, OnLost
      <3>4. mon' \in [connected : BOOLEAN, wifi : BOOLEAN]
        BY <3>1 DEF OnNetworkChanged
      <3>5. UNCHANGED <<Native, java, monitor, posted, wifiOnly, unpumped>>
        BY <3>1 DEF OnNetworkChanged
      <3>6. QED BY <3>2, <3>3, <3>4, <3>5 DEF NativeType
    <2>21. ASSUME NEW r \in RunIds, OnProgress(r) PROVE Typed'
      <3>1. rows' \in [Tasks -> Row]
        BY <2>21 DEF OnProgress, Update, Row, Statuses
      <3>2. QED BY <2>21, <3>1 DEF OnProgress, NativeType
    <2>22. ASSUME NEW r \in RunIds, Report(r) PROVE Typed'
      <3>1. NativeType'
        BY <2>22, RunType DEF Report, RunPCs
      <3>2. status' \in [Tasks -> Row] /\ rows' \in [Tasks -> Row] /\ posted' \in Nat
        <4>1. CASE runs[r].task \in listed
          <5>1. runs[r].task \in Tasks
            BY <4>1
          <5>2. Set(runs[r].task, IF At(r, "completed") THEN "completed" ELSE "error") /\ posted' = posted + 1
            BY <2>22, <4>1 DEF Report
          <5>3. (IF At(r, "completed") THEN "completed" ELSE "error") \in Statuses
            BY DEF Statuses
          <5>4. QED BY <5>1, <5>2, <5>3, SetType
        <4>2. CASE runs[r].task \notin listed
          BY <2>22, <4>2 DEF Report
        <4>3. QED BY <4>1, <4>2
      <3>3. QED BY <2>22, <3>1, <3>2 DEF Report
    <2>23. ASSUME NEW r \in RunIds, DownloadEnds(r) \/ DownloadFails(r) \/ LastBytes(r) \/ RunStep(r) PROVE Typed'
      <3>1. NativeType'
        <4>1. runs[r].cancelled \in BOOLEAN
          <5>1. runs[r] \in Run
            BY DEF NativeType
          <5>2. QED BY <5>1 DEF Run
        <4>2. QED BY <2>23, <4>1, RunType DEF DownloadEnds, DownloadFails, LastBytes, RunStep, RunPCs
      <3>2. budget' \in 0..Budget /\ UNCHANGED <<java, thread, monitor, posted, network, unpumped>>
        BY <2>23, <2>0 DEF DownloadEnds, DownloadFails, LastBytes, RunStep
      <3>3. QED BY <3>1, <3>2
    <2>24. CASE RunPosted
      <3>1. thread' \in [Threads -> Fitting] /\ posted' \in Nat
        BY <2>24, <2>02, <2>03 DEF RunPosted
      <3>2. QED BY <2>24, <3>1 DEF RunPosted, NativeType
    <2>25. CASE Restart
      <3>1. NativeType'
        BY <2>25, NoRunType, Parameters DEF Restart, NativeType
      <3>2. \A t \in Tasks : rows[t] \in Row /\ Loaded(rows[t]) \in Row
        BY DEF Loaded, Row, Statuses
      <3>3. status' \in [Tasks -> Row] /\ rows' \in [Tasks -> Row] /\ listed' \subseteq Tasks
        BY <2>25, <3>2 DEF Restart
      <3>4. thread' \in [Threads -> Fitting]
        BY <2>25, IdleType DEF Restart, QuietThreads
      <3>5. mon' \in [connected : BOOLEAN, wifi : BOOLEAN]
        BY <2>25 DEF Restart
      <3>6. budget' \in 0..Budget
        BY <2>25, <2>0 DEF Restart
      <3>7. QED BY <2>25, <3>1, <3>3, <3>4, <3>5, <3>6 DEF Restart
    <2>26. CASE UNCHANGED vars
      BY <2>26 DEF vars, NativeType
    <2>27. QED
      BY <2>1, <2>2, <2>3, <2>4, <2>5, <2>6, <2>7, <2>9, <2>10, <2>11, <2>12, <2>13, <2>14, <2>15, <2>16,
         <2>17, <2>18, <2>19, <2>20, <2>21, <2>22, <2>23, <2>24, <2>25, <2>26, <2>15b
      DEF Next, ThreadStep, PumpStep, MainStep, UserStep
  <1>3. QED BY <1>1, <1>2, PTL DEF Spec

(***************************************************************************)
(* Type correctness.                                                       *)
(***************************************************************************)
THEOREM TypeCorrect == Spec => []TypeOK
PROOF
  <1>1. Typed => TypeOK
    <2>1. Fitting \subseteq ThreadRecord
      BY DEF Fitting
    <2>2. QED BY <2>1 DEF Typed, TypeOK, NativeType, Row, ThreadRecord, PCs
  <1>2. QED BY <1>1, TypedThroughout, PTL
-----------------------------------------------------------------------------
(* The monitor. Whoever pumps or sweeps is in a synchronized method.       *)

Held == Sweeps \cup {"pumping", "deleterows"}
MonitorInv == \A th \in Threads : thread[th].pc \in Held => monitor = th

LEMMA MonitorKept ==
  ASSUME Typed, MonitorInv, NEW th \in Threads, NEW r, Becomes(th, r),
         r.pc \in Held => monitor' = th,
         monitor' = monitor \/ monitor \in {None, th}
  PROVE  MonitorInv'
PROOF
  <1> SUFFICES ASSUME NEW v \in Threads, thread'[v].pc \in Held PROVE monitor' = v
    BY DEF MonitorInv
  <1>1. CASE v = th
    <2>1. thread'[v] = r
      BY <1>1 DEF Becomes, Typed
    <2>2. QED BY <1>1, <2>1
  <1>2. CASE v # th
    <2>1. thread'[v] = thread[v]
      BY <1>2 DEF Becomes, Typed
    <2>2. monitor = v /\ v # None
      BY <2>1, Parameters DEF MonitorInv
    <2>3. QED BY <1>2, <2>2
  <1>3. QED BY <1>1, <1>2

LEMMA MonitorInvariant == Spec => []MonitorInv
PROOF
  <1> USE DEF java, network, rest, Native, Others
  <1>1. Init => MonitorInv
    BY DEF Init, MonitorInv, QuietThreads, Idle, Held, Sweeps
  <1>2. Typed /\ MonitorInv /\ [Next]_vars => MonitorInv'
    <2> SUFFICES ASSUME Typed, MonitorInv, [Next]_vars PROVE MonitorInv'
      OBVIOUS
    <2>0. /\ "main" \in Threads /\ "net" \in Threads /\ "pool" \in Threads
          /\ \A pc \in {"idle", "pump", "pauseall", "mark", "add", "drop", "remove", "droprow", "removerow"} :
               pc \notin Held
      BY DEF Threads, Held, Sweeps
    <2>01. CASE UNCHANGED <<thread, monitor>>
      BY <2>01 DEF MonitorInv
    <2>02. ASSUME NEW th \in Threads, NEW pc \in {"idle", "pump", "pauseall", "mark", "add", "drop", "remove", "droprow", "removerow"},
                  GoesOn(th, pc), monitor' = monitor \/ monitor \in {None, th}
           PROVE  MonitorInv'
      BY <2>02, <2>0, MonitorKept DEF GoesOn
    <2>03. ASSUME NEW th \in Threads PROVE thread[th] \in ThreadRecord
      BY <2>03 DEF Typed, Fitting
    <2>04. ASSUME NEW th \in Threads, AfterPump(th), monitor \in {None, th} PROVE MonitorInv'
      BY <2>04, <2>02, GoingAfterPump
    <2>05. ASSUME NEW th \in Threads, Pumps(th), monitor' = monitor \/ monitor \in {None, th} PROVE MonitorInv'
      BY <2>05, <2>02, <2>03, GoingToPump
    <2>1. ASSUME NEW th \in Threads, EnterPump(th) PROVE MonitorInv'
      <3>1. CASE Blocked \/ Full(Cardinality(Active))
        BY <2>1, <3>1, <2>04 DEF EnterPump
      <3>2. CASE ~(Blocked \/ Full(Cardinality(Active)))
        <4>1. PICK r : Becomes(th, r) /\ monitor' = th
          BY <2>1, <3>2 DEF EnterPump
        <4>2. QED BY <2>1, <4>1, MonitorKept DEF EnterPump
      <3>3. QED BY <3>1, <3>2
    <2>2. ASSUME NEW th \in Threads, NEW t \in Tasks, VisitTask(th, t) PROVE MonitorInv'
      <3>1. thread[th].pc = "pumping" /\ monitor' = monitor
        BY <2>2 DEF VisitTask, In
      <3>2. monitor = th
        BY <3>1 DEF MonitorInv, Held
      <3>3. PICK r : Becomes(th, r)
        BY <2>2 DEF VisitTask
      <3>4. QED BY <3>1, <3>2, <3>3, MonitorKept
    <2>3. ASSUME NEW th \in Threads, LeavePump(th) PROVE MonitorInv'
      <3>1. monitor = th
        BY <2>3 DEF LeavePump, In, MonitorInv, Held
      <3>2. QED BY <2>3, <3>1, <2>04 DEF LeavePump
    <2>4. ASSUME NEW t \in Tasks, Launch(t) \/ LaunchFails(t) PROVE MonitorInv'
      BY <2>4, <2>01 DEF Launch, LaunchFails
    <2>5. ASSUME NEW ts, NEW s, InsertRows(ts, s) PROVE MonitorInv'
      <3> DEFINE r == [Idle EXCEPT !.pc = "add", !.todo = ts]
      <3>1. r.pc = "add"
        BY DEF Idle
      <3>2. Becomes("pool", r) /\ monitor' = monitor
        BY <2>5 DEF InsertRows
      <3> HIDE DEF r
      <3>3. QED BY <3>1, <3>2, <2>0, MonitorKept
    <2>6. CASE AddTasks
      <3>1. GoesOn("pool", "idle") \/ GoesOn("pool", "pump")
        BY <2>6, <2>0, GoingIdle, GoingOn DEF AddTasks
      <3>2. QED BY <2>6, <3>1, <2>02, <2>0 DEF AddTasks
    <2>7. ASSUME NEW th \in Threads, NEW t, AskPause(th, t), monitor' = monitor PROVE MonitorInv'
      BY <2>7, <2>02, <2>03, GoingToMark
    <2>8. ASSUME NEW t \in Tasks, Pause(t) PROVE MonitorInv'
      BY <2>8, <2>7, <2>0 DEF Pause
    <2>9. ASSUME NEW th \in Threads, PauseActive(th) PROVE MonitorInv'
      <3>1. CASE Becomes(th, Idle)
        BY <2>9, <3>1, <2>02, GoingIdle DEF PauseActive
      <3>2. CASE \E t \in thread[th].left : AskPause(th, t)
        BY <2>9, <3>2, <2>7 DEF PauseActive
      <3>3. QED BY <2>9, <3>1, <3>2 DEF PauseActive
    <2>10. ASSUME NEW th \in Threads, MarkPaused(th) PROVE MonitorInv'
      BY <2>10, <2>05 DEF MarkPaused
    <2>11. ASSUME NEW t \in Tasks, Resume(t) \/ ResumeAll \/ RunPosted PROVE MonitorInv'
      <3>1. Pumps("main") /\ (monitor' = monitor \/ monitor = None)
        BY <2>11 DEF Resume, ResumeAll, RunPosted
      <3>2. QED BY <3>1, <2>0, <2>05
    <2>12. ASSUME NEW t \in Tasks, Cancel(t) \/ RemoveTask(t) PROVE MonitorInv'
      <3>1. GoesOn("main", "drop") \/ GoesOn("main", "remove")
        BY <2>12, <2>0, GoingOn DEF Cancel, RemoveTask
      <3>2. monitor' = monitor
        BY <2>12 DEF Cancel, RemoveTask
      <3>3. QED BY <3>1, <3>2, <2>02, <2>0
    <2>13. CASE Drop
      <3>1. GoesOn("main", "droprow") \/ GoesOn("main", "removerow")
        BY <2>13, <2>0, GoingOn DEF Drop
      <3>2. monitor' = monitor
        BY <2>13 DEF Drop
      <3>3. QED BY <3>1, <3>2, <2>02, <2>0
    <2>13b. CASE DropRow
      <3>1. CASE Pumps("main")
        BY <2>13b, <3>1, <2>0, <2>05 DEF DropRow
      <3>2. CASE Becomes("main", Idle)
        BY <2>13b, <3>2, <2>0, <2>02, GoingIdle DEF DropRow
      <3>3. QED BY <2>13b, <3>1, <3>2 DEF DropRow
    <2>14. CASE SetWifiOnly
      <3>1. GoesOn("main", "pauseall") \/ GoesOn("main", "pump")
        BY <2>14, <2>0, GoingOn DEF SetWifiOnly
      <3>2. QED BY <2>14, <3>1, <2>02, <2>0 DEF SetWifiOnly
    <2>15. ASSUME NEW kind \in Sweeps, EnterSweep(kind) PROVE MonitorInv'
      <3>1. PICK r : Becomes("main", r)
        BY <2>15 DEF EnterSweep
      <3>2. QED BY <2>15, <3>1, <2>0, MonitorKept DEF EnterSweep
    <2>16. ASSUME NEW t \in Tasks, SweepTask(t) PROVE MonitorInv'
      <3>1. monitor = "main" /\ monitor' = monitor
        BY <2>16, <2>0 DEF SweepTask, StopOne, CancelOne, In, MonitorInv, Held, Sweeps
      <3>2. PICK r : Becomes("main", r)
        BY <2>16 DEF SweepTask
      <3>3. QED BY <3>1, <3>2, <2>0, MonitorKept
    <2>17. CASE EndSweep
      <3>1. monitor = "main"
        BY <2>17, <2>0 DEF EndSweep, In, MonitorInv, Held, Sweeps
      <3>2. CASE In("main", "deleteall")
        <4>1. PICK r : Becomes("main", r) /\ monitor' = monitor
          BY <2>17, <3>2 DEF EndSweep, In
        <4>2. QED BY <3>1, <4>1, <2>0, MonitorKept
      <3>3. CASE ~In("main", "deleteall")
        <4>1. GoesOn("main", "idle") \/ GoesOn("main", "pump")
          BY <2>17, <3>3, <2>0, GoingIdle, GoingOn DEF EndSweep
        <4>2. monitor' = monitor \/ monitor' = None
          BY <2>17 DEF EndSweep
        <4>3. QED BY <3>1, <4>1, <4>2, <2>02, <2>0
      <3>4. QED BY <3>2, <3>3
    <2>18. ASSUME NEW n \in Networks, OnAvailable(n) \/ OnLost(n) PROVE MonitorInv'
      <3>1. GoesOn("net", "pauseall") \/ GoesOn("net", "pump")
        BY <2>18, <2>0, GoingOn DEF OnAvailable, OnLost, OnNetworkChanged
      <3>2. monitor' = monitor
        BY <2>18 DEF OnAvailable, OnLost, OnNetworkChanged
      <3>3. QED BY <3>1, <3>2, <2>02, <2>0
    <2>19. ASSUME NEW r \in RunIds,
                  \/ OnProgress(r) \/ Report(r) \/ DownloadEnds(r) \/ DownloadFails(r)
                  \/ LastBytes(r) \/ RunStep(r)
           PROVE  MonitorInv'
      BY <2>19, <2>01 DEF OnProgress, Report, DownloadEnds, DownloadFails, LastBytes, RunStep
    <2>20. CASE Restart
      BY <2>20 DEF Restart, MonitorInv, QuietThreads, Idle, Held, Sweeps
    <2>21. CASE UNCHANGED vars
      BY <2>21, <2>01 DEF vars
    <2>22. QED
      BY <2>1, <2>2, <2>3, <2>4, <2>5, <2>6, <2>8, <2>9, <2>10, <2>11, <2>12, <2>13, <2>14, <2>15,
         <2>16, <2>17, <2>18, <2>19, <2>20, <2>21, <2>13b, NativeAssumption
      DEF Next, ThreadStep, PumpStep, MainStep, UserStep
  <1>3. QED BY <1>1, <1>2, TypedThroughout, PTL DEF Spec
-----------------------------------------------------------------------------
(* Most steps start no task, list none, bring back no row, and only move a *)
(* thread on.                                                              *)

QuietPCs == {"idle", "pump", "pauseall", "mark", "drop", "remove", "droprow", "removerow"}
BusyPCs == Sweeps \cup {"add", "deleterows"}
MovesQuietly(th) == thread[th].pc \notin BusyPCs /\ \E pc \in QuietPCs : GoesOn(th, pc)
\* A row may stay that has its task in the list or a thread to take it away.
Kept(t) == t \in listed \/ Removing(t)
Quiet ==
  /\ \A t \in Tasks : /\ status'[t] = None => status[t] = None
                      /\ status'[t] = "downloading" => status[t] = "downloading"
                      /\ rows'[t] # None => rows[t] # None /\ (Kept(t) => Kept(t)')
  /\ listed' \subseteq listed
  /\ thread' = thread \/ \E th \in Threads : MovesQuietly(th)

Starts(th) == EnterPump(th) /\ ~Blocked /\ ~Full(Cardinality(Active))

LEMMA SetQuietly ==
  ASSUME Typed, NEW u \in Tasks, NEW s \in Statuses, s # "downloading", Set(u, s), NEW t \in Tasks
  PROVE  /\ status'[t] = None => status[t] = None
         /\ status'[t] = "downloading" => status[t] = "downloading"
         /\ rows'[t] # None => rows[t] # None
PROOF
  <1>1. s # None
    BY Parameters
  <1>2. QED BY <1>1 DEF Set, Update, Typed

LEMMA Moved ==
  ASSUME Typed, NEW th \in Threads, NEW pc, GoesOn(th, pc)
  PROVE  /\ \A v \in Threads : v # th => thread'[v] = thread[v]
         /\ thread'[th].pc = pc
         /\ thread'[th].todo \subseteq thread[th].todo \cup listed
         /\ thread'[th].left \subseteq thread[th].left \cup listed
PROOF
  <1>1. PICK r : /\ Becomes(th, r) /\ r.pc = pc
                 /\ r.todo \subseteq thread[th].todo \cup listed /\ r.left \subseteq thread[th].left \cup listed
    BY DEF GoesOn
  <1>2. thread'[th] = r /\ \A v \in Threads : v # th => thread'[v] = thread[v]
    BY <1>1 DEF Becomes, Typed
  <1>3. QED BY <1>1, <1>2

\* A step that is none of a removal leaves the removals alone.
Calm(th) == MovesQuietly(th) /\ thread[th].pc \notin RowPCs

LEMMA CalmKeeps ==
  ASSUME Typed, UNCHANGED listed, thread' = thread \/ \E th \in Threads : Calm(th), NEW t \in Tasks, Kept(t)
  PROVE  Kept(t)'
PROOF
  <1>0. "main" \in Threads
    BY DEF Threads
  <1>1. CASE thread' = thread
    BY <1>1 DEF Kept, Removing
  <1>2. ASSUME NEW th \in Threads, Calm(th) PROVE Kept(t)'
    <2>1. \A v \in Threads : v # th => thread'[v] = thread[v]
      BY <1>2, Moved DEF Calm, MovesQuietly
    <2>2. Removing(t) => thread'["main"] = thread["main"]
      BY <1>0, <1>2, <2>1 DEF Removing, Calm, RowPCs
    <2>3. QED BY <2>2 DEF Kept, Removing
  <1>3. QED BY <1>1, <1>2

LEMMA QuietSteps ==
  ASSUME Typed, [Next]_vars
  PROVE  \/ Quiet
         \/ \E th \in Threads : Starts(th) \/ \E t \in Tasks : VisitTask(th, t)
         \/ \E ts \in SUBSET Tasks, s \in {"queued", "paused"} : InsertRows(ts, s)
         \/ AddTasks \/ EndSweep \/ Restart
         \/ \E kind \in Sweeps : EnterSweep(kind)
         \/ \E t \in Tasks : SweepTask(t)
PROOF
  <1> USE DEF java, network, rest, Native, Others
  <1>0. /\ "main" \in Threads /\ "net" \in Threads /\ "pool" \in Threads
        /\ \A th \in Threads : /\ thread[th] \in ThreadRecord
                               /\ thread[th].pc \in TaskPCs => thread[th].task \in Tasks
    BY DEF Threads, Typed, Fitting, Fits
  <1>01. ASSUME UNCHANGED <<listed, status, rows>>,
                thread' = thread \/ \E th \in Threads : Calm(th)
         PROVE  Quiet
    <2>1. \A t \in Tasks : Kept(t) => Kept(t)'
      BY <1>01, CalmKeeps
    <2>2. QED BY <1>01, <2>1 DEF Quiet, Calm
  <1>02. ASSUME NEW u \in Tasks, NEW s \in Statuses, s # "downloading", Set(u, s), UNCHANGED listed,
                thread' = thread \/ \E th \in Threads : Calm(th)
         PROVE  Quiet
    <2>1. ASSUME NEW t \in Tasks
          PROVE  /\ status'[t] = None => status[t] = None
                 /\ status'[t] = "downloading" => status[t] = "downloading"
                 /\ rows'[t] # None => rows[t] # None
      BY <1>02, SetQuietly
    <2>2. \A t \in Tasks : Kept(t) => Kept(t)'
      BY <1>02, CalmKeeps
    <2>3. QED BY <1>02, <2>1, <2>2 DEF Quiet, Calm
  <1>1. ASSUME NEW th \in Threads, EnterPump(th) PROVE Quiet \/ Starts(th)
    <2>1. CASE Blocked \/ Full(Cardinality(Active))
      <3>1. AfterPump(th) /\ UNCHANGED <<listed, status, rows>>
        BY <1>1, <2>1 DEF EnterPump
      <3>2. thread[th].pc = "pump"
        BY <1>1 DEF EnterPump, In
      <3>3. Calm(th)
        BY <3>1, <3>2, GoingAfterPump DEF Calm, RowPCs, MovesQuietly, BusyPCs, QuietPCs, Sweeps
      <3>4. QED BY <3>1, <3>3, <1>01
    <2>2. QED BY <1>1, <2>1 DEF Starts
  <1>2. ASSUME NEW th \in Threads, LeavePump(th) PROVE Quiet
    <2>1. Calm(th)
      BY <1>2, GoingAfterPump DEF LeavePump, In, Calm, RowPCs, MovesQuietly, BusyPCs, QuietPCs, Sweeps
    <2>2. QED BY <1>2, <2>1, <1>01 DEF LeavePump
  <1>3. ASSUME NEW t \in Tasks, Launch(t) PROVE Quiet
    BY <1>3, <1>01 DEF Launch
  <1>4. ASSUME NEW t \in Tasks, LaunchFails(t) PROVE Quiet
    BY <1>4, <1>02 DEF LaunchFails, Statuses
  <1>5. ASSUME NEW t \in Tasks, Pause(t) PROVE Quiet
    <2>1. GoesOn("main", "mark")
      BY <1>5, <1>0, GoingToMark DEF Pause
    <2>2. Calm("main")
      BY <1>5, <2>1 DEF Pause, In, Calm, RowPCs, MovesQuietly, BusyPCs, QuietPCs, Sweeps
    <2>3. QED BY <1>5, <1>0, <2>2, <1>01 DEF Pause
  <1>6. ASSUME NEW th \in Threads, PauseActive(th) PROVE Quiet
    <2>1. GoesOn(th, "idle") \/ GoesOn(th, "mark")
      BY <1>6, <1>0, GoingToMark, GoingIdle DEF PauseActive
    <2>2. Calm(th)
      BY <1>6, <2>1 DEF PauseActive, In, Calm, RowPCs, MovesQuietly, BusyPCs, QuietPCs, Sweeps
    <2>3. QED BY <1>6, <2>2, <1>01 DEF PauseActive
  <1>7. ASSUME NEW th \in Threads, MarkPaused(th) PROVE Quiet
    <2>1. GoesOn(th, "pump")
      BY <1>7, <1>0, GoingToPump DEF MarkPaused
    <2>2. thread[th].task \in Tasks /\ "paused" \in Statuses
      BY <1>7, <1>0 DEF MarkPaused, In, TaskPCs, PlacePCs, RowPCs, Statuses
    <2>3. Calm(th)
      BY <1>7, <2>1 DEF MarkPaused, In, Calm, RowPCs, MovesQuietly, BusyPCs, QuietPCs, Sweeps
    <2>4. QED BY <1>7, <2>2, <2>3, <1>02 DEF MarkPaused
  <1>8. ASSUME NEW t \in Tasks, Resume(t) PROVE Quiet
    <2>1. GoesOn("main", "pump")
      BY <1>8, <1>0, GoingToPump DEF Resume
    <2>2. Calm("main")
      BY <1>8, <2>1 DEF Resume, In, Calm, RowPCs, MovesQuietly, BusyPCs, QuietPCs, Sweeps
    <2>3. QED BY <1>8, <1>0, <2>2, <1>02 DEF Resume, Statuses
  <1>9. CASE ResumeAll
    <2>1. GoesOn("main", "pump")
      BY <1>9, <1>0, GoingToPump DEF ResumeAll
    <2>2. ASSUME NEW t \in Tasks
          PROVE  /\ status'[t] = None => status[t] = None
                 /\ status'[t] = "downloading" => status[t] = "downloading"
                 /\ rows'[t] # None => rows[t] # None
      <3>1. "queued" # None
        BY Parameters DEF Statuses
      <3>2. QED BY <1>9, <3>1 DEF ResumeAll, Update
    <2>3. UNCHANGED listed /\ Calm("main")
      BY <1>9, <2>1 DEF ResumeAll, In, Calm, RowPCs, MovesQuietly, BusyPCs, QuietPCs, Sweeps
    <2>4. \A t \in Tasks : Kept(t) => Kept(t)'
      BY <1>0, <2>3, CalmKeeps
    <2>5. QED BY <1>0, <2>2, <2>3, <2>4 DEF Quiet, Calm
  <1>10. ASSUME NEW t \in Tasks, Cancel(t) \/ RemoveTask(t) PROVE Quiet
    <2>1. GoesOn("main", "drop") \/ GoesOn("main", "remove")
      BY <1>10, <1>0, GoingOn DEF Cancel, RemoveTask
    <2>2. Calm("main")
      BY <1>10, <2>1 DEF Cancel, RemoveTask, In, Calm, RowPCs, MovesQuietly, BusyPCs, QuietPCs, Sweeps
    <2>3. QED BY <1>10, <1>0, <2>2, <1>01 DEF Cancel, RemoveTask
  \* Its row stays for now behind the task that leaves the list.
  <1>11. CASE Drop
    <2> DEFINE r1 == [Idle EXCEPT !.pc = "droprow", !.task = thread["main"].task]
               r2 == [Idle EXCEPT !.pc = "removerow", !.task = thread["main"].task]
    <2>1. r1.pc = "droprow" /\ r1.task = thread["main"].task /\ r2.pc = "removerow" /\ r2.task = thread["main"].task
      BY DEF Idle
    <2>2. /\ Becomes("main", r1) \/ Becomes("main", r2)
          /\ listed' = listed \ {thread["main"].task} /\ UNCHANGED <<status, rows>>
          /\ thread["main"].pc \in {"drop", "remove"}
      BY <1>11 DEF Drop, In
    <2>3. GoesOn("main", "droprow") \/ GoesOn("main", "removerow")
      BY <1>0, <2>2, GoingOn
    <2> HIDE DEF r1, r2
    <2>4. thread'["main"] = r1 \/ thread'["main"] = r2
      BY <1>0, <2>2 DEF Becomes, Typed
    <2>5. ASSUME NEW t \in Tasks, Kept(t) PROVE Kept(t)'
      <3>1. t \in listed
        BY <2>2, <2>5 DEF Kept, Removing
      <3>2. QED BY <2>1, <2>2, <2>4, <3>1 DEF Kept, Removing
    <2>6. MovesQuietly("main")
      BY <2>2, <2>3 DEF MovesQuietly, BusyPCs, QuietPCs, Sweeps
    <2>7. QED BY <1>0, <2>2, <2>5, <2>6 DEF Quiet
  <1>11b. CASE DropRow
    <2> DEFINE u == thread["main"].task
    <2>1. GoesOn("main", "pump") \/ GoesOn("main", "idle")
      BY <1>11b, <1>0, GoingToPump, GoingIdle DEF DropRow
    <2>2. rows' = [rows EXCEPT ![u] = None] /\ UNCHANGED <<listed, status>> /\ thread["main"].pc \in RowPCs
      BY <1>11b DEF DropRow, In, RowPCs
    <2>3. ASSUME NEW t \in Tasks, rows'[t] # None PROVE rows[t] # None /\ (Kept(t) => Kept(t)')
      <3>1. t # u /\ rows[t] # None
        BY <2>2, <2>3 DEF Typed
      <3>2. ~Removing(t)
        BY <3>1 DEF Removing
      <3>3. QED BY <2>2, <3>1, <3>2 DEF Kept
    <2>4. MovesQuietly("main")
      BY <2>1, <2>2 DEF MovesQuietly, RowPCs, BusyPCs, QuietPCs, Sweeps
    <2>5. QED BY <1>0, <2>2, <2>3, <2>4 DEF Quiet
  <1>12. CASE SetWifiOnly
    <2>1. GoesOn("main", "pauseall") \/ GoesOn("main", "pump")
      BY <1>12, <1>0, GoingOn DEF SetWifiOnly
    <2>2. Calm("main")
      BY <1>12, <2>1 DEF SetWifiOnly, In, Calm, RowPCs, MovesQuietly, BusyPCs, QuietPCs, Sweeps
    <2>3. QED BY <1>12, <1>0, <2>2, <1>01 DEF SetWifiOnly
  <1>13. ASSUME NEW n \in Networks, OnAvailable(n) \/ OnLost(n) PROVE Quiet
    <2>1. GoesOn("net", "pauseall") \/ GoesOn("net", "pump")
      BY <1>13, <1>0, GoingOn DEF OnAvailable, OnLost, OnNetworkChanged
    <2>2. UNCHANGED <<listed, status, rows>>
      BY <1>13 DEF OnAvailable, OnLost, OnNetworkChanged
    <2>3. Calm("net")
      BY <1>13, <2>1 DEF OnAvailable, OnLost, In, Calm, RowPCs, MovesQuietly, BusyPCs, QuietPCs, Sweeps
    <2>4. QED BY <1>0, <2>2, <2>3, <1>01
  <1>14. ASSUME NEW r \in RunIds, OnProgress(r) PROVE Quiet
    <2>1. rows' = Update(rows, runs[r].task, "downloading") /\ UNCHANGED <<listed, status, thread>>
      BY <1>14 DEF OnProgress
    <2>2. ASSUME NEW t \in Tasks, rows'[t] # None PROVE rows[t] # None
      BY <2>1, <2>2 DEF Update, Typed
    <2>3. \A t \in Tasks : Kept(t) => Kept(t)'
      BY <2>1, CalmKeeps
    <2>4. QED BY <2>1, <2>2, <2>3 DEF Quiet
  <1>15. ASSUME NEW r \in RunIds, Report(r) PROVE Quiet
    <2>1. CASE runs[r].task \in listed
      <3>1. Set(runs[r].task, IF At(r, "completed") THEN "completed" ELSE "error")
        BY <1>15, <2>1 DEF Report
      <3>2. UNCHANGED <<listed, thread>> /\ runs[r].task \in Tasks
        BY <1>15, <2>1 DEF Report, Typed
      <3>3. QED BY <3>1, <3>2, <1>02 DEF Statuses
    <2>2. CASE runs[r].task \notin listed
      BY <1>15, <2>2, <1>01 DEF Report
    <2>3. QED BY <2>1, <2>2
  <1>16. ASSUME NEW r \in RunIds, DownloadEnds(r) \/ DownloadFails(r) \/ LastBytes(r) \/ RunStep(r) PROVE Quiet
    BY <1>16, <1>01 DEF DownloadEnds, DownloadFails, LastBytes, RunStep
  <1>17. CASE RunPosted
    <2>1. GoesOn("main", "pump")
      BY <1>17, <1>0, GoingToPump DEF RunPosted
    <2>2. Calm("main")
      BY <1>17, <2>1 DEF RunPosted, In, Calm, RowPCs, MovesQuietly, BusyPCs, QuietPCs, Sweeps
    <2>3. QED BY <1>17, <1>0, <2>2, <1>01 DEF RunPosted
  <1>18. CASE UNCHANGED vars
    BY <1>18, <1>01 DEF vars
  <1>19. CASE Next
    <2>1. CASE \E ts \in SUBSET Tasks, s \in {"queued", "paused"} : InsertRows(ts, s)
      BY <2>1
    <2>2. CASE \E th \in Threads : ThreadStep(th)
      BY <2>2, <1>1, <1>2, <1>6, <1>7 DEF ThreadStep, PumpStep
    <2>3. CASE MainStep
      BY <2>3, <1>11, <1>11b DEF MainStep
    <2>4. CASE UserStep
      BY <2>4, <1>5, <1>8, <1>9, <1>10, <1>12 DEF UserStep
    <2>5. CASE AddTasks \/ RunPosted \/ Restart
      BY <2>5, <1>17
    <2>6. CASE \E t \in Tasks : Launch(t) \/ LaunchFails(t)
      BY <2>6, <1>3, <1>4
    <2>7. CASE \E n \in Networks : OnAvailable(n) \/ OnLost(n)
      BY <2>7, <1>13
    <2>8. CASE \E r \in RunIds : \/ OnProgress(r) \/ Report(r) \/ DownloadEnds(r) \/ DownloadFails(r)
                                 \/ LastBytes(r) \/ RunStep(r)
      BY <2>8, <1>14, <1>15, <1>16
    <2>9. QED BY <1>19, <2>1, <2>2, <2>3, <2>4, <2>5, <2>6, <2>7, <2>8 DEF Next
  <1>20. QED BY <1>18, <1>19

LEMMA SweepMoves ==
  ASSUME Typed, NEW t \in Tasks, SweepTask(t)
  PROVE  /\ \A v \in Threads : v # "main" => thread'[v] = thread[v]
         /\ thread'["main"].pc = thread["main"].pc /\ thread["main"].pc \in Sweeps
         /\ thread'["main"].todo = thread["main"].todo \ {t} /\ t \in thread["main"].todo
         /\ thread'["main"].left = IF In("main", "cancelall") /\ status[t] # "completed"
                                   THEN thread["main"].left \cup {t} ELSE thread["main"].left
PROOF
  <1> DEFINE l == thread["main"].left
             nl == IF In("main", "cancelall") /\ status[t] # "completed" THEN l \cup {t} ELSE l
             r == [thread["main"] EXCEPT !.todo = @ \ {t}, !.left = nl]
  <1>1. Becomes("main", r) /\ "main" \in Threads
    BY DEF SweepTask, Threads
  <1>2. r.pc = thread["main"].pc /\ r.todo = thread["main"].todo \ {t} /\ r.left = nl
    <2> HIDE DEF nl
    <2>1. thread["main"] \in ThreadRecord
      BY <1>1 DEF Typed, Fitting
    <2>2. QED BY <2>1 DEF ThreadRecord
  <1> HIDE DEF r
  <1>3. thread'["main"] = r /\ \A v \in Threads : v # "main" => thread'[v] = thread[v]
    BY <1>1 DEF Becomes, Typed
  <1>4. thread["main"].pc \in Sweeps /\ t \in thread["main"].todo
    BY DEF SweepTask, StopOne, CancelOne, In, Sweeps
  <1>5. QED BY <1>2, <1>3, <1>4

LEMMA VisitMoves ==
  ASSUME Typed, NEW th \in Threads, NEW t \in Tasks, VisitTask(th, t)
  PROVE  /\ \A v \in Threads : v # th => thread'[v] = thread[v]
         /\ thread[th].pc = "pumping" /\ thread'[th].pc = "pumping"
         /\ thread'[th].todo \subseteq thread[th].todo /\ t \in thread[th].todo
         /\ thread'[th].left = thread[th].left
         /\ thread'[th].active = IF status[t] = "queued" THEN thread[th].active + 1 ELSE thread[th].active
PROOF
  <1>1. thread[th] \in ThreadRecord
    BY DEF Typed, Fitting
  <1>2. thread[th].pc = "pumping" /\ t \in thread[th].todo
    BY DEF VisitTask, In
  <1>3. CASE status[t] = "queued"
    <2> DEFINE todo == IF Full(thread[th].active + 1) THEN {} ELSE thread[th].todo \ {t}
               r == [thread[th] EXCEPT !.active = @ + 1, !.todo = todo]
    <2>1. Becomes(th, r) /\ todo \subseteq thread[th].todo
      BY <1>3 DEF VisitTask
    <2>2. r.pc = thread[th].pc /\ r.todo = todo /\ r.left = thread[th].left /\ r.active = thread[th].active + 1
      <3> HIDE DEF todo
      <3> QED BY <1>1 DEF ThreadRecord
    <2> HIDE DEF r, todo
    <2>3. thread'[th] = r /\ \A v \in Threads : v # th => thread'[v] = thread[v]
      BY <2>1 DEF Becomes, Typed
    <2>4. QED BY <1>2, <1>3, <2>1, <2>2, <2>3
  <1>4. CASE status[t] # "queued"
    <2> DEFINE r == [thread[th] EXCEPT !.todo = @ \ {t}]
    <2>1. Becomes(th, r)
      BY <1>4 DEF VisitTask
    <2>2. r.pc = thread[th].pc /\ r.todo = thread[th].todo \ {t} /\ r.left = thread[th].left
          /\ r.active = thread[th].active
      BY <1>1 DEF ThreadRecord
    <2> HIDE DEF r
    <2>3. thread'[th] = r /\ \A v \in Threads : v # th => thread'[v] = thread[v]
      BY <2>1 DEF Becomes, Typed
    <2>4. QED BY <1>2, <1>4, <2>2, <2>3
  <1>5. QED BY <1>3, <1>4

LEMMA StartMoves ==
  ASSUME Typed, NEW th \in Threads, Starts(th)
  PROVE  /\ \A v \in Threads : v # th => thread'[v] = thread[v]
         /\ thread'[th].pc = "pumping" /\ thread'[th].todo = listed
         /\ thread'[th].left = thread[th].left /\ thread'[th].active = Cardinality(Active)
         /\ monitor' = th /\ UNCHANGED <<listed, status, rows>>
PROOF
  <1> DEFINE r == [thread[th] EXCEPT !.pc = "pumping", !.todo = listed, !.active = Cardinality(Active)]
  <1>1. Becomes(th, r) /\ monitor' = th /\ UNCHANGED <<listed, status, rows>>
    BY DEF Starts, EnterPump, java
  <1>2. thread[th] \in ThreadRecord
    BY DEF Typed, Fitting
  <1>3. r.pc = "pumping" /\ r.todo = listed /\ r.left = thread[th].left /\ r.active = Cardinality(Active)
    BY <1>2 DEF ThreadRecord
  <1> HIDE DEF r
  <1>4. thread'[th] = r /\ \A v \in Threads : v # th => thread'[v] = thread[v]
    BY <1>1 DEF Becomes, Typed
  <1>5. QED BY <1>1, <1>3, <1>4

LEMMA InsertMoves ==
  ASSUME Typed, NEW ts \in SUBSET Tasks, NEW s \in {"queued", "paused"}, InsertRows(ts, s)
  PROVE  /\ \A v \in Threads : v # "pool" => thread'[v] = thread[v]
         /\ thread["pool"].pc = "idle"
         /\ thread'["pool"].pc = "add" /\ thread'["pool"].todo = ts /\ thread'["pool"].left = {}
         /\ \A t \in ts : status[t] = None /\ status'[t] = s /\ rows'[t] = s
         /\ \A t \in Tasks : t \notin ts => status'[t] = status[t] /\ rows'[t] = rows[t]
         /\ listed' = listed
PROOF
  <1> DEFINE r == [Idle EXCEPT !.pc = "add", !.todo = ts]
  <1>1. /\ Becomes("pool", r) /\ "pool" \in Threads /\ thread["pool"].pc = "idle" /\ listed' = listed
        /\ ts \subseteq New
        /\ rows' = [t \in Tasks |-> IF t \in ts THEN s ELSE rows[t]]
        /\ status' = [t \in Tasks |-> IF t \in ts THEN s ELSE status[t]]
    BY DEF InsertRows, In, Threads
  <1>2. r.pc = "add" /\ r.todo = ts /\ r.left = {}
    BY DEF Idle
  <1> HIDE DEF r
  <1>3. thread'["pool"] = r /\ \A v \in Threads : v # "pool" => thread'[v] = thread[v]
    BY <1>1 DEF Becomes, Typed
  <1>4. QED BY <1>1, <1>2, <1>3 DEF New

LEMMA AddMoves ==
  ASSUME Typed, AddTasks
  PROVE  /\ GoesOn("pool", "idle") \/ GoesOn("pool", "pump")
         /\ thread["pool"].pc = "add"
         /\ \A v \in Threads : v # "pool" => thread'[v] = thread[v]
         /\ thread'["pool"].todo = {} /\ thread'["pool"].left = {} /\ thread'["pool"].pc \in {"idle", "pump"}
         /\ listed' = listed \cup thread["pool"].todo /\ UNCHANGED <<status, rows>>
PROOF
  <1> DEFINE r == [Idle EXCEPT !.pc = "pump"]
  <1>1. /\ Becomes("pool", Idle) \/ Becomes("pool", r)
        /\ "pool" \in Threads /\ thread["pool"].pc = "add"
        /\ listed' = listed \cup thread["pool"].todo /\ UNCHANGED <<status, rows>>
    BY DEF AddTasks, In, Threads
  <1>2. GoesOn("pool", "idle") \/ GoesOn("pool", "pump")
    BY <1>1, GoingIdle, GoingOn
  <1>3. r.pc = "pump" /\ r.todo = {} /\ r.left = {} /\ Idle.pc = "idle" /\ Idle.todo = {} /\ Idle.left = {}
    BY DEF Idle
  <1> HIDE DEF r
  <1>4. /\ thread'["pool"] = r \/ thread'["pool"] = Idle
        /\ \A v \in Threads : v # "pool" => thread'[v] = thread[v]
    BY <1>1 DEF Becomes, Typed
  <1>5. QED BY <1>1, <1>2, <1>3, <1>4

LEMMA EnterSweepMoves ==
  ASSUME Typed, NEW kind \in Sweeps, EnterSweep(kind)
  PROVE  /\ \A v \in Threads : v # "main" => thread'[v] = thread[v]
         /\ thread["main"].pc = "idle" /\ monitor = None
         /\ thread'["main"].pc = kind /\ thread'["main"].todo = listed /\ thread'["main"].left = {}
         /\ UNCHANGED <<listed, status, rows, launching, tasks, runs>>
PROOF
  <1> DEFINE r == [Idle EXCEPT !.pc = kind, !.todo = listed]
  <1>1. /\ Becomes("main", r) /\ "main" \in Threads /\ thread["main"].pc = "idle" /\ monitor = None
        /\ UNCHANGED <<listed, status, rows, launching, tasks, runs>>
    BY DEF EnterSweep, In, Threads, java, Native
  <1>2. r.pc = kind /\ r.todo = listed /\ r.left = {}
    BY DEF Idle
  <1> HIDE DEF r
  <1>3. thread'["main"] = r /\ \A v \in Threads : v # "main" => thread'[v] = thread[v]
    BY <1>1 DEF Becomes, Typed
  <1>4. QED BY <1>1, <1>2, <1>3

LEMMA EndSweepMoves ==
  ASSUME Typed, EndSweep
  PROVE  /\ \A v \in Threads : v # "main" => thread'[v] = thread[v]
         /\ thread["main"].pc \in Held /\ thread["main"].todo = {}
         /\ thread'["main"].todo = {} /\ thread'["main"].left = {}
         /\ thread'["main"].pc = IF thread["main"].pc = "cancelall" THEN "pump"
                                 ELSE IF thread["main"].pc = "deleteall" THEN "deleterows" ELSE "idle"
         /\ listed' = IF thread["main"].pc = "cancelall" THEN listed \ thread["main"].left
                      ELSE IF thread["main"].pc = "deleteall" THEN {} ELSE listed
         /\ rows' = IF thread["main"].pc = "deleterows" THEN [t \in Tasks |-> None] ELSE rows
         /\ UNCHANGED <<status, launching, tasks, runs>>
PROOF
  <1> DEFINE r1 == [Idle EXCEPT !.pc = "pump"]
             r2 == [Idle EXCEPT !.pc = "deleterows"]
             pc == thread["main"].pc
  <1>1. "main" \in Threads /\ thread["main"].todo = {} /\ UNCHANGED <<status, launching, tasks, runs>>
    BY DEF EndSweep, Threads, Native
  <1>2. \/ /\ pc = "stopall" /\ Becomes("main", Idle) /\ UNCHANGED <<listed, rows>>
        \/ /\ pc = "cancelall" /\ listed' = listed \ thread["main"].left
           /\ Becomes("main", r1) /\ UNCHANGED rows
        \/ /\ pc = "deleteall" /\ listed' = {} /\ Becomes("main", r2) /\ UNCHANGED rows
        \/ /\ pc = "deleterows" /\ rows' = [t \in Tasks |-> None] /\ Becomes("main", Idle) /\ UNCHANGED listed
    BY DEF EndSweep, In
  <1>3. /\ Idle.pc = "idle" /\ Idle.todo = {} /\ Idle.left = {}
        /\ r1.pc = "pump" /\ r1.todo = {} /\ r1.left = {}
        /\ r2.pc = "deleterows" /\ r2.todo = {} /\ r2.left = {}
    BY DEF Idle
  <1> HIDE DEF r1, r2
  <1>4. \A r : Becomes("main", r) => /\ thread'["main"] = r
                                     /\ \A v \in Threads : v # "main" => thread'[v] = thread[v]
    BY <1>1 DEF Becomes, Typed
  <1>5. QED BY <1>1, <1>2, <1>3, <1>4 DEF Held, Sweeps
-----------------------------------------------------------------------------
(* New tasks. No thread knows a task before it is inserted, and no pump    *)
(* comes upon it before it is in the list, where it does not download yet. *)

NoneIsNew ==
  \A t \in Tasks : status[t] = None =>
    t \notin listed /\ rows[t] = None
    /\ \A th \in Threads : t \notin thread[th].todo /\ t \notin thread[th].left
AddedIsFresh ==
  In("pool", "add") =>
    \A t \in thread["pool"].todo :
      /\ t \notin listed /\ status[t] # "downloading"
      /\ \A th \in Threads : In(th, "pumping") => t \notin thread[th].todo
FreshInv == NoneIsNew /\ AddedIsFresh

LEMMA FreshInvariant == Spec => []FreshInv
PROOF
  <1>1. Init => FreshInv
    <2> SUFFICES ASSUME Init PROVE FreshInv
      OBVIOUS
    <2>1. \A th \in Threads : thread[th].pc = "idle" /\ thread[th].todo = {} /\ thread[th].left = {}
      BY DEF Init, QuietThreads, Idle
    <2>2. "pool" \in Threads
      BY DEF Threads
    <2>3. QED BY <2>1, <2>2 DEF Init, FreshInv, NoneIsNew, AddedIsFresh, In
  <1>2. Typed /\ Typed' /\ FreshInv /\ [Next]_vars => FreshInv'
    <2> SUFFICES ASSUME Typed, Typed', FreshInv, [Next]_vars PROVE FreshInv'
      OBVIOUS
    <2>0. /\ "main" \in Threads /\ "pool" \in Threads
          /\ "queued" # None /\ "paused" # None /\ "downloading" # None
          /\ thread["pool"].todo \subseteq Tasks /\ listed \subseteq Tasks
      BY Parameters DEF Threads, Statuses, Typed, Fitting, ThreadRecord
    \* A step that lists nothing and inserts nothing.
    <2>01. ASSUME \A t \in Tasks : /\ status'[t] = None => status[t] = None
                                   /\ rows'[t] # None => rows[t] # None,
                  listed' \subseteq listed,
                  NEW th \in Threads, \A v \in Threads : v # th => thread'[v] = thread[v],
                  thread'[th].todo \subseteq thread[th].todo \cup listed,
                  thread'[th].left \subseteq thread[th].left \cup listed
           PROVE  NoneIsNew'
      <3> SUFFICES ASSUME NEW t \in Tasks, status'[t] = None
                   PROVE  /\ t \notin listed' /\ rows'[t] = None
                          /\ \A v \in Threads : t \notin thread'[v].todo /\ t \notin thread'[v].left
        BY DEF NoneIsNew
      <3>1. /\ t \notin listed /\ rows[t] = None
            /\ \A v \in Threads : t \notin thread[v].todo /\ t \notin thread[v].left
        BY <2>01 DEF FreshInv, NoneIsNew
      <3>2. QED BY <2>01, <3>1
    <2>02. ASSUME UNCHANGED <<status, listed>>, NEW th \in Threads, th # "pool" \/ thread'["pool"].pc # "add",
                  \A v \in Threads : v # th => thread'[v] = thread[v],
                  thread'[th].pc = "pumping" => thread'[th].todo = listed \/ thread'[th] = thread[th]
           PROVE  AddedIsFresh'
      <3> SUFFICES ASSUME thread'["pool"].pc = "add", NEW t \in thread'["pool"].todo
                   PROVE  /\ t \notin listed' /\ status'[t] # "downloading"
                          /\ \A v \in Threads : thread'[v].pc = "pumping" => t \notin thread'[v].todo
        BY DEF AddedIsFresh, In
      <3>1. th # "pool" /\ thread'["pool"] = thread["pool"]
        BY <2>02, <2>0
      <3>2. /\ t \notin listed /\ status[t] # "downloading"
            /\ \A v \in Threads : thread[v].pc = "pumping" => t \notin thread[v].todo
        BY <3>1 DEF FreshInv, AddedIsFresh, In
      <3>3. QED BY <2>02, <3>2
    <2>1. CASE Quiet
      <3>1. CASE thread' = thread
        BY <2>1, <3>1, <2>0 DEF Quiet, FreshInv, NoneIsNew, AddedIsFresh, In
      <3>2. ASSUME NEW th \in Threads, NEW pc \in QuietPCs, GoesOn(th, pc) PROVE FreshInv'
        <4>1. /\ \A v \in Threads : v # th => thread'[v] = thread[v]
              /\ thread'[th].pc = pc
              /\ thread'[th].todo \subseteq thread[th].todo \cup listed
              /\ thread'[th].left \subseteq thread[th].left \cup listed
          BY <3>2, Moved
        <4>2. pc # "add" /\ pc # "pumping"
          BY DEF QuietPCs
        <4>3. NoneIsNew'
          BY <2>1, <4>1, <2>01 DEF Quiet
        <4>4. AddedIsFresh'
          <5> SUFFICES ASSUME thread'["pool"].pc = "add", NEW t \in thread'["pool"].todo
                       PROVE  /\ t \notin listed' /\ status'[t] # "downloading"
                              /\ \A v \in Threads : thread'[v].pc = "pumping" => t \notin thread'[v].todo
            BY DEF AddedIsFresh, In
          <5>1. thread'["pool"] = thread["pool"]
            BY <4>1, <4>2, <2>0
          <5>2. /\ t \notin listed /\ status[t] # "downloading" /\ t \in Tasks
                /\ \A v \in Threads : thread[v].pc = "pumping" => t \notin thread[v].todo
            BY <5>1, <2>0 DEF FreshInv, AddedIsFresh, In
          <5>3. QED BY <5>2, <4>1, <4>2, <2>1 DEF Quiet
        <4>5. QED BY <4>3, <4>4 DEF FreshInv
      <3>3. QED BY <2>1, <3>1, <3>2 DEF Quiet, MovesQuietly
    <2>2. ASSUME NEW th \in Threads, Starts(th) PROVE FreshInv'
      <3>1. /\ \A v \in Threads : v # th => thread'[v] = thread[v]
            /\ thread'[th].pc = "pumping" /\ thread'[th].todo = listed
            /\ thread'[th].left = thread[th].left /\ UNCHANGED <<listed, status, rows>>
        BY <2>2, StartMoves
      <3>2. NoneIsNew'
        BY <3>1, <2>01
      <3>3. th # "pool" \/ thread'["pool"].pc # "add"
        BY <3>1
      <3>4. AddedIsFresh'
        BY <3>1, <3>3, <2>02
      <3>5. QED BY <3>2, <3>4 DEF FreshInv
    <2>3. ASSUME NEW th \in Threads, NEW t \in Tasks, VisitTask(th, t) PROVE FreshInv'
      <3>1. /\ \A v \in Threads : v # th => thread'[v] = thread[v]
            /\ thread[th].pc = "pumping" /\ thread'[th].pc = "pumping"
            /\ thread'[th].todo \subseteq thread[th].todo /\ t \in thread[th].todo
            /\ thread'[th].left = thread[th].left
        BY <2>3, VisitMoves
      <3>2. /\ listed' = listed
            /\ \A u \in Tasks : u # t => status'[u] = status[u] /\ rows'[u] = rows[u]
            /\ status'[t] = None => status[t] = None
            /\ rows'[t] # None => rows[t] # None
        BY <2>3, <2>0 DEF VisitTask, Set, Update, Typed, java
      <3>3. NoneIsNew'
        BY <3>1, <3>2, <2>01
      <3>4. AddedIsFresh'
        <4> SUFFICES ASSUME thread'["pool"].pc = "add", NEW u \in thread'["pool"].todo
                     PROVE  /\ u \notin listed' /\ status'[u] # "downloading"
                            /\ \A v \in Threads : thread'[v].pc = "pumping" => u \notin thread'[v].todo
          BY DEF AddedIsFresh, In
        <4>1. thread'["pool"] = thread["pool"]
          BY <3>1, <2>0
        <4>2. /\ u \notin listed /\ status[u] # "downloading" /\ u \in Tasks
              /\ \A v \in Threads : thread[v].pc = "pumping" => u \notin thread[v].todo
          BY <4>1, <2>0 DEF FreshInv, AddedIsFresh, In
        <4>3. u # t
          BY <4>2, <3>1
        <4>4. QED BY <4>2, <4>3, <3>1, <3>2
      <3>5. QED BY <3>3, <3>4 DEF FreshInv
    <2>4. ASSUME NEW ts \in SUBSET Tasks, NEW s \in {"queued", "paused"}, InsertRows(ts, s) PROVE FreshInv'
      <3>1. /\ \A v \in Threads : v # "pool" => thread'[v] = thread[v]
            /\ thread["pool"].pc = "idle"
            /\ thread'["pool"].pc = "add" /\ thread'["pool"].todo = ts /\ thread'["pool"].left = {}
            /\ \A t \in ts : status[t] = None /\ status'[t] = s /\ rows'[t] = s
            /\ \A t \in Tasks : t \notin ts => status'[t] = status[t] /\ rows'[t] = rows[t]
            /\ listed' = listed
        BY <2>4, InsertMoves
      <3>2. s # None /\ s # "downloading"
        BY <2>0
      <3>3. NoneIsNew'
        <4> SUFFICES ASSUME NEW t \in Tasks, status'[t] = None
                     PROVE  /\ t \notin listed' /\ rows'[t] = None
                            /\ \A v \in Threads : t \notin thread'[v].todo /\ t \notin thread'[v].left
          BY DEF NoneIsNew
        <4>1. t \notin ts /\ status[t] = None
          BY <3>1, <3>2
        <4>2. /\ t \notin listed /\ rows[t] = None
              /\ \A v \in Threads : t \notin thread[v].todo /\ t \notin thread[v].left
          BY <4>1 DEF FreshInv, NoneIsNew
        <4>3. QED BY <4>1, <4>2, <3>1
      <3>4. AddedIsFresh'
        <4> SUFFICES ASSUME NEW t \in ts
                     PROVE  /\ t \notin listed' /\ status'[t] # "downloading"
                            /\ \A v \in Threads : thread'[v].pc = "pumping" => t \notin thread'[v].todo
          BY <3>1 DEF AddedIsFresh, In
        <4>1. /\ t \notin listed /\ \A v \in Threads : t \notin thread[v].todo
          BY <3>1 DEF FreshInv, NoneIsNew
        <4>2. QED BY <4>1, <3>1, <3>2
      <3>5. QED BY <3>3, <3>4 DEF FreshInv
    <2>5. CASE AddTasks
      <3>1. /\ thread["pool"].pc = "add"
            /\ \A v \in Threads : v # "pool" => thread'[v] = thread[v]
            /\ thread'["pool"].todo = {} /\ thread'["pool"].left = {} /\ thread'["pool"].pc \in {"idle", "pump"}
            /\ listed' = listed \cup thread["pool"].todo /\ UNCHANGED <<status, rows>>
        BY <2>5, AddMoves
      <3>2. NoneIsNew'
        <4> SUFFICES ASSUME NEW t \in Tasks, status'[t] = None
                     PROVE  /\ t \notin listed' /\ rows'[t] = None
                            /\ \A v \in Threads : t \notin thread'[v].todo /\ t \notin thread'[v].left
          BY DEF NoneIsNew
        <4>1. /\ t \notin listed /\ rows[t] = None
              /\ \A v \in Threads : t \notin thread[v].todo /\ t \notin thread[v].left
          BY <3>1 DEF FreshInv, NoneIsNew
        <4>2. QED BY <4>1, <3>1, <2>0
      <3>3. AddedIsFresh'
        BY <3>1 DEF AddedIsFresh, In
      <3>4. QED BY <3>2, <3>3 DEF FreshInv
    <2>6. ASSUME NEW kind \in Sweeps, EnterSweep(kind) PROVE FreshInv'
      <3>1. /\ \A v \in Threads : v # "main" => thread'[v] = thread[v]
            /\ thread'["main"].pc = kind /\ thread'["main"].todo = listed /\ thread'["main"].left = {}
            /\ UNCHANGED <<listed, status, rows>>
        BY <2>6, EnterSweepMoves
      <3>2. NoneIsNew' /\ AddedIsFresh'
        BY <3>1, <2>0, <2>01, <2>02
      <3>3. QED BY <3>2 DEF FreshInv
    <2>7. ASSUME NEW t \in Tasks, SweepTask(t) PROVE FreshInv'
      <3>1. /\ \A v \in Threads : v # "main" => thread'[v] = thread[v]
            /\ thread'["main"].pc \in Sweeps
            /\ thread'["main"].todo = thread["main"].todo \ {t} /\ t \in thread["main"].todo
            /\ thread'["main"].left \subseteq thread["main"].left \cup {t}
        BY <2>7, SweepMoves
      <3>2. /\ listed' = listed
            /\ \A u \in Tasks : u # t => status'[u] = status[u] /\ rows'[u] = rows[u]
            /\ status'[t] = None => status[t] = None
            /\ status'[t] = "downloading" => status[t] = "downloading"
            /\ rows'[t] # None => rows[t] # None
        BY <2>7, <2>0 DEF SweepTask, StopOne, CancelOne, Set, Update, Typed
      <3>3. NoneIsNew'
        <4> SUFFICES ASSUME NEW u \in Tasks, status'[u] = None
                     PROVE  /\ u \notin listed' /\ rows'[u] = None
                            /\ \A v \in Threads : u \notin thread'[v].todo /\ u \notin thread'[v].left
          BY DEF NoneIsNew
        <4>1. /\ u \notin listed /\ rows[u] = None
              /\ \A v \in Threads : u \notin thread[v].todo /\ u \notin thread[v].left
          BY <3>2 DEF FreshInv, NoneIsNew
        <4>2. u # t
          BY <4>1, <3>1, <2>0
        <4>3. QED BY <4>1, <4>2, <3>1, <3>2
      <3>4. AddedIsFresh'
        <4> SUFFICES ASSUME thread'["pool"].pc = "add", NEW u \in thread'["pool"].todo
                     PROVE  /\ u \notin listed' /\ status'[u] # "downloading"
                            /\ \A v \in Threads : thread'[v].pc = "pumping" => u \notin thread'[v].todo
          BY DEF AddedIsFresh, In
        <4>1. thread'["pool"] = thread["pool"]
          BY <3>1, <2>0
        <4>2. /\ u \notin listed /\ status[u] # "downloading" /\ u \in Tasks
              /\ \A v \in Threads : thread[v].pc = "pumping" => u \notin thread[v].todo
          BY <4>1, <2>0 DEF FreshInv, AddedIsFresh, In
        <4>3. "pumping" \notin Sweeps
          BY DEF Sweeps
        <4>4. QED BY <4>2, <4>3, <3>1, <3>2
      <3>5. QED BY <3>3, <3>4 DEF FreshInv
    <2>8. CASE EndSweep
      <3>1. /\ \A v \in Threads : v # "main" => thread'[v] = thread[v]
            /\ thread'["main"].todo = {} /\ thread'["main"].left = {}
            /\ listed' \subseteq listed /\ status' = status
            /\ \A t \in Tasks : rows'[t] # None => rows[t] # None
        BY <2>8, EndSweepMoves
      <3>2. NoneIsNew'
        BY <3>1, <2>0, <2>01
      <3>3. AddedIsFresh'
        <4> SUFFICES ASSUME thread'["pool"].pc = "add", NEW u \in thread'["pool"].todo
                     PROVE  /\ u \notin listed' /\ status'[u] # "downloading"
                            /\ \A v \in Threads : thread'[v].pc = "pumping" => u \notin thread'[v].todo
          BY DEF AddedIsFresh, In
        <4>1. thread'["pool"] = thread["pool"]
          BY <3>1, <2>0
        <4>2. /\ u \notin listed /\ status[u] # "downloading"
              /\ \A v \in Threads : thread[v].pc = "pumping" => u \notin thread[v].todo
          BY <4>1 DEF FreshInv, AddedIsFresh, In
        <4>3. QED BY <4>2, <3>1
      <3>4. QED BY <3>2, <3>3 DEF FreshInv
    <2>9. CASE Restart
      <3>1. /\ listed' = {t \in Tasks : rows[t] # None}
            /\ rows' = [t \in Tasks |-> Loaded(rows[t])]
            /\ status' = [t \in Tasks |-> IF rows[t] # None THEN Loaded(rows[t]) ELSE status[t]]
            /\ \A th \in Threads : thread'[th].pc = "idle" /\ thread'[th].todo = {} /\ thread'[th].left = {}
        BY <2>9 DEF Restart, QuietThreads, Idle
      <3>2. NoneIsNew'
        BY <3>1, <2>0 DEF NoneIsNew, Loaded
      <3>3. AddedIsFresh'
        BY <3>1, <2>0 DEF AddedIsFresh, In
      <3>4. QED BY <3>2, <3>3 DEF FreshInv
    <2>10. QED BY <2>1, <2>2, <2>3, <2>4, <2>5, <2>6, <2>7, <2>8, <2>9, QuietSteps
  <1>3. QED BY <1>1, <1>2, TypedThroughout, PTL DEF Spec
-----------------------------------------------------------------------------
(* Concurrency. The pump that runs has counted at least the downloads      *)
(* there are, as only it starts any, and it stops at the limit.            *)

PumpCounts ==
  \A th \in Threads : In(th, "pumping") => Cardinality(Active) <= thread[th].active
CountInv == ConcurrencyBounded /\ PumpCounts

LEMMA FewerActive ==
  ASSUME Typed, Active' \subseteq Active
  PROVE  Cardinality(Active') <= Cardinality(Active) /\ Cardinality(Active') \in Nat
PROOF
  <1>1. IsFiniteSet(Active)
    BY ActiveCount DEF Typed
  <1>2. QED BY <1>1, FS_Subset, FS_CardinalityType

LEMMA OneMoreActive ==
  ASSUME Typed, NEW t, Active' \subseteq Active \cup {t}
  PROVE  Cardinality(Active') <= Cardinality(Active) + 1 /\ Cardinality(Active') \in Nat
PROOF
  <1>1. IsFiniteSet(Active) /\ Cardinality(Active) \in Nat
    BY ActiveCount DEF Typed
  <1>2. /\ IsFiniteSet(Active \cup {t})
        /\ Cardinality(Active \cup {t}) \in {Cardinality(Active), Cardinality(Active) + 1}
    BY <1>1, FS_AddElement
  <1>3. /\ IsFiniteSet(Active') /\ Cardinality(Active') <= Cardinality(Active \cup {t})
    BY <1>2, FS_Subset
  <1>4. Cardinality(Active') \in Nat
    BY <1>3, FS_CardinalityType
  <1>5. QED BY <1>1, <1>2, <1>3, <1>4

LEMMA CountInvariant == Spec => []CountInv
PROOF
  <1>1. Init => CountInv
    <2> SUFFICES ASSUME Init PROVE CountInv
      OBVIOUS
    <2>1. Active = {}
      BY DEF Init, Active
    <2>2. Cardinality(Active) = 0
      BY <2>1, FS_EmptySet
    <2>3. \A th \in Threads : thread[th].pc = "idle"
      BY DEF Init, QuietThreads, Idle
    <2>4. QED BY <2>2, <2>3, Parameters DEF CountInv, ConcurrencyBounded, PumpCounts, In
  <1>2. Typed /\ MonitorInv /\ MonitorInv' /\ FreshInv /\ CountInv /\ [Next]_vars => CountInv'
    <2> SUFFICES ASSUME Typed, MonitorInv, MonitorInv', FreshInv, CountInv, [Next]_vars PROVE CountInv'
      OBVIOUS
    <2>0. /\ "main" \in Threads /\ "pool" \in Threads
          /\ Cardinality(Active) \in Nat /\ Cardinality(Active) <= MaxConcurrent
          /\ \A th \in Threads : thread[th].active \in Nat
          /\ \A th \in Threads : thread[th].pc = "pumping" => Cardinality(Active) <= thread[th].active
      <3>1. \A th \in Threads : thread[th].active \in 0..MaxConcurrent
        BY DEF Typed, Fitting, ThreadRecord
      <3>2. Cardinality(Active) \in Nat
        BY ActiveCount DEF Typed
      <3>3. QED BY <3>1, <3>2, Parameters DEF Threads, CountInv, ConcurrencyBounded, PumpCounts, In
    \* No task becomes active, and no thread begins to pump.
    <2>01. ASSUME Active' \subseteq Active,
                  \A th \in Threads : thread'[th].pc = "pumping" => thread'[th] = thread[th]
           PROVE  CountInv'
      <3>1. Cardinality(Active') <= Cardinality(Active) /\ Cardinality(Active') \in Nat
        BY <2>01, FewerActive
      <3>2. Cardinality(Active') <= MaxConcurrent
        BY <3>1, <2>0, Parameters
      <3>3. ASSUME NEW th \in Threads, thread'[th].pc = "pumping"
            PROVE  Cardinality(Active') <= thread'[th].active
        <4>1. thread'[th] = thread[th]
          BY <2>01, <3>3
        <4>2. Cardinality(Active) <= thread[th].active
          BY <3>3, <4>1, <2>0
        <4>3. QED BY <3>1, <4>1, <4>2, <2>0
      <3>4. QED BY <3>2, <3>3 DEF CountInv, ConcurrencyBounded, PumpCounts, In
    <2>1. CASE Quiet
      <3>1. Active' \subseteq Active
        BY <2>1 DEF Quiet, Active, Typed
      <3>2. \A th \in Threads : thread'[th].pc = "pumping" => thread'[th] = thread[th]
        <4>1. CASE thread' = thread
          BY <4>1
        <4>2. ASSUME NEW th \in Threads, NEW pc \in QuietPCs, GoesOn(th, pc)
              PROVE  \A v \in Threads : thread'[v].pc = "pumping" => thread'[v] = thread[v]
          <5>1. pc # "pumping"
            BY DEF QuietPCs
          <5>2. QED BY <4>2, <5>1, Moved
        <4>3. QED BY <2>1, <4>1, <4>2 DEF Quiet, MovesQuietly
      <3>3. QED BY <3>1, <3>2, <2>01
    <2>2. ASSUME NEW th \in Threads, Starts(th) PROVE CountInv'
      <3>1. /\ \A v \in Threads : v # th => thread'[v] = thread[v]
            /\ thread'[th].active = Cardinality(Active)
            /\ monitor' = th /\ UNCHANGED <<listed, status>>
        BY <2>2, StartMoves
      <3>2. Active' = Active
        BY <3>1 DEF Active
      <3>3. ASSUME NEW v \in Threads, thread'[v].pc = "pumping"
            PROVE  Cardinality(Active') <= thread'[v].active
        <4>1. v = th
          BY <3>1, <3>3 DEF MonitorInv, Held
        <4>2. QED BY <3>1, <3>2, <4>1, <2>0
      <3>4. QED BY <3>2, <3>3, <2>0 DEF CountInv, ConcurrencyBounded, PumpCounts, In
    <2>3. ASSUME NEW th \in Threads, NEW t \in Tasks, VisitTask(th, t) PROVE CountInv'
      <3>1. /\ \A v \in Threads : v # th => thread'[v] = thread[v]
            /\ thread[th].pc = "pumping" /\ t \in thread[th].todo
            /\ thread'[th].active = IF status[t] = "queued" THEN thread[th].active + 1 ELSE thread[th].active
        BY <2>3, VisitMoves
      <3>2. thread[th].active < MaxConcurrent /\ Cardinality(Active) <= thread[th].active
        <4>1. Fits(thread[th])
          BY DEF Typed, Fitting
        <4>2. QED BY <3>1, <4>1, <2>0 DEF Fits
      \* The monitor keeps the others from pumping.
      <3>3. \A v \in Threads : v # th => thread'[v].pc # "pumping"
        BY <3>1 DEF MonitorInv, Held
      <3>4. Cardinality(Active') <= thread'[th].active /\ Cardinality(Active') \in Nat
        <4>1. CASE status[t] = "queued"
          <5>1. Active' \subseteq Active \cup {t}
            BY <2>3, <4>1 DEF VisitTask, Set, Active, Typed
          <5>2. Cardinality(Active') <= Cardinality(Active) + 1 /\ Cardinality(Active') \in Nat
            BY <5>1, OneMoreActive
          <5>3. QED BY <4>1, <5>2, <3>1, <3>2, <2>0
        <4>2. CASE status[t] # "queued"
          <5>1. Active' = Active
            BY <2>3, <4>2 DEF VisitTask, Active
          <5>2. QED BY <4>2, <5>1, <3>1, <3>2, <2>0
        <4>3. QED BY <4>1, <4>2
      <3>5. Cardinality(Active') <= MaxConcurrent
        BY <3>1, <3>2, <3>4, <2>0, Parameters
      <3>6. QED BY <3>3, <3>4, <3>5 DEF CountInv, ConcurrencyBounded, PumpCounts, In
    <2>4. ASSUME NEW ts \in SUBSET Tasks, NEW s \in {"queued", "paused"}, InsertRows(ts, s) PROVE CountInv'
      <3>1. /\ \A v \in Threads : v # "pool" => thread'[v] = thread[v]
            /\ thread'["pool"].pc = "add" /\ listed' = listed
            /\ \A t \in Tasks : status'[t] = s \/ status'[t] = status[t]
        BY <2>4, InsertMoves
      <3>2. Active' \subseteq Active
        BY <3>1 DEF Active, Typed
      <3>3. QED BY <3>1, <3>2, <2>01
    <2>5. CASE AddTasks
      <3>1. /\ thread["pool"].pc = "add"
            /\ \A v \in Threads : v # "pool" => thread'[v] = thread[v]
            /\ thread'["pool"].pc \in {"idle", "pump"}
            /\ listed' = listed \cup thread["pool"].todo /\ UNCHANGED status
        BY <2>5, AddMoves
      <3>2. Active' \subseteq Active
        BY <3>1 DEF Active, FreshInv, AddedIsFresh, In
      <3>3. QED BY <3>1, <3>2, <2>01
    <2>6. ASSUME NEW kind \in Sweeps, EnterSweep(kind) PROVE CountInv'
      <3>1. /\ \A v \in Threads : v # "main" => thread'[v] = thread[v]
            /\ thread'["main"].pc = kind /\ UNCHANGED <<listed, status>> /\ kind # "pumping"
        BY <2>6, EnterSweepMoves DEF Sweeps
      <3>2. Active' \subseteq Active
        BY <3>1 DEF Active
      <3>3. QED BY <3>1, <3>2, <2>01
    <2>7. ASSUME NEW t \in Tasks, SweepTask(t) PROVE CountInv'
      <3>1. /\ \A v \in Threads : v # "main" => thread'[v] = thread[v]
            /\ thread'["main"].pc \in Sweeps /\ "pumping" \notin Sweeps
        BY <2>7, SweepMoves DEF Sweeps
      <3>2. /\ listed' = listed
            /\ \A u \in Tasks : status'[u] = "downloading" => status[u] = "downloading"
        BY <2>7 DEF SweepTask, StopOne, CancelOne, Set, Typed
      <3>3. Active' \subseteq Active
        BY <3>2 DEF Active, Typed
      <3>4. QED BY <3>1, <3>3, <2>01
    <2>8. CASE EndSweep
      <3>1. /\ \A v \in Threads : v # "main" => thread'[v] = thread[v]
            /\ thread'["main"].pc # "pumping" /\ listed' \subseteq listed /\ status' = status
        BY <2>8, EndSweepMoves
      <3>2. Active' \subseteq Active
        BY <3>1 DEF Active
      <3>3. QED BY <3>1, <3>2, <2>01
    <2>9. CASE Restart
      <3>1. /\ listed' = {t \in Tasks : rows[t] # None}
            /\ status' = [t \in Tasks |-> IF rows[t] # None THEN Loaded(rows[t]) ELSE status[t]]
            /\ \A th \in Threads : thread'[th].pc = "idle"
        BY <2>9 DEF Restart, QuietThreads, Idle
      <3>2. Active' = {}
        BY <3>1 DEF Active, Loaded
      <3>3. QED BY <3>1, <3>2, <2>01
    <2>10. QED BY <2>1, <2>2, <2>3, <2>4, <2>5, <2>6, <2>7, <2>8, <2>9, QuietSteps
  <1>3. QED BY <1>1, <1>2, TypedThroughout, MonitorInvariant, FreshInvariant, PTL DEF Spec

(***************************************************************************)
(* No more than mMaxConcurrent tasks download, whatever callbacks, users   *)
(* and network changes do while a pump counts and starts.                  *)
(***************************************************************************)
THEOREM AtMostMaxConcurrent == Spec => []ConcurrencyBounded
PROOF
  <1>1. CountInv => ConcurrencyBounded
    BY DEF CountInv
  <1>2. QED BY <1>1, CountInvariant, PTL
-----------------------------------------------------------------------------
(* The table. A task that cancelAll is about to take out of the list has   *)
(* no row any more, and nothing but an insertion makes one.                *)

RowsInv ==
  /\ thread["main"].pc # "deleterows" =>
       \A t \in Tasks : rows[t] # None => Kept(t) \/ (In("pool", "add") /\ t \in thread["pool"].todo)
  /\ In("main", "cancelall") => \A t \in thread["main"].left : rows[t] = None

LEMMA RowsInvariant == Spec => []RowsInv
PROOF
  <1>1. Init => RowsInv
    BY DEF Init, RowsInv, QuietThreads, Idle, In, Threads
  <1>2. Typed /\ FreshInv /\ RowsInv /\ [Next]_vars => RowsInv'
    <2> SUFFICES ASSUME Typed, FreshInv, RowsInv, [Next]_vars PROVE RowsInv'
      OBVIOUS
    <2> DEFINE Adding(t) == thread["pool"].pc = "add" /\ t \in thread["pool"].todo
    <2>0. /\ "main" \in Threads /\ "pool" \in Threads
          /\ "queued" # None /\ "paused" # None
          /\ \A th \in Threads : thread[th].todo \subseteq Tasks /\ thread[th].left \subseteq Tasks
      BY Parameters DEF Threads, Statuses, Typed, Fitting, ThreadRecord
    \* No row comes, and none stays behind a task that leaves the list.
    <2>01. ASSUME \A t \in Tasks : rows'[t] # None => rows[t] # None /\ (Kept(t) => Kept(t)'),
                  thread'["pool"] = thread["pool"] \/ (thread["pool"].pc # "add" /\ thread'["pool"].pc # "add"),
                  thread'["main"].pc = "cancelall" => thread'["main"] = thread["main"],
                  thread'["main"].pc = "deleterows" \/ thread["main"].pc # "deleterows"
           PROVE  RowsInv'
      <3>1. ASSUME thread'["main"].pc # "deleterows", NEW t \in Tasks, rows'[t] # None
            PROVE  Kept(t)' \/ (thread'["pool"].pc = "add" /\ t \in thread'["pool"].todo)
        <4>1. rows[t] # None /\ thread["main"].pc # "deleterows"
          BY <2>01, <3>1
        <4>2. Kept(t) \/ Adding(t)
          BY <4>1 DEF RowsInv, In
        <4>3. QED BY <4>2, <3>1, <2>01
      <3>2. ASSUME thread'["main"].pc = "cancelall", NEW t \in thread'["main"].left PROVE rows'[t] = None
        <4>1. thread'["main"] = thread["main"] /\ t \in Tasks
          BY <2>01, <3>2, <2>0
        <4>2. rows[t] = None
          BY <4>1, <3>2 DEF RowsInv, In
        <4>3. QED BY <4>1, <4>2, <2>01
      <3>3. QED BY <3>1, <3>2 DEF RowsInv, Kept, Removing, In
    <2>1. CASE Quiet
      <3>1. \A t \in Tasks : rows'[t] # None => rows[t] # None /\ (Kept(t) => Kept(t)')
        BY <2>1 DEF Quiet
      <3>2. CASE thread' = thread
        BY <3>1, <3>2, <2>01
      <3>3. ASSUME NEW th \in Threads, MovesQuietly(th) PROVE RowsInv'
        <4>1. PICK pc \in QuietPCs : GoesOn(th, pc)
          BY <3>3 DEF MovesQuietly
        <4>2. /\ \A v \in Threads : v # th => thread'[v] = thread[v]
              /\ thread'[th].pc = pc
          BY <4>1, Moved
        <4>3. thread[th].pc \notin BusyPCs /\ pc \notin BusyPCs
          BY <3>3 DEF MovesQuietly, QuietPCs, BusyPCs, Sweeps
        <4>4. "add" \in BusyPCs /\ "cancelall" \in BusyPCs /\ "deleterows" \in BusyPCs
          BY DEF BusyPCs, Sweeps
        <4>5. /\ thread'["pool"] = thread["pool"] \/ (thread["pool"].pc # "add" /\ thread'["pool"].pc # "add")
              /\ thread'["main"].pc = "cancelall" => thread'["main"] = thread["main"]
              /\ thread'["main"].pc = "deleterows" \/ thread["main"].pc # "deleterows"
          BY <4>2, <4>3, <4>4, <2>0
        <4>6. QED BY <3>1, <4>5, <2>01
      <3>4. QED BY <2>1, <3>2, <3>3 DEF Quiet
    <2>2. ASSUME NEW th \in Threads, Starts(th) PROVE RowsInv'
      <3>1. /\ \A v \in Threads : v # th => thread'[v] = thread[v]
            /\ thread'[th].pc = "pumping" /\ UNCHANGED <<listed, rows>>
            /\ thread[th].pc = "pump"
        BY <2>2, StartMoves DEF Starts, EnterPump, In
      <3>2. \A t \in Tasks : Kept(t) => Kept(t)'
        BY <3>1, <2>0 DEF Kept, Removing
      <3>3. QED BY <3>1, <3>2, <2>0, <2>01
    <2>3. ASSUME NEW th \in Threads, NEW t \in Tasks, VisitTask(th, t) PROVE RowsInv'
      <3>1. /\ \A v \in Threads : v # th => thread'[v] = thread[v]
            /\ thread[th].pc = "pumping" /\ thread'[th].pc = "pumping"
        BY <2>3, VisitMoves
      <3>2. listed' = listed /\ \A u \in Tasks : rows'[u] # None => rows[u] # None
        BY <2>3 DEF VisitTask, Set, Update, Typed, java
      <3>3. \A u \in Tasks : Kept(u) => Kept(u)'
        BY <3>1, <3>2, <2>0 DEF Kept, Removing
      <3>4. QED BY <3>1, <3>2, <3>3, <2>0, <2>01
    <2>4. ASSUME NEW ts \in SUBSET Tasks, NEW s \in {"queued", "paused"}, InsertRows(ts, s) PROVE RowsInv'
      <3>1. /\ \A v \in Threads : v # "pool" => thread'[v] = thread[v]
            /\ thread["pool"].pc = "idle"
            /\ thread'["pool"].pc = "add" /\ thread'["pool"].todo = ts
            /\ \A t \in ts : status[t] = None
            /\ \A t \in Tasks : t \notin ts => rows'[t] = rows[t]
            /\ listed' = listed
        BY <2>4, InsertMoves
      <3>2. thread'["main"] = thread["main"]
        BY <3>1, <2>0
      <3>3. ASSUME thread'["main"].pc # "deleterows", NEW t \in Tasks, rows'[t] # None
            PROVE  Kept(t)' \/ (thread'["pool"].pc = "add" /\ t \in thread'["pool"].todo)
        BY <3>1, <3>2, <3>3 DEF RowsInv, Kept, Removing, In
      \* The new tasks are not among those being cancelled.
      <3>4. ASSUME thread'["main"].pc = "cancelall", NEW t \in thread'["main"].left PROVE rows'[t] = None
        <4>1. t \in thread["main"].left /\ t \in Tasks /\ rows[t] = None
          BY <3>2, <3>4, <2>0 DEF RowsInv, In
        <4>2. t \notin ts
          BY <4>1, <3>1, <2>0 DEF FreshInv, NoneIsNew
        <4>3. QED BY <4>1, <4>2, <3>1
      <3>5. QED BY <3>3, <3>4 DEF RowsInv, In
    <2>5. CASE AddTasks
      <3>1. /\ thread["pool"].pc = "add"
            /\ \A v \in Threads : v # "pool" => thread'[v] = thread[v]
            /\ listed' = listed \cup thread["pool"].todo /\ UNCHANGED rows
        BY <2>5, AddMoves
      <3>2. thread'["main"] = thread["main"]
        BY <3>1, <2>0
      <3>3. QED BY <3>1, <3>2 DEF RowsInv, Kept, Removing, In
    <2>6. ASSUME NEW kind \in Sweeps, EnterSweep(kind) PROVE RowsInv'
      <3>1. /\ \A v \in Threads : v # "main" => thread'[v] = thread[v]
            /\ thread["main"].pc = "idle" /\ thread'["main"].pc = kind /\ thread'["main"].left = {}
            /\ UNCHANGED <<listed, rows>>
        BY <2>6, EnterSweepMoves
      <3>2. thread'["pool"] = thread["pool"]
        BY <3>1, <2>0
      <3>3. QED BY <3>1, <3>2 DEF RowsInv, Kept, Removing, In
    <2>7. ASSUME NEW t \in Tasks, SweepTask(t) PROVE RowsInv'
      <3>1. /\ \A v \in Threads : v # "main" => thread'[v] = thread[v]
            /\ thread'["main"].pc = thread["main"].pc /\ thread["main"].pc \in Sweeps
            /\ thread'["main"].left = IF In("main", "cancelall") /\ status[t] # "completed"
                                      THEN thread["main"].left \cup {t} ELSE thread["main"].left
        BY <2>7, SweepMoves
      <3>2. listed' = listed /\ \A u \in Tasks : rows'[u] # None => rows[u] # None
        BY <2>7 DEF SweepTask, StopOne, CancelOne, Set, Update, Typed
      <3>3. In("main", "cancelall") /\ status[t] # "completed" => rows'[t] = None
        BY <2>7 DEF SweepTask, StopOne, CancelOne, In, Typed
      <3>4. thread'["pool"] = thread["pool"]
        BY <3>1, <2>0
      <3>5. ASSUME thread'["main"].pc # "deleterows", NEW u \in Tasks, rows'[u] # None
            PROVE  Kept(u)' \/ (thread'["pool"].pc = "add" /\ u \in thread'["pool"].todo)
        BY <3>1, <3>2, <3>4, <3>5 DEF RowsInv, Kept, Removing, In, Sweeps
      <3>6. ASSUME thread'["main"].pc = "cancelall", NEW u \in thread'["main"].left PROVE rows'[u] = None
        <4>1. In("main", "cancelall")
          BY <3>1, <3>6 DEF In
        <4>2. CASE u = t /\ status[t] # "completed"
          BY <4>1, <4>2, <3>3
        <4>3. CASE u \in thread["main"].left
          <5>1. rows[u] = None /\ u \in Tasks
            BY <4>1, <4>3, <2>0 DEF RowsInv
          <5>2. QED BY <5>1, <3>2
        <4>4. QED BY <4>2, <4>3, <3>1, <3>6
      <3>7. QED BY <3>5, <3>6 DEF RowsInv, In
    <2>8. CASE EndSweep
      <3> DEFINE pc == thread["main"].pc
      <3>1. /\ \A v \in Threads : v # "main" => thread'[v] = thread[v]
            /\ thread["main"].pc \in Held
            /\ thread'["main"].left = {}
            /\ thread'["main"].pc = IF pc = "cancelall" THEN "pump"
                                    ELSE IF pc = "deleteall" THEN "deleterows" ELSE "idle"
            /\ listed' = IF pc = "cancelall" THEN listed \ thread["main"].left
                         ELSE IF pc = "deleteall" THEN {} ELSE listed
            /\ rows' = IF pc = "deleterows" THEN [t \in Tasks |-> None] ELSE rows
        BY <2>8, EndSweepMoves
      <3>2. thread'["pool"] = thread["pool"]
        BY <3>1, <2>0
      <3>3. ASSUME thread'["main"].pc # "deleterows", NEW t \in Tasks, rows'[t] # None
            PROVE  Kept(t)' \/ (thread'["pool"].pc = "add" /\ t \in thread'["pool"].todo)
        <4>1. pc # "deleteall" /\ pc # "deleterows" /\ rows[t] # None
          BY <3>1, <3>3
        <4>2. Kept(t) \/ Adding(t)
          BY <4>1 DEF RowsInv, In
        <4>3. pc = "cancelall" => t \notin thread["main"].left
          BY <4>1 DEF RowsInv, In
        <4>4. ~Removing(t)
          BY <3>1 DEF Removing, Held, Sweeps
        <4>5. QED BY <3>1, <3>2, <4>1, <4>2, <4>3, <4>4 DEF Kept
      <3>4. QED BY <3>1, <3>3 DEF RowsInv, In
    <2>9. CASE Restart
      <3>1. /\ listed' = {t \in Tasks : rows[t] # None}
            /\ rows' = [t \in Tasks |-> Loaded(rows[t])]
            /\ \A th \in Threads : thread'[th].pc = "idle"
        BY <2>9 DEF Restart, QuietThreads, Idle
      <3>2. "downloading" # None
        BY Parameters DEF Statuses
      <3>3. \A t \in Tasks : rows'[t] # None => t \in listed'
        BY <3>1, <3>2 DEF Loaded
      <3>4. thread'["main"].pc # "cancelall"
        BY <3>1, <2>0
      <3>5. QED BY <3>3, <3>4 DEF RowsInv, Kept, In
    <2>10. QED BY <2>1, <2>2, <2>3, <2>4, <2>5, <2>6, <2>7, <2>8, <2>9, QuietSteps
  <1>3. QED BY <1>1, <1>2, TypedThroughout, FreshInvariant, PTL DEF Spec

(***************************************************************************)
(* No late callback brings back the row of a task the user removed.        *)
(***************************************************************************)
THEOREM RowsBelongToTasks == Spec => []RowsAreListed
PROOF
  <1>1. RowsInv => RowsAreListed
    BY DEF RowsInv, RowsAreListed, Kept, In
  <1>2. QED BY <1>1, RowsInvariant, PTL
-----------------------------------------------------------------------------
(* The registry. A task's entry is a run of that task, and a run asked to  *)
(* pause is cancelled.                                                     *)

RegistryInv ==
  /\ \A t \in Tasks : tasks[t] # 0 => runs[tasks[t]].pc # "free" /\ runs[tasks[t]].task = t
  /\ \A r \in RunIds : /\ runs[r].paused => runs[r].cancelled
                       /\ runs[r].pc = "downloading" => ~runs[r].err

(***************************************************************************)
(* What a step does to the runs and to the registry.                       *)
(***************************************************************************)
LEMMA NativeSteps ==
  ASSUME Typed, [Next]_vars
  PROVE  \/ UNCHANGED <<tasks, runs>>
         \/ \E t \in Tasks : NativeStart(t) \/ NativePause(t) \/ NativeCancel(t)
         \/ \E r \in RunIds : \/ \E err \in BOOLEAN : StopWorkers(r, err)
                              \/ Decide(r) \/ Leave(r)
                              \/ Goto(r, "leave") /\ UNCHANGED tasks
         \/ Restart
PROOF
  <1> USE DEF Native, Others
  <1>0. \A th \in Threads : thread[th].left \subseteq Tasks /\ "main" \in Threads
    BY DEF Typed, Fitting, ThreadRecord, Threads
  <1>1. ASSUME NEW ts, NEW s, InsertRows(ts, s) PROVE UNCHANGED <<tasks, runs>>
    BY <1>1 DEF InsertRows
  <1>2. CASE AddTasks \/ Drop \/ DropRow \/ EndSweep \/ RunPosted \/ ResumeAll \/ SetWifiOnly
    BY <1>2 DEF AddTasks, Drop, DropRow, EndSweep, RunPosted, ResumeAll, SetWifiOnly
  <1>3. ASSUME NEW th \in Threads, ThreadStep(th)
        PROVE  UNCHANGED <<tasks, runs>> \/ \E t \in Tasks : NativePause(t)
    <2>1. CASE PumpStep(th)
      BY <2>1 DEF PumpStep, EnterPump, VisitTask, LeavePump
    <2>2. CASE PauseActive(th)
      BY <2>2, <1>0 DEF PauseActive, AskPause
    <2>3. CASE MarkPaused(th)
      BY <2>3 DEF MarkPaused
    <2>4. QED BY <1>3, <2>1, <2>2, <2>3 DEF ThreadStep
  <1>4. ASSUME NEW t \in Tasks, SweepTask(t)
        PROVE  UNCHANGED <<tasks, runs>> \/ NativePause(t) \/ NativeCancel(t)
    BY <1>4 DEF SweepTask, StopOne, CancelOne
  <1>5. ASSUME NEW t \in Tasks, Pause(t) \/ Resume(t) \/ Cancel(t) \/ RemoveTask(t)
        PROVE  UNCHANGED <<tasks, runs>> \/ NativePause(t) \/ NativeCancel(t)
    BY <1>5 DEF Pause, AskPause, Resume, Cancel, RemoveTask
  <1>6. ASSUME NEW kind, EnterSweep(kind) PROVE UNCHANGED <<tasks, runs>>
    BY <1>6 DEF EnterSweep
  <1>7. ASSUME NEW t \in Tasks, Launch(t) \/ LaunchFails(t)
        PROVE  UNCHANGED <<tasks, runs>> \/ NativeStart(t)
    BY <1>7 DEF Launch, LaunchFails
  <1>8. ASSUME NEW n, OnAvailable(n) \/ OnLost(n) PROVE UNCHANGED <<tasks, runs>>
    BY <1>8 DEF OnAvailable, OnLost, OnNetworkChanged
  <1>9. ASSUME NEW r \in RunIds, OnProgress(r) \/ Report(r) \/ DownloadEnds(r) \/ DownloadFails(r)
                                 \/ LastBytes(r) \/ RunStep(r)
        PROVE  \/ UNCHANGED <<tasks, runs>>
               \/ \E err \in BOOLEAN : StopWorkers(r, err)
               \/ Decide(r) \/ Leave(r)
               \/ Goto(r, "leave") /\ UNCHANGED tasks
    <2>1. runs[r].cancelled \in BOOLEAN
      BY DEF Typed, NativeType, Run
    <2>2. QED BY <1>9, <2>1 DEF OnProgress, Report, DownloadEnds, DownloadFails, LastBytes, RunStep
  <1>10. CASE UNCHANGED vars
    BY <1>10 DEF vars
  <1>11. QED
    BY <1>1, <1>2, <1>3, <1>4, <1>5, <1>6, <1>7, <1>8, <1>9, <1>10 DEF Next, MainStep, UserStep

LEMMA RegistryInvariant == Spec => []RegistryInv
PROOF
  <1>1. Init => RegistryInv
    <2>1. NoRun.pc = "free" /\ ~NoRun.paused
      BY DEF NoRun
    <2>2. QED BY <2>1 DEF Init, NativeInit, RegistryInv
  <1>2. Typed /\ RegistryInv /\ [Next]_vars => RegistryInv'
    <2> SUFFICES ASSUME Typed, RegistryInv, [Next]_vars PROVE RegistryInv'
      OBVIOUS
    <2>0. /\ tasks \in [Tasks -> 0..MaxRuns] /\ runs \in [RunIds -> Run]
          /\ \A t \in Tasks : tasks[t] # 0 => tasks[t] \in RunIds
          /\ 0 \notin RunIds
      BY Parameters DEF Typed, NativeType, RunIds
    <2>01. NoRun.pc = "free" /\ NoRun.paused = FALSE /\ NoRun.cancelled = FALSE /\ NoRun.err = FALSE
      BY DEF NoRun
    \* One run changes, and stays a run of its task.
    <2>02. ASSUME NEW r \in RunIds, NEW x \in Run, runs' = [runs EXCEPT ![r] = x],
                  x.task = runs[r].task, x.pc # "free", x.paused => x.cancelled,
                  x.pc = "downloading" => ~x.err,
                  \A t \in Tasks : tasks'[t] = tasks[t] \/ tasks'[t] = 0
           PROVE  RegistryInv'
      <3>1. ASSUME NEW t \in Tasks, tasks'[t] # 0
            PROVE  runs'[tasks'[t]].pc # "free" /\ runs'[tasks'[t]].task = t
        <4>1. tasks'[t] = tasks[t] /\ tasks[t] \in RunIds /\ runs[tasks[t]].pc # "free" /\ runs[tasks[t]].task = t
          BY <2>02, <3>1, <2>0 DEF RegistryInv
        <4>2. QED BY <4>1, <2>02, <2>0
      <3>2. ASSUME NEW q \in RunIds
            PROVE  /\ runs'[q].paused => runs'[q].cancelled
                   /\ runs'[q].pc = "downloading" => ~runs'[q].err
        <4>1. runs'[q] = IF q = r THEN x ELSE runs[q]
          BY <2>02, <2>0
        <4>2. CASE q = r
          BY <4>1, <4>2, <2>02
        <4>3. CASE q # r
          BY <4>1, <4>3 DEF RegistryInv
        <4>4. QED BY <4>2, <4>3
      <3>3. QED BY <3>1, <3>2 DEF RegistryInv
    <2>1. CASE UNCHANGED <<tasks, runs>>
      BY <2>1 DEF RegistryInv
    <2>2. ASSUME NEW t \in Tasks, NativeStart(t) PROVE RegistryInv'
      <3> DEFINE r == CHOOSE free \in FreeRuns : \A other \in FreeRuns : free <= other
                 x == [NoRun EXCEPT !.pc = "downloading", !.task = t]
      <3>1. r \in RunIds /\ runs[r].pc = "free"
        BY <2>2, FirstFree DEF NativeStart, FreeRuns
      <3>2. x.pc = "downloading" /\ x.task = t /\ x.paused = FALSE /\ x.err = FALSE
        BY DEF NoRun
      <3>3. runs' = [runs EXCEPT ![r] = x] /\ tasks' = [tasks EXCEPT ![t] = r]
        BY <2>2 DEF NativeStart
      <3> HIDE DEF r, x
      <3>4. ASSUME NEW u \in Tasks, tasks'[u] # 0
            PROVE  runs'[tasks'[u]].pc # "free" /\ runs'[tasks'[u]].task = u
        <4>1. CASE u = t
          <5>1. tasks'[u] = r /\ runs'[r] = x
            BY <4>1, <3>1, <3>3, <2>0
          <5>2. QED BY <5>1, <4>1, <3>2
        <4>2. CASE u # t
          <5>1. tasks'[u] = tasks[u]
            BY <4>2, <3>3, <2>0
          <5>2. tasks[u] \in RunIds /\ runs[tasks[u]].pc # "free" /\ runs[tasks[u]].task = u
            BY <5>1, <3>4, <2>0 DEF RegistryInv
          <5>3. runs'[tasks[u]] = runs[tasks[u]]
            BY <5>2, <3>1, <3>3, <2>0
          <5>4. QED BY <5>1, <5>2, <5>3
        <4>3. QED BY <4>1, <4>2
      <3>5. ASSUME NEW q \in RunIds
            PROVE  /\ runs'[q].paused => runs'[q].cancelled
                   /\ runs'[q].pc = "downloading" => ~runs'[q].err
        <4>1. runs'[q] = IF q = r THEN x ELSE runs[q]
          BY <3>3, <2>0
        <4>2. CASE q = r
          BY <4>1, <4>2, <3>2
        <4>3. CASE q # r
          BY <4>1, <4>3 DEF RegistryInv
        <4>4. QED BY <4>2, <4>3
      <3>6. QED BY <3>4, <3>5 DEF RegistryInv
    <2>3. ASSUME NEW t \in Tasks, NativePause(t) PROVE RegistryInv'
      <3>1. CASE tasks[t] = 0
        BY <2>3, <3>1, <2>1 DEF NativePause
      <3>2. CASE tasks[t] # 0
        <4> DEFINE x == [runs[tasks[t]] EXCEPT !.paused = TRUE, !.cancelled = TRUE]
        <4>1. tasks[t] \in RunIds /\ runs[tasks[t]] \in Run
          BY <3>2, <2>0
        <4>2. /\ x \in Run /\ x.task = runs[tasks[t]].task /\ x.pc = runs[tasks[t]].pc
              /\ x.paused = TRUE /\ x.cancelled = TRUE /\ x.err = runs[tasks[t]].err
          BY <4>1 DEF Run
        <4>3. runs' = [runs EXCEPT ![tasks[t]] = x] /\ tasks' = tasks
          BY <2>3, <3>2, <4>1, <2>0 DEF NativePause
        <4> HIDE DEF x
        <4>4. runs[tasks[t]].pc # "free" /\ (x.pc = "downloading" => ~x.err)
          BY <3>2, <4>1, <4>2 DEF RegistryInv
        <4>5. x.pc # "free" /\ (x.paused => x.cancelled)
          BY <4>2, <4>4
        <4>6. QED BY <4>1, <4>2, <4>3, <4>4, <4>5, <2>02
      <3>3. QED BY <3>1, <3>2
    <2>4. ASSUME NEW t \in Tasks, NativeCancel(t) PROVE RegistryInv'
      <3>1. CASE tasks[t] = 0
        <4>1. tasks' = tasks
          BY <2>4, <3>1, <2>0 DEF NativeCancel
        <4>2. QED BY <2>4, <3>1, <4>1, <2>1 DEF NativeCancel
      <3>2. CASE tasks[t] # 0
        <4> DEFINE x == [runs[tasks[t]] EXCEPT !.cancelled = TRUE]
        <4>1. tasks[t] \in RunIds /\ runs[tasks[t]] \in Run
          BY <3>2, <2>0
        <4>2. /\ x \in Run /\ x.task = runs[tasks[t]].task /\ x.pc = runs[tasks[t]].pc
              /\ x.cancelled = TRUE /\ x.err = runs[tasks[t]].err
          BY <4>1 DEF Run
        <4>3. runs' = [runs EXCEPT ![tasks[t]] = x] /\ tasks' = [tasks EXCEPT ![t] = 0]
          BY <2>4, <3>2, <4>1, <2>0 DEF NativeCancel
        <4> HIDE DEF x
        <4>4. runs[tasks[t]].pc # "free" /\ (x.pc = "downloading" => ~x.err)
          BY <3>2, <4>1, <4>2 DEF RegistryInv
        <4>5. x.pc # "free" /\ (x.paused => x.cancelled)
          BY <4>2, <4>4
        <4>6. \A u \in Tasks : tasks'[u] = tasks[u] \/ tasks'[u] = 0
          BY <4>3, <2>0
        <4>7. QED BY <4>1, <4>2, <4>3, <4>4, <4>5, <4>6, <2>02
      <3>3. QED BY <3>1, <3>2
    <2>5. ASSUME NEW r \in RunIds, NEW pc \in RunPCs \ {"free", "downloading"}, NEW err \in BOOLEAN,
                 \/ runs' = [runs EXCEPT ![r].pc = pc]
                 \/ runs' = [runs EXCEPT ![r].pc = pc, ![r].err = err],
                 UNCHANGED tasks
          PROVE  RegistryInv'
      <3> DEFINE x == [runs[r] EXCEPT !.pc = pc]
                 y == [runs[r] EXCEPT !.pc = pc, !.err = err]
      <3>1. /\ x \in Run /\ x.task = runs[r].task /\ x.pc = pc
            /\ x.paused = runs[r].paused /\ x.cancelled = runs[r].cancelled
            /\ y \in Run /\ y.task = runs[r].task /\ y.pc = pc
            /\ y.paused = runs[r].paused /\ y.cancelled = runs[r].cancelled
        BY <2>0 DEF Run
      <3>2. runs' = [runs EXCEPT ![r] = x] \/ runs' = [runs EXCEPT ![r] = y]
        BY <2>5, <2>0
      <3> HIDE DEF x, y
      <3>3. runs[r].paused => runs[r].cancelled
        BY DEF RegistryInv
      <3>4. (x.paused => x.cancelled) /\ (y.paused => y.cancelled)
        BY <3>1, <3>3
      <3>5. pc # "free" /\ pc # "downloading"
        OBVIOUS
      <3>6. QED BY <2>5, <3>1, <3>2, <3>4, <3>5, <2>02
    <2>6. ASSUME NEW r \in RunIds, NEW err \in BOOLEAN, StopWorkers(r, err) PROVE RegistryInv'
      BY <2>6, <2>5 DEF StopWorkers, RunPCs
    <2>7. ASSUME NEW r \in RunIds, Decide(r) PROVE RegistryInv'
      <3>1. Outcome(runs[r]) \in RunPCs \ {"free", "downloading"}
        BY DEF Outcome, RunPCs
      <3>2. QED BY <2>7, <3>1, <2>5 DEF Decide, Goto
    <2>8. ASSUME NEW r \in RunIds, Goto(r, "leave"), UNCHANGED tasks PROVE RegistryInv'
      BY <2>8, <2>5 DEF Goto, RunPCs
    <2>9. ASSUME NEW r \in RunIds, Leave(r) PROVE RegistryInv'
      <3>1. tasks' = [tasks EXCEPT ![runs[r].task] = 0] /\ runs' = [runs EXCEPT ![r] = NoRun]
        BY <2>9 DEF Leave, Unregistered
      <3>2. ASSUME NEW u \in Tasks, tasks'[u] # 0
            PROVE  runs'[tasks'[u]].pc # "free" /\ runs'[tasks'[u]].task = u
        <4>1. tasks'[u] = tasks[u] /\ u # runs[r].task
          BY <3>1, <3>2, <2>0
        <4>2. tasks[u] \in RunIds /\ runs[tasks[u]].pc # "free" /\ runs[tasks[u]].task = u
          BY <4>1, <3>2, <2>0 DEF RegistryInv
        <4>3. runs'[tasks[u]] = runs[tasks[u]]
          BY <4>1, <4>2, <3>1, <2>0
        <4>4. QED BY <4>1, <4>2, <4>3
      <3>3. ASSUME NEW q \in RunIds
            PROVE  /\ runs'[q].paused => runs'[q].cancelled
                   /\ runs'[q].pc = "downloading" => ~runs'[q].err
        <4>1. runs'[q] = IF q = r THEN NoRun ELSE runs[q]
          BY <3>1, <2>0
        <4>2. CASE q = r
          BY <4>1, <4>2, <2>01
        <4>3. CASE q # r
          BY <4>1, <4>3 DEF RegistryInv
        <4>4. QED BY <4>2, <4>3
      <3>4. QED BY <3>2, <3>3 DEF RegistryInv
    <2>10. CASE Restart
      <3>1. tasks' = [t \in Tasks |-> 0] /\ runs' = [r \in RunIds |-> NoRun]
        BY <2>10 DEF Restart
      <3>2. QED BY <3>1, <2>01 DEF RegistryInv
    <2>11. QED BY <2>1, <2>2, <2>3, <2>4, <2>6, <2>7, <2>8, <2>9, <2>10, NativeSteps
  <1>3. QED BY <1>1, <1>2, TypedThroughout, PTL DEF Spec
-----------------------------------------------------------------------------
(* cancelAll. Nothing starts downloading while it holds the monitor, so    *)
(* what downloads is what it has cancelled or is still to visit.           *)

SweepCovers == In("main", "cancelall") => Active \subseteq thread["main"].todo \cup thread["main"].left

LEMMA SweepInvariant == Spec => []SweepCovers
PROOF
  <1>1. Init => SweepCovers
    BY DEF Init, SweepCovers, QuietThreads, Idle, In, Threads
  <1>2. Typed /\ MonitorInv /\ FreshInv /\ SweepCovers /\ [Next]_vars => SweepCovers'
    <2> SUFFICES ASSUME Typed, MonitorInv, FreshInv, SweepCovers, [Next]_vars,
                        thread'["main"].pc = "cancelall", NEW t \in listed', status'[t] = "downloading"
                 PROVE  t \in thread'["main"].todo \cup thread'["main"].left
      BY DEF SweepCovers, In, Active
    <2>0. /\ "main" \in Threads /\ "pool" \in Threads /\ listed \subseteq Tasks
          /\ "cancelall" \notin QuietPCs /\ "cancelall" \in BusyPCs /\ "cancelall" \in Sweeps
          /\ thread["pool"].todo \subseteq Tasks
      BY DEF Threads, Typed, Fitting, ThreadRecord, QuietPCs, BusyPCs, Sweeps
    <2>01. ASSUME thread'["main"] = thread["main"], t \in listed, status[t] = "downloading"
           PROVE  t \in thread'["main"].todo \cup thread'["main"].left
      BY <2>01 DEF SweepCovers, In, Active
    <2>1. CASE Quiet
      <3>1. t \in listed /\ status[t] = "downloading"
        BY <2>1, <2>0 DEF Quiet
      <3>2. thread'["main"] = thread["main"]
        <4>1. CASE thread' = thread
          BY <4>1
        <4>2. ASSUME NEW th \in Threads, NEW pc \in QuietPCs, GoesOn(th, pc) PROVE thread'["main"] = thread["main"]
          <5>1. (\A v \in Threads : v # th => thread'[v] = thread[v]) /\ thread'[th].pc = pc
            BY <4>2, Moved
          <5>2. QED BY <5>1, <2>0
        <4>3. QED BY <2>1, <4>1, <4>2 DEF Quiet, MovesQuietly
      <3>3. QED BY <3>1, <3>2, <2>01
    <2>2. ASSUME NEW th \in Threads, Starts(th) PROVE t \in thread'["main"].todo \cup thread'["main"].left
      <3>1. /\ \A v \in Threads : v # th => thread'[v] = thread[v]
            /\ thread'[th].pc = "pumping" /\ listed' = listed /\ status' = status
        BY <2>2, StartMoves
      <3>2. thread'["main"] = thread["main"]
        BY <3>1, <2>0
      <3>3. QED BY <3>1, <3>2, <2>01
    <2>3. ASSUME NEW th \in Threads, NEW u \in Tasks, VisitTask(th, u) PROVE FALSE
      <3>1. /\ \A v \in Threads : v # th => thread'[v] = thread[v]
            /\ thread[th].pc = "pumping" /\ thread'[th].pc = "pumping"
        BY <2>3, VisitMoves
      <3>2. thread["main"].pc = "cancelall" /\ th # "main"
        BY <3>1, <2>0
      <3>3. monitor = th /\ monitor = "main"
        BY <3>1, <3>2, <2>0 DEF MonitorInv, Held
      <3>4. QED BY <3>2, <3>3
    <2>4. ASSUME NEW ts \in SUBSET Tasks, NEW s \in {"queued", "paused"}, InsertRows(ts, s)
          PROVE  t \in thread'["main"].todo \cup thread'["main"].left
      <3>1. /\ \A v \in Threads : v # "pool" => thread'[v] = thread[v]
            /\ \A u \in ts : status'[u] = s
            /\ \A u \in Tasks : u \notin ts => status'[u] = status[u]
            /\ listed' = listed
        BY <2>4, InsertMoves
      <3>2. thread'["main"] = thread["main"] /\ status[t] = "downloading"
        BY <3>1, <2>0
      <3>3. QED BY <3>1, <3>2, <2>01
    <2>5. CASE AddTasks
      <3>1. /\ thread["pool"].pc = "add"
            /\ \A v \in Threads : v # "pool" => thread'[v] = thread[v]
            /\ listed' = listed \cup thread["pool"].todo /\ status' = status
        BY <2>5, AddMoves
      <3>2. thread'["main"] = thread["main"] /\ t \in listed
        BY <3>1, <2>0 DEF FreshInv, AddedIsFresh, In
      <3>3. QED BY <3>1, <3>2, <2>01
    <2>6. ASSUME NEW kind \in Sweeps, EnterSweep(kind)
          PROVE  t \in thread'["main"].todo \cup thread'["main"].left
      <3>1. thread'["main"].todo = listed /\ listed' = listed
        BY <2>6, EnterSweepMoves
      <3>2. QED BY <3>1
    <2>7. ASSUME NEW u \in Tasks, SweepTask(u) PROVE t \in thread'["main"].todo \cup thread'["main"].left
      <3>1. /\ thread'["main"].pc = thread["main"].pc
            /\ thread'["main"].todo = thread["main"].todo \ {u}
            /\ thread'["main"].left = IF In("main", "cancelall") /\ status[u] # "completed"
                                      THEN thread["main"].left \cup {u} ELSE thread["main"].left
        BY <2>7, SweepMoves
      <3>2. In("main", "cancelall")
        BY <3>1 DEF In
      <3>3. listed' = listed /\ status' = status
        BY <2>7, <3>2 DEF SweepTask, StopOne, CancelOne, In
      <3>4. t \in thread["main"].todo \cup thread["main"].left
        BY <3>2, <3>3 DEF SweepCovers, Active
      <3>5. t = u => status[u] # "completed"
        BY <3>3
      <3>6. QED BY <3>1, <3>2, <3>4, <3>5
    <2>8. CASE EndSweep
      <3>1. thread'["main"].pc = IF thread["main"].pc = "cancelall" THEN "pump"
                                 ELSE IF thread["main"].pc = "deleteall" THEN "deleterows" ELSE "idle"
        BY <2>8, EndSweepMoves
      <3>2. QED BY <3>1
    <2>9. CASE Restart
      <3>1. thread'["main"].pc = "idle"
        BY <2>9, <2>0 DEF Restart, QuietThreads, Idle
      <3>2. QED BY <3>1
    <2>10. QED BY <2>1, <2>2, <2>3, <2>4, <2>5, <2>6, <2>7, <2>8, <2>9, QuietSteps
  <1>3. QED BY <1>1, <1>2, TypedThroughout, MonitorInvariant, FreshInvariant, PTL DEF Spec
-----------------------------------------------------------------------------
(* The places in the queue. A run that will report either is not cancelled *)
(* while it downloads, or has all its bytes. A cancelled one comes with    *)
(* the thread that cancelled it and is about to mark or drop the task.     *)

Healthy(r) == Reporting(r) /\ (At(r, "downloading") => ~runs[r].cancelled)
HasPlace(t) ==
  \/ launching[t] > 0
  \/ \E r \in RunIds : runs[r].task = t /\ Healthy(r)
  \/ \E th \in Threads : thread[th].pc \in PlacePCs /\ thread[th].task = t
  \/ thread["main"].pc \in {"cancelall", "deleteall"}
PlaceInv == \A t \in Active : HasPlace(t)

\* The thread is not the one that holds the place of the task.
Uninvolved(th, t) ==
  /\ thread[th].pc \notin {"cancelall", "deleteall"}
  /\ thread[th].pc \in PlacePCs => thread[th].task # t

(***************************************************************************)
(* A task keeps its place if no start of it is lost, its runs stay healthy *)
(* and only a thread moves that has nothing to do with it.                 *)
(***************************************************************************)
LEMMA PlaceKept ==
  ASSUME NEW t \in Tasks, HasPlace(t),
         launching[t] > 0 => launching'[t] > 0,
         \A r \in RunIds : runs[r].task = t /\ Healthy(r) => runs'[r].task = t /\ Healthy(r)',
         NEW th \in Threads, \A v \in Threads : v # th => thread'[v] = thread[v],
         thread'[th] = thread[th] \/ Uninvolved(th, t)
  PROVE  HasPlace(t)'
PROOF
  <1>0. "main" \in Threads
    BY DEF Threads
  <1>1. CASE launching[t] > 0
    BY <1>1 DEF HasPlace
  <1>2. CASE \E r \in RunIds : runs[r].task = t /\ Healthy(r)
    BY <1>2 DEF HasPlace
  <1>3. CASE \E v \in Threads : thread[v].pc \in PlacePCs /\ thread[v].task = t
    <2>1. PICK v \in Threads : thread[v].pc \in PlacePCs /\ thread[v].task = t
      BY <1>3
    <2>2. thread'[v] = thread[v]
      BY <2>1 DEF Uninvolved
    <2>3. QED BY <2>1, <2>2 DEF HasPlace
  <1>4. CASE thread["main"].pc \in {"cancelall", "deleteall"}
    <2>1. thread'["main"] = thread["main"]
      BY <1>0, <1>4 DEF Uninvolved
    <2>2. QED BY <1>4, <2>1 DEF HasPlace
  <1>5. QED BY <1>1, <1>2, <1>3, <1>4 DEF HasPlace

(***************************************************************************)
(* A pause or a cancel reaches only a run of its task; no other run        *)
(* changes.                                                                *)
(***************************************************************************)
LEMMA OtherRunsStay ==
  ASSUME Typed, RegistryInv, NEW t \in Tasks, NativePause(t) \/ NativeCancel(t),
         NEW r \in RunIds, runs[r].task # t
  PROVE  runs'[r] = runs[r]
PROOF
  <1>1. CASE tasks[t] = 0
    BY <1>1 DEF NativePause, NativeCancel
  <1>2. CASE tasks[t] # 0
    <2>1. runs[tasks[t]].task = t /\ tasks[t] # r
      BY <1>2 DEF RegistryInv
    <2>2. QED BY <1>2, <2>1 DEF NativePause, NativeCancel, Typed, NativeType
  <1>3. QED BY <1>1, <1>2

LEMMA SameRun ==
  ASSUME NEW r \in RunIds, runs'[r] = runs[r]
  PROVE  Healthy(r)' <=> Healthy(r)
BY DEF Healthy, Reporting, At

(***************************************************************************)
(* A goroutine that goes on by itself stays healthy until it leaves.       *)
(***************************************************************************)
LEMMA RunStaysHealthy ==
  ASSUME Typed, RegistryInv, NEW r \in RunIds, Healthy(r),
         DownloadEnds(r) \/ DownloadFails(r) \/ LastBytes(r) \/ Decide(r)
  PROVE  runs'[r].task = runs[r].task /\ Healthy(r)'
PROOF
  <1>0. runs \in [RunIds -> Run] /\ runs[r] \in Run
    BY DEF Typed, NativeType
  <1>1. ASSUME NEW err \in BOOLEAN, StopWorkers(r, err), err => ~runs[r].cancelled
        PROVE  runs'[r].task = runs[r].task /\ Healthy(r)'
    <2> DEFINE x == [runs[r] EXCEPT !.pc = "stopped", !.err = err]
    <2>1. x.pc = "stopped" /\ x.task = runs[r].task /\ x.err = err /\ x.cancelled = runs[r].cancelled
      BY <1>0 DEF Run
    <2>2. runs' = [runs EXCEPT ![r] = x]
      BY <1>0, <1>1 DEF StopWorkers
    <2> HIDE DEF x
    <2>3. runs'[r] = x
      BY <2>2, <1>0
    <2>4. QED BY <1>1, <2>1, <2>3 DEF Healthy, Reporting, At
  <1>2. CASE DownloadEnds(r)
    <2>1. StopWorkers(r, runs[r].cancelled) /\ runs[r].cancelled \in BOOLEAN
      BY <1>0, <1>2 DEF DownloadEnds, Run
    <2>2. ~runs[r].cancelled
      BY <1>2 DEF DownloadEnds, StopWorkers, Healthy
    <2>3. QED BY <1>1, <2>1, <2>2
  <1>3. CASE DownloadFails(r)
    BY <1>1, <1>3 DEF DownloadFails
  <1>4. CASE LastBytes(r)
    BY <1>1, <1>4 DEF LastBytes
  <1>5. CASE Decide(r)
    <2> DEFINE o == Outcome(runs[r])
               x == [runs[r] EXCEPT !.pc = o]
    <2>1. x.pc = o /\ x.task = runs[r].task /\ x.err = runs[r].err /\ x.cancelled = runs[r].cancelled
      BY <1>0 DEF Run
    <2>2. o \in {"completed", "failed"}
      BY <1>0 DEF Outcome, Healthy, Reporting, RegistryInv, Run
    <2>3. runs' = [runs EXCEPT ![r] = x]
      BY <1>0, <1>5 DEF Decide, Goto
    <2> HIDE DEF o, x
    <2>4. runs'[r] = x
      BY <2>3, <1>0
    <2>5. QED BY <2>1, <2>2, <2>4 DEF Healthy, Reporting, At
  <1>6. QED BY <1>2, <1>3, <1>4, <1>5

LEMMA PlaceInvariant == Spec => []PlaceInv
PROOF
  <1> USE DEF java, network, rest, Native, Others
  <1>1. Init => PlaceInv
    BY DEF Init, PlaceInv, Active
  <1>2. Typed /\ Typed' /\ FreshInv /\ RegistryInv /\ SweepCovers /\ PlaceInv /\ [Next]_vars => PlaceInv'
    <2> SUFFICES ASSUME Typed, Typed', FreshInv, RegistryInv, SweepCovers, PlaceInv, [Next]_vars,
                        NEW t \in listed', status'[t] = "downloading", t \in Tasks
                 PROVE  HasPlace(t)'
      <3>1. QED BY DEF PlaceInv, Active, Typed
    <2> DEFINE OnlyMoves(th) == \A v \in Threads : v # th => thread'[v] = thread[v]
               RunsKeep == \A r \in RunIds : runs[r].task = t /\ Healthy(r) => runs'[r].task = t /\ Healthy(r)'
               Before == t \in listed /\ status[t] = "downloading"
    <2>0. /\ "main" \in Threads /\ "pool" \in Threads /\ "net" \in Threads
          /\ \A th \in Threads : /\ thread[th] \in ThreadRecord
                                 /\ thread[th].pc \in PlacePCs => thread[th].task \in Tasks
          /\ runs \in [RunIds -> Run] /\ launching \in [Tasks -> Nat]
      BY DEF Threads, Typed, NativeType, Fitting, Fits, TaskPCs
    <2>01. Before => HasPlace(t)
      BY DEF PlaceInv, Active
    <2>02. UNCHANGED runs => RunsKeep
      BY SameRun
    <2>03. ASSUME NEW th \in Threads, NEW r, Becomes(th, r) PROVE OnlyMoves(th) /\ thread'[th] = r
      BY <2>03 DEF Becomes, Typed
    \* The task downloaded before, and keeps what it had.
    <2>04. ASSUME Before, RunsKeep, launching[t] > 0 => launching'[t] > 0, UNCHANGED thread
           PROVE  HasPlace(t)'
      BY <2>04, <2>01, <2>0, PlaceKept
    <2>05. ASSUME Before, RunsKeep, launching[t] > 0 => launching'[t] > 0,
                  NEW th \in Threads, NEW r, Becomes(th, r), Uninvolved(th, t)
           PROVE  HasPlace(t)'
      BY <2>05, <2>01, <2>03, PlaceKept
    <2>06. ASSUME Before, UNCHANGED <<runs, launching>>, NEW th \in Threads, NEW r, Becomes(th, r),
                  thread[th].pc \notin PlacePCs \cup {"cancelall", "deleteall"}
           PROVE  HasPlace(t)'
      BY <2>06, <2>02, <2>05 DEF Uninvolved
    <2>07. ASSUME NEW u \in Tasks, NEW s, Set(u, s), s # "downloading" PROVE u # t /\ status[t] = "downloading"
      BY <2>07 DEF Set, Typed
    <2>1. ASSUME NEW th \in Threads, EnterPump(th) PROVE HasPlace(t)'
      <3>1. Before /\ UNCHANGED <<runs, launching>> /\ thread[th].pc = "pump"
        BY <2>1 DEF EnterPump, In
      <3>2. \E r : Becomes(th, r)
        BY <2>1 DEF EnterPump, AfterPump
      <3>3. QED BY <3>1, <3>2, <2>06 DEF PlacePCs
    <2>2. ASSUME NEW th \in Threads, NEW u \in Tasks, VisitTask(th, u) PROVE HasPlace(t)'
      <3>1. listed' = listed /\ runs' = runs /\ thread[th].pc = "pumping"
        BY <2>2 DEF VisitTask, In
      <3>2. \E r : Becomes(th, r)
        BY <2>2 DEF VisitTask
      <3>3. CASE status[u] = "queued" /\ u = t
        <4>1. launching'[t] = launching[t] + 1 /\ launching[t] \in Nat
          BY <2>2, <2>0, <3>3 DEF VisitTask
        <4>2. launching'[t] > 0
          BY <4>1
        <4>3. QED BY <4>2 DEF HasPlace
      <3>4. CASE ~(status[u] = "queued" /\ u = t)
        <4>1. status[t] = "downloading" /\ launching'[t] = launching[t]
          BY <2>2, <2>0, <3>4 DEF VisitTask, Set, Typed
        <4>2. Uninvolved(th, t)
          BY <3>1 DEF Uninvolved, PlacePCs
        <4>3. QED BY <3>1, <3>2, <4>1, <4>2, <2>02, <2>05
      <3>5. QED BY <3>3, <3>4
    <2>3. ASSUME NEW th \in Threads, LeavePump(th) PROVE HasPlace(t)'
      <3>1. Before /\ UNCHANGED <<runs, launching>> /\ thread[th].pc = "pumping"
        BY <2>3 DEF LeavePump, In
      <3>2. \E r : Becomes(th, r)
        BY <2>3 DEF LeavePump, AfterPump
      <3>3. QED BY <3>1, <3>2, <2>06 DEF PlacePCs
    <2>4. ASSUME NEW u \in Tasks, Launch(u) PROVE HasPlace(t)'
      <3> DEFINE x == [NoRun EXCEPT !.pc = "downloading", !.task = u]
      <3>1. PICK r \in RunIds : runs[r].pc = "free" /\ runs' = [runs EXCEPT ![r] = x]
        BY <2>4, FirstFree DEF Launch, NativeStart, FreeRuns
      <3>2. x.pc = "downloading" /\ x.task = u /\ x.cancelled = FALSE
        BY DEF NoRun
      <3>3. runs' = [runs EXCEPT ![r] = x]
        BY <3>1
      <3>4. Before /\ UNCHANGED thread /\ launching' = [launching EXCEPT ![u] = @ - 1]
        BY <2>4 DEF Launch
      <3> HIDE DEF x
      <3>5. CASE u = t
        <4>1. runs'[r] = x
          BY <3>1, <3>3, <2>0
        <4>2. runs'[r].task = t /\ Healthy(r)'
          BY <4>1, <3>2, <3>5 DEF Healthy, Reporting, At
        <4>3. QED BY <4>2, <3>1 DEF HasPlace
      <3>6. CASE u # t
        <4>1. RunsKeep
          <5> SUFFICES ASSUME NEW q \in RunIds, runs[q].task = t, Healthy(q)
                       PROVE  runs'[q].task = t /\ Healthy(q)'
            OBVIOUS
          <5>1. q # r
            BY <3>1 DEF Healthy, Reporting, At
          <5>2. runs'[q] = runs[q]
            BY <5>1, <3>3, <2>0
          <5>3. QED BY <5>2, SameRun
        <4>2. launching'[t] = launching[t]
          BY <3>4, <3>6, <2>0
        <4>3. QED BY <4>1, <4>2, <3>4, <2>04
      <3>7. QED BY <3>5, <3>6
    <2>5. ASSUME NEW u \in Tasks, LaunchFails(u) PROVE HasPlace(t)'
      <3>1. Set(u, "error") /\ listed' = listed /\ UNCHANGED <<runs, thread>>
            /\ launching' = [launching EXCEPT ![u] = @ - 1]
        BY <2>5 DEF LaunchFails
      <3>2. u # t /\ status[t] = "downloading"
        BY <3>1, <2>07
      <3>3. launching'[t] = launching[t]
        BY <3>1, <3>2, <2>0
      <3>4. QED BY <3>1, <3>2, <3>3, <2>02, <2>04
    <2>6. ASSUME NEW ts \in SUBSET Tasks, NEW s \in {"queued", "paused"}, InsertRows(ts, s) PROVE HasPlace(t)'
      <3>1. /\ \A u \in ts : status'[u] = s
            /\ \A u \in Tasks : u \notin ts => status'[u] = status[u]
            /\ listed' = listed /\ thread["pool"].pc = "idle"
        BY <2>6, InsertMoves
      <3>2. UNCHANGED <<runs, launching>> /\ \E r : Becomes("pool", r)
        BY <2>6 DEF InsertRows
      <3>3. Before
        BY <3>1
      <3>4. QED BY <3>1, <3>2, <3>3, <2>0, <2>06 DEF PlacePCs
    <2>7. CASE AddTasks
      <3>1. /\ thread["pool"].pc = "add"
            /\ listed' = listed \cup thread["pool"].todo /\ status' = status
        BY <2>7, AddMoves
      <3>2. UNCHANGED <<runs, launching>> /\ \E r : Becomes("pool", r)
        BY <2>7 DEF AddTasks
      <3>3. Before
        BY <3>1 DEF FreshInv, AddedIsFresh, In
      <3>4. QED BY <3>1, <3>2, <3>3, <2>0, <2>06 DEF PlacePCs
    \* The thread that asks for a pause holds the place until it marks the task.
    <2>8. ASSUME NEW th \in Threads, NEW u \in Tasks, AskPause(th, u), UNCHANGED <<listed, status, launching>>,
                 thread[th].pc \in {"idle", "pauseall"}
          PROVE  HasPlace(t)'
      <3> DEFINE r == [thread[th] EXCEPT !.pc = "mark", !.task = u, !.left = @ \ {u}]
      <3>1. Becomes(th, r) /\ NativePause(u)
        BY <2>8 DEF AskPause
      <3>2. r.pc = "mark" /\ r.task = u
        BY <2>0 DEF ThreadRecord
      <3> HIDE DEF r
      <3>3. thread'[th] = r
        BY <3>1, <2>03
      <3>4. CASE u = t
        BY <3>2, <3>3, <3>4 DEF HasPlace, PlacePCs
      <3>5. CASE u # t
        <4>1. RunsKeep
          BY <3>1, <3>5, OtherRunsStay, SameRun
        <4>2. Before /\ Uninvolved(th, t)
          BY <2>8 DEF Uninvolved, PlacePCs
        <4>3. QED BY <4>1, <4>2, <3>1, <2>8, <2>05
      <3>6. QED BY <3>4, <3>5
    <2>9. ASSUME NEW u \in Tasks, Pause(u) PROVE HasPlace(t)'
      BY <2>9, <2>8, <2>0 DEF Pause, In
    <2>10. ASSUME NEW th \in Threads, PauseActive(th) PROVE HasPlace(t)'
      <3>1. UNCHANGED <<listed, status, launching>> /\ thread[th].pc = "pauseall"
        BY <2>10 DEF PauseActive, In
      <3>2. CASE \E u \in thread[th].left : AskPause(th, u)
        <4>1. thread[th].left \subseteq Tasks
          BY <2>0 DEF ThreadRecord
        <4>2. QED BY <3>1, <3>2, <4>1, <2>8
      <3>3. CASE Becomes(th, Idle) /\ UNCHANGED runs
        <4>1. Before
          BY <3>1
        <4>2. QED BY <3>1, <3>3, <4>1, <2>06 DEF PlacePCs
      <3>4. QED BY <2>10, <3>2, <3>3 DEF PauseActive
    <2>11. ASSUME NEW th \in Threads, MarkPaused(th) PROVE HasPlace(t)'
      <3>1. /\ thread[th].pc = "mark" /\ Set(thread[th].task, "paused")
            /\ listed' = listed /\ UNCHANGED <<runs, launching>>
        BY <2>11 DEF MarkPaused, In
      <3>2. thread[th].task # t /\ status[t] = "downloading"
        BY <3>1, <2>0, <2>07 DEF PlacePCs
      <3>3. Uninvolved(th, t)
        BY <3>1, <3>2 DEF Uninvolved
      <3>4. \E r : Becomes(th, r)
        BY <2>11 DEF MarkPaused, Pumps
      <3>5. QED BY <3>1, <3>2, <3>3, <3>4, <2>02, <2>05
    <2>12. ASSUME NEW u \in Tasks, Resume(u) PROVE HasPlace(t)'
      <3>1. Set(u, "queued") /\ listed' = listed /\ UNCHANGED <<runs, launching>> /\ thread["main"].pc = "idle"
        BY <2>12 DEF Resume, In
      <3>2. Before
        BY <3>1, <2>07
      <3>3. \E r : Becomes("main", r)
        BY <2>12 DEF Resume, Pumps
      <3>4. QED BY <3>1, <3>2, <3>3, <2>0, <2>06 DEF PlacePCs
    <2>13. CASE ResumeAll \/ RunPosted \/ SetWifiOnly
      <3>1. /\ UNCHANGED <<listed, runs, launching>> /\ thread["main"].pc = "idle"
            /\ status' = status \/ status' = [u \in Tasks |-> IF u \in Resumable THEN "queued" ELSE status[u]]
        BY <2>13 DEF ResumeAll, RunPosted, SetWifiOnly, In
      <3>2. Before
        BY <3>1
      <3>3. \E r : Becomes("main", r)
        BY <2>13 DEF ResumeAll, RunPosted, SetWifiOnly, Pumps
      <3>4. QED BY <3>1, <3>2, <3>3, <2>0, <2>06 DEF PlacePCs
    \* So does the thread that cancels, until it drops the task.
    <2>14. ASSUME NEW u \in Tasks, Cancel(u) \/ RemoveTask(u) PROVE HasPlace(t)'
      <3> DEFINE r1 == [Idle EXCEPT !.pc = "drop", !.task = u]
                 r2 == [Idle EXCEPT !.pc = "remove", !.task = u]
      <3>1. /\ Becomes("main", r1) \/ Becomes("main", r2)
            /\ NativeCancel(u) \/ UNCHANGED runs
            /\ UNCHANGED <<listed, status, launching>> /\ thread["main"].pc = "idle"
        BY <2>14 DEF Cancel, RemoveTask, In
      <3>2. r1.pc = "drop" /\ r1.task = u /\ r2.pc = "remove" /\ r2.task = u
        BY DEF Idle
      <3> HIDE DEF r1, r2
      <3>3. thread'["main"] = r1 \/ thread'["main"] = r2
        BY <3>1, <2>0, <2>03
      <3>4. CASE u = t
        BY <3>2, <3>3, <3>4, <2>0 DEF HasPlace, PlacePCs
      <3>5. CASE u # t
        <4>1. RunsKeep
          BY <3>1, <3>5, OtherRunsStay, SameRun
        <4>2. Before /\ Uninvolved("main", t)
          BY <3>1 DEF Uninvolved, PlacePCs
        <4>3. QED BY <4>1, <4>2, <3>1, <2>0, <2>05
      <3>6. QED BY <3>4, <3>5
    <2>15. CASE Drop
      <3>1. /\ thread["main"].pc \in {"drop", "remove"} /\ listed' = listed \ {thread["main"].task}
            /\ UNCHANGED <<status, runs, launching>>
        BY <2>15 DEF Drop, In
      <3>2. Before /\ Uninvolved("main", t)
        BY <3>1 DEF Uninvolved
      <3>3. \E r : Becomes("main", r)
        BY <2>15 DEF Drop
      <3>4. QED BY <3>1, <3>2, <3>3, <2>0, <2>02, <2>05
    <2>15b. CASE DropRow
      <3>1. /\ thread["main"].pc \in {"droprow", "removerow"}
            /\ UNCHANGED <<listed, status, runs, launching>>
        BY <2>15b DEF DropRow, In
      <3>2. \E r : Becomes("main", r)
        BY <2>15b DEF DropRow, Pumps
      <3>3. QED BY <3>1, <3>2, <2>0, <2>06 DEF PlacePCs
    <2>16. ASSUME NEW kind \in Sweeps, EnterSweep(kind) PROVE HasPlace(t)'
      <3>1. UNCHANGED <<listed, status, launching, runs>> /\ thread["main"].pc = "idle"
        BY <2>16, EnterSweepMoves
      <3>2. Before /\ \E r : Becomes("main", r)
        BY <2>16, <3>1 DEF EnterSweep
      <3>3. QED BY <3>1, <3>2, <2>0, <2>06 DEF PlacePCs
    <2>17. ASSUME NEW u \in Tasks, SweepTask(u) PROVE HasPlace(t)'
      <3>1. thread'["main"].pc = thread["main"].pc /\ thread["main"].pc \in Sweeps
        BY <2>17, SweepMoves
      <3>2. CASE thread["main"].pc \in {"cancelall", "deleteall"}
        BY <3>1, <3>2 DEF HasPlace
      <3>3. CASE thread["main"].pc = "stopall"
        <4>1. /\ listed' = listed /\ UNCHANGED launching
              /\ IF status[u] = "downloading" THEN NativePause(u) ELSE UNCHANGED runs
              /\ IF status[u] \in {"downloading", "queued"} THEN Set(u, "paused") ELSE UNCHANGED status
          BY <2>17, <3>3 DEF SweepTask, StopOne, CancelOne, In
        <4>2. Before /\ (status[u] = "downloading" => u # t)
          BY <4>1, <2>07
        <4>3. RunsKeep
          BY <4>1, <4>2, OtherRunsStay, SameRun
        <4>4. Uninvolved("main", t)
          BY <3>3 DEF Uninvolved, PlacePCs
        <4>5. \E r : Becomes("main", r)
          BY <2>17 DEF SweepTask
        <4>6. QED BY <4>1, <4>2, <4>3, <4>4, <4>5, <2>0, <2>05
      <3>4. QED BY <3>1, <3>2, <3>3 DEF Sweeps
    <2>18. CASE EndSweep
      <3>1. /\ thread["main"].pc \in Held /\ thread["main"].todo = {}
            /\ listed' = IF thread["main"].pc = "cancelall" THEN listed \ thread["main"].left
                         ELSE IF thread["main"].pc = "deleteall" THEN {} ELSE listed
            /\ UNCHANGED <<status, launching, runs>>
        BY <2>18, EndSweepMoves
      <3>2. Before /\ thread["main"].pc # "deleteall"
        BY <3>1
      <3>3. thread["main"].pc # "cancelall"
        <4>1. SUFFICES ASSUME thread["main"].pc = "cancelall" PROVE FALSE
          OBVIOUS
        <4>2. t \in thread["main"].left
          BY <4>1, <3>1, <3>2 DEF SweepCovers, In, Active
        <4>3. QED BY <4>1, <4>2, <3>1
      <3>4. \E r : Becomes("main", r)
        BY <2>18 DEF EndSweep
      <3>5. Uninvolved("main", t)
        BY <3>1, <3>2, <3>3 DEF Uninvolved, PlacePCs, Held, Sweeps
      <3>6. QED BY <3>1, <3>2, <3>4, <3>5, <2>0, <2>02, <2>05
    <2>19. ASSUME NEW n \in Networks, OnAvailable(n) \/ OnLost(n) PROVE HasPlace(t)'
      <3>1. UNCHANGED <<listed, status, runs, launching>> /\ thread["net"].pc = "idle"
        BY <2>19 DEF OnAvailable, OnLost, OnNetworkChanged, In
      <3>2. Before /\ \E r : Becomes("net", r)
        BY <2>19, <3>1 DEF OnAvailable, OnLost, OnNetworkChanged
      <3>3. QED BY <3>1, <3>2, <2>0, <2>06 DEF PlacePCs
    <2>20. ASSUME NEW r \in RunIds, OnProgress(r) PROVE HasPlace(t)'
      <3>1. Before /\ UNCHANGED <<runs, launching, thread>>
        BY <2>20 DEF OnProgress
      <3>2. QED BY <3>1, <2>02, <2>04
    \* A run that reports ends the download of its task.
    <2>21. ASSUME NEW r \in RunIds, Report(r) PROVE HasPlace(t)'
      <3>1. /\ listed' = listed /\ UNCHANGED <<launching, thread>>
            /\ runs' = [runs EXCEPT ![r].pc = "leave"]
        BY <2>21 DEF Report, Goto
      <3>2. runs[r].task # t /\ status[t] = "downloading"
        <4>1. CASE runs[r].task \in listed
          <5>1. Set(runs[r].task, IF At(r, "completed") THEN "completed" ELSE "error") /\ runs[r].task \in Tasks
            BY <2>21, <4>1 DEF Report, Typed
          <5>2. QED BY <5>1, <2>07
        <4>2. CASE runs[r].task \notin listed
          BY <2>21, <4>2, <3>1 DEF Report
        <4>3. QED BY <4>1, <4>2
      <3>3. \A q \in RunIds : runs[q].task = t => runs'[q] = runs[q]
        BY <3>1, <3>2, <2>0
      <3>4. RunsKeep
        BY <3>3, SameRun
      <3>5. QED BY <3>1, <3>2, <3>4, <2>04
    <2>22. ASSUME NEW r \in RunIds, DownloadEnds(r) \/ DownloadFails(r) \/ LastBytes(r) \/ RunStep(r) PROVE HasPlace(t)'
      <3>1. Before /\ UNCHANGED <<launching, thread>>
        BY <2>22 DEF DownloadEnds, DownloadFails, LastBytes, RunStep
      <3>2. \A q \in RunIds : q # r => runs'[q] = runs[q]
        BY <2>22, <2>0 DEF DownloadEnds, DownloadFails, LastBytes, RunStep, StopWorkers, Decide, Goto, Leave
      <3>3. Healthy(r) => runs'[r].task = runs[r].task /\ Healthy(r)'
        <4>1. Leave(r) => ~Healthy(r)
          BY DEF Leave, At, Healthy, Reporting
        <4>2. QED BY <2>22, <4>1, RunStaysHealthy DEF RunStep
      <3>4. RunsKeep
        BY <3>2, <3>3, SameRun
      <3>5. QED BY <3>1, <3>4, <2>04
    <2>23. CASE Restart
      <3>1. /\ listed' = {u \in Tasks : rows[u] # None}
            /\ status' = [u \in Tasks |-> IF rows[u] # None THEN Loaded(rows[u]) ELSE status[u]]
        BY <2>23 DEF Restart
      <3>2. status'[t] = Loaded(rows[t])
        BY <3>1
      <3>3. QED BY <3>2 DEF Loaded
    <2>24. CASE UNCHANGED vars
      <3>1. Before /\ UNCHANGED <<runs, launching, thread>>
        BY <2>24 DEF vars
      <3>2. QED BY <3>1, <2>02, <2>04
    <2>25. QED
      BY <2>1, <2>2, <2>3, <2>5, <2>4, <2>6, <2>7, <2>9, <2>10, <2>11, <2>12, <2>13, <2>14, <2>15,
         <2>16, <2>17, <2>18, <2>19, <2>20, <2>21, <2>22, <2>23, <2>24, <2>15b
      DEF Next, ThreadStep, PumpStep, MainStep, UserStep
  <1>3. QED
    BY <1>1, <1>2, TypedThroughout, FreshInvariant, RegistryInvariant, SweepInvariant, PTL DEF Spec

(***************************************************************************)
(* Whoever is DOWNLOADING is on its way to something else: no task keeps   *)
(* its place in the queue with nobody left to end its download.            *)
(***************************************************************************)
THEOREM PlacesAreUsed == Spec => []PlaceIsUsed
PROOF
  <1>1. PlaceInv => PlaceIsUsed
    BY DEF PlaceInv, PlaceIsUsed, HasPlace, Healthy, PlacePCs
  <1>2. QED BY <1>1, PlaceInvariant, PTL
=============================================================================
