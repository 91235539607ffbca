--------------------------- MODULE DownloadQueue ---------------------------
(***************************************************************************)
(* DownloadQueueManager.java with the table of DownloadDatabaseHelper and  *)
(* NetworkMonitor: the status of each task, the pump that starts queued    *)
(* tasks while fewer than mMaxConcurrent download, and its callbacks.      *)
(*                                                                         *)
(* Threads: the main thread (user actions, posted runnables), the thread   *)
(* of the connectivity callbacks, an executor thread that enqueues, one    *)
(* executor task per native start, and the goroutines, which run the       *)
(* callbacks. Only pumpQueue and the ...All methods are synchronized. One  *)
(* step sets a status and its row in the table.                            *)
(***************************************************************************)
EXTENDS NativeTasks

CONSTANTS
  MaxConcurrent,  \* mMaxConcurrent
  None,           \* no task, no row, no owner
  Events,         \* what users, network and faults do in this instance
  Budget          \* bound: how many of these happen altogether

ASSUME QueueAssumption == MaxConcurrent \in Nat \ {0} /\ Budget \in Nat

VARIABLES
  listed,     \* mTasks
  status,     \* DownloadTask.status, also of a task no longer listed
  rows,       \* the status column of the table
  launching,  \* queued executor tasks of startTask, by task
  thread,     \* what each thread is doing
  monitor,    \* who is in a synchronized method
  posted,     \* runnables with a pump on the main thread's queue
  wifiOnly,   \* mWifiOnly
  mon,        \* NetworkMonitor's mIsConnected and mIsWifi
  networks,   \* the networks there are
  unpumped,   \* a download gave up its place and nothing pumped since
  budget

java == <<listed, status, rows, launching>>
network == <<mon, networks, wifiOnly>>
rest == <<network, unpumped, budget>>
vars == <<Native, java, thread, monitor, posted, network, unpumped, budget>>
-----------------------------------------------------------------------------
Threads == {"main", "net", "pool"}
Statuses == {"queued", "downloading", "paused", "completed", "error"}
Sweeps == {"stopall", "cancelall", "deleteall"}
Networks == {"wifi", "mobile"}

ASSUME NoneAssumption == None \notin Tasks \cup Threads \cup Statuses

\* A thread: the task at hand, those pauseAllActive, a sweep or the pump has
\* yet to visit, and the pump's activeCount.
Idle == [pc |-> "idle", task |-> None, todo |-> {}, left |-> {}, active |-> 0]
In(th, pc) == thread[th].pc = pc
Becomes(th, r) == thread' = [thread EXCEPT ![th] = r]
Pumps(th) == Becomes(th, [thread[th] EXCEPT !.pc = "pump", !.task = None])

Spend(e) == e \in Events /\ budget > 0 /\ budget' = budget - 1

\* UPDATE ... WHERE id: a row that is not there stays away.
Update_BUG(table, t, s) == [table EXCEPT ![t] = s]
Update(table, t, s) == IF table[t] = None THEN table ELSE [table EXCEPT ![t] = s]
Set(t, s) == status' = [status EXCEPT ![t] = s] /\ rows' = Update(rows, t, s)

Blocked == wifiOnly /\ ~mon.wifi
Active == {t \in listed : status[t] = "downloading"}
-----------------------------------------------------------------------------
(* pumpQueue, startTask and the executor task it leaves behind.            *)

\* Where a thread continues after a pump: in pauseAllActive, or nowhere.
AfterPump(th) ==
  /\ Becomes(th, IF thread[th].left = {} THEN Idle
                 ELSE [Idle EXCEPT !.pc = "pauseall", !.left = thread[th].left])
  /\ monitor' = None

Full_BUG(n) == n > MaxConcurrent
Full(n) == n >= MaxConcurrent

EnterPump(th) ==
  /\ In(th, "pump") /\ monitor \in {None, th}
  /\ IF Blocked \/ Full(Cardinality(Active))
     THEN AfterPump(th)
     ELSE /\ monitor' = th
          /\ Becomes(th, [thread[th] EXCEPT !.pc = "pumping", !.todo = listed, !.active = Cardinality(Active)])
  /\ unpumped' = FALSE
  /\ UNCHANGED <<Native, java, posted, network, budget>>

\* The loop visits a task: a queued one is started, listed or not by now.
VisitTask(th, t) ==
  /\ In(th, "pumping") /\ t \in thread[th].todo
  /\ IF status[t] = "queued"
     THEN /\ Set(t, "downloading")
          /\ launching' = [launching EXCEPT ![t] = @ + 1]
          /\ Becomes(th, [thread[th] EXCEPT !.active = @ + 1,
               !.todo = IF Full(thread[th].active + 1) THEN {} ELSE @ \ {t}])
     ELSE /\ Becomes(th, [thread[th] EXCEPT !.todo = @ \ {t}])
          /\ UNCHANGED <<status, rows, launching>>
  /\ UNCHANGED <<Native, listed, monitor, posted, rest>>

LeavePump(th) ==
  /\ In(th, "pumping") /\ thread[th].todo = {}
  /\ AfterPump(th)
  /\ UNCHANGED <<Native, java, posted, rest>>

Launch(t) ==
  /\ launching[t] > 0
  /\ NativeStart(t)
  /\ launching' = [launching EXCEPT ![t] = @ - 1]
  /\ UNCHANGED <<listed, status, rows, thread, monitor, posted, rest>>

\* The native library is missing or the start throws; nothing pumps.
LaunchFails(t) ==
  /\ launching[t] > 0 /\ Spend("nolib")
  /\ Set(t, "error")
  /\ launching' = [launching EXCEPT ![t] = @ - 1]
  /\ unpumped' = TRUE
  /\ UNCHANGED <<Native, listed, thread, monitor, posted, network>>
-----------------------------------------------------------------------------
(* enqueue and enqueueBatch: rows first, then mTasks, then the pump.       *)

New == {t \in Tasks : status[t] = None}

InsertRows(ts, s) ==
  /\ In("pool", "idle") /\ ts # {} /\ ts \subseteq New
  /\ s = "paused" => Cardinality(ts) = 1
  /\ rows' = [t \in Tasks |-> IF t \in ts THEN s ELSE rows[t]]
  /\ status' = [t \in Tasks |-> IF t \in ts THEN s ELSE status[t]]
  /\ Becomes("pool", [Idle EXCEPT !.pc = "add", !.todo = ts])
  /\ UNCHANGED <<Native, listed, launching, monitor, posted, rest>>

AddTasks ==
  /\ In("pool", "add")
  /\ listed' = listed \cup thread["pool"].todo
  /\ Becomes("pool", IF \A t \in thread["pool"].todo : status[t] = "paused" THEN Idle
                     ELSE [Idle EXCEPT !.pc = "pump"])
  /\ UNCHANGED <<Native, status, rows, launching, monitor, posted, rest>>
-----------------------------------------------------------------------------
(* pause and pauseAllActive, on the main thread or on the network's.       *)

\* pause up to nativePause.
AskPause(th, t) ==
  /\ t \in listed /\ status[t] = "downloading"
  /\ NativePause(t)
  /\ Becomes(th, [thread[th] EXCEPT !.pc = "mark", !.task = t, !.left = @ \ {t}])

Pause(t) ==
  /\ In("main", "idle") /\ Spend("pause")
  /\ AskPause("main", t)
  /\ UNCHANGED <<java, monitor, posted, network, unpumped>>

PauseActive(th) ==
  /\ In(th, "pauseall")
  /\ \/ \E t \in thread[th].left : AskPause(th, t)
     \/ /\ \A t \in thread[th].left : t \notin listed \/ status[t] # "downloading"
        /\ Becomes(th, Idle)
        /\ UNCHANGED Native
  /\ UNCHANGED <<java, monitor, posted, rest>>

\* The rest of pause, whatever has become of the task.
MarkPaused(th) ==
  /\ In(th, "mark")
  /\ Set(thread[th].task, "paused")
  /\ Pumps(th)
  /\ UNCHANGED <<Native, listed, launching, monitor, posted, rest>>
-----------------------------------------------------------------------------
(* The other actions of the user.                                          *)

Resumable == {t \in listed : status[t] \in {"paused", "error"}}

Resume(t) ==
  /\ In("main", "idle") /\ Spend("resume")
  /\ t \in Resumable
  /\ Set(t, "queued") /\ Pumps("main")
  /\ UNCHANGED <<Native, listed, launching, monitor, posted, network, unpumped>>

ResumeAll ==
  /\ In("main", "idle") /\ monitor = None /\ Resumable # {} /\ Spend("resume")
  /\ status' = [t \in Tasks |-> IF t \in Resumable THEN "queued" ELSE status[t]]
  /\ rows' = [t \in Tasks |-> IF t \in Resumable THEN Update(rows, t, "queued")[t] ELSE rows[t]]
  /\ Pumps("main") /\ monitor' = "main"
  /\ UNCHANGED <<Native, listed, launching, posted, network, unpumped>>

\* cancel, and removeTask, up to nativeCancel, which removeTask needs only
\* for a task that downloads.
Cancel(t) ==
  /\ In("main", "idle") /\ t \in listed /\ Spend("cancel")
  /\ NativeCancel(t)
  /\ Becomes("main", [Idle EXCEPT !.pc = "drop", !.task = t])
  /\ UNCHANGED <<java, monitor, posted, network, unpumped>>

RemoveTask(t) ==
  /\ In("main", "idle") /\ t \in listed /\ Spend("remove")
  /\ IF status[t] = "downloading" THEN NativeCancel(t)
     ELSE UNCHANGED Native
  /\ Becomes("main", [Idle EXCEPT !.pc = "remove", !.task = t])
  /\ UNCHANGED <<java, monitor, posted, network, unpumped>>

\* The task leaves the list.
Drop ==
  /\ In("main", "drop") \/ In("main", "remove")
  /\ listed' = listed \ {thread["main"].task}
  /\ Becomes("main", [Idle EXCEPT !.pc = IF In("main", "drop") THEN "droprow" ELSE "removerow",
                                 !.task = thread["main"].task])
  /\ unpumped' = (unpumped \/ In("main", "remove"))
  /\ UNCHANGED <<Native, status, rows, launching, monitor, posted, network, budget>>

\* It leaves the table; only cancel pumps then.
DropRow ==
  /\ In("main", "droprow") \/ In("main", "removerow")
  /\ rows' = [rows EXCEPT ![thread["main"].task] = None]
  /\ IF In("main", "droprow") THEN Pumps("main") ELSE Becomes("main", Idle)
  /\ UNCHANGED <<Native, listed, status, launching, monitor, posted, rest>>

SetWifiOnly ==
  /\ In("main", "idle") /\ Spend("wifionly")
  /\ wifiOnly' = ~wifiOnly
  /\ Becomes("main", IF wifiOnly' /\ ~mon.wifi THEN [Idle EXCEPT !.pc = "pauseall", !.left = listed]
                     ELSE [Idle EXCEPT !.pc = "pump"])
  /\ UNCHANGED <<Native, java, monitor, posted, mon, networks, unpumped>>
-----------------------------------------------------------------------------
(* stopAll, cancelAll and deleteAll hold the monitor over all tasks.       *)

EnterSweep(kind) ==
  /\ In("main", "idle") /\ monitor = None /\ Spend(kind)
  /\ monitor' = "main"
  /\ Becomes("main", [Idle EXCEPT !.pc = kind, !.todo = listed])
  /\ UNCHANGED <<Native, java, posted, network, unpumped>>

StopOne(t) ==
  /\ In("main", "stopall")
  /\ IF status[t] = "downloading" THEN NativePause(t) ELSE UNCHANGED Native
  /\ IF status[t] \in {"downloading", "queued"} THEN Set(t, "paused") ELSE UNCHANGED <<status, rows>>

\* nativeCancel for a download. The row goes now, or with all others at the end of deleteAll.
CancelOne(t) ==
  /\ In("main", "cancelall") \/ In("main", "deleteall")
  /\ IF In("main", "cancelall") /\ status[t] = "completed"
     THEN UNCHANGED <<Native, rows>>
     ELSE /\ IF status[t] = "downloading" THEN NativeCancel(t) ELSE UNCHANGED Native
          /\ rows' = IF In("main", "cancelall") THEN [rows EXCEPT ![t] = None] ELSE rows
  /\ UNCHANGED status

SweepTask(t) ==
  /\ t \in thread["main"].todo
  /\ StopOne(t) \/ CancelOne(t)
  /\ Becomes("main", [thread["main"] EXCEPT !.todo = @ \ {t},
                        !.left = IF In("main", "cancelall") /\ status[t] # "completed" THEN @ \cup {t} ELSE @])
  /\ UNCHANGED <<listed, launching, monitor, posted, rest>>

\* stopAll returns; cancelAll removes what it cancelled and pumps; deleteAll
\* clears the list, and in a step of its own the table.
EndSweep ==
  /\ thread["main"].todo = {}
  /\ \/ In("main", "stopall") /\ Becomes("main", Idle) /\ monitor' = None /\ UNCHANGED <<listed, rows>>
     \/ /\ In("main", "cancelall")
        /\ listed' = listed \ thread["main"].left
        /\ Becomes("main", [Idle EXCEPT !.pc = "pump"]) /\ UNCHANGED <<monitor, rows>>
     \/ /\ In("main", "deleteall")
        /\ listed' = {}
        /\ Becomes("main", [Idle EXCEPT !.pc = "deleterows"]) /\ UNCHANGED <<monitor, rows>>
     \/ /\ In("main", "deleterows")
        /\ rows' = [t \in Tasks |-> None]
        /\ Becomes("main", Idle) /\ monitor' = None /\ UNCHANGED listed
  /\ UNCHANGED <<Native, status, launching, posted, rest>>
-----------------------------------------------------------------------------
(* NetworkMonitor and onNetworkChanged.                                    *)

ActiveNetwork(ns) == IF "wifi" \in ns THEN "wifi" ELSE IF "mobile" \in ns THEN "mobile" ELSE None

\* checkCurrentNetwork: without an active network the fields keep their values.
Check(ns) == IF ActiveNetwork(ns) = None THEN mon
             ELSE [connected |-> TRUE, wifi |-> ActiveNetwork(ns) = "wifi"]

OnNetworkChanged(now) ==
  /\ mon' = now
  /\ Becomes("net", IF ~now.connected \/ (wifiOnly /\ ~now.wifi)
                    THEN [Idle EXCEPT !.pc = "pauseall", !.left = listed]
                    ELSE [Idle EXCEPT !.pc = "pump"])
  /\ UNCHANGED <<Native, java, monitor, posted, wifiOnly, unpumped>>

OnAvailable(n) ==
  /\ In("net", "idle") /\ n \notin networks /\ Spend("network")
  /\ networks' = networks \cup {n}
  /\ OnNetworkChanged([connected |-> TRUE, wifi |-> n = "wifi"])

OnLost(n) ==
  /\ In("net", "idle") /\ n \in networks /\ Spend("network")
  /\ networks' = networks \ {n}
  /\ OnNetworkChanged(Check(networks'))
-----------------------------------------------------------------------------
(* The goroutines and their callbacks.                                     *)

\* onProgress writes the status DOWNLOADING into the table only.
OnProgress(r) ==
  /\ At(r, "downloading") \/ At(r, "stopped")
  /\ runs[r].task \in listed
  /\ rows' = Update(rows, runs[r].task, "downloading")
  /\ UNCHANGED <<Native, listed, status, launching, thread, monitor, posted, rest>>

\* onCompleted and onError, or nothing if the task is gone.
Report(r) ==
  LET t == runs[r].task IN
  /\ At(r, "completed") \/ At(r, "failed")
  /\ Goto(r, "leave")
  /\ IF t \in listed
     THEN Set(t, IF At(r, "completed") THEN "completed" ELSE "error") /\ posted' = posted + 1
     ELSE UNCHANGED <<status, rows, posted>>
  /\ UNCHANGED <<tasks, listed, launching, thread, monitor, rest>>

RunPosted ==
  /\ In("main", "idle") /\ posted > 0
  /\ posted' = posted - 1
  /\ Pumps("main")
  /\ UNCHANGED <<Native, java, monitor, rest>>

Others == <<java, thread, monitor, posted, network, unpumped>>

DownloadEnds(r) == StopWorkers(r, runs[r].cancelled) /\ UNCHANGED <<Others, budget>>
DownloadFails(r) == StopWorkers(r, TRUE) /\ ~runs[r].cancelled /\ Spend("fail") /\ UNCHANGED Others
LastBytes(r) == StopWorkers(r, FALSE) /\ runs[r].cancelled /\ UNCHANGED <<Others, budget>>
RunStep(r) == (Decide(r) \/ Leave(r)) /\ UNCHANGED <<Others, budget>>
-----------------------------------------------------------------------------
\* loadTasksFromDatabase
Loaded_BUG(s) == s
Loaded(s) == IF s = "downloading" THEN "paused" ELSE s

QuietThreads == [th \in Threads |-> Idle]

\* The process ends, and a new one reads the table.
Restart ==
  /\ Spend("restart")
  /\ tasks' = [t \in Tasks |-> 0] /\ runs' = [r \in RunIds |-> NoRun]
  /\ listed' = {t \in Tasks : rows[t] # None}
  /\ rows' = [t \in Tasks |-> Loaded(rows[t])]
  /\ status' = [t \in Tasks |-> IF rows[t] # None THEN Loaded(rows[t]) ELSE status[t]]
  /\ launching' = [t \in Tasks |-> 0] /\ posted' = 0
  /\ thread' = QuietThreads /\ monitor' = None
  /\ wifiOnly' = FALSE /\ UNCHANGED networks
  /\ mon' = [connected |-> networks # {}, wifi |-> ActiveNetwork(networks) = "wifi"]
  /\ unpumped' = TRUE

Init ==
  /\ NativeInit
  /\ listed = {} /\ status = [t \in Tasks |-> None] /\ rows = [t \in Tasks |-> None]
  /\ launching = [t \in Tasks |-> 0] /\ posted = 0
  /\ thread = QuietThreads /\ monitor = None
  /\ wifiOnly = FALSE /\ networks = {"wifi"} /\ mon = [connected |-> TRUE, wifi |-> TRUE]
  /\ unpumped = FALSE /\ budget = Budget

PumpStep(th) == EnterPump(th) \/ (\E t \in Tasks : VisitTask(th, t)) \/ LeavePump(th)
ThreadStep(th) == PumpStep(th) \/ PauseActive(th) \/ MarkPaused(th)
MainStep == Drop \/ DropRow \/ (\E t \in Tasks : SweepTask(t)) \/ EndSweep

UserStep ==
  \/ \E t \in Tasks : Pause(t) \/ Resume(t) \/ Cancel(t) \/ RemoveTask(t)
  \/ ResumeAll \/ SetWifiOnly
  \/ \E kind \in Sweeps : EnterSweep(kind)

Next ==
  \/ \E ts \in SUBSET Tasks, s \in {"queued", "paused"} : InsertRows(ts, s)
  \/ AddTasks
  \/ \E th \in Threads : ThreadStep(th)
  \/ MainStep \/ UserStep \/ RunPosted
  \/ \E t \in Tasks : Launch(t) \/ LaunchFails(t)
  \/ \E n \in Networks : OnAvailable(n) \/ OnLost(n)
  \/ \E r \in RunIds : OnProgress(r) \/ Report(r) \/ DownloadEnds(r) \/ DownloadFails(r)
                       \/ LastBytes(r) \/ RunStep(r)
  \/ Restart

Spec == Init /\ [][Next]_vars

\* Threads that can run do, and the engine's timeouts end every download.
OfThread(th) ==
  \/ ThreadStep(th)
  \/ th = "main" /\ (MainStep \/ RunPosted)
  \/ th = "pool" /\ AddTasks
OfRun(r) == DownloadEnds(r) \/ RunStep(r) \/ Report(r)

Fairness ==
  /\ \A th \in Threads : WF_vars(OfThread(th))
  /\ \A t \in Tasks : WF_vars(Launch(t))
  /\ \A r \in RunIds : WF_vars(OfRun(r))

FairSpec == Spec /\ Fairness
-----------------------------------------------------------------------------
(* Properties.                                                             *)

TypeOK ==
  /\ tasks \in [Tasks -> 0..MaxRuns] /\ runs \in [RunIds -> Run]
  /\ listed \subseteq Tasks
  /\ status \in [Tasks -> Statuses \cup {None}] /\ rows \in [Tasks -> Statuses \cup {None}]
  /\ launching \in [Tasks -> Nat] /\ posted \in Nat
  /\ thread \in [Threads -> [pc : Sweeps \cup {"idle", "pump", "pumping", "pauseall", "mark",
                                               "add", "drop", "remove", "droprow", "removerow",
                                               "deleterows"},
                             task : Tasks \cup {None}, todo : SUBSET Tasks, left : SUBSET Tasks,
                             active : 0..MaxConcurrent]]
  /\ monitor \in Threads \cup {None}
  /\ mon \in [connected : BOOLEAN, wifi : BOOLEAN] /\ networks \subseteq Networks
  /\ wifiOnly \in BOOLEAN /\ unpumped \in BOOLEAN /\ budget \in 0..Budget

\* "Global download concurrency": whatever callbacks and users change while a
\* pump counts and starts, no more than mMaxConcurrent tasks are DOWNLOADING.
ConcurrencyBounded == Cardinality(Active) <= MaxConcurrent

\* A task that is DOWNLOADING has someone who will end that: a start that is
\* on its way, a run that will report, or a pause that is about to mark it.
\* Otherwise it would keep its place in the queue for ever.
Reporting(r) == ~At(r, "free") /\ ~At(r, "leave") /\ (runs[r].cancelled => ~runs[r].err)
PlaceIsUsed ==
  \A t \in Active :
    \/ launching[t] > 0
    \/ \E r \in RunIds : runs[r].task = t /\ Reporting(r)
    \/ \E th \in Threads : thread[th].pc \in {"mark", "drop", "remove"} /\ thread[th].task = t
    \/ thread["main"].pc \in {"cancelall", "deleteall"}

\* A row in the table belongs to a task in the list, unless someone is just
\* putting it there or taking it away: no late callback brings back a task
\* that the user removed, to find it in the list after the next restart. (A
\* restart between the two halves of a removal does bring it back.)
Removing(t) == thread["main"].pc \in {"droprow", "removerow"} /\ thread["main"].task = t
RowsAreListed ==
  thread["pool"].pc # "add" /\ thread["main"].pc # "deleterows" =>
    \A t \in Tasks : rows[t] # None => t \in listed \/ Removing(t)

\* The queue moves: a queued task is started (or taken out of the queue),
\* unless Wi-Fi-only mode holds it back, or a place was given up by a removal,
\* a failed start or a restart, after which the code does not pump.
QueueMoves ==
  \A t \in Tasks : (t \in listed /\ status[t] = "queued") ~>
                     (t \notin listed \/ status[t] # "queued" \/ Blocked \/ unpumped)
=============================================================================
