----------------------- MODULE DownloadSessionProofs -----------------------
(***************************************************************************)
(* Proofs about DownloadSession, with the Probe and the ProgressTracker in *)
(* it, for every number of parts, workers and attempts, every server and   *)
(* every series of events.                                                 *)
(***************************************************************************)
EXTENDS DownloadSession, FiniteSetTheorems, TLAPS

Starting == {"probe", "reprobe", "start"}
Running == {"transfer", "write", "finish", "sync", "mark", "stop", "wait"}
Over == {"ended", "emitted", "exited", "dead"}
Holding == {"fetch", "stalled", "overrun", "counted", "giveup"}

InParts == sink \in {"multi", "prefetch"}
Holds(w) == workers[w].pc \in Holding
Busy == {w \in WorkerIds : workers[w].pc \notin {"off", "new"}}

\* The pieces the tracker counts: those fetched and not taken back.
Pieces == Units \X (1..PartLength)
Live == {x \in Pieces : from[x[1]] < x[2] /\ x[2] <= have[x[1]]}

\* From here on nothing but an error of fsync keeps the run from success.
Succeeding == main = "sync" \/ result = "ok"

WorkerRecord == [pc : WorkerPCs, chunk : Units, attempt : 0..MaxRetries]
Offsets == 0..(PartLength * NumChunks)
Info == [len : 0..NumChunks, ranges : BOOLEAN]
Snaps == [downloaded : Nat, active : 0..MaxWorkers, completed : 0..NumChunks, done : BOOLEAN]
Counters == [total : 0..(PartLength * NumChunks), counted : Nat, active : Int, completed : Int, done : BOOLEAN,
             cancelled : BOOLEAN]

-----------------------------------------------------------------------------
(* The inductive invariant, part by part.                                  *)

\* The types; how many workers and parts the tracker counts follows from Counts.
Typed ==
  /\ server \in ServerKinds /\ mode \in {"file", "stream", "probe"} /\ ctxDone \in BOOLEAN
  /\ probe \in [pc : {"head", "get", "test", "done", "failed"}, attempt : 0..MaxRetries]
  /\ info \in Info /\ first \in Info
  /\ tracker \in Counters
  /\ ticker \in [pc : {"none", "waiting", "snapped"}, snap : Snaps]
  /\ event \in [kind : {"none", "probe", "progress", "completed", "error"}, snap : Snaps]
  /\ sink \in {"none", "multi", "prefetch", "single"} /\ body \in {"open", "stalled", "closed"}
  /\ workers \in [WorkerIds -> WorkerRecord]
  /\ jobs \in Nat /\ ready \subseteq Units /\ failed \in BOOLEAN
  /\ have \in [Units -> Offsets] /\ from \in [Units -> Offsets]
  /\ file \in [size : 0..NumChunks, units : SUBSET Units]
  /\ main \in Starting \cup Running \cup Over
  /\ result \in {"none", "ok", "error"} /\ budget \in 0..Budget

\* The probe finds out the length or nothing, or is misled by an answer that
\* names no total, and then no part is ever accepted.
InfoHeld ==
  /\ info.len \in {0, NumChunks} \/ (info.len = 1 /\ server.honours /\ ~server.total)
  /\ probe.pc \in {"test", "done"} \/ sink # "none" => info.len > 0 \/ ~server.len
  /\ InParts => info.len > 0

\* What has been decided when main is where it is.
PhaseHeld ==
  /\ main \in {"probe", "reprobe"} => sink = "none"
  /\ main \in {"start"} \cup Running => sink # "none"
  /\ main \in {"write", "finish"} => sink = "single"
  /\ main = "sync" => sink # "prefetch"
  /\ main \in Starting \cup {"transfer", "write", "sync"} => result = "none"
  /\ main \in {"finish", "mark", "stop", "wait", "ended"} => result # "none"
  /\ result = "ok" => sink # "none"

\* The ticker lives while the engine runs, and nothing is emitted after the
\* last event.
EventHeld ==
  /\ ticker.pc # "none" => main \in Running
  /\ main \in {"stop", "wait"} => tracker.done
  /\ event.kind \in {"completed", "error"} => main \in {"emitted", "exited", "dead"}
  /\ event.kind = "completed" => result = "ok"

\* Nothing is there before the engine starts, and no worker outlives a file.
FreshHeld ==
  /\ main \in Starting => file = [size |-> 0, units |-> {}] /\ tracker = NoTracker
  /\ main \in Starting \/ sink \in {"none", "single"} => jobs = 0 /\ ready = {}
  /\ main \in Starting \/ sink \in {"none", "single"} \/ (sink = "multi" /\ main # "transfer")
       => \A w \in WorkerIds : workers[w].pc = "off"

\* Every part is taken once, and is in one worker's hands or in ready.
PartsHeld ==
  /\ jobs <= info.len
  /\ \A p \in ready : p < jobs
  /\ \A w \in WorkerIds : Holds(w) => workers[w].chunk < jobs /\ workers[w].chunk \notin ready
  /\ \A v, w \in WorkerIds : Holds(v) /\ Holds(w) /\ v # w => workers[v].chunk # workers[w].chunk

\* What a part has, and where its last attempt began.
PiecesHeld ==
  /\ \A p \in Units : from[p] <= have[p]
  /\ \A p \in Units : p >= jobs => have[p] = 0
  /\ \A p \in ready : have[p] >= PartLength
  /\ \A w \in WorkerIds : workers[w].pc = "counted" => Full(w)
  /\ ~GoesOn => \A p \in Units : have[p] <= PartLength

\* A server that does not do what it says gets no part accepted, or the first only.
LiesHeld ==
  /\ \A w \in WorkerIds : workers[w].pc = "overrun" => GoesOn
  /\ GoesOn => ready \subseteq {0} /\ \A w \in WorkerIds : workers[w].pc = "counted" => workers[w].chunk = 0
  /\ server.honours /\ ~server.total => ready = {} /\ \A w \in WorkerIds : workers[w].pc # "counted"

\* What the tracker of a download in parts counts.
CountsHeld ==
  sink # "single" =>
    /\ tracker.completed = Cardinality(ready)
    /\ tracker.active = Cardinality(Busy)
    /\ ~GoesOn => tracker.counted = Cardinality(Live)
    /\ main \in Running => tracker.total = PartLength * info.len

\* Several parts into a file: what no worker holds has come, while nothing
\* has failed, and a worker only ends when the parts are at an end.
MultiHeld ==
  sink = "multi" =>
    /\ ~Stopping => \A p \in 0..(jobs - 1) : p \in ready \/ \E w \in WorkerIds : Holds(w) /\ workers[w].chunk = p
    /\ main = "transfer" /\ ~Stopping /\ workers[1].pc = "off" => jobs = info.len
    /\ \A p \in Units : have[p] >= PartLength => p \in file.units
    /\ main \in Running => file.size \in {info.len, NumChunks}

\* Several parts into a writer: the copy is in order, of parts that have come, and
\* right where one attempt got all of the part.
PrefetchHeld ==
  sink = "prefetch" =>
    /\ 0..(file.size - 1) \subseteq ready
    /\ file.units = {p \in 0..(file.size - 1) : from[p] = 0}
    /\ result = "ok" => file.size = info.len

\* One response.
SingleHeld ==
  sink = "single" =>
    /\ file.units = 0..(file.size - 1)
    /\ main \in Running => tracker.counted = PartLength * file.size /\ tracker.total = PartLength * info.len
    /\ main = "write" => file.size < NumChunks
    /\ tracker.completed \in {0, 1}
    /\ main \in {"transfer", "write"} => tracker.completed = 0
    /\ Succeeding => tracker.completed = 1 /\ (file.size = NumChunks \/ ~server.len)
    /\ tracker.active = IF main \in {"transfer", "write", "finish", "sync"} THEN 1 ELSE 0

\* Several parts into a file that have all come are the file.
SuccessHeld ==
  Succeeding /\ sink = "multi" => Whole /\ ready = Parts

\* The last snapshot of a success shows the end.
EndHeld ==
  main \in Over /\ result = "ok" =>
    /\ event.snap.done
    /\ ~UnknownLength => event.snap.downloaded = PartLength * info.len - Cardinality(Lost)
    /\ event.snap.completed = IF sink = "single" THEN 1 ELSE info.len
    /\ sink # "prefetch" => event.snap.active = 0

IInv ==
  /\ Typed /\ InfoHeld /\ PhaseHeld /\ EventHeld /\ FreshHeld /\ PartsHeld /\ PiecesHeld /\ LiesHeld
  /\ CountsHeld /\ MultiHeld /\ PrefetchHeld /\ SingleHeld /\ SuccessHeld /\ EndHeld

-----------------------------------------------------------------------------
(* What is assumed of the constants, and what a step may be.               *)

LEMMA Parameters ==
  /\ NumChunks \in Nat /\ NumChunks > 0 /\ MaxRetries \in Nat /\ MaxWorkers \in Nat /\ MaxWorkers > 0
  /\ Budget \in Nat /\ Servers \subseteq ServerKinds /\ Modes \subseteq {"file", "stream", "probe"}
BY SessionAssumption

\* Steps before the engine starts, of one response, at the end, of the ticker.
StartStep == AskServer \/ Probed \/ Reprobed \/ CannotOpen \/ StartParts \/ StartSingle \/ StartCancelled
SingleStep == Receive \/ Write \/ Eof \/ ReadFails \/ Stall \/ IdleTimeoutSingle \/ Finish
EndStep == Join \/ Copy \/ WriteFails \/ Sync \/ StopTracker \/ Report
TickerStep == TickerTicks \/ TickerReports \/ TickerEnds

LEMMA StepCases ==
  ASSUME [Next]_vars
  PROVE  StartStep \/ SingleStep \/ EndStep \/ TickerStep \/ Cancel \/ (\E w \in WorkerIds : WorkerStep(w))
         \/ UNCHANGED vars
BY DEF Next, MainStep, StartStep, SingleStep, EndStep, TickerStep

\* The engine's steps leave alone what was found out and chosen before.
LEMMA Settled ==
  ASSUME [Next]_vars
  PROVE  /\ UNCHANGED <<server, mode>>
         /\ StartStep \/ UNCHANGED <<probe, info, first, sink>>
         /\ Cancel \/ UNCHANGED ctxDone
         /\ ctxDone => ctxDone'
PROOF
  <1>1. CASE StartStep
    <2>1. UNCHANGED <<server, mode, ctxDone>>
      BY <1>1 DEF StartStep, AskServer, Probed, Reprobed, CannotOpen, StartParts, StartSingle, StartCancelled, Keep
    <2>2. QED BY <1>1, <2>1
  <1>2. CASE SingleStep
    BY <1>2 DEF SingleStep, Receive, Write, Eof, ReadFails, Stall, IdleTimeoutSingle, Finish, Keep, engine, parts, probing
  <1>3. CASE EndStep
    BY <1>3 DEF EndStep, Join, Copy, WriteFails, Sync, StopTracker, Report, Keep, engine, parts, probing
  <1>4. CASE TickerStep
    BY <1>4 DEF TickerStep, TickerTicks, TickerReports, TickerEnds, Keep, engine, parts, probing
  <1>5. CASE Cancel
    BY <1>5 DEF Cancel, engine, parts, probing
  <1>6. ASSUME NEW w \in WorkerIds, WorkerStep(w)
        PROVE  UNCHANGED <<server, mode, probe, info, first, sink, ctxDone>>
    BY <1>6 DEF WorkerStep, WorkerBegins, TakePart, FetchPart, FetchEnds, FetchWhole, FetchFails, IdleTimeout, PartEnds,
                Others, probing
  <1>7. CASE UNCHANGED vars
    BY <1>7 DEF vars, engine, parts, probing
  <1>8. QED BY <1>1, <1>2, <1>3, <1>4, <1>5, <1>6, <1>7, StepCases

\* A worker's step writes a record of its own, and ends the process at most
\* when a stream has been closed.
LEMMA WorkerMoves ==
  ASSUME Typed, PartsHeld, NEW w \in WorkerIds, WorkerStep(w)
  PROVE  /\ UNCHANGED <<ticker, body, result, event>>
         /\ main' = main \/ (main' = "dead" /\ sink = "prefetch" /\ main \in {"ended", "emitted"})
         /\ workers[w].pc # "off" /\ main \notin {"exited", "dead"}
         /\ \E r \in WorkerRecord : workers' = [workers EXCEPT ![w] = r]
PROOF
  <1>1. workers[w] \in WorkerRecord /\ workers[w].attempt \in Nat /\ MaxRetries \in Nat
    BY Parameters DEF Typed, WorkerRecord
  <1>2. NoWorker \in WorkerRecord /\ [NoWorker EXCEPT !.pc = "take"] \in WorkerRecord
    BY Parameters DEF NoWorker, WorkerRecord, WorkerPCs, Units
  <1>3. \A pc \in WorkerPCs : [workers[w] EXCEPT !.pc = pc] \in WorkerRecord
    BY <1>1 DEF WorkerRecord
  <1>4. ASSUME AttemptEnds(w) PROVE \E r \in WorkerRecord : workers' = [workers EXCEPT ![w] = r]
    <2>1. CASE MayRetry(w)
      <3>1. workers[w].attempt + 1 \in 0..MaxRetries
        BY <1>1, <2>1 DEF MayRetry
      <3>2. [workers[w] EXCEPT !.pc = "fetch", !.attempt = workers[w].attempt + 1] \in WorkerRecord
        BY <1>1, <3>1 DEF WorkerRecord, WorkerPCs
      <3>3. QED BY <1>4, <2>1, <3>2 DEF AttemptEnds, WorkerTo
    <2>2. CASE ~MayRetry(w)
      BY <1>3, <1>4, <2>2 DEF AttemptEnds, WorkerTo, WorkerPCs
    <2>3. QED BY <2>1, <2>2
  <1> DEFINE Put(pc) == WorkerTo(w, [workers[w] EXCEPT !.pc = pc])
  <1>40. ASSUME NEW pc \in WorkerPCs, Put(pc) PROVE \E r \in WorkerRecord : workers' = [workers EXCEPT ![w] = r]
    BY <1>3, <1>40 DEF WorkerTo
  <1>5. CASE WorkerBegins(w)
    BY <1>2, <1>5 DEF WorkerBegins, WorkerTo, Others, At
  <1>6. CASE TakePart(w)
    <2>1. ASSUME jobs < info.len PROVE [NoWorker EXCEPT !.pc = "fetch", !.chunk = jobs] \in WorkerRecord
      <3>1. jobs \in Units
        BY <2>1, Parameters DEF Typed, Info, Units
      <3>2. QED BY <1>2, <3>1 DEF WorkerRecord, WorkerPCs
    <2>2. QED BY <1>2, <1>6, <2>1 DEF TakePart, WorkerTo, Others, At
  <1>7. CASE FetchPart(w)
    <2>1. workers' = workers /\ workers = [workers EXCEPT ![w] = workers[w]]
      BY <1>7 DEF FetchPart, Typed
    <2>2. QED BY <1>1, <1>7, <2>1 DEF FetchPart, Others, At
  <1>8. CASE FetchEnds(w)
    <2>1. Put("counted") /\ "counted" \in WorkerPCs
      BY <1>8 DEF FetchEnds, WorkerPCs
    <2>2. QED BY <1>8, <1>40, <2>1 DEF FetchEnds, Others, At
  <1>9. CASE FetchWhole(w) \/ FetchFails(w)
    <2>1. UNCHANGED <<ticker, body, result, event, main>> /\ workers[w].pc # "off" /\ main \notin {"exited", "dead"}
      BY <1>9 DEF FetchWhole, FetchFails, Others, At
    <2>2. AttemptEnds(w) \/ \E pc \in {"stalled", "overrun", "giveup"} : Put(pc)
      BY <1>9 DEF FetchWhole, FetchFails, GiveUp
    <2>3. {"stalled", "overrun", "giveup"} \subseteq WorkerPCs
      BY DEF WorkerPCs
    <2>4. \E r \in WorkerRecord : workers' = [workers EXCEPT ![w] = r]
      BY <1>4, <1>40, <2>2, <2>3
    <2>5. QED BY <2>1, <2>4
  <1>10. CASE IdleTimeout(w)
    BY <1>4, <1>10 DEF IdleTimeout, Others, At
  <1>11. CASE PartEnds(w)
    BY <1>2, <1>11 DEF PartEnds, WorkerTo, Others, At, Closed, Goto
  <1>12. QED BY <1>5, <1>6, <1>7, <1>8, <1>9, <1>10, <1>11 DEF WorkerStep

-----------------------------------------------------------------------------
(* Counting.                                                               *)

\* Sets of workers and of parts are finite.
LEMMA UnitSets ==
  ASSUME NEW S \in SUBSET Units
  PROVE  IsFiniteSet(S) /\ Cardinality(S) \in 0..NumChunks
PROOF
  <1>1. IsFiniteSet(0..(NumChunks - 1)) /\ Cardinality(0..(NumChunks - 1)) = NumChunks
    <2>1. 0 \in Int /\ NumChunks - 1 \in Int /\ ~(0 > NumChunks - 1) /\ NumChunks - 1 - 0 + 1 = NumChunks
      BY Parameters
    <2>2. QED BY <2>1, FS_Interval
  <1>2. IsFiniteSet(Units) /\ Cardinality(Units) = NumChunks
    BY <1>1 DEF Units
  <1>3. IsFiniteSet(S) /\ Cardinality(S) <= Cardinality(Units)
    BY <1>2, FS_Subset
  <1>4. Cardinality(S) \in Nat
    BY <1>3, FS_CardinalityType
  <1>5. QED BY <1>2, <1>3, <1>4, Parameters

LEMMA WorkerSets ==
  ASSUME NEW S \in SUBSET WorkerIds
  PROVE  IsFiniteSet(S) /\ Cardinality(S) \in 0..MaxWorkers
PROOF
  <1>1. IsFiniteSet(1..MaxWorkers) /\ Cardinality(1..MaxWorkers) = MaxWorkers
    <2>1. 1 \in Int /\ MaxWorkers \in Int /\ ~(1 > MaxWorkers) /\ MaxWorkers - 1 + 1 = MaxWorkers
      BY Parameters
    <2>2. QED BY <2>1, FS_Interval
  <1>2. IsFiniteSet(WorkerIds) /\ Cardinality(WorkerIds) = MaxWorkers
    BY <1>1 DEF WorkerIds
  <1>3. IsFiniteSet(S) /\ Cardinality(S) <= Cardinality(WorkerIds)
    BY <1>2, FS_Subset
  <1>4. Cardinality(S) \in Nat
    BY <1>3, FS_CardinalityType
  <1>5. QED BY <1>2, <1>3, <1>4, Parameters

\* A set with one member more.
LEMMA OneMoreUnit ==
  ASSUME NEW S \in SUBSET Units, NEW p \in Units
  PROVE  /\ p \notin S => Cardinality(S \cup {p}) = Cardinality(S) + 1
         /\ Cardinality(S \cup {p}) <= Cardinality(S) + 1
PROOF
  <1>1. IsFiniteSet(S) /\ Cardinality(S) \in Nat
    BY UnitSets, Parameters
  <1>2. p \notin S => Cardinality(S \cup {p}) = Cardinality(S) + 1
    BY <1>1, FS_AddElement
  <1>3. p \in S => S \cup {p} = S
    OBVIOUS
  <1>4. QED BY <1>1, <1>2, <1>3

\* What the tracker counts is within what there is.
LEMMA CountsTyped ==
  ASSUME Typed, CountsHeld, SingleHeld
  PROVE  tracker.active \in 0..MaxWorkers /\ tracker.completed \in 0..NumChunks
PROOF
  <1>1. CASE sink = "single"
    BY <1>1, Parameters DEF SingleHeld
  <1>2. CASE sink # "single"
    <2>1. Busy \in SUBSET WorkerIds /\ ready \in SUBSET Units
      BY DEF Busy, Typed
    <2>2. QED BY <1>2, <2>1, UnitSets, WorkerSets DEF CountsHeld
  <1>3. QED BY <1>1, <1>2

LEMMA SnapshotTyped ==
  ASSUME Typed, CountsHeld, SingleHeld
  PROVE  Snapshot \in Snaps
PROOF
  <1>1. tracker.active \in 0..MaxWorkers /\ tracker.completed \in 0..NumChunks
    BY CountsTyped
  <1>2. tracker.total \in Nat /\ tracker.counted \in Nat /\ tracker.done \in BOOLEAN
    BY Parameters DEF Typed, Counters
  <1>3. QED BY <1>1, <1>2 DEF Snapshot, Snaps

-----------------------------------------------------------------------------
(* The types are kept.                                                     *)

\* The variables in three parts, so that each step disturbs few of them.
AskTyped ==
  /\ server \in ServerKinds /\ mode \in {"file", "stream", "probe"} /\ ctxDone \in BOOLEAN
  /\ probe \in [pc : {"head", "get", "test", "done", "failed"}, attempt : 0..MaxRetries]
  /\ info \in Info /\ first \in Info
  /\ sink \in {"none", "multi", "prefetch", "single"}
PartTyped ==
  /\ workers \in [WorkerIds -> WorkerRecord]
  /\ jobs \in Nat /\ ready \subseteq Units /\ failed \in BOOLEAN
  /\ have \in [Units -> Offsets] /\ from \in [Units -> Offsets]
  /\ file \in [size : 0..NumChunks, units : SUBSET Units]
  /\ body \in {"open", "stalled", "closed"}
MainTyped ==
  /\ main \in Starting \cup Running \cup Over
  /\ result \in {"none", "ok", "error"} /\ budget \in 0..Budget
ShownTyped ==
  /\ tracker \in Counters
  /\ ticker \in [pc : {"none", "waiting", "snapped"}, snap : Snaps]
  /\ event \in [kind : {"none", "probe", "progress", "completed", "error"}, snap : Snaps]

LEMMA TypedParts == Typed <=> AskTyped /\ PartTyped /\ MainTyped /\ ShownTyped
BY DEF Typed, AskTyped, PartTyped, MainTyped, ShownTyped

LEMMA NoSnapTyped == NoSnap \in Snaps
BY Parameters DEF NoSnap, Snaps

LEMMA InitTyped ==
  ASSUME Init
  PROVE  Typed
PROOF
  <1>1. AskTyped
    <2>1. StartProbe \in [pc : {"head", "get", "test", "done", "failed"}, attempt : 0..MaxRetries] /\ Unknown \in Info
      BY Parameters DEF StartProbe, Unknown, Info
    <2>2. QED BY <2>1, Parameters DEF Init, AskTyped
  <1>2. PartTyped
    <2>1. NoWorker \in WorkerRecord
      BY Parameters DEF NoWorker, WorkerRecord, WorkerPCs, Units
    <2>2. [size |-> 0, units |-> {}] \in [size : 0..NumChunks, units : SUBSET Units]
      BY Parameters
    <2>3. 0 \in Offsets
      BY Parameters DEF Offsets, PartLength
    <2>4. QED BY <2>1, <2>2, <2>3 DEF Init, PartTyped
  <1>3. MainTyped
    BY Parameters DEF Init, MainTyped, Starting
  <1>4. ShownTyped
    <2>1. NoTracker \in Counters
      BY Parameters DEF NoTracker, Counters, PartLength
    <2>2. QED BY <2>1, NoSnapTyped DEF Init, TrackerInit, ShownTyped
  <1>5. QED BY <1>1, <1>2, <1>3, <1>4, TypedParts

\* A request of the probe and its answer.
LEMMA ProbeTyped ==
  ASSUME AskTyped, NEW f \in BOOLEAN, NEW e \in BOOLEAN, ProbeStep(f, e)
  PROVE  /\ probe' \in [pc : {"head", "get", "test", "done", "failed"}, attempt : 0..MaxRetries]
         /\ info' \in Info
PROOF
  <1>1. WholeInfo \in Info /\ RangeInfo \in Info
    <2>1. server.len \in BOOLEAN /\ server.advertises \in BOOLEAN
      BY DEF AskTyped, ServerKinds
    <2>2. WholeInfo \in Info
      BY <2>1, Parameters DEF WholeInfo, Info
    <2>3. QED BY <2>2, Parameters DEF RangeInfo, Info
  <1>2. ASSUME NEW pc \in {"head", "get", "test", "done", "failed"}, ProbeTo(pc)
        PROVE  probe' \in [pc : {"head", "get", "test", "done", "failed"}, attempt : 0..MaxRetries]
    BY <1>2 DEF AskTyped, ProbeTo
  <1>3. ASSUME AttemptFails
        PROVE  probe' \in [pc : {"head", "get", "test", "done", "failed"}, attempt : 0..MaxRetries]
    BY <1>3, Parameters DEF AskTyped, AttemptFails, MayTryAgain
  <1>4. CASE AskHead(f, e)
    BY <1>1, <1>2, <1>4 DEF AskHead, AskTyped
  <1>5. CASE AskRange(f)
    BY <1>1, <1>2, <1>3, <1>5 DEF AskRange, AskTyped
  <1>6. CASE TestRange(f)
    <2>1. (~f /\ RangeInfo.ranges) \in BOOLEAN
      OBVIOUS
    <2>2. info' \in Info
      BY <1>6, <2>1 DEF TestRange, AskTyped, Info
    <2>3. QED BY <1>2, <1>6, <2>2 DEF TestRange
  <1>7. QED BY <1>4, <1>5, <1>6 DEF ProbeStep

LEMMA AskTypedKept ==
  ASSUME Typed, [Next]_vars
  PROVE  AskTyped'
PROOF
  <1>1. AskTyped
    BY TypedParts
  <1>2. ctxDone' \in BOOLEAN
    BY <1>1, Settled DEF AskTyped, Cancel
  <1>3. UNCHANGED <<server, mode>>
    BY Settled
  <1>4. CASE AskServer
    <2>1. ProbeStep(FALSE, FALSE) \/ ProbeStep(TRUE, TRUE) \/ ProbeStep(TRUE, FALSE)
      BY <1>4 DEF AskServer
    <2>2. /\ probe' \in [pc : {"head", "get", "test", "done", "failed"}, attempt : 0..MaxRetries]
          /\ info' \in Info
      BY <1>1, <2>1, ProbeTyped
    <2>3. UNCHANGED <<first, sink>>
      BY <1>4 DEF AskServer, Keep, engine, parts
    <2>4. QED BY <1>1, <1>2, <1>3, <2>2, <2>3 DEF AskTyped
  <1>5. CASE Probed
    <2>1. StartProbe \in [pc : {"head", "get", "test", "done", "failed"}, attempt : 0..MaxRetries]
      BY Parameters DEF StartProbe
    <2>2. QED BY <1>1, <1>2, <1>3, <1>5, <2>1 DEF Probed, engine, parts, AskTyped
  <1>6. CASE Reprobed
    BY <1>1, <1>2, <1>3, <1>6 DEF Reprobed, Keep, probing, AskTyped
  <1>7. CASE CannotOpen \/ StartCancelled \/ StartParts \/ StartSingle
    <2>1. UNCHANGED <<probe, info, first, sink>>
      <3>1. CASE CannotOpen \/ StartCancelled
        BY <1>7, <3>1 DEF CannotOpen, StartCancelled, Keep, probing, engine, parts
      <3>2. CASE StartParts \/ StartSingle
        <4>1. UNCHANGED <<Keep, probing, sink>>
          BY <3>2 DEF StartParts, StartSingle
        <4>2. QED BY <4>1 DEF Keep, probing
      <3>3. QED BY <1>7, <3>1, <3>2
    <2>2. QED BY <1>1, <1>2, <1>3, <2>1 DEF AskTyped
  <1>8. CASE UNCHANGED <<probe, info, first, sink>>
    BY <1>1, <1>2, <1>3, <1>8 DEF AskTyped
  <1>9. QED BY <1>4, <1>5, <1>6, <1>7, <1>8, Settled DEF StartStep

LEMMA MainTypedKept ==
  ASSUME Typed, PartsHeld, [Next]_vars
  PROVE  MainTyped'
PROOF
  <1>1. MainTyped
    BY TypedParts
  <1>2. budget' \in 0..Budget
    <2>1. ASSUME NEW e, Spend(e) PROVE budget' \in 0..Budget
      BY <1>1, <2>1, Parameters DEF Spend, MainTyped
    <2>2. (\E e \in Events : Spend(e)) \/ budget' = budget
      <3>1. CASE StartStep
        BY <3>1 DEF StartStep, AskServer, Probed, Reprobed, CannotOpen, StartParts, StartSingle, StartCancelled, Spend
      <3>2. CASE SingleStep
        BY <3>2 DEF SingleStep, Receive, Write, Eof, ReadFails, Stall, IdleTimeoutSingle, Finish, Spend
      <3>3. CASE EndStep
        BY <3>3 DEF EndStep, Join, Copy, WriteFails, Sync, StopTracker, Report, Spend
      <3>4. CASE TickerStep
        BY <3>4 DEF TickerStep, TickerTicks, TickerReports, TickerEnds
      <3>5. ASSUME NEW w \in WorkerIds, WorkerStep(w) PROVE (\E e \in Events : Spend(e)) \/ budget' = budget
        BY <3>5 DEF WorkerStep, WorkerBegins, TakePart, FetchPart, FetchEnds, FetchWhole, FetchFails, IdleTimeout, PartEnds, Spend
      <3>6. QED BY <3>1, <3>2, <3>3, <3>4, <3>5, StepCases DEF Cancel, Spend, vars
    <2>3. QED BY <1>1, <2>1, <2>2 DEF MainTyped
  <1>3. main' \in Starting \cup Running \cup Over /\ result' \in {"none", "ok", "error"}
    <2>1. CASE StartStep
      <3>1. CASE AskServer \/ Probed \/ Reprobed \/ CannotOpen \/ StartCancelled
        BY <1>1, <3>1 DEF AskServer, Probed, Reprobed, CannotOpen, StartCancelled, Goto, Return, MainTyped,
                          Starting, Running, Over
      <3>2. CASE StartParts \/ StartSingle
        <4>1. main' = "transfer" /\ result' = result
          BY <3>2 DEF StartParts, StartSingle, Goto
        <4>2. QED BY <1>1, <4>1 DEF MainTyped, Running
      <3>3. QED BY <2>1, <3>1, <3>2 DEF StartStep
    <2>2. CASE SingleStep
      BY <1>1, <2>2 DEF SingleStep, Receive, Write, Eof, ReadFails, Stall, IdleTimeoutSingle, Finish, Goto, MainTyped,
                        Running
    <2>3. CASE EndStep
      BY <1>1, <2>3 DEF EndStep, Join, Copy, WriteFails, Sync, StopTracker, Report, Goto, MainTyped, Running, Over
    <2>4. CASE TickerStep \/ Cancel \/ UNCHANGED vars
      BY <1>1, <2>4 DEF TickerStep, TickerTicks, TickerReports, TickerEnds, Cancel, vars, MainTyped
    <2>5. ASSUME NEW w \in WorkerIds, WorkerStep(w)
          PROVE  main' \in Starting \cup Running \cup Over /\ result' \in {"none", "ok", "error"}
      BY <1>1, <2>5, WorkerMoves DEF MainTyped, Over
    <2>6. QED BY <2>1, <2>2, <2>3, <2>4, <2>5, StepCases
  <1>4. QED BY <1>2, <1>3 DEF MainTyped

\* Which steps write the file.
LEMMA FileKept ==
  ASSUME [Next]_vars
  PROVE  \/ Probed \/ StartParts \/ StartSingle \/ Copy \/ Write
         \/ \E w \in WorkerIds : FetchPart(w) \/ FetchWhole(w)
         \/ UNCHANGED file
PROOF
  <1>1. CASE StartStep
    BY <1>1 DEF StartStep, AskServer, Reprobed, CannotOpen, StartCancelled
  <1>2. CASE SingleStep
    BY <1>2 DEF SingleStep, Receive, Eof, ReadFails, Stall, IdleTimeoutSingle, Finish
  <1>3. CASE EndStep
    BY <1>3 DEF EndStep, Join, WriteFails, Sync, StopTracker, Report
  <1>4. CASE TickerStep
    BY <1>4 DEF TickerStep, TickerTicks, TickerReports, TickerEnds
  <1>5. ASSUME NEW w \in WorkerIds, WorkerStep(w) PROVE FetchPart(w) \/ FetchWhole(w) \/ UNCHANGED file
    BY <1>5 DEF WorkerStep, WorkerBegins, TakePart, FetchEnds, FetchFails, IdleTimeout, PartEnds, parts
  <1>6. CASE Cancel \/ UNCHANGED vars
    BY <1>6 DEF Cancel, vars
  <1>7. QED BY <1>1, <1>2, <1>3, <1>4, <1>5, <1>6, StepCases

\* Which steps move the workers, or take what they bring.
LEMMA WorkersKept ==
  ASSUME Typed, [Next]_vars
  PROVE  \/ StartParts \/ (\E w \in WorkerIds : WorkerStep(w))
         \/ /\ UNCHANGED <<workers, jobs, have, from, ready>>
            /\ failed' = failed \/ (main = "mark" /\ sink = "prefetch" /\ main' = "stop" /\ failed')
PROOF
  <1>1. CASE StartStep
    BY <1>1 DEF StartStep, AskServer, Probed, Reprobed, CannotOpen, StartSingle, StartCancelled, engine, parts
  <1>2. CASE SingleStep
    BY <1>2 DEF SingleStep, Receive, Write, Eof, ReadFails, Stall, IdleTimeoutSingle, Finish, engine, parts
  <1>3. CASE EndStep
    <2>1. CASE StopTracker
      <3>1. UNCHANGED <<workers, jobs, have, from, ready>>
        BY <2>1 DEF StopTracker, parts
      <3>2. CASE sink = "prefetch" /\ main = "mark"
        BY <2>1, <3>1, <3>2 DEF StopTracker, Goto
      <3>3. CASE ~(sink = "prefetch" /\ main = "mark")
        <4>1. failed \in BOOLEAN
          BY DEF Typed
        <4>2. failed' = failed \/ (main = "mark" /\ failed' = (failed \/ sink = "prefetch"))
          BY <2>1 DEF StopTracker
        <4>3. CASE main = "mark" /\ failed' = (failed \/ sink = "prefetch")
          <5>1. sink # "prefetch"
            BY <3>3, <4>3
          <5>2. (failed \/ sink = "prefetch") = failed
            BY <4>1, <5>1
          <5>3. QED BY <3>1, <4>3, <5>2
        <4>4. QED BY <3>1, <4>2, <4>3
      <3>4. QED BY <3>2, <3>3
    <2>2. QED BY <1>3, <2>1 DEF EndStep, Join, Copy, WriteFails, Sync, Report, engine, parts
  <1>4. CASE TickerStep
    BY <1>4 DEF TickerStep, TickerTicks, TickerReports, TickerEnds, engine, parts
  <1>5. CASE Cancel \/ UNCHANGED vars
    BY <1>5 DEF Cancel, vars, engine, parts
  <1>6. QED BY <1>1, <1>2, <1>3, <1>4, <1>5, StepCases

\* What a worker's part has, in pieces.
LEMMA PartOffsets ==
  ASSUME Typed, PiecesHeld, NEW w \in WorkerIds, NEW c, c = workers[w].chunk
  PROVE  /\ c \in Units /\ have[c] \in Offsets /\ from[c] \in Offsets
         /\ have[c] \in Nat /\ from[c] \in Nat /\ have[c] - from[c] \in Nat
         /\ PartLength * NumChunks - have[c] \in Nat
PROOF
  <1>1. c \in Units
    BY DEF Typed, WorkerRecord
  <1>2. have[c] \in Offsets /\ from[c] \in Offsets
    BY <1>1 DEF Typed
  <1>3. from[c] <= have[c]
    BY <1>1 DEF PiecesHeld
  <1>4. QED BY <1>1, <1>2, <1>3, Parameters DEF Offsets, PartLength

\* What a worker's step does to the pieces and to the counters.
LEMMA WorkerTracks ==
  ASSUME Typed, PiecesHeld, NEW w \in WorkerIds, WorkerStep(w)
  PROVE  /\ have' \in [Units -> Offsets] /\ from' \in [Units -> Offsets]
         /\ \E n \in Nat : tracker' \in {tracker, WorkerStarted(tracker), WorkerFinished(tracker),
                                       ChunkCompleted(tracker), AddBytes(tracker, n), SubBytes(tracker, n)}
PROOF
  <1> DEFINE c == workers[w].chunk
  <1>1. have \in [Units -> Offsets] /\ from \in [Units -> Offsets] /\ 0 \in Nat /\ 1 \in Nat
    BY DEF Typed
  <1>2. /\ c \in Units /\ have[c] \in Offsets /\ from[c] \in Offsets
        /\ have[c] \in Nat /\ from[c] \in Nat /\ have[c] - from[c] \in Nat
        /\ PartLength * NumChunks - have[c] \in Nat
    BY PartOffsets
  <1>3. ASSUME RollBack(w)
        PROVE  from' \in [Units -> Offsets] /\ \E n \in Nat : tracker' = SubBytes(tracker, n)
    BY <1>1, <1>2, <1>3 DEF RollBack
  <1>4. CASE WorkerBegins(w) \/ TakePart(w) \/ PartEnds(w) \/ FetchEnds(w)
    <2>1. UNCHANGED <<have, from>>
      BY <1>4 DEF WorkerBegins, TakePart, PartEnds, FetchEnds, parts
    <2>2. tracker' \in {tracker, WorkerStarted(tracker), WorkerFinished(tracker), ChunkCompleted(tracker)}
      BY <1>4 DEF WorkerBegins, TakePart, PartEnds, FetchEnds
    <2>3. QED BY <1>1, <2>1, <2>2
  <1>5. CASE FetchPart(w)
    <2>1. have[c] + 1 \in Offsets
      BY <1>2, <1>5, Parameters DEF FetchPart, Full, Got, Offsets, PartLength
    <2>2. have' = [have EXCEPT ![c] = @ + 1] /\ from' = from /\ tracker' = AddBytes(tracker, 1)
      BY <1>5 DEF FetchPart
    <2>3. QED BY <1>1, <2>1, <2>2
  <1>6. CASE FetchWhole(w)
    <2>1. CASE At(w, "overrun")
      <3>1. RollBack(w) /\ have' = have
        BY <1>6, <2>1 DEF FetchWhole, GiveUp, At
      <3>2. QED BY <1>1, <1>3, <3>1
    <2>2. CASE ~At(w, "overrun")
      <3>1. have' = [have EXCEPT ![0] = PartLength * NumChunks] /\ from' = from
            /\ tracker' = AddBytes(tracker, PartLength * NumChunks - Got(w))
        BY <1>6, <2>2 DEF FetchWhole
      <3>2. PartLength * NumChunks \in Offsets
        BY Parameters DEF Offsets, PartLength
      <3>3. QED BY <1>1, <1>2, <3>1, <3>2 DEF Got
    <2>3. QED BY <2>1, <2>2
  <1>7. CASE FetchFails(w) \/ IdleTimeout(w)
    <2>1. have' = have /\ (RollBack(w) \/ UNCHANGED <<tracker, from>>)
      BY <1>7 DEF FetchFails, IdleTimeout, AttemptEnds, GiveUp
    <2>2. QED BY <1>1, <1>3, <2>1
  <1>8. QED BY <1>4, <1>5, <1>6, <1>7 DEF WorkerStep

LEMMA PartTypedKept ==
  ASSUME Typed, PartsHeld, PiecesHeld, PhaseHeld, SingleHeld, [Next]_vars
  PROVE  PartTyped'
PROOF
  <1>1. PartTyped /\ info.len \in 0..NumChunks
    BY TypedParts DEF Typed, Info
  <1>2. [size |-> 0, units |-> {}] \in [size : 0..NumChunks, units : SUBSET Units]
    BY Parameters
  <1>3. file' \in [size : 0..NumChunks, units : SUBSET Units]
    <2>1. CASE Probed \/ StartSingle
      BY <1>1, <1>2, <2>1 DEF Probed, StartSingle, PartTyped
    <2>2. CASE StartParts
      <3>1. file' = IF sink = "multi" THEN [size |-> info.len, units |-> {}] ELSE file
        BY <2>2 DEF StartParts
      <3>2. QED BY <1>1, <3>1 DEF PartTyped
    <2>3. CASE Copy
      <3>1. file.size < info.len /\ file.size \in ready =>
              [size |-> file.size + 1, units |-> file.units \cup {p \in {file.size} : from[p] = 0}]
                \in [size : 0..NumChunks, units : SUBSET Units]
        BY <1>1, Parameters DEF PartTyped
      <3>2. QED BY <1>1, <2>3, <3>1 DEF Copy, PartTyped
    <2>4. CASE Write
      <3>1. file.size < NumChunks
        BY <2>4 DEF Write, PhaseHeld, SingleHeld
      <3>2. file.size + 1 \in 0..NumChunks /\ file.size \in Units
        BY <1>1, <3>1, Parameters DEF PartTyped, Units
      <3>3. QED BY <1>1, <2>4, <3>2 DEF Write, PartTyped
    <2>5. ASSUME NEW w \in WorkerIds, FetchPart(w) \/ FetchWhole(w)
          PROVE  file' \in [size : 0..NumChunks, units : SUBSET Units]
      <3>1. \A S \in SUBSET Units : Written(S) \in [size : 0..NumChunks, units : SUBSET Units]
        BY <1>1 DEF Written, PartTyped
      <3>2. workers[w].chunk \in Units
        BY <1>1 DEF PartTyped, WorkerRecord
      <3>3. CASE FetchPart(w)
        BY <1>1, <3>1, <3>2, <3>3 DEF FetchPart, PartTyped
      <3>4. CASE FetchWhole(w)
        <4>1. [Written(Units) EXCEPT !.size = IF sink = "multi" THEN NumChunks ELSE @]
                \in [size : 0..NumChunks, units : SUBSET Units]
          BY <3>1, Parameters
        <4>2. QED BY <1>1, <3>4, <4>1 DEF FetchWhole, PartTyped
      <3>5. QED BY <2>5, <3>3, <3>4
    <2>6. QED BY <1>1, <2>1, <2>2, <2>3, <2>4, <2>5, FileKept DEF PartTyped
  <1>4. body' \in {"open", "stalled", "closed"}
    <2>1. CASE StartStep
      BY <1>1, <2>1 DEF StartStep, AskServer, Probed, Reprobed, CannotOpen, StartParts, StartSingle, StartCancelled, engine, parts,
                        PartTyped
    <2>2. CASE SingleStep
      BY <1>1, <2>2 DEF SingleStep, Receive, Write, Eof, ReadFails, Stall, IdleTimeoutSingle, Finish, engine, parts, PartTyped
    <2>3. CASE EndStep \/ TickerStep \/ Cancel \/ UNCHANGED vars
      BY <1>1, <2>3 DEF EndStep, Join, Copy, WriteFails, Sync, StopTracker, Report, TickerStep, TickerTicks, TickerReports,
                        TickerEnds, Cancel, vars, engine, parts, PartTyped
    <2>4. ASSUME NEW w \in WorkerIds, WorkerStep(w) PROVE body' = body
      BY <2>4, WorkerMoves
    <2>5. QED BY <1>1, <2>1, <2>2, <2>3, <2>4, StepCases DEF PartTyped
  <1>5. /\ workers' \in [WorkerIds -> WorkerRecord]
        /\ jobs' \in Nat /\ ready' \subseteq Units /\ failed' \in BOOLEAN
        /\ have' \in [Units -> Offsets] /\ from' \in [Units -> Offsets]
    <2>1. CASE StartParts
      <3>1. NoWorker \in WorkerRecord /\ [NoWorker EXCEPT !.pc = "new"] \in WorkerRecord
        BY Parameters DEF NoWorker, WorkerRecord, WorkerPCs, Units
      <3>2. workers' = [w \in WorkerIds |->
              IF w <= Concurrency /\ w <= info.len THEN [NoWorker EXCEPT !.pc = "new"] ELSE NoWorker]
        BY <2>1 DEF StartParts
      <3>3. UNCHANGED <<jobs, have, from, ready, failed>>
        BY <2>1 DEF StartParts, parts
      <3>4. QED BY <1>1, <3>1, <3>2, <3>3 DEF PartTyped
    <2>2. ASSUME NEW w \in WorkerIds, WorkerStep(w)
          PROVE  /\ workers' \in [WorkerIds -> WorkerRecord]
                 /\ jobs' \in Nat /\ ready' \subseteq Units /\ failed' \in BOOLEAN
                 /\ have' \in [Units -> Offsets] /\ from' \in [Units -> Offsets]
      <3> have' \in [Units -> Offsets] /\ from' \in [Units -> Offsets]
        BY <2>2, WorkerTracks
      <3>1. workers' \in [WorkerIds -> WorkerRecord]
        BY <1>1, <2>2, WorkerMoves DEF PartTyped
      <3>2. workers[w].chunk \in Units
        BY <1>1 DEF PartTyped, WorkerRecord
      <3>3. CASE TakePart(w)
        BY <1>1, <3>1, <3>3 DEF TakePart, PartTyped, parts
      <3>4. CASE PartEnds(w)
        <4>1. failed' = failed \/ failed' = TRUE
          BY <3>4 DEF PartEnds
        <4>2. jobs' = jobs /\ (ready' = ready \/ ready' = ready \cup {workers[w].chunk})
          BY <3>4 DEF PartEnds
        <4>3. QED BY <1>1, <3>1, <3>2, <4>1, <4>2 DEF PartTyped
      <3>5. CASE UNCHANGED <<jobs, ready, failed>>
        BY <1>1, <3>1, <3>5 DEF PartTyped
      <3>6. QED BY <2>2, <3>3, <3>4, <3>5 DEF WorkerStep, WorkerBegins, FetchPart, FetchEnds, FetchWhole, FetchFails, IdleTimeout,
                                                      parts
    <2>3. CASE /\ UNCHANGED <<workers, jobs, have, from, ready>>
               /\ failed' = failed \/ (main = "mark" /\ sink = "prefetch" /\ main' = "stop" /\ failed')
      BY <1>1, <2>3 DEF PartTyped
    <2>4. QED BY <2>1, <2>2, <2>3, WorkersKept
  <1>6. QED BY <1>3, <1>4, <1>5 DEF PartTyped

\* The counters' operations.
LEMMA CountersTyped ==
  ASSUME NEW tr \in Counters
  PROVE  /\ \A n \in Nat : AddBytes(tr, n) \in Counters /\ SubBytes(tr, n) \in Counters
         /\ WorkerStarted(tr) \in Counters /\ WorkerFinished(tr) \in Counters /\ ChunkCompleted(tr) \in Counters
BY DEF Counters, AddBytes, SubBytes, WorkerStarted, WorkerFinished, ChunkCompleted

LEMMA NewTrackerTyped ==
  ASSUME NEW n \in 0..NumChunks
  PROVE  NewProgressTracker(PartLength * n) \in Counters
PROOF
  <1>1. NoTracker \in Counters
    BY Parameters DEF NoTracker, Counters, PartLength
  <1>2. PartLength * n \in 0..(PartLength * NumChunks)
    BY Parameters DEF PartLength
  <1>3. QED BY <1>1, <1>2 DEF NewProgressTracker, Counters

LEMMA ShownTypedKept ==
  ASSUME Typed, PiecesHeld, CountsHeld, SingleHeld, [Next]_vars
  PROVE  ShownTyped'
PROOF
  <1>1. ShownTyped /\ info.len \in 0..NumChunks
    BY TypedParts DEF Typed, Info
  <1>2. Snapshot \in Snaps
    BY SnapshotTyped
  <1>3. PartLength \in Nat
    BY DEF PartLength
  <1>4. CASE UNCHANGED <<tracker, ticker, event>>
    BY <1>1, <1>4 DEF ShownTyped
  <1>5. CASE StartStep
    <2>1. CASE AskServer \/ Reprobed \/ CannotOpen \/ StartCancelled
      BY <1>4, <2>1 DEF AskServer, Reprobed, CannotOpen, StartCancelled, progress
    <2>2. CASE Probed
      <3>1. UNCHANGED <<tracker, ticker>> /\ (event' = event \/ event' = [event EXCEPT !.kind = "probe"])
        BY <2>2 DEF Probed, progress, Emit
      <3>2. QED BY <1>1, <3>1 DEF ShownTyped
    <2>3. CASE StartParts \/ StartSingle
      <3>1. NewProgressTracker(PartLength * info.len) \in Counters
        BY <1>1, NewTrackerTyped
      <3>2. WorkerStarted(NewProgressTracker(PartLength * info.len)) \in Counters
        BY <3>1, CountersTyped
      <3>3. /\ tracker' = NewProgressTracker(PartLength * info.len) \/ tracker' = WorkerStarted(NewProgressTracker(PartLength * info.len))
            /\ ticker' = [ticker EXCEPT !.pc = "waiting"] /\ event' = event
        BY <2>3 DEF StartParts, StartSingle
      <3>4. QED BY <1>1, <3>1, <3>2, <3>3 DEF ShownTyped
    <2>4. QED BY <1>5, <2>1, <2>2, <2>3 DEF StartStep
  <1>6. CASE SingleStep
    <2>1. tracker' \in {tracker, AddBytes(tracker, PartLength), ChunkCompleted(tracker), WorkerFinished(tracker)}
          /\ UNCHANGED <<ticker, event>>
      BY <1>6 DEF SingleStep, Receive, Write, Eof, ReadFails, Stall, IdleTimeoutSingle, Finish, progress
    <2>2. QED BY <1>1, <1>3, <2>1, CountersTyped DEF ShownTyped
  <1>7. CASE EndStep
    <2>1. CASE Join \/ Copy \/ WriteFails \/ Sync
      BY <1>4, <2>1 DEF Join, Copy, WriteFails, Sync, progress
    <2>2. CASE StopTracker
      <3>1. event' = event \/ event' = [kind |-> "progress", snap |-> Snapshot]
        BY <2>2 DEF StopTracker
      <3>2. event' \in [kind : {"none", "probe", "progress", "completed", "error"}, snap : Snaps]
        BY <1>1, <1>2, <3>1 DEF ShownTyped
      <3>3. ticker' = ticker
        BY <2>2 DEF StopTracker, StopMark, StopCancel, progress
      <3>4. tracker' = tracker \/ tracker' = [tracker EXCEPT !.done = TRUE] \/ tracker' = [tracker EXCEPT !.cancelled = TRUE]
        BY <2>2 DEF StopTracker, StopMark, StopCancel, progress
      <3>5. tracker' \in Counters
        BY <1>1, <3>4 DEF ShownTyped, Counters
      <3>6. QED BY <1>1, <3>2, <3>3, <3>5 DEF ShownTyped
    <2>3. CASE Report
      <3>1. UNCHANGED <<tracker, ticker>>
            /\ \E k \in {"completed", "error"} : event' = event \/ event' = [event EXCEPT !.kind = k]
        BY <2>3 DEF Report, progress, Emit
      <3>2. QED BY <1>1, <3>1 DEF ShownTyped
    <2>4. QED BY <1>7, <2>1, <2>2, <2>3 DEF EndStep
  <1>8. CASE TickerStep
    <2>1. CASE TickerTicks
      BY <1>1, <1>2, <2>1, NoSnapTyped DEF TickerTicks, Tick, ShownTyped
    <2>2. CASE TickerReports
      BY <1>1, <2>2, NoSnapTyped DEF TickerReports, TickerReturns, ShownTyped
    <2>3. CASE TickerEnds
      BY <1>1, <2>3 DEF TickerEnds, TickerExits, ShownTyped
    <2>4. QED BY <1>8, <2>1, <2>2, <2>3 DEF TickerStep
  <1>9. ASSUME NEW w \in WorkerIds, WorkerStep(w) PROVE ShownTyped'
    <2>1. UNCHANGED <<ticker, event>>
      BY <1>9 DEF WorkerStep, WorkerBegins, TakePart, FetchPart, FetchEnds, FetchWhole, FetchFails, IdleTimeout, PartEnds, Others
    <2>2. \E n \in Nat : tracker' \in {tracker, WorkerStarted(tracker), WorkerFinished(tracker),
                                     ChunkCompleted(tracker), AddBytes(tracker, n), SubBytes(tracker, n)}
      BY <1>9, WorkerTracks
    <2>3. QED BY <1>1, <2>1, <2>2, CountersTyped DEF ShownTyped
  <1>10. CASE Cancel \/ UNCHANGED vars
    BY <1>4, <1>10 DEF Cancel, vars, progress
  <1>11. QED BY <1>5, <1>6, <1>7, <1>8, <1>9, <1>10, StepCases

LEMMA TypedKept ==
  ASSUME IInv, [Next]_vars
  PROVE  Typed'
PROOF
  <1>1. AskTyped' /\ PartTyped' /\ MainTyped' /\ ShownTyped'
    BY AskTypedKept, PartTypedKept, MainTypedKept, ShownTypedKept DEF IInv
  <1>2. QED BY <1>1 DEF Typed, AskTyped, PartTyped, MainTyped, ShownTyped

-----------------------------------------------------------------------------
(* What is found out and decided.                                          *)

\* No step but the probe's changes what was found out, and none changes it
\* once a sink is chosen.
LEMMA InfoKept ==
  ASSUME IInv, [Next]_vars
  PROVE  InfoHeld' /\ (info' = info \/ (main \in {"probe", "reprobe"} /\ sink' = "none"))
PROOF
  <1>1. UNCHANGED server /\ InfoHeld /\ info \in Info /\ NumChunks \in Nat /\ NumChunks > 0
    BY Settled, Parameters DEF IInv, Typed
  <1>2. CASE AskServer
    <2>1. sink' = "none" /\ sink = "none" /\ main \in {"probe", "reprobe"}
      BY <1>2 DEF AskServer, engine, parts, IInv, PhaseHeld
    <2>2. PICK f \in BOOLEAN, e \in BOOLEAN : ProbeStep(f, e)
      BY <1>2 DEF AskServer
    <2>3. WholeInfo.len \in {0, NumChunks} /\ (WholeInfo.len > 0 \/ ~server.len)
      BY <1>1 DEF WholeInfo
    <2>4. /\ RangeInfo.len \in {0, NumChunks} \/ (RangeInfo.len = 1 /\ server.honours /\ ~server.total)
          /\ RangeInfo.len > 0 \/ ~server.len
      BY <1>1, <2>3 DEF RangeInfo
    <2>5. probe \in [pc : {"head", "get", "test", "done", "failed"}, attempt : 0..MaxRetries]
      BY DEF IInv, Typed
    <2>6. \/ info' = info /\ probe'.pc \notin {"test", "done"}
          \/ info' = WholeInfo
          \/ info' = RangeInfo
          \/ probe.pc = "test" /\ \E b \in BOOLEAN : info' = [info EXCEPT !.ranges = b]
      <3>1. ASSUME NEW pc \in {"get", "failed"}, ProbeTo(pc) PROVE probe'.pc \notin {"test", "done"}
        BY <2>5, <3>1 DEF ProbeTo
      <3>2. CASE AskHead(f, e)
        BY <3>1, <3>2 DEF AskHead
      <3>3. CASE AskRange(f)
        <4>1. AttemptFails => probe'.pc \in {"head", "failed"}
          BY <2>5 DEF AttemptFails
        <4>2. QED BY <3>1, <3>3, <4>1 DEF AskRange
      <3>4. CASE TestRange(f)
        BY <3>4 DEF TestRange
      <3>5. QED BY <2>2, <3>2, <3>3, <3>4 DEF ProbeStep
    <2>7. /\ info'.len \in {0, NumChunks} \/ (info'.len = 1 /\ server.honours /\ ~server.total)
          /\ probe'.pc \in {"test", "done"} => info'.len > 0 \/ ~server.len
      <3>1. CASE info' = info /\ probe'.pc \notin {"test", "done"}
        BY <1>1, <3>1 DEF InfoHeld
      <3>2. CASE info' = WholeInfo \/ info' = RangeInfo
        BY <2>3, <2>4, <3>2
      <3>3. ASSUME probe.pc = "test", NEW b \in BOOLEAN, info' = [info EXCEPT !.ranges = b]
            PROVE  info'.len = info.len /\ probe.pc = "test"
        BY <1>1, <3>3 DEF Info
      <3>4. QED BY <1>1, <2>6, <3>1, <3>2, <3>3 DEF InfoHeld
    <2>8. QED BY <1>1, <2>1, <2>7 DEF InfoHeld, InParts
  <1>3. CASE Reprobed
    <2>1. /\ info' = info /\ probe' = probe
          /\ sink' = sink \/ probe.pc = "done"
          /\ InParts' => InParts \/ info.len # 0
      BY <1>3 DEF Reprobed, probing, InParts
    <2>2. QED BY <1>1, <2>1, Parameters DEF InfoHeld, Info, InParts
  <1>4. CASE Probed
    <2>1. UNCHANGED <<info, sink>> /\ (probe' = probe \/ probe' = StartProbe)
      BY <1>4 DEF Probed, engine, parts
    <2>2. StartProbe.pc = "head"
      BY DEF StartProbe
    <2>3. QED BY <1>1, <2>1, <2>2 DEF InfoHeld, InParts
  <1>5. CASE UNCHANGED <<probe, info, sink>>
    BY <1>1, <1>5 DEF InfoHeld, InParts
  <1>6. StartStep /\ ~AskServer /\ ~Reprobed /\ ~Probed => UNCHANGED <<probe, info, sink>>
    <2>1. CannotOpen \/ StartCancelled => UNCHANGED <<probe, info, sink>>
      BY DEF CannotOpen, StartCancelled, probing, engine, parts
    <2>2. StartParts \/ StartSingle => UNCHANGED <<probing, sink>>
      BY DEF StartParts, StartSingle
    <2>3. QED BY <2>1, <2>2 DEF StartStep, probing
  <1>7. QED BY <1>2, <1>3, <1>4, <1>5, <1>6, Settled

LEMMA PhaseKept ==
  ASSUME IInv, [Next]_vars
  PROVE  PhaseHeld'
PROOF
  <1>1. PhaseHeld
    BY DEF IInv
  <1>2. CASE UNCHANGED <<main, sink, result>>
    BY <1>1, <1>2 DEF PhaseHeld, Running
  <1>3. CASE StartStep
    <2>1. CASE AskServer
      BY <1>2, <2>1 DEF AskServer, engine, parts
    <2>2. CASE Probed \/ Reprobed \/ CannotOpen \/ StartCancelled
      BY <1>1, <2>2 DEF Probed, Reprobed, CannotOpen, StartCancelled, Goto, Return, Keep, engine, parts, PhaseHeld,
                        Starting, Running
    <2>3. CASE StartParts \/ StartSingle
      <3>1. main = "start" /\ main' = "transfer" /\ UNCHANGED <<sink, result>>
        BY <2>3 DEF StartParts, StartSingle, Goto
      <3>2. QED BY <1>1, <3>1 DEF PhaseHeld, Starting, Running
    <2>4. QED BY <1>3, <2>1, <2>2, <2>3 DEF StartStep
  <1>4. CASE SingleStep
    <2>1. UNCHANGED sink
      BY <1>4 DEF SingleStep, Receive, Write, Eof, ReadFails, Stall, IdleTimeoutSingle, Finish, engine, parts
    <2>2. QED BY <1>1, <1>4, <2>1 DEF SingleStep, Receive, Write, Eof, ReadFails, Stall, IdleTimeoutSingle, Finish, Goto,
                                      Reading, PhaseHeld, Starting, Running
  <1>5. CASE EndStep
    <2>1. UNCHANGED sink
      BY <1>5 DEF EndStep, Join, Copy, WriteFails, Sync, StopTracker, Report, engine, parts
    <2>2. QED BY <1>1, <1>5, <2>1 DEF EndStep, Join, Copy, WriteFails, Sync, StopTracker, Report, Goto, PhaseHeld,
                                      Starting, Running
  <1>6. CASE TickerStep \/ Cancel \/ UNCHANGED vars
    BY <1>2, <1>6 DEF TickerStep, TickerTicks, TickerReports, TickerEnds, Cancel, vars, engine, parts
  <1>7. ASSUME NEW w \in WorkerIds, WorkerStep(w) PROVE PhaseHeld'
    <2>1. /\ UNCHANGED <<sink, result>>
          /\ main' = main \/ main' = "dead"
      BY <1>7, WorkerMoves DEF WorkerStep, WorkerBegins, TakePart, FetchPart, FetchEnds, FetchWhole, FetchFails, IdleTimeout,
                               PartEnds, Others, IInv
    <2>2. QED BY <1>1, <2>1 DEF PhaseHeld, Starting, Running
  <1>8. QED BY <1>3, <1>4, <1>5, <1>6, <1>7, StepCases

LEMMA DoneKept ==
  ASSUME NEW tr \in Counters
  PROVE  /\ \A n \in Nat : AddBytes(tr, n).done = tr.done /\ SubBytes(tr, n).done = tr.done
         /\ WorkerStarted(tr).done = tr.done /\ WorkerFinished(tr).done = tr.done /\ ChunkCompleted(tr).done = tr.done
BY DEF Counters, AddBytes, SubBytes, WorkerStarted, WorkerFinished, ChunkCompleted

LEMMA EventKept ==
  ASSUME IInv, [Next]_vars
  PROVE  EventHeld'
PROOF
  <1>1. EventHeld /\ PhaseHeld /\ tracker \in Counters /\ NumChunks \in Nat /\ 1 \in Nat
    BY Parameters DEF IInv, Typed
  <1>2. main \in Starting \cup Running \cup Over /\ result \in {"none", "ok", "error"}
    BY DEF IInv, Typed
  <1>3. /\ ticker \in [pc : {"none", "waiting", "snapped"}, snap : Snaps]
        /\ event \in [kind : {"none", "probe", "progress", "completed", "error"}, snap : Snaps]
    BY DEF IInv, Typed
  <1>4. CASE UNCHANGED <<main, result, tracker, ticker, event>>
    BY <1>1, <1>4 DEF EventHeld
  <1>5. CASE StartStep
    <2>1. CASE AskServer
      BY <1>4, <2>1 DEF AskServer, progress
    <2>2. CASE Probed \/ Reprobed \/ CannotOpen \/ StartCancelled
      <3>1. /\ UNCHANGED <<tracker, ticker>> /\ main \in Starting /\ main' \in Starting \cup {"ended", "emitted"}
            /\ event' = event \/ event' = [event EXCEPT !.kind = "probe"]
        BY <2>2 DEF Probed, Reprobed, CannotOpen, StartCancelled, Goto, Return, progress, Emit, Starting
      <3>2. event'.kind \notin {"completed", "error"}
        BY <1>1, <1>3, <3>1 DEF EventHeld, Starting
      <3>3. QED BY <1>1, <3>1, <3>2 DEF EventHeld, Starting, Running
    <2>3. CASE StartParts \/ StartSingle
      <3>1. main = "start" /\ main' = "transfer" /\ UNCHANGED <<result, event>>
        BY <2>3 DEF StartParts, StartSingle, Goto
      <3>2. QED BY <1>1, <3>1 DEF EventHeld, Running
    <2>4. QED BY <1>5, <2>1, <2>2, <2>3 DEF StartStep
  <1>6. CASE SingleStep
    <2>1. UNCHANGED <<ticker, event>> /\ main \in Running /\ main' \in Running /\ main' \notin {"stop", "wait"}
      BY <1>6 DEF SingleStep, Receive, Write, Eof, ReadFails, Stall, IdleTimeoutSingle, Finish, Goto, Reading, progress,
                  Running
    <2>2. QED BY <1>1, <2>1 DEF EventHeld, Running
  <1>7. CASE EndStep
    <2>1. CASE Join \/ Copy \/ WriteFails \/ Sync
      <3>1. UNCHANGED <<tracker, ticker, event>> /\ main \in Running /\ main' \in Running \ {"stop", "wait"}
        BY <2>1 DEF Join, Copy, WriteFails, Sync, progress, Goto, Running
      <3>2. QED BY <1>1, <3>1 DEF EventHeld, Running
    <2>2. CASE StopTracker
      <3>1. CASE main = "mark"
        <4>1. /\ tracker' = [tracker EXCEPT !.done = TRUE] /\ UNCHANGED <<ticker, event, result>>
              /\ main' = "stop"
          BY <2>2, <3>1 DEF StopTracker, StopMark, Goto
        <4>2. tracker'.done
          BY <1>1, <4>1 DEF Counters
        <4>3. QED BY <1>1, <3>1, <4>1, <4>2 DEF EventHeld, Running
      <3>2. CASE main = "stop"
        <4>1. /\ tracker' = [tracker EXCEPT !.cancelled = TRUE] /\ UNCHANGED <<ticker, event, result>>
              /\ main' = "wait"
          BY <2>2, <3>2 DEF StopTracker, StopCancel, Goto
        <4>2. tracker'.done = tracker.done
          BY <1>1, <4>1 DEF Counters
        <4>3. QED BY <1>1, <3>2, <4>1, <4>2 DEF EventHeld, Running
      <3>3. CASE main = "wait"
        <4>1. /\ event'.kind = "progress" /\ UNCHANGED <<tracker, ticker, result>> /\ main' = "ended"
              /\ ticker.pc = "none"
          BY <2>2, <3>3 DEF StopTracker, Stopped, Goto, progress
        <4>2. QED BY <4>1 DEF EventHeld
      <3>4. QED BY <2>2, <3>1, <3>2, <3>3 DEF StopTracker
    <2>3. CASE Report
      <3>1. UNCHANGED <<tracker, ticker, result>>
        BY <2>3 DEF Report, progress
      <3>2. CASE main = "ended"
        <4>1. main' = "emitted" /\ event' = [event EXCEPT !.kind = IF result = "ok" THEN "completed" ELSE "error"]
          BY <2>3, <3>2 DEF Report, Goto, Emit
        <4>2. event'.kind = IF result = "ok" THEN "completed" ELSE "error"
          BY <1>3, <4>1
        <4>3. QED BY <1>1, <3>1, <3>2, <4>1, <4>2 DEF EventHeld, Running
      <3>3. CASE main = "emitted"
        <4>1. main' = "exited" /\ event' = event
          BY <2>3, <3>3 DEF Report, Goto
        <4>2. QED BY <1>1, <3>1, <3>3, <4>1 DEF EventHeld, Running
      <3>4. QED BY <2>3, <3>2, <3>3 DEF Report
    <2>4. QED BY <1>7, <2>1, <2>2, <2>3 DEF EndStep
  <1>8. CASE TickerStep
    <2>1. /\ UNCHANGED <<main, result, tracker>> /\ ticker.pc # "none"
          /\ event' = event \/ event'.kind = "progress"
      BY <1>8 DEF TickerStep, TickerTicks, TickerReports, TickerEnds, Tick, TickerReturns, TickerExits
    <2>2. QED BY <1>1, <2>1 DEF EventHeld
  <1>9. ASSUME NEW w \in WorkerIds, WorkerStep(w) PROVE EventHeld'
    <2>1. \E n \in Nat : tracker' \in {tracker, WorkerStarted(tracker), WorkerFinished(tracker),
                                     ChunkCompleted(tracker), AddBytes(tracker, n), SubBytes(tracker, n)}
      BY <1>9, WorkerTracks DEF IInv
    <2>2. tracker'.done = tracker.done
      BY <1>1, <2>1, DoneKept
    <2>3. /\ UNCHANGED <<ticker, event, result>>
          /\ main' = main \/ (main' = "dead" /\ main \in {"ended", "emitted"})
      BY <1>9, WorkerMoves DEF IInv
    <2>4. QED BY <1>1, <2>2, <2>3 DEF EventHeld, Running
  <1>10. CASE Cancel \/ UNCHANGED vars
    BY <1>4, <1>10 DEF Cancel, vars, progress
  <1>11. QED BY <1>5, <1>6, <1>7, <1>8, <1>9, <1>10, StepCases

\* Until the engine starts nothing moves but main and its probe.
LEMMA StartingKept ==
  ASSUME IInv, [Next]_vars, main' \in Starting
  PROVE  /\ main \in Starting
         /\ file' = [size |-> 0, units |-> {}] /\ tracker' = NoTracker
         /\ UNCHANGED <<workers, jobs, have, from, ready>>
PROOF
  <1>1. main \in Starting \cup Running \cup Over
    BY DEF IInv, Typed
  <1>2. main \in Starting => /\ file = [size |-> 0, units |-> {}] /\ tracker = NoTracker
                             /\ ticker.pc = "none" /\ \A w \in WorkerIds : workers[w].pc = "off"
    BY DEF IInv, FreshHeld, EventHeld, Starting, Running
  <1>3. CASE StartStep
    <2>1. CASE AskServer \/ Probed \/ Reprobed
      BY <1>2, <2>1 DEF AskServer, Probed, Reprobed, progress, engine, parts, Keep, Starting
    <2>2. CASE CannotOpen \/ StartCancelled \/ StartParts \/ StartSingle
      <3>1. main' \in {"ended", "transfer"}
        BY <2>2 DEF CannotOpen, StartCancelled, StartParts, StartSingle, Return, Goto
      <3>2. QED BY <3>1 DEF Starting
    <2>3. QED BY <1>3, <2>1, <2>2 DEF StartStep
  <1>4. CASE SingleStep
    <2>1. main' \in Running
      BY <1>4 DEF SingleStep, Receive, Write, Eof, ReadFails, Stall, IdleTimeoutSingle, Finish, Goto, Reading, Running
    <2>2. QED BY <2>1 DEF Starting, Running
  <1>5. CASE EndStep
    <2>1. main' \in Running \cup Over
      BY <1>5 DEF EndStep, Join, Copy, WriteFails, Sync, StopTracker, Report, Goto, Running, Over
    <2>2. QED BY <2>1 DEF Starting, Running, Over
  <1>6. CASE TickerStep
    <2>1. main' = main /\ ticker.pc # "none"
      BY <1>6 DEF TickerStep, TickerTicks, TickerReports, TickerEnds, Tick, TickerReturns, TickerExits
    <2>2. QED BY <1>2, <2>1
  <1>7. CASE Cancel \/ UNCHANGED vars
    BY <1>2, <1>7 DEF Cancel, vars, progress, engine, parts
  <1>8. ASSUME NEW w \in WorkerIds, WorkerStep(w) PROVE FALSE
    <2>1. workers[w].pc # "off" /\ (main' = main \/ main' = "dead")
      BY <1>8, WorkerMoves DEF IInv
    <2>2. QED BY <1>2, <2>1 DEF Starting
  <1>9. QED BY <1>3, <1>4, <1>5, <1>6, <1>7, <1>8, StepCases

LEMMA FreshKept ==
  ASSUME IInv, [Next]_vars
  PROVE  FreshHeld'
PROOF
  <1>1. main \in Starting \cup Running \cup Over /\ FreshHeld /\ PhaseHeld /\ Typed
    BY DEF IInv, Typed
  <1>2. main' \in Starting => /\ main \in Starting
                              /\ file' = [size |-> 0, units |-> {}] /\ tracker' = NoTracker
                              /\ UNCHANGED <<workers, jobs, have, from, ready>>
    BY StartingKept
  <1>3. sink' = sink \/ (main = "reprobe" /\ sink = "none") \/ main' \in Starting
    <2>1. CASE StartStep
      BY <1>1, <2>1 DEF StartStep, AskServer, Probed, Reprobed, CannotOpen, StartCancelled, StartParts, StartSingle, engine, parts,
                        PhaseHeld
    <2>2. CASE ~StartStep
      BY <2>2, Settled
    <2>3. QED BY <2>1, <2>2
  <1>4. ASSUME \A w \in WorkerIds : workers[w].pc = "off", ~StartParts
        PROVE  UNCHANGED <<workers, jobs, have, from, ready>>
    <2>1. ASSUME NEW w \in WorkerIds, WorkerStep(w) PROVE FALSE
      BY <1>4, <2>1, WorkerMoves DEF IInv
    <2>2. QED BY <1>1, <1>4, <2>1, WorkersKept
  <1>5. StartParts => sink \in {"multi", "prefetch"} /\ sink' = sink /\ main' = "transfer"
    BY DEF StartParts, Goto
  <1>6. ASSUME sink' \in {"none", "single"} PROVE UNCHANGED <<workers, jobs, have, from, ready>>
    <2>1. CASE main' \in Starting
      BY <1>2, <2>1
    <2>2. CASE main' \notin Starting
      <3>1. main \in Starting \/ sink \in {"none", "single"}
        BY <1>3, <1>6, <2>2 DEF Starting
      <3>2. ~StartParts
        BY <1>5, <1>6
      <3>3. \A w \in WorkerIds : workers[w].pc = "off"
        BY <1>1, <3>1 DEF FreshHeld
      <3>4. QED BY <1>4, <3>2, <3>3
    <2>3. QED BY <2>1, <2>2
  <1>7. ASSUME sink' = "multi", main' # "transfer" PROVE \A w \in WorkerIds : workers'[w].pc = "off"
    <2>1. CASE main' \in Starting
      BY <1>1, <1>2, <2>1 DEF FreshHeld
    <2>2. CASE main' \notin Starting
      <3>1. ~StartParts
        BY <1>5, <1>7
      <3>2. CASE main # "transfer"
        <4>1. \A w \in WorkerIds : workers[w].pc = "off"
          BY <1>1, <1>3, <1>7, <2>2, <3>2 DEF FreshHeld, Starting
        <4>2. QED BY <1>4, <3>1, <4>1
      <3>3. CASE main = "transfer"
        <4>1. sink = "multi"
          BY <1>3, <1>7, <2>2, <3>3
        <4>2. Join
          <5>1. ~StartStep
            BY <3>3 DEF StartStep, AskServer, Probed, Reprobed, CannotOpen, StartCancelled, StartParts, StartSingle
          <5>2. ~SingleStep
            <6>1. ~Receive /\ ~Eof /\ ~ReadFails /\ ~Stall
              BY <4>1 DEF Receive, Eof, ReadFails, Stall, Reading
            <6>2. ~Write /\ ~Finish /\ ~IdleTimeoutSingle
              BY <3>3, <4>1 DEF Write, Finish, IdleTimeoutSingle, Reading
            <6>3. QED BY <6>1, <6>2 DEF SingleStep
          <5>3. ~TickerStep /\ ~Cancel /\ ~UNCHANGED vars
            BY <1>7, <3>3 DEF TickerStep, TickerTicks, TickerReports, TickerEnds, Cancel, vars
          <5>4. ASSUME NEW w \in WorkerIds, WorkerStep(w) PROVE FALSE
            BY <1>7, <3>3, <5>4, WorkerMoves DEF IInv
          <5>5. EndStep
            BY <5>1, <5>2, <5>3, <5>4, StepCases
          <5>6. ~Copy /\ ~WriteFails /\ ~Sync /\ ~StopTracker /\ ~Report
            BY <3>3, <4>1 DEF Copy, WriteFails, Sync, StopTracker, Report
          <5>7. QED BY <5>5, <5>6 DEF EndStep
        <4>3. (\A w \in WorkerIds : workers[w].pc = "off") /\ workers' = workers
          BY <4>2 DEF Join, engine, parts
        <4>4. QED BY <4>3
      <3>4. QED BY <3>2, <3>3
    <2>3. QED BY <2>1, <2>2
  <1>8. main' \in Starting \/ sink' \in {"none", "single"} => jobs' = 0 /\ ready' = {}
    BY <1>1, <1>2, <1>3, <1>6 DEF FreshHeld, Starting
  <1>9. main' \in Starting \/ sink' \in {"none", "single"} => \A w \in WorkerIds : workers'[w].pc = "off"
    BY <1>1, <1>2, <1>3, <1>6 DEF FreshHeld, Starting
  <1>10. QED BY <1>2, <1>7, <1>8, <1>9 DEF FreshHeld

-----------------------------------------------------------------------------
(* The parts and their workers. What a worker's step does to its record and *)
(* to what the workers share, whichever handler it comes from.             *)

Begin(w, r) ==
  /\ workers[w].pc = "new" /\ r.pc = "take"
  /\ tracker' = WorkerStarted(tracker) /\ UNCHANGED <<jobs, have, from, ready, failed, file>>
TakeOne(w, r) ==
  /\ workers[w].pc = "take" /\ r.pc = "fetch" /\ r.chunk = jobs
  /\ jobs < info.len /\ jobs' = jobs + 1 /\ UNCHANGED <<tracker, have, from, ready, failed, file>>
Quit(w, r) ==
  /\ r.pc = "off" /\ tracker' = WorkerFinished(tracker) /\ UNCHANGED <<have, from, ready, file>>
  /\ \/ workers[w].pc = "take" /\ jobs >= info.len /\ jobs' = jobs /\ failed' = failed
     \/ workers[w].pc = "take" /\ jobs < info.len /\ Stopping /\ jobs' = jobs + 1 /\ failed' = failed
     \/ workers[w].pc = "giveup" /\ jobs' = jobs /\ failed' = TRUE
Hold(w, r) ==
  /\ workers[w].pc \in Holding \ {"counted"} /\ r.pc \in Holding \ {"counted", "overrun"}
  /\ r.chunk = workers[w].chunk
  /\ RollBack(w) \/ UNCHANGED <<tracker, from>>
  /\ UNCHANGED <<jobs, have, ready, failed, file>>
GetPiece(w, r) ==
  /\ workers[w].pc = "fetch" /\ r = workers[w] /\ Accepted(w) /\ ~Full(w)
  /\ have' = [have EXCEPT ![workers[w].chunk] = @ + 1]
  /\ file' = IF Got(w) + 1 = PartLength THEN Written({workers[w].chunk}) ELSE file
  /\ tracker' = AddBytes(tracker, 1)
  /\ UNCHANGED <<jobs, from, ready, failed>>
CountOne(w, r) ==
  /\ workers[w].pc = "fetch" /\ r.pc = "counted" /\ r.chunk = workers[w].chunk /\ Accepted(w) /\ Full(w)
  /\ UNCHANGED <<tracker, jobs, have, from, ready, failed, file>>
Overrun(w, r) ==
  /\ workers[w].pc = "fetch" /\ r.pc = "overrun" /\ r.chunk = workers[w].chunk /\ Accepted(w) /\ GoesOn
  /\ have' = [have EXCEPT ![0] = PartLength * NumChunks]
  /\ tracker' = AddBytes(tracker, PartLength * NumChunks - Got(w))
  /\ file' = [Written(Units) EXCEPT !.size = IF sink = "multi" THEN NumChunks ELSE @]
  /\ UNCHANGED <<jobs, from, ready, failed>>
Arrive(w, r) ==
  /\ workers[w].pc = "counted" /\ r.pc = "take"
  /\ tracker' = ChunkCompleted(tracker) /\ ready' = ready \cup {workers[w].chunk}
  /\ UNCHANGED <<jobs, have, from, failed, file>>

Moves(w, r) ==
  \/ Begin(w, r) \/ TakeOne(w, r) \/ Quit(w, r) \/ Hold(w, r) \/ GetPiece(w, r) \/ CountOne(w, r)
  \/ Overrun(w, r) \/ Arrive(w, r)

LEMMA WorkerChanges ==
  ASSUME IInv, NEW w \in WorkerIds, WorkerStep(w)
  PROVE  \E r \in WorkerRecord : workers' = [workers EXCEPT ![w] = r] /\ Moves(w, r)
PROOF
  <1>1. PICK r \in WorkerRecord : workers' = [workers EXCEPT ![w] = r]
    BY WorkerMoves DEF IInv
  <1> SUFFICES Moves(w, r)
    BY <1>1
  <1>2. workers'[w] = r /\ workers[w] \in WorkerRecord /\ NumChunks \in Nat /\ jobs \in Nat /\ info.len \in Nat
    BY <1>1, Parameters DEF IInv, Typed, Info
  <1>3. \A pc \in WorkerPCs : /\ [workers[w] EXCEPT !.pc = pc].pc = pc
                              /\ [workers[w] EXCEPT !.pc = pc].chunk = workers[w].chunk
    BY <1>2 DEF WorkerRecord
  <1>4. ASSUME NEW x, WorkerTo(w, x) PROVE r = x
    BY <1>2, <1>4 DEF WorkerTo, IInv, Typed
  <1>5. NoWorker.pc = "off" /\ [NoWorker EXCEPT !.pc = "take"].pc = "take"
    BY DEF NoWorker
  <1>6. ASSUME AttemptEnds(w) PROVE r.pc \in {"fetch", "giveup"} /\ r.chunk = workers[w].chunk
    <2>1. CASE MayRetry(w)
      <3>1. r = [workers[w] EXCEPT !.pc = "fetch", !.attempt = workers[w].attempt + 1]
        BY <1>4, <1>6, <2>1 DEF AttemptEnds
      <3>2. QED BY <1>2, <3>1 DEF WorkerRecord
    <2>2. CASE ~MayRetry(w)
      <3>1. r = [workers[w] EXCEPT !.pc = "giveup"]
        BY <1>4, <1>6, <2>2 DEF AttemptEnds
      <3>2. QED BY <1>2, <3>1 DEF WorkerRecord
    <2>3. QED BY <2>1, <2>2
  <1>7. CASE WorkerBegins(w)
    BY <1>4, <1>5, <1>7 DEF WorkerBegins, Begin, Moves, At, parts
  <1>8. CASE TakePart(w)
    <2>1. CASE jobs < info.len /\ ~Stopping
      <3>1. r = [NoWorker EXCEPT !.pc = "fetch", !.chunk = jobs]
        BY <1>4, <1>8, <2>1 DEF TakePart
      <3>2. r.pc = "fetch" /\ r.chunk = jobs
        BY <3>1 DEF NoWorker
      <3>3. QED BY <1>8, <2>1, <3>2 DEF TakePart, TakeOne, Moves, At, parts
    <2>2. CASE ~(jobs < info.len /\ ~Stopping)
      <3>1. r.pc = "off" /\ tracker' = WorkerFinished(tracker) /\ UNCHANGED <<have, from, ready, file, failed>>
            /\ workers[w].pc = "take"
        BY <1>4, <1>5, <1>8, <2>2 DEF TakePart, At, parts
      <3>2. CASE jobs < info.len
        BY <1>8, <2>2, <3>1, <3>2 DEF TakePart, Quit, Moves
      <3>3. CASE ~(jobs < info.len)
        BY <1>2, <1>8, <3>1, <3>3 DEF TakePart, Quit, Moves
      <3>4. QED BY <3>2, <3>3
    <2>3. QED BY <2>1, <2>2
  <1>9. CASE FetchPart(w)
    <2>1. r = workers[w]
      BY <1>2, <1>9 DEF FetchPart
    <2>2. GetPiece(w, r)
      BY <1>9, <2>1 DEF FetchPart, GetPiece, At
    <2>3. QED BY <2>2 DEF Moves
  <1>90. CASE FetchEnds(w)
    <2>1. r = [workers[w] EXCEPT !.pc = "counted"]
      BY <1>4, <1>90 DEF FetchEnds
    <2>2. r.pc = "counted" /\ r.chunk = workers[w].chunk
      BY <1>3, <2>1 DEF WorkerPCs
    <2>3. CountOne(w, r)
      BY <1>90, <2>2 DEF FetchEnds, At, CountOne, parts
    <2>4. QED BY <2>3 DEF Moves
  <1>10. CASE FetchWhole(w)
    <2>1. CASE workers[w].pc = "fetch"
      <3>1. r = [workers[w] EXCEPT !.pc = "overrun"]
        BY <1>4, <1>10, <2>1 DEF FetchWhole, At
      <3>2. r.pc = "overrun" /\ r.chunk = workers[w].chunk
        BY <1>3, <3>1 DEF WorkerPCs
      <3>3. Overrun(w, r)
        BY <1>10, <2>1, <3>2 DEF FetchWhole, At, Overrun
      <3>4. QED BY <3>3 DEF Moves
    <2>2. CASE workers[w].pc # "fetch"
      <3>1. GiveUp(w) /\ workers[w].pc = "overrun" /\ UNCHANGED <<jobs, have, ready, failed, file>>
        BY <1>10, <2>2 DEF FetchWhole, At
      <3>2. RollBack(w) /\ r = [workers[w] EXCEPT !.pc = "giveup"]
        BY <1>4, <3>1 DEF GiveUp
      <3>3. r.pc = "giveup" /\ r.chunk = workers[w].chunk
        BY <1>3, <3>2 DEF WorkerPCs
      <3>4. Hold(w, r)
        BY <3>1, <3>2, <3>3 DEF Hold, Holding
      <3>5. QED BY <3>4 DEF Moves
    <2>3. QED BY <2>1, <2>2
  <1>11. CASE FetchFails(w) \/ IdleTimeout(w)
    <2>1. UNCHANGED <<jobs, have, ready, failed, file>> /\ workers[w].pc \in {"fetch", "stalled"}
      BY <1>11 DEF FetchFails, IdleTimeout, At
    <2>2. \/ AttemptEnds(w)
          \/ GiveUp(w)
          \/ WorkerTo(w, [workers[w] EXCEPT !.pc = "stalled"]) /\ UNCHANGED <<tracker, from>>
      BY <1>11 DEF FetchFails, IdleTimeout
    <2>3. CASE AttemptEnds(w)
      <3>1. RollBack(w) /\ r.pc \in {"fetch", "giveup"} /\ r.chunk = workers[w].chunk
        BY <1>6, <2>3 DEF AttemptEnds
      <3>2. QED BY <2>1, <3>1 DEF Hold, Moves, Holding
    <2>4. CASE GiveUp(w)
      <3>1. RollBack(w) /\ r = [workers[w] EXCEPT !.pc = "giveup"]
        BY <1>4, <2>4 DEF GiveUp
      <3>2. r.pc = "giveup" /\ r.chunk = workers[w].chunk
        BY <1>3, <3>1 DEF WorkerPCs
      <3>3. QED BY <2>1, <3>1, <3>2 DEF Hold, Moves, Holding
    <2>5. CASE WorkerTo(w, [workers[w] EXCEPT !.pc = "stalled"]) /\ UNCHANGED <<tracker, from>>
      <3>1. r = [workers[w] EXCEPT !.pc = "stalled"]
        BY <1>4, <2>5
      <3>2. r.pc = "stalled" /\ r.chunk = workers[w].chunk
        BY <1>3, <3>1 DEF WorkerPCs
      <3>3. QED BY <2>1, <2>5, <3>2 DEF Hold, Moves, Holding
    <2>6. QED BY <2>2, <2>3, <2>4, <2>5
  <1>13. CASE PartEnds(w)
    <2>1. CASE workers[w].pc = "counted"
      BY <1>4, <1>5, <1>13, <2>1 DEF PartEnds, At, Arrive, Moves
    <2>2. CASE workers[w].pc # "counted"
      BY <1>4, <1>5, <1>13, <2>2 DEF PartEnds, At, Quit, Moves
    <2>3. QED BY <2>1, <2>2
  <1>14. QED BY <1>7, <1>8, <1>9, <1>90, <1>10, <1>11, <1>13 DEF WorkerStep

LEMMA WorkerSettled ==
  ASSUME NEW w \in WorkerIds, WorkerStep(w)
  PROVE  UNCHANGED <<server, mode, probe, info, first, sink, ctxDone, ticker, body, result, event>>
BY DEF WorkerStep, WorkerBegins, TakePart, FetchPart, FetchEnds, FetchWhole, FetchFails, IdleTimeout, PartEnds, Others, probing

\* Only workers that work have steps: there is a download in parts, and main
\* is past its start.
LEMMA WorkersWork ==
  ASSUME IInv, NEW w \in WorkerIds, WorkerStep(w)
  PROVE  InParts /\ main \notin Starting /\ (sink = "multi" => main = "transfer")
PROOF
  <1>1. workers[w].pc # "off"
    BY WorkerMoves DEF IInv
  <1>2. QED BY <1>1 DEF IInv, FreshHeld, Typed, InParts

\* A part that starts finds its workers new, or off.
LEMMA NewWorkers ==
  ASSUME IInv, StartParts
  PROVE  /\ \A w \in WorkerIds : workers'[w].pc \in {"new", "off"}
         /\ workers'[1].pc = "new"
         /\ jobs' = 0 /\ ready' = {} /\ UNCHANGED <<server, info, sink, ctxDone, failed, jobs, have, from, ready>>
PROOF
  <1>1. workers' = [w \in WorkerIds |->
          IF w <= Concurrency /\ w <= info.len THEN [NoWorker EXCEPT !.pc = "new"] ELSE NoWorker]
    BY DEF StartParts
  <1>2. [NoWorker EXCEPT !.pc = "new"].pc = "new" /\ NoWorker.pc = "off"
    BY DEF NoWorker
  <1>3. 1 \in WorkerIds /\ 1 <= Concurrency
    BY Parameters DEF WorkerIds, Concurrency
  <1>4. 1 <= info.len
    <2>1. info.len \in Nat /\ info.len > 0
      BY Parameters DEF IInv, Typed, Info, InfoHeld, InParts, StartParts
    <2>2. QED BY <2>1
  <1>5. \A w \in WorkerIds : workers'[w].pc \in {"new", "off"}
    BY <1>1, <1>2
  <1>6. workers'[1].pc = "new"
    BY <1>1, <1>2, <1>3, <1>4
  <1>7. UNCHANGED <<Keep, probing, sink, failed, jobs, have, from, ready>> /\ main = "start"
    BY DEF StartParts, parts
  <1>8. jobs = 0 /\ ready = {}
    BY <1>7 DEF IInv, FreshHeld, Starting
  <1>9. QED BY <1>5, <1>6, <1>7, <1>8 DEF Keep, probing

LEMMA PartsKept ==
  ASSUME IInv, [Next]_vars
  PROVE  PartsHeld'
PROOF
  <1>1. PartsHeld /\ jobs \in Nat /\ info.len \in Nat /\ ready \subseteq Units
    BY DEF IInv, Typed, Info
  <1>2. CASE StartParts
    <2>1. \A w \in WorkerIds : workers'[w].pc \notin Holding
      BY <1>2, NewWorkers DEF Holding
    <2>2. QED BY <1>1, <1>2, <2>1, NewWorkers DEF PartsHeld, Holds
  <1>3. CASE UNCHANGED <<workers, jobs, have, from, ready>>
    <2>1. jobs <= info'.len
      <3>1. CASE info' = info
        BY <1>1, <3>1 DEF PartsHeld
      <3>2. CASE main \in {"probe", "reprobe"}
        <4>1. jobs = 0
          BY <3>2 DEF IInv, FreshHeld, Starting
        <4>2. info'.len \in Nat
          BY TypedKept DEF Typed, Info
        <4>3. QED BY <4>1, <4>2
      <3>3. QED BY <3>1, <3>2, InfoKept
    <2>2. QED BY <1>1, <1>3, <2>1 DEF PartsHeld, Holds
  <1>4. ASSUME NEW w \in WorkerIds, WorkerStep(w) PROVE PartsHeld'
    <2>1. PICK r \in WorkerRecord : workers' = [workers EXCEPT ![w] = r] /\ Moves(w, r)
      BY <1>4, WorkerChanges
    <2>2. info' = info
      BY <1>4, WorkerSettled
    <2>3. workers'[w] = r /\ \A v \in WorkerIds \ {w} : workers'[v] = workers[v]
      BY <2>1 DEF IInv, Typed
    <2>4. \A v \in WorkerIds : workers[v].chunk \in Nat
      <3>1. \A v \in WorkerIds : workers[v] \in WorkerRecord
        BY DEF IInv, Typed
      <3>2. QED BY <3>1, Parameters DEF WorkerRecord, Units
    <2>5. CASE Begin(w, r) \/ Quit(w, r)
      <3>1. r.pc \notin Holding /\ ready' = ready /\ jobs' \in Nat /\ jobs' >= jobs /\ jobs' <= info.len
        BY <1>1, <2>5 DEF Begin, Quit, Holding, PartsHeld
      <3>2. QED BY <1>1, <2>2, <2>3, <2>4, <3>1, Parameters DEF PartsHeld, Holds, Units
    <2>6. CASE TakeOne(w, r)
      <3>1. r.chunk = jobs /\ ready' = ready /\ jobs' = jobs + 1 /\ jobs' <= info.len
        BY <1>1, <2>6 DEF TakeOne
      <3>2. \A v \in WorkerIds : Holds(v) => workers[v].chunk < jobs
        BY <1>1 DEF PartsHeld
      <3>3. \A p \in ready' : p < jobs'
        BY <1>1, <3>1, Parameters DEF PartsHeld, Units
      <3>4. jobs \notin ready
        BY <1>1 DEF PartsHeld
      <3>5. \A v \in WorkerIds : Holds(v)' => workers'[v].chunk < jobs' /\ workers'[v].chunk \notin ready'
        BY <1>1, <2>3, <2>4, <3>1, <3>2, <3>4 DEF PartsHeld, Holds
      <3>6. \A u, v \in WorkerIds : Holds(u)' /\ Holds(v)' /\ u # v => workers'[u].chunk # workers'[v].chunk
        BY <1>1, <2>3, <2>4, <3>1, <3>2 DEF PartsHeld, Holds
      <3>7. QED BY <2>2, <3>1, <3>3, <3>5, <3>6 DEF PartsHeld
    <2>7. CASE Hold(w, r) \/ GetPiece(w, r) \/ CountOne(w, r) \/ Overrun(w, r)
      <3>1. r.chunk = workers[w].chunk /\ Holds(w) /\ UNCHANGED <<jobs, ready>>
        BY <2>7 DEF Hold, GetPiece, CountOne, Overrun, Holds, Holding
      <3>2. QED BY <1>1, <2>2, <2>3, <3>1 DEF PartsHeld, Holds
    <2>8. CASE Arrive(w, r)
      <3>1. Holds(w) /\ r.pc \notin Holding /\ jobs' = jobs /\ ready' = ready \cup {workers[w].chunk}
        BY <2>8 DEF Arrive, Holds, Holding
      <3>2. QED BY <1>1, <2>2, <2>3, <3>1 DEF PartsHeld, Holds
    <2>9. QED BY <2>1, <2>5, <2>6, <2>7, <2>8 DEF Moves
  <1>5. QED BY <1>2, <1>3, <1>4, WorkersKept DEF IInv

\* A part only gets more, and only from the worker that holds it.
LEMMA PartGrows ==
  ASSUME IInv, NEW w \in WorkerIds, NEW r \in WorkerRecord, Moves(w, r)
  PROVE  /\ \A p \in Units : have'[p] >= have[p] /\ have[p] \in Nat /\ have'[p] \in Nat
         /\ \A p \in Units : p # workers[w].chunk \/ ~Holds(w) => have'[p] = have[p] /\ from'[p] = from[p]
         /\ \A p \in Units : from'[p] <= have'[p]
PROOF
  <1> DEFINE c == workers[w].chunk
  <1>1. have \in [Units -> Offsets] /\ from \in [Units -> Offsets] /\ c \in Units /\ PartLength = 2
        /\ NumChunks \in Nat /\ NumChunks > 0
    BY Parameters DEF IInv, Typed, WorkerRecord, PartLength
  <1>2. \A p \in Units : have[p] \in 0..(2 * NumChunks) /\ from[p] \in 0..(2 * NumChunks) /\ from[p] <= have[p]
    BY <1>1 DEF IInv, PiecesHeld, Offsets
  <1>3. CASE UNCHANGED <<have, from>>
    BY <1>1, <1>2, <1>3
  <1>4. CASE Hold(w, r)
    <2>1. have' = have /\ Holds(w) /\ (from' = from \/ from' = [from EXCEPT ![c] = have[c]])
      BY <1>4 DEF Hold, RollBack, Holds
    <2>2. QED BY <1>1, <1>2, <2>1
  <1>5. CASE GetPiece(w, r)
    <2>1. have' = [have EXCEPT ![c] = @ + 1] /\ from' = from /\ Holds(w)
      BY <1>5 DEF GetPiece, Holds, Holding
    <2>2. QED BY <1>1, <1>2, <2>1
  <1>6. CASE Overrun(w, r)
    <2>1. have' = [have EXCEPT ![0] = 2 * NumChunks] /\ from' = from /\ Holds(w) /\ c = 0
      BY <1>1, <1>6 DEF Overrun, Accepted, GoesOn, Holds, Holding
    <2>2. QED BY <1>1, <1>2, <2>1
  <1>7. QED BY <1>3, <1>4, <1>5, <1>6 DEF Moves, Begin, TakeOne, Quit, CountOne, Arrive

LEMMA PiecesKept ==
  ASSUME IInv, [Next]_vars
  PROVE  PiecesHeld'
PROOF
  <1>1. PiecesHeld /\ UNCHANGED server /\ jobs \in Nat /\ PartLength = 2
    BY Settled DEF IInv, Typed, PartLength
  <1>2. CASE StartParts
    BY <1>1, <1>2, NewWorkers DEF PiecesHeld, GoesOn
  <1>3. CASE UNCHANGED <<workers, jobs, have, from, ready>>
    BY <1>1, <1>3 DEF PiecesHeld, GoesOn, Full, Got
  <1>4. ASSUME NEW w \in WorkerIds, WorkerStep(w) PROVE PiecesHeld'
    <2>1. PICK r \in WorkerRecord : workers' = [workers EXCEPT ![w] = r] /\ Moves(w, r)
      BY <1>4, WorkerChanges
    <2>2. workers'[w] = r /\ \A v \in WorkerIds \ {w} : workers'[v] = workers[v]
      BY <2>1 DEF IInv, Typed
    <2>3. \A v \in WorkerIds : workers[v].chunk \in Units
      BY DEF IInv, Typed, WorkerRecord
    <2>4. /\ \A p \in Units : have'[p] >= have[p] /\ have[p] \in Nat /\ have'[p] \in Nat
          /\ \A p \in Units : p # workers[w].chunk \/ ~Holds(w) => have'[p] = have[p] /\ from'[p] = from[p]
          /\ \A p \in Units : from'[p] <= have'[p]
      BY <2>1, PartGrows
    <2>5. \A p \in Units : p >= jobs' => have'[p] = 0
      <3>1. jobs' \in Nat /\ jobs' >= jobs
        BY <1>1, <2>1 DEF Moves, Begin, TakeOne, Quit, Hold, GetPiece, CountOne, Overrun, Arrive
      <3>2. Holds(w) => workers[w].chunk < jobs
        BY DEF IInv, PartsHeld
      <3>3. \A p \in Units : p \in Nat
        BY Parameters DEF Units
      <3>4. QED BY <1>1, <2>3, <2>4, <3>1, <3>2, <3>3 DEF PiecesHeld
    <2>6. \A p \in ready' : have'[p] >= PartLength
      <3>1. ready' = ready \/ (workers[w].pc = "counted" /\ ready' = ready \cup {workers[w].chunk})
        BY <2>1 DEF Moves, Begin, TakeOne, Quit, Hold, GetPiece, CountOne, Overrun, Arrive
      <3>2. \A p \in ready' : p \in Units /\ have[p] >= PartLength
        BY <1>1, <2>3, <3>1 DEF IInv, Typed, PiecesHeld, Full, Got
      <3>3. QED BY <1>1, <2>4, <3>2
    <2>7. \A v \in WorkerIds : workers'[v].pc = "counted" => Full(v)'
      <3>1. r.pc = "counted" => r.chunk = workers[w].chunk /\ Full(w)
        BY <2>1 DEF Moves, Begin, TakeOne, Quit, Hold, GetPiece, CountOne, Overrun, Arrive
      <3>2. ASSUME NEW v \in WorkerIds, workers'[v].pc = "counted"
            PROVE  workers'[v].chunk = workers[v].chunk /\ have[workers[v].chunk] >= PartLength
        BY <1>1, <2>2, <3>1, <3>2 DEF PiecesHeld, Full, Got
      <3>3. QED BY <1>1, <2>3, <2>4, <3>2 DEF Full, Got
    <2>8. ASSUME ~GoesOn, NEW p \in Units PROVE have'[p] <= PartLength
      <3>1. have[p] <= PartLength
        BY <1>1, <2>8 DEF PiecesHeld
      <3>2. CASE GetPiece(w, r)
        <4>1. have' = [have EXCEPT ![workers[w].chunk] = @ + 1] /\ ~(have[workers[w].chunk] >= PartLength)
          BY <3>2 DEF GetPiece, Full, Got
        <4>2. have \in [Units -> Offsets]
          BY DEF IInv, Typed
        <4>3. QED BY <1>1, <2>3, <2>4, <3>1, <4>1, <4>2
      <3>3. CASE have' = have
        BY <3>1, <3>3
      <3>4. QED BY <2>1, <2>8, <3>2, <3>3 DEF Moves, Begin, TakeOne, Quit, Hold, CountOne, Overrun, Arrive
    <2>9. GoesOn' = GoesOn
      BY <1>1 DEF GoesOn
    <2>10. QED BY <2>4, <2>5, <2>6, <2>7, <2>8, <2>9 DEF PiecesHeld
  <1>5. QED BY <1>2, <1>3, <1>4, WorkersKept DEF IInv

LEMMA LiesKept ==
  ASSUME IInv, [Next]_vars
  PROVE  LiesHeld'
PROOF
  <1>1. LiesHeld /\ UNCHANGED server /\ GoesOn' = GoesOn
    BY Settled DEF IInv, GoesOn
  <1>2. CASE StartParts
    BY <1>1, <1>2, NewWorkers DEF LiesHeld
  <1>3. CASE UNCHANGED <<workers, jobs, have, from, ready>>
    BY <1>1, <1>3 DEF LiesHeld
  <1>4. ASSUME NEW w \in WorkerIds, WorkerStep(w) PROVE LiesHeld'
    <2>1. PICK r \in WorkerRecord : workers' = [workers EXCEPT ![w] = r] /\ Moves(w, r)
      BY <1>4, WorkerChanges
    <2>2. workers'[w] = r /\ \A v \in WorkerIds \ {w} : workers'[v] = workers[v]
      BY <2>1 DEF IInv, Typed
    <2>3. r.pc = "overrun" => GoesOn
      BY <1>1, <2>1 DEF Moves, Begin, TakeOne, Quit, Hold, GetPiece, CountOne, Overrun, Arrive, LiesHeld
    <2>4. r.pc = "counted" => r.chunk = workers[w].chunk /\ Accepted(w)
      BY <2>1 DEF Moves, Begin, TakeOne, Quit, Hold, GetPiece, CountOne, Overrun, Arrive
    <2>5. r.pc = "counted" => (GoesOn => r.chunk = 0) /\ ~(server.honours /\ ~server.total)
      BY <2>4 DEF Accepted, GoesOn, RangeOk
    <2>6. ready' = ready \/ (workers[w].pc = "counted" /\ ready' = ready \cup {workers[w].chunk})
      BY <2>1 DEF Moves, Begin, TakeOne, Quit, Hold, GetPiece, CountOne, Overrun, Arrive
    <2>7. QED BY <1>1, <2>2, <2>3, <2>5, <2>6 DEF LiesHeld
  <1>5. QED BY <1>2, <1>3, <1>4, WorkersKept DEF IInv

-----------------------------------------------------------------------------
(* What is counted.                                                        *)

\* The sink is chosen once.
LEMMA SinkKept ==
  ASSUME IInv, [Next]_vars, main' \notin Starting
  PROVE  sink' = sink
PROOF
  <1>1. CASE StartStep
    BY <1>1 DEF StartStep, AskServer, Probed, Reprobed, CannotOpen, StartCancelled, StartParts, StartSingle, engine, parts, Goto,
                Starting
  <1>2. CASE ~StartStep
    BY <1>2, Settled
  <1>3. QED BY <1>1, <1>2

\* Main's own steps count for a single response only.
LEMMA CountsKeptByMain ==
  ASSUME IInv, [Next]_vars, sink # "single"
  PROVE  \/ StartParts \/ \E w \in WorkerIds : WorkerStep(w)
         \/ /\ tracker' \in {tracker, [tracker EXCEPT !.done = TRUE], [tracker EXCEPT !.cancelled = TRUE]}
            /\ main' \in Running => main \in Running
            /\ main' = "transfer" => main = "transfer"
PROOF
  <1>1. PhaseHeld
    BY DEF IInv
  <1>2. CASE StartStep /\ ~StartParts
    <2>1. ~StartSingle
      BY DEF StartSingle
    <2>2. QED BY <1>2, <2>1 DEF StartStep, AskServer, Probed, Reprobed, CannotOpen, StartCancelled, progress, Goto, Return,
                                Running
  <1>3. CASE SingleStep
    <2>1. ~Receive /\ ~Eof /\ ~ReadFails /\ ~Stall
      BY DEF Receive, Eof, ReadFails, Stall, Reading
    <2>2. ~Write /\ ~Finish /\ ~IdleTimeoutSingle
      BY <1>1 DEF Write, Finish, IdleTimeoutSingle, Reading, PhaseHeld
    <2>3. QED BY <1>3, <2>1, <2>2 DEF SingleStep
  <1>4. CASE EndStep
    <2>1. tracker' \in {tracker, [tracker EXCEPT !.done = TRUE], [tracker EXCEPT !.cancelled = TRUE]}
      BY <1>4 DEF EndStep, Join, Copy, WriteFails, Sync, StopTracker, Report, StopMark, StopCancel, progress
    <2>2. (main' \in Running => main \in Running) /\ (main' = "transfer" => main = "transfer")
      BY <1>4 DEF EndStep, Join, Copy, WriteFails, Sync, StopTracker, Report, Goto, Running
    <2>3. QED BY <2>1, <2>2
  <1>5. CASE TickerStep \/ Cancel \/ UNCHANGED vars
    BY <1>5 DEF TickerStep, TickerTicks, TickerReports, TickerEnds, Tick, TickerReturns, TickerExits, Cancel, vars, progress
  <1>6. QED BY <1>2, <1>3, <1>4, <1>5, StepCases

\* The workers that are busy, after a step of one of them.
LEMMA BusyChanges ==
  ASSUME IInv, NEW w \in WorkerIds, NEW r \in WorkerRecord,
         workers' = [workers EXCEPT ![w] = r], Moves(w, r)
  PROVE  /\ Begin(w, r) => Cardinality(Busy)' = Cardinality(Busy) + 1
         /\ Quit(w, r) => Cardinality(Busy)' = Cardinality(Busy) - 1
         /\ ~Begin(w, r) /\ ~Quit(w, r) => Busy' = Busy
PROOF
  <1>1. workers'[w] = r /\ \A v \in WorkerIds \ {w} : workers'[v] = workers[v]
    BY DEF IInv, Typed
  <1>2. IsFiniteSet(Busy)
    <2>1. Busy \in SUBSET WorkerIds
      BY DEF Busy
    <2>2. QED BY <2>1, WorkerSets
  <1>3. ASSUME Begin(w, r) PROVE Cardinality(Busy)' = Cardinality(Busy) + 1
    <2>1. Busy' = Busy \cup {w} /\ w \notin Busy
      BY <1>1, <1>3 DEF Begin, Busy
    <2>2. Cardinality(Busy \cup {w}) = Cardinality(Busy) + 1
      BY <1>2, <2>1, FS_AddElement
    <2>3. QED BY <2>1, <2>2
  <1>4. ASSUME Quit(w, r) PROVE Cardinality(Busy)' = Cardinality(Busy) - 1
    <2>1. Busy' = Busy \ {w} /\ w \in Busy
      BY <1>1, <1>4 DEF Quit, Busy
    <2>2. Cardinality(Busy \ {w}) = Cardinality(Busy) - 1
      BY <1>2, <2>1, FS_RemoveElement
    <2>3. QED BY <2>1, <2>2
  <1>5. ASSUME ~Begin(w, r), ~Quit(w, r) PROVE Busy' = Busy
    <2>1. workers[w].pc \notin {"off", "new"} /\ r.pc \notin {"off", "new"}
      BY <1>5 DEF Moves, TakeOne, Hold, GetPiece, CountOne, Overrun, Arrive, Holding
    <2>2. QED BY <1>1, <2>1 DEF Busy
  <1>6. QED BY <1>3, <1>4, <1>5

\* The pieces are finitely many.
LEMMA PieceSets ==
  /\ IsFiniteSet(Pieces) /\ Cardinality(Pieces) = PartLength * NumChunks
  /\ \A S \in SUBSET Pieces : IsFiniteSet(S) /\ Cardinality(S) \in Nat
PROOF
  <1>1. IsFiniteSet(0..(NumChunks - 1)) /\ Cardinality(0..(NumChunks - 1)) = NumChunks
    <2>1. 0 \in Int /\ NumChunks - 1 \in Int /\ ~(0 > NumChunks - 1) /\ NumChunks - 1 - 0 + 1 = NumChunks
      BY Parameters
    <2>2. QED BY <2>1, FS_Interval
  <1>2. IsFiniteSet(1..2) /\ Cardinality(1..2) = 2
    <2>1. 1 \in Int /\ 2 \in Int /\ ~(1 > 2) /\ 2 - 1 + 1 = 2
      OBVIOUS
    <2>2. QED BY <2>1, FS_Interval
  <1>3. Pieces = (0..(NumChunks - 1)) \X (1..2)
    BY DEF Pieces, Units, PartLength
  <1>4. IsFiniteSet(Pieces) /\ Cardinality(Pieces) = NumChunks * 2
    <2> DEFINE S == 0..(NumChunks - 1)
               T == 1..2
    <2>1. IsFiniteSet(S) /\ IsFiniteSet(T) /\ Cardinality(S) = NumChunks /\ Cardinality(T) = 2 /\ Pieces = S \X T
      BY <1>1, <1>2, <1>3
    <2> HIDE DEF S, T
    <2>2. IsFiniteSet(S \X T) /\ Cardinality(S \X T) = Cardinality(S) * Cardinality(T)
      BY <2>1, FS_Product, Zenon
    <2>3. QED BY <2>1, <2>2
  <1>5. ASSUME NEW S \in SUBSET Pieces PROVE IsFiniteSet(S) /\ Cardinality(S) \in Nat
    BY <1>4, FS_Subset, FS_CardinalityType
  <1>6. QED BY <1>4, <1>5, Parameters DEF PartLength

\* A finite set without two of its members.
LEMMA TwoLess ==
  ASSUME NEW S, IsFiniteSet(S), NEW x \in S, NEW y \in S, x # y
  PROVE  Cardinality((S \ {x}) \ {y}) = Cardinality(S) - 2
PROOF
  <1> DEFINE T == S \ {x}
  <1>1. IsFiniteSet(T) /\ Cardinality(T) = Cardinality(S) - 1 /\ y \in T /\ Cardinality(S) \in Nat
    BY FS_RemoveElement, FS_CardinalityType
  <1> HIDE DEF T
  <1>2. Cardinality(T \ {y}) = Cardinality(T) - 1
    BY <1>1, FS_RemoveElement
  <1>3. Cardinality(T \ {y}) = Cardinality(S) - 2
    BY <1>1, <1>2
  <1>4. QED BY <1>3 DEF T

\* The tracker counts the pieces that are there, whatever a worker does: one more,
\* or those of a failed attempt less, which are all still counted.
LEMMA LiveChanges ==
  ASSUME IInv, NEW w \in WorkerIds, NEW r \in WorkerRecord, Moves(w, r), ~GoesOn,
         tracker.counted = Cardinality(Live)
  PROVE  tracker'.counted = Cardinality(Live')
PROOF
  <1> DEFINE c == workers[w].chunk
             f == from[c]
             h == have[c]
  <1>1. /\ have \in [Units -> Offsets] /\ from \in [Units -> Offsets] /\ c \in Units
        /\ tracker \in Counters
    BY DEF IInv, Typed, WorkerRecord
  <1>2. f \in 0..2 /\ h \in 0..2 /\ f <= h
    BY <1>1, Parameters DEF IInv, PiecesHeld, Offsets, PartLength
  <1>3. Live \in SUBSET Pieces /\ IsFiniteSet(Live) /\ Cardinality(Live) \in Nat
    BY PieceSets DEF Live
  <1>4. \A p \in Units, k \in 1..2 : <<p, k>> \in Live <=> from[p] < k /\ k <= have[p]
    BY DEF Live, Pieces, PartLength
  <1>5. Live' = {x \in Pieces : from'[x[1]] < x[2] /\ x[2] <= have'[x[1]]}
    BY DEF Live, Pieces, Units
  <1>6. CASE UNCHANGED <<have, from>> /\ tracker'.counted = tracker.counted
    <2>1. Live' = Live
      BY <1>5, <1>6 DEF Live
    <2>2. QED BY <1>6, <2>1
  <1>7. CASE GetPiece(w, r)
    <2>1. have' = [have EXCEPT ![c] = h + 1] /\ from' = from /\ tracker' = AddBytes(tracker, 1) /\ h \in {0, 1}
      BY <1>2, <1>7 DEF GetPiece, Full, Got, PartLength
    <2>2. Live' = Live \cup {<<c, h + 1>>}
      <3>1. \A x \in Pieces : x[1] \in Units /\ x[2] \in 1..2 /\ x = <<x[1], x[2]>>
        BY DEF Pieces, PartLength
      <3>2. <<c, h + 1>> \in Pieces
        BY <1>1, <2>1 DEF Pieces, PartLength
      <3>3. \A x \in Pieces : x[1] # c => have'[x[1]] = have[x[1]]
        BY <1>1, <2>1, <3>1
      <3>4. have'[c] = h + 1
        BY <1>1, <2>1
      <3>5. ASSUME NEW x \in Pieces PROVE x \in Live' <=> x \in Live \cup {<<c, h + 1>>}
        <4>1. CASE x[1] # c
          BY <1>5, <2>1, <3>1, <3>3, <4>1 DEF Live
        <4>2. CASE x[1] = c
          <5>1. x \in Live' <=> f < x[2] /\ x[2] <= h + 1
            BY <1>5, <2>1, <3>4, <4>2
          <5>2. x \in Live <=> f < x[2] /\ x[2] <= h
            BY <4>2 DEF Live
          <5>3. x = <<c, h + 1>> <=> x[2] = h + 1
            BY <3>1, <4>2
          <5>4. f < h + 1
            BY <1>2
          <5>5. x[2] \in 1..2
            BY <3>1
          <5>6. QED BY <1>2, <2>1, <5>1, <5>2, <5>3, <5>4, <5>5
        <4>3. QED BY <4>1, <4>2
      <3>6. QED BY <1>3, <1>5, <3>2, <3>5
    <2>3. <<c, h + 1>> \notin Live
      <3>1. <<c, h + 1>>[1] = c /\ <<c, h + 1>>[2] = h + 1 /\ ~(h + 1 <= have[c])
        BY <1>2
      <3>2. QED BY <3>1, Zenon DEF Live
    <2>4. Cardinality(Live \cup {<<c, h + 1>>}) = Cardinality(Live) + 1
      BY <1>3, <2>3, FS_AddElement
    <2>5. tracker'.counted = tracker.counted + 1
      BY <1>1, <2>1 DEF AddBytes, Counters
    <2>6. QED BY <2>2, <2>4, <2>5
  <1>8. CASE RollBack(w) /\ have' = have
    <2>1. tracker' = SubBytes(tracker, h - f) /\ from' = [from EXCEPT ![c] = h] /\ have' = have
      BY <1>8 DEF RollBack
    <2>2. Live' = (Live \ {x \in Live : x[1] = c})
      <3>1. \A x \in Pieces : x[1] # c => from'[x[1]] = from[x[1]]
        BY <1>1, <2>1 DEF Pieces
      <3>2. from'[c] = h
        BY <1>1, <2>1
      <3>3. ASSUME NEW x \in Pieces PROVE x \in Live' <=> x \in Live /\ x[1] # c
        <4>1. CASE x[1] # c
          BY <1>5, <2>1, <3>1, <4>1 DEF Live
        <4>2. CASE x[1] = c
          <5>1. x[2] \in 1..2
            BY DEF Pieces, PartLength
          <5>2. ~(h < x[2] /\ x[2] <= h)
            BY <1>2, <5>1
          <5>3. QED BY <1>5, <2>1, <3>2, <4>2, <5>2
        <4>3. QED BY <4>1, <4>2
      <3>4. QED BY <1>3, <1>5, <3>3
    <2>3. ASSUME NEW x \in Live, x[1] = c PROVE x = <<c, x[2]>> /\ x[2] \in 1..2 /\ f < x[2] /\ x[2] <= h
      BY <2>3 DEF Live, Pieces, PartLength
    <2>4. Cardinality(Live') = Cardinality(Live) - (h - f)
      <3>1. CASE h = f
        <4>1. {x \in Live : x[1] = c} = {}
          BY <1>2, <2>3, <3>1
        <4>2. Live' = Live
          BY <2>2, <4>1
        <4>3. QED BY <1>2, <1>3, <3>1, <4>2
      <3>2. CASE h = f + 1
        <4>1. <<c, h>> \in Live
          <5>1. h \in 1..2 /\ from[c] < h /\ h <= have[c]
            BY <1>2, <3>2
          <5>2. QED BY <1>1, <1>4, <5>1, Zenon
        <4>2. {x \in Live : x[1] = c} = {<<c, h>>}
          <5>1. ASSUME NEW x \in Live, x[1] = c PROVE x = <<c, h>>
            <6>1. x[2] = h
              BY <1>2, <2>3, <3>2, <5>1
            <6>2. QED BY <2>3, <5>1, <6>1
          <5>2. QED BY <4>1, <5>1
        <4>3. Live' = Live \ {<<c, h>>}
          BY <2>2, <4>2
        <4>4. Cardinality(Live \ {<<c, h>>}) = Cardinality(Live) - 1
          BY <1>3, <4>1, FS_RemoveElement
        <4>5. QED BY <1>2, <3>2, <4>3, <4>4
      <3>3. CASE h = f + 2
        <4>1. f = 0 /\ h = 2
          BY <1>2, <3>3
        <4>2. <<c, 1>> \in Live /\ <<c, 2>> \in Live /\ <<c, 1>> # <<c, 2>>
          BY <1>1, <1>4, <4>1
        <4>3. {x \in Live : x[1] = c} = {<<c, 1>>, <<c, 2>>}
          <5>1. ASSUME NEW x \in Live, x[1] = c PROVE x = <<c, 1>> \/ x = <<c, 2>>
            <6>1. x[2] = 1 \/ x[2] = 2
              BY <2>3, <5>1
            <6>2. QED BY <2>3, <5>1, <6>1
          <5>2. QED BY <4>2, <5>1
        <4>4. Live' = (Live \ {<<c, 1>>}) \ {<<c, 2>>}
          BY <2>2, <4>3
        <4>5. Cardinality((Live \ {<<c, 1>>}) \ {<<c, 2>>}) = Cardinality(Live) - 2
          BY <1>3, <4>2, TwoLess
        <4>6. QED BY <1>3, <4>1, <4>4, <4>5
      <3>4. QED BY <1>2, <3>1, <3>2, <3>3
    <2>5. Cardinality(Live') \in Nat
      BY <1>5, PieceSets
    <2>6. tracker'.counted = tracker.counted - (h - f)
      <3>1. ~(tracker.counted < h - f)
        BY <1>2, <1>3, <2>4, <2>5
      <3>2. tracker'.counted = IF tracker.counted < h - f THEN 0 ELSE tracker.counted - (h - f)
        BY <1>1, <2>1 DEF SubBytes, Counters
      <3>3. QED BY <3>1, <3>2
    <2>7. QED BY <2>4, <2>6
  <1>9. CASE Begin(w, r) \/ Quit(w, r) \/ Arrive(w, r)
    <2>1. UNCHANGED <<have, from>>
          /\ tracker' \in {WorkerStarted(tracker), WorkerFinished(tracker), ChunkCompleted(tracker)}
      BY <1>9 DEF Begin, Quit, Arrive
    <2>2. tracker'.counted = tracker.counted
      BY <1>1, <2>1 DEF Counters, WorkerStarted, WorkerFinished, ChunkCompleted
    <2>3. QED BY <1>6, <2>1, <2>2
  <1>10. QED BY <1>6, <1>7, <1>8, <1>9 DEF Moves, TakeOne, Hold, CountOne, Overrun

LEMMA CountsKept ==
  ASSUME IInv, [Next]_vars
  PROVE  CountsHeld'
PROOF
  <1>1. tracker \in Counters /\ NumChunks \in Nat /\ NumChunks > 0 /\ info.len \in Nat
    BY Parameters DEF IInv, Typed, Info
  <1>2. ASSUME ready' = {}, \A w \in WorkerIds : workers'[w].pc \in {"off", "new"}
        PROVE  Cardinality(ready)' = 0 /\ Cardinality(Busy)' = 0
    <2>1. Busy' = {}
      BY <1>2 DEF Busy
    <2>2. QED BY <1>2, <2>1, FS_EmptySet
  <1>20. ASSUME jobs' = 0 PROVE Cardinality(Live)' = 0
    <2>1. PiecesHeld' /\ Typed'
      BY PiecesKept, TypedKept
    <2>2. \A p \in Units : have'[p] = 0 /\ from'[p] \in Nat
      BY <1>20, <2>1, Parameters DEF PiecesHeld, Typed, Offsets, Units, PartLength
    <2>3. \A x \in Pieces : x[1] \in Units /\ x[2] \in 1..2
      BY DEF Pieces, PartLength
    <2>4. Live' = {}
      BY <2>2, <2>3 DEF Live, Pieces, Units
    <2>5. QED BY <2>4, FS_EmptySet
  <1>3. CASE main' \in Starting
    <2>1. tracker' = NoTracker /\ ready' = {} /\ jobs' = 0 /\ \A w \in WorkerIds : workers'[w].pc \in {"off", "new"}
      BY <1>3, FreshKept DEF FreshHeld
    <2>2. NoTracker.completed = 0 /\ NoTracker.active = 0 /\ NoTracker.counted = 0
      BY DEF NoTracker
    <2>3. main' \notin Running
      BY <1>3 DEF Starting, Running
    <2>4. QED BY <1>2, <1>20, <2>1, <2>2, <2>3 DEF CountsHeld
  <1>4. CASE sink' = "single"
    BY <1>4 DEF CountsHeld
  <1>5. CASE main' \notin Starting /\ sink' # "single"
    <2>1. sink' = sink /\ sink # "single"
      BY <1>5, SinkKept
    <2>2. CountsHeld
      BY DEF IInv
    <2>3. CASE StartParts
      <3>1. tracker' = NewProgressTracker(PartLength * info.len)
        BY <2>3 DEF StartParts
      <3>2. /\ tracker'.completed = 0 /\ tracker'.active = 0 /\ tracker'.counted = 0 /\ tracker'.total = PartLength * info.len
        BY <3>1 DEF NewProgressTracker, NoTracker
      <3>3. ready' = {} /\ info' = info /\ jobs' = 0 /\ \A w \in WorkerIds : workers'[w].pc \in {"off", "new"}
        BY <2>3, NewWorkers
      <3>4. QED BY <1>2, <1>20, <3>2, <3>3 DEF CountsHeld
    <2>4. ASSUME NEW w \in WorkerIds, WorkerStep(w) PROVE CountsHeld'
      <3>1. PICK r \in WorkerRecord : workers' = [workers EXCEPT ![w] = r] /\ Moves(w, r)
        BY <2>4, WorkerChanges
      <3>2. info' = info /\ main \in Running \cup Over /\ (main' \in Running => main \in Running)
        <4>1. info' = info
          BY <2>4, WorkerSettled
        <4>2. main \in Starting \cup Running \cup Over /\ (main' = main \/ main' = "dead")
          BY <2>4, WorkerMoves DEF IInv, Typed
        <4>3. QED BY <2>4, <4>1, <4>2, WorkersWork DEF Running
      <3>3. /\ \A n \in Nat : /\ AddBytes(tracker, n).counted = tracker.counted + n
                              /\ AddBytes(tracker, n).active = tracker.active
                              /\ AddBytes(tracker, n).completed = tracker.completed
                              /\ AddBytes(tracker, n).total = tracker.total
                              /\ SubBytes(tracker, n).counted \in Nat
                              /\ SubBytes(tracker, n).active = tracker.active
                              /\ SubBytes(tracker, n).completed = tracker.completed
                              /\ SubBytes(tracker, n).total = tracker.total
        BY <1>1 DEF Counters, AddBytes, SubBytes
      <3>4. /\ WorkerStarted(tracker).active = tracker.active + 1 /\ WorkerFinished(tracker).active = tracker.active - 1
            /\ ChunkCompleted(tracker).active = tracker.active
            /\ ChunkCompleted(tracker).completed = tracker.completed + 1
            /\ WorkerStarted(tracker).completed = tracker.completed /\ WorkerFinished(tracker).completed = tracker.completed
            /\ WorkerStarted(tracker).counted = tracker.counted /\ WorkerFinished(tracker).counted = tracker.counted
            /\ ChunkCompleted(tracker).counted = tracker.counted
            /\ WorkerStarted(tracker).total = tracker.total /\ WorkerFinished(tracker).total = tracker.total
            /\ ChunkCompleted(tracker).total = tracker.total
        BY <1>1 DEF Counters, WorkerStarted, WorkerFinished, ChunkCompleted
      <3>40. /\ have[workers[w].chunk] - from[workers[w].chunk] \in Nat
             /\ PartLength * NumChunks - Got(w) \in Nat /\ 1 \in Nat
        BY PartOffsets DEF IInv, Got
      <3>41. Hold(w, r) \/ GetPiece(w, r) \/ CountOne(w, r) \/ Overrun(w, r) \/ TakeOne(w, r) =>
               tracker' = tracker \/ \E n \in Nat : tracker' \in {AddBytes(tracker, n), SubBytes(tracker, n)}
        BY <3>40 DEF Hold, RollBack, GetPiece, CountOne, Overrun, TakeOne
      <3>5. tracker'.total = tracker.total
        BY <1>1, <3>1, <3>3, <3>4, <3>41 DEF Moves, Begin, Quit, Arrive
      <3>6. tracker'.active = Cardinality(Busy)'
        <4>1. CASE Begin(w, r)
          BY <2>1, <2>2, <3>1, <3>4, <4>1, BusyChanges DEF CountsHeld, Begin
        <4>2. CASE Quit(w, r)
          BY <2>1, <2>2, <3>1, <3>4, <4>2, BusyChanges DEF CountsHeld, Quit
        <4>3. CASE ~Begin(w, r) /\ ~Quit(w, r)
          <5>1. tracker'.active = tracker.active
            BY <1>1, <3>1, <3>3, <3>4, <3>41, <4>3 DEF Moves, Arrive
          <5>2. Busy' = Busy
            BY <3>1, <4>3, BusyChanges
          <5>3. QED BY <2>1, <2>2, <5>1, <5>2 DEF CountsHeld
        <4>4. QED BY <4>1, <4>2, <4>3
      <3>7. tracker'.completed = Cardinality(ready)'
        <4>1. CASE Arrive(w, r)
          <5>1. workers[w].chunk \notin ready /\ workers[w].chunk \in Units /\ ready \in SUBSET Units
            <6>1. workers[w].pc \in Holding
              BY <4>1 DEF Arrive, Holding
            <6>2. workers[w].chunk \in Units /\ ready \in SUBSET Units
              BY DEF IInv, Typed, WorkerRecord
            <6>3. QED BY <6>1, <6>2 DEF IInv, PartsHeld, Holds
          <5>2. Cardinality(ready \cup {workers[w].chunk}) = Cardinality(ready) + 1
            BY <5>1, OneMoreUnit
          <5>3. QED BY <2>1, <2>2, <3>4, <4>1, <5>2 DEF CountsHeld, Arrive
        <4>2. CASE ~Arrive(w, r)
          <5>1. tracker'.completed = tracker.completed
            BY <1>1, <3>1, <3>3, <3>4, <3>41, <4>2 DEF Moves, Begin, Quit
          <5>10. ready' = ready
            BY <3>1, <4>2 DEF Moves, Begin, TakeOne, Quit, Hold, GetPiece, CountOne, Overrun
          <5>2. QED BY <2>1, <2>2, <5>1, <5>10 DEF CountsHeld
        <4>3. QED BY <4>1, <4>2
      <3>8. ~GoesOn' => tracker'.counted = Cardinality(Live)'
        <4>1. GoesOn' = GoesOn
          BY Settled DEF GoesOn
        <4>2. QED BY <2>1, <2>2, <3>1, <4>1, LiveChanges DEF CountsHeld
      <3>9. QED BY <2>1, <2>2, <3>2, <3>5, <3>6, <3>7, <3>8 DEF CountsHeld
    <2>5. CASE ~StartParts /\ ~\E w \in WorkerIds : WorkerStep(w)
      <3>1. /\ tracker' \in {tracker, [tracker EXCEPT !.done = TRUE], [tracker EXCEPT !.cancelled = TRUE]}
            /\ main' \in Running => main \in Running
        BY <2>1, <2>5, CountsKeptByMain
      <3>2. /\ tracker'.completed = tracker.completed /\ tracker'.active = tracker.active
            /\ tracker'.counted = tracker.counted /\ tracker'.total = tracker.total
        BY <1>1, <3>1 DEF Counters
      <3>3. UNCHANGED <<workers, jobs, have, from, ready>>
        BY <2>5, WorkersKept DEF IInv
      <3>4. Busy' = Busy /\ Live' = Live /\ GoesOn' = GoesOn
        BY <3>3, Settled DEF Busy, Live, GoesOn
      <3>5. main' \in Running => info' = info
        <4>1. main' \in Running => main \notin {"probe", "reprobe"}
          BY <3>1 DEF Running
        <4>2. QED BY <4>1, InfoKept
      <3>6. QED BY <2>1, <2>2, <3>1, <3>2, <3>3, <3>4, <3>5 DEF CountsHeld
    <2>6. QED BY <2>3, <2>4, <2>5
  <1>6. QED BY <1>3, <1>4, <1>5

-----------------------------------------------------------------------------
(* Several parts into a file.                                              *)

LEMMA MultiSteps ==
  ASSUME IInv, [Next]_vars, sink = "multi", main' \notin Starting
  PROVE  /\ UNCHANGED <<server, info, sink>>
         /\ \/ StartParts
            \/ \E w \in WorkerIds : WorkerStep(w)
            \/ /\ UNCHANGED <<workers, jobs, have, from, ready, file, failed>>
               /\ main' \in Running => main \in Running
               /\ main' = "transfer" => main = "transfer"
PROOF
  <1>1. sink' = sink /\ UNCHANGED server
    BY SinkKept, Settled
  <1>2. info' = info
    BY <1>1, InfoKept
  <1>3. main \notin {"probe", "write"}
    BY DEF IInv, PhaseHeld
  <1>4. ~Probed /\ ~StartSingle /\ ~Copy /\ ~Write
    BY <1>3 DEF Probed, StartSingle, Copy, Write
  <1>5. ASSUME NEW w \in WorkerIds, FetchPart(w) \/ FetchWhole(w) PROVE WorkerStep(w)
    BY <1>5 DEF WorkerStep
  <1>6. CASE ~StartParts /\ ~\E w \in WorkerIds : WorkerStep(w)
    <2>1. UNCHANGED file
      BY <1>4, <1>5, <1>6, FileKept
    <2>2. UNCHANGED <<workers, jobs, have, from, ready>> /\ failed' = failed
      BY <1>6, WorkersKept DEF IInv
    <2>3. QED BY <1>1, <1>2, <1>6, <2>1, <2>2, CountsKeptByMain
  <1>7. QED BY <1>1, <1>2, <1>6

\* Before a part is taken none has anything.
LEMMA NothingYet ==
  ASSUME IInv, [Next]_vars, jobs' = 0
  PROVE  \A p \in Units : have'[p] = 0 /\ from'[p] = 0 /\ ~(have'[p] >= PartLength)
PROOF
  <1>1. PiecesHeld' /\ Typed'
    BY PiecesKept, TypedKept
  <1>2. \A p \in Units : have'[p] = 0 /\ from'[p] \in Nat /\ from'[p] <= have'[p]
    BY <1>1, Parameters DEF PiecesHeld, Typed, Offsets, Units, PartLength
  <1>3. QED BY <1>2 DEF PartLength

LEMMA MultiKept ==
  ASSUME IInv, [Next]_vars
  PROVE  MultiHeld'
PROOF
  <1>1. CASE main' \in Starting
    <2>1. jobs' = 0 /\ ready' = {} /\ (\A w \in WorkerIds : workers'[w].pc = "off") /\ main' \notin Running
      BY <1>1, FreshKept DEF FreshHeld, Starting, Running
    <2>2. (\A p \in Units : ~(have'[p] >= PartLength)) /\ 0..(jobs' - 1) = {}
      BY <2>1, NothingYet
    <2>3. main' # "transfer"
      BY <1>1 DEF Starting
    <2>4. QED BY <2>1, <2>2, <2>3 DEF MultiHeld
  <1>2. CASE sink' # "multi"
    BY <1>2 DEF MultiHeld
  <1>3. CASE main' \notin Starting /\ sink' = "multi"
    <2>1. sink = "multi" /\ MultiHeld /\ UNCHANGED <<server, info, sink>>
      BY <1>3, SinkKept, MultiSteps DEF IInv
    <2>2. jobs \in Nat /\ info.len \in Nat /\ NumChunks \in Nat /\ jobs <= info.len
      BY Parameters DEF IInv, Typed, Info, PartsHeld
    <2>3. file \in [size : 0..NumChunks, units : SUBSET Units]
      BY DEF IInv, Typed
    <2>4. CASE StartParts
      <3>1. /\ jobs' = 0 /\ ready' = {} /\ workers'[1].pc = "new"
            /\ \A w \in WorkerIds : workers'[w].pc \in {"new", "off"}
        BY <2>4, NewWorkers
      <3>2. (\A p \in Units : ~(have'[p] >= PartLength)) /\ 0..(jobs' - 1) = {}
        BY <3>1, NothingYet
      <3>3. file' = [size |-> info.len, units |-> {}]
        BY <2>1, <2>4 DEF StartParts
      <3>4. QED BY <2>1, <3>1, <3>2, <3>3 DEF MultiHeld
    <2>5. ASSUME NEW w \in WorkerIds, WorkerStep(w) PROVE MultiHeld'
      <3>1. PICK r \in WorkerRecord : workers' = [workers EXCEPT ![w] = r] /\ Moves(w, r)
        BY <2>5, WorkerChanges
      <3>2. workers'[w] = r /\ \A v \in WorkerIds \ {w} : workers'[v] = workers[v]
        BY <3>1 DEF IInv, Typed
      <3>3. ctxDone' = ctxDone /\ main = "transfer"
        BY <2>1, <2>5, WorkerSettled, WorkersWork
      <3>4. failed' = failed \/ (failed' = TRUE /\ workers[w].pc = "giveup")
        BY <3>1 DEF Moves, Begin, TakeOne, Quit, Hold, GetPiece, CountOne, Overrun, Arrive
      <3>5. ASSUME ~Stopping' PROVE ~Stopping
        BY <3>3, <3>4, <3>5 DEF Stopping
      <3>6. ASSUME ~Stopping', NEW p \in 0..(jobs' - 1)
            PROVE  p \in ready' \/ \E v \in WorkerIds : Holds(v)' /\ workers'[v].chunk = p
        <4>1. \A q \in 0..(jobs - 1) : q \in ready \/ \E v \in WorkerIds : Holds(v) /\ workers[v].chunk = q
          BY <2>1, <3>5, <3>6 DEF MultiHeld
        <4>2. CASE TakeOne(w, r)
          <5>1. jobs' = jobs + 1 /\ r.pc \in Holding /\ r.chunk = jobs /\ ~Holds(w) /\ ready' = ready
            BY <4>2 DEF TakeOne, Holds, Holding
          <5>2. CASE p = jobs
            BY <3>2, <5>1, <5>2 DEF Holds
          <5>3. CASE p # jobs
            <6>1. p \in 0..(jobs - 1)
              BY <2>2, <3>6, <5>1, <5>3
            <6>2. QED BY <3>2, <4>1, <5>1, <6>1 DEF Holds
          <5>4. QED BY <5>2, <5>3
        <4>3. CASE Begin(w, r) \/ Quit(w, r)
          <5>1. workers[w].pc # "giveup" \/ Begin(w, r)
            BY <3>5, <3>6, <4>3 DEF Quit, Stopping
          <5>2. ~Holds(w) /\ ready' = ready /\ jobs' = jobs
            BY <3>5, <3>6, <4>3, <5>1 DEF Begin, Quit, Holds, Holding
          <5>3. QED BY <3>2, <3>6, <4>1, <5>2 DEF Holds
        <4>4. CASE Hold(w, r) \/ GetPiece(w, r) \/ CountOne(w, r) \/ Overrun(w, r)
          <5>1. r.pc \in Holding /\ r.chunk = workers[w].chunk /\ ready' = ready /\ jobs' = jobs
            BY <4>4 DEF Hold, GetPiece, CountOne, Overrun, Holding
          <5>2. QED BY <3>2, <3>6, <4>1, <5>1 DEF Holds
        <4>5. CASE Arrive(w, r)
          <5>1. ready' = ready \cup {workers[w].chunk} /\ jobs' = jobs
            BY <4>5 DEF Arrive
          <5>2. QED BY <3>2, <3>6, <4>1, <5>1 DEF Holds
        <4>6. QED BY <3>1, <4>2, <4>3, <4>4, <4>5 DEF Moves
      <3>7. ASSUME ~Stopping', workers'[1].pc = "off" PROVE jobs' = info.len
        <4>1. CASE w = 1
          <5>1. Quit(w, r)
            BY <3>1, <3>2, <3>7, <4>1 DEF Moves, Begin, TakeOne, Hold, GetPiece, CountOne, Overrun, Arrive, Holding
          <5>2. jobs >= info.len /\ jobs' = jobs
            BY <3>5, <3>7, <5>1 DEF Quit, Stopping
          <5>3. QED BY <2>2, <5>2
        <4>2. CASE w # 1
          <5>1. 1 \in WorkerIds
            BY Parameters DEF WorkerIds
          <5>2. workers[1].pc = "off"
            BY <3>2, <3>7, <4>2, <5>1
          <5>3. jobs = info.len
            BY <2>1, <3>3, <3>5, <3>7, <5>2 DEF MultiHeld
          <5>4. jobs' = jobs
            BY <2>2, <3>1, <5>3 DEF Moves, Begin, TakeOne, Quit, Hold, GetPiece, CountOne, Overrun, Arrive
          <5>5. QED BY <5>3, <5>4
        <4>3. QED BY <4>1, <4>2
      <3>8. /\ \A p \in Units : have'[p] >= PartLength => p \in file'.units
            /\ file'.size \in {file.size, NumChunks}
        <4>1. workers[w].chunk \in Units /\ have \in [Units -> Offsets] /\ PartLength = 2
          BY DEF IInv, Typed, WorkerRecord, PartLength
        <4>2. \A p \in Units : have[p] >= PartLength => p \in file.units
          BY <2>1 DEF MultiHeld
        <4>3. \A S \in SUBSET Units : Written(S) = [file EXCEPT !.units = file.units \cup S]
          BY <2>1 DEF Written
        <4>4. CASE GetPiece(w, r)
          <5>1. have' = [have EXCEPT ![workers[w].chunk] = @ + 1] /\ Got(w) \in Nat /\ Got(w) < 2
            <6>1. Got(w) \in Nat
              BY PartOffsets DEF IInv, Got
            <6>2. QED BY <4>1, <4>4, <6>1 DEF GetPiece, Full
          <5>2. \A p \in Units : have'[p] >= PartLength => have[p] >= PartLength \/ (p = workers[w].chunk /\ Got(w) + 1 = 2)
            BY <4>1, <5>1 DEF Got
          <5>3. CASE Got(w) + 1 = 2
            <6>1. file' = Written({workers[w].chunk})
              BY <4>1, <4>4, <5>3 DEF GetPiece
            <6>2. file'.units = file.units \cup {workers[w].chunk} /\ file'.size = file.size
              BY <2>3, <4>1, <4>3, <6>1
            <6>3. QED BY <4>2, <5>2, <6>2
          <5>4. CASE Got(w) + 1 # 2
            <6>1. file' = file
              BY <4>1, <4>4, <5>4 DEF GetPiece
            <6>2. QED BY <4>2, <5>2, <5>4, <6>1
          <5>5. QED BY <5>3, <5>4
        <4>5. CASE Overrun(w, r)
          <5>1. Written(Units) = [file EXCEPT !.units = file.units \cup Units]
            BY <4>3
          <5>2. file' = [Written(Units) EXCEPT !.size = IF sink = "multi" THEN NumChunks ELSE @]
            BY <4>5 DEF Overrun
          <5>3. file'.units = file.units \cup Units /\ file'.size = NumChunks
            BY <2>1, <2>3, <5>1, <5>2
          <5>4. QED BY <5>3
        <4>6. CASE file' = file /\ have' = have
          BY <4>2, <4>6
        <4>7. QED BY <3>1, <4>4, <4>5, <4>6 DEF Moves, Begin, TakeOne, Quit, Hold, CountOne, Arrive
      <3>9. file.size \in {info.len, NumChunks}
        BY <2>1, <3>3 DEF MultiHeld, Running
      <3>10. QED BY <2>1, <3>6, <3>7, <3>8, <3>9 DEF MultiHeld
    <2>6. CASE ~StartParts /\ ~\E w \in WorkerIds : WorkerStep(w)
      <3>1. /\ UNCHANGED <<workers, jobs, have, from, ready, file, failed>>
            /\ main' \in Running => main \in Running
            /\ main' = "transfer" => main = "transfer"
        BY <1>3, <2>1, <2>6, MultiSteps
      <3>2. ctxDone => ctxDone'
        BY Settled
      <3>3. ~Stopping' => ~Stopping
        BY <3>1, <3>2 DEF Stopping
      <3>4. QED BY <2>1, <3>1, <3>3 DEF MultiHeld, Holds
    <2>7. QED BY <2>4, <2>5, <2>6
  <1>4. QED BY <1>1, <1>2, <1>3

-----------------------------------------------------------------------------
(* Several parts into a writer.                                            *)

LEMMA PrefetchKept ==
  ASSUME IInv, [Next]_vars
  PROVE  PrefetchHeld'
PROOF
  <1>1. CASE main' \in Starting
    <2>1. file' = [size |-> 0, units |-> {}] /\ result' = "none"
      BY <1>1, StartingKept, PhaseKept DEF PhaseHeld
    <2>2. file'.size = 0 /\ file'.units = {} /\ 0..(0 - 1) = {}
      BY <2>1
    <2>3. QED BY <2>1, <2>2 DEF PrefetchHeld
  <1>2. CASE sink' # "prefetch"
    BY <1>2 DEF PrefetchHeld
  <1>3. CASE main' \notin Starting /\ sink' = "prefetch"
    <2>1. sink = "prefetch" /\ PrefetchHeld /\ info' = info
      <3>1. sink' = sink
        BY <1>3, SinkKept
      <3>2. QED BY <1>3, <3>1, InfoKept DEF IInv
    <2>2. file \in [size : 0..NumChunks, units : SUBSET Units] /\ PhaseHeld /\ NumChunks \in Nat
      BY Parameters DEF IInv, Typed
    <2>3. CASE Copy
      <3>1. ready' = ready /\ from' = from
        BY <2>3 DEF Copy, engine, parts
      <3>2. CASE file.size < info.len /\ file.size \in ready
                 /\ file' = [size |-> file.size + 1, units |-> file.units \cup {p \in {file.size} : from[p] = 0}]
                 /\ result' = result
        <4>1. /\ file'.size = file.size + 1 /\ file'.units = file.units \cup {p \in {file.size} : from[p] = 0}
              /\ file.size \in Nat
          BY <2>2, <3>2
        <4>2. 0..(file'.size - 1) = 0..(file.size - 1) \cup {file.size}
          BY <4>1
        <4>3. result # "ok"
          BY <2>1, <2>2, <2>3 DEF Copy, PhaseHeld
        <4>4. QED BY <2>1, <3>1, <3>2, <4>1, <4>2, <4>3 DEF PrefetchHeld
      <3>3. CASE file' = file /\ (result' = "ok" => file.size = info.len)
        BY <2>1, <3>1, <3>3 DEF PrefetchHeld
      <3>4. QED BY <2>3, <3>2, <3>3 DEF Copy
    <2>4. ASSUME NEW w \in WorkerIds, WorkerStep(w) PROVE PrefetchHeld'
      <3>1. PICK r \in WorkerRecord : workers' = [workers EXCEPT ![w] = r] /\ Moves(w, r)
        BY <2>4, WorkerChanges
      <3>2. result' = result
        BY <2>4, WorkerSettled
      <3>3. \A S : Written(S) = file
        BY <2>1 DEF Written
      <3>4. [file EXCEPT !.size = IF sink = "multi" THEN NumChunks ELSE @] = file
        BY <2>1, <2>2
      <3>5. file' = file
        BY <3>1, <3>3, <3>4 DEF Moves, Begin, TakeOne, Quit, Hold, GetPiece, CountOne, Overrun, Arrive
      <3>6. ready \subseteq ready'
        BY <3>1 DEF Moves, Begin, TakeOne, Quit, Hold, GetPiece, CountOne, Overrun, Arrive
      <3>7. \A p \in ready : from'[p] = from[p]
        <4>1. \A p \in ready : p \in Units /\ (p # workers[w].chunk \/ ~Holds(w))
          BY DEF IInv, Typed, PartsHeld
        <4>2. QED BY <3>1, <4>1, PartGrows
      <3>8. QED BY <2>1, <3>2, <3>5, <3>6, <3>7 DEF PrefetchHeld
    <2>5. CASE ~Copy /\ ~\E w \in WorkerIds : WorkerStep(w)
      <3>1. main \notin {"probe", "reprobe", "write", "finish", "sync"}
        BY <2>1, <2>2 DEF PhaseHeld
      <3>2. UNCHANGED <<ready, from>>
        <4>1. StartParts => UNCHANGED <<ready, from>>
          BY DEF StartParts, parts
        <4>2. QED BY <2>5, <4>1, WorkersKept DEF IInv
      <3>3. UNCHANGED file
        <4>1. ~Probed /\ ~StartSingle /\ ~Write
          BY <2>1, <3>1 DEF Probed, StartSingle, Write
        <4>2. StartParts => UNCHANGED file
          BY <2>1 DEF StartParts
        <4>3. ASSUME NEW w \in WorkerIds PROVE ~FetchPart(w) /\ ~FetchWhole(w)
          BY <2>5 DEF WorkerStep
        <4>4. QED BY <2>5, <4>1, <4>2, <4>3, FileKept
      <3>4. result' = result \/ result' # "ok"
        <4>1. CASE StartStep
          BY <4>1 DEF StartStep, AskServer, Probed, Reprobed, CannotOpen, StartCancelled, StartParts, StartSingle, Return
        <4>2. CASE SingleStep
          <5>1. ~Eof
            BY <2>1 DEF Eof, Reading
          <5>2. QED BY <4>2, <5>1 DEF SingleStep, Receive, Write, ReadFails, Stall, IdleTimeoutSingle, Finish
        <4>3. CASE EndStep
          <5>1. ~Sync
            BY <3>1 DEF Sync
          <5>2. QED BY <2>5, <4>3, <5>1 DEF EndStep, Join, WriteFails, StopTracker, Report
        <4>4. CASE TickerStep \/ Cancel \/ UNCHANGED vars
          BY <4>4 DEF TickerStep, TickerTicks, TickerReports, TickerEnds, Cancel, vars
        <4>5. QED BY <2>5, <4>1, <4>2, <4>3, <4>4, StepCases
      <3>5. QED BY <2>1, <3>2, <3>3, <3>4 DEF PrefetchHeld
    <2>6. QED BY <2>3, <2>4, <2>5
  <1>4. QED BY <1>1, <1>2, <1>3

-----------------------------------------------------------------------------
(* One response.                                                           *)

LEMMA SingleKept ==
  ASSUME IInv, [Next]_vars
  PROVE  SingleHeld'
PROOF
  <1>1. CASE main' \in Starting
    <2>1. file' = [size |-> 0, units |-> {}] /\ tracker' = NoTracker /\ result' = "none"
      BY <1>1, StartingKept, PhaseKept DEF PhaseHeld
    <2>2. /\ file'.size = 0 /\ file'.units = {} /\ 0..(0 - 1) = {}
          /\ tracker'.completed = 0 /\ tracker'.active = 0
      BY <2>1 DEF NoTracker
    <2>3. main' \notin Running /\ main' \notin {"transfer", "write", "finish", "sync"}
      BY <1>1 DEF Starting, Running
    <2>4. QED BY <2>1, <2>2, <2>3 DEF SingleHeld, Succeeding
  <1>2. CASE sink' # "single"
    BY <1>2 DEF SingleHeld
  <1>3. CASE main' \notin Starting /\ sink' = "single"
    <2>1. sink = "single" /\ SingleHeld /\ UNCHANGED <<server, info>>
      <3>1. sink' = sink
        BY <1>3, SinkKept
      <3>2. QED BY <1>3, <3>1, InfoKept, Settled DEF IInv
    <2>2. file \in [size : 0..NumChunks, units : SUBSET Units] /\ PhaseHeld /\ NumChunks \in Nat
          /\ tracker \in Counters /\ main \notin {"probe", "reprobe"} /\ main \in Starting \cup Running \cup Over
      BY <2>1, Parameters DEF IInv, Typed, PhaseHeld
    <2>3. CASE StartStep
      <3>1. CASE StartSingle
        <4>1. /\ tracker' = WorkerStarted(NewProgressTracker(PartLength * info.len)) /\ file' = [size |-> 0, units |-> {}]
              /\ main' = "transfer" /\ result' = result /\ main = "start"
          BY <3>1 DEF StartSingle, Goto
        <4>2. /\ tracker'.completed = 0 /\ tracker'.active = 1 /\ tracker'.counted = 0 /\ tracker'.total = PartLength * info.len
              /\ file'.size = 0 /\ file'.units = {} /\ 0..(0 - 1) = {}
          BY <4>1 DEF WorkerStarted, NewProgressTracker, NoTracker, PartLength
        <4>3. result = "none"
          BY <2>2, <4>1 DEF PhaseHeld, Starting
        <4>4. PartLength * file'.size = 0
          BY <4>2 DEF PartLength
        <4>5. QED BY <2>1, <4>1, <4>2, <4>3, <4>4 DEF SingleHeld, Succeeding
      <3>2. CASE CannotOpen \/ StartCancelled
        <4>1. UNCHANGED <<tracker, file>> /\ main = "start" /\ main' = "ended" /\ result' = "error"
          BY <2>2, <3>2 DEF CannotOpen, StartCancelled, Return, Goto, progress
        <4>2. QED BY <2>1, <4>1 DEF SingleHeld, Succeeding, Running
      <3>3. ~AskServer /\ ~Probed /\ ~Reprobed /\ ~StartParts
        BY <2>1, <2>2 DEF AskServer, Probed, Reprobed, StartParts
      <3>4. QED BY <2>3, <3>1, <3>2, <3>3 DEF StartStep
    <2>4. CASE Receive \/ ReadFails \/ Stall \/ IdleTimeoutSingle
      <3>1. UNCHANGED <<tracker, file>>
        BY <2>4 DEF Receive, ReadFails, Stall, IdleTimeoutSingle, progress
      <3>2. CASE Receive
        <4>1. main = "transfer" /\ main' = "write" /\ result' = result /\ file.size < NumChunks
          BY <3>2 DEF Receive, Reading, Goto
        <4>2. QED BY <2>1, <2>2, <3>1, <4>1 DEF SingleHeld, PhaseHeld, Succeeding, Running
      <3>3. CASE ReadFails
        <4>1. main = "transfer" /\ main' = "finish" /\ result' = "error"
          BY <3>3 DEF ReadFails, Reading, Goto
        <4>2. QED BY <2>1, <3>1, <4>1 DEF SingleHeld, Succeeding, Running
      <3>4. CASE Stall \/ IdleTimeoutSingle
        <4>1. UNCHANGED <<main, result>>
          BY <3>4 DEF Stall, IdleTimeoutSingle
        <4>2. QED BY <2>1, <3>1, <4>1 DEF SingleHeld, Succeeding
      <3>5. QED BY <2>4, <3>2, <3>3, <3>4
    <2>5. CASE Write
      <3>1. /\ main = "write" /\ main' = "transfer" /\ result' = result /\ tracker' = AddBytes(tracker, PartLength)
            /\ file' = [size |-> file.size + 1, units |-> file.units \cup {file.size}]
        BY <2>5 DEF Write, Goto
      <3>2. /\ tracker'.counted = tracker.counted + PartLength /\ tracker'.total = tracker.total
            /\ tracker'.completed = tracker.completed /\ tracker'.active = tracker.active
        BY <2>2, <3>1 DEF AddBytes, Counters
      <3>3. file'.size = file.size + 1 /\ file'.units = file.units \cup {file.size} /\ file.size \in Nat
        BY <2>2, <3>1
      <3>4. 0..(file'.size - 1) = 0..(file.size - 1) \cup {file.size}
        BY <3>3
      <3>5. result = "none"
        BY <2>2, <3>1 DEF PhaseHeld
      <3>6. PartLength * file'.size = PartLength * file.size + PartLength
        BY <3>3 DEF PartLength
      <3>7. QED BY <2>1, <3>1, <3>2, <3>3, <3>4, <3>5, <3>6 DEF SingleHeld, Succeeding, Running
    <2>6. CASE Eof
      <3>1. /\ main = "transfer" /\ tracker' = ChunkCompleted(tracker) /\ UNCHANGED file
            /\ \/ main' = "sync" /\ result' = result
               \/ main' = "finish" /\ result' = "ok"
            /\ file.size = NumChunks \/ ~server.len
        BY <2>6 DEF Eof, Reading, Goto
      <3>2. /\ tracker'.counted = tracker.counted /\ tracker'.total = tracker.total
            /\ tracker'.completed = tracker.completed + 1 /\ tracker'.active = tracker.active
        BY <2>2, <3>1 DEF ChunkCompleted, Counters
      <3>3. QED BY <2>1, <3>1, <3>2 DEF SingleHeld, Succeeding, Running
    <2>7. CASE Finish
      <3>1. main = "finish" /\ main' = "mark" /\ tracker' = WorkerFinished(tracker) /\ UNCHANGED <<file, result>>
        BY <2>7 DEF Finish, Goto
      <3>2. /\ tracker'.counted = tracker.counted /\ tracker'.total = tracker.total
            /\ tracker'.completed = tracker.completed /\ tracker'.active = tracker.active - 1
        BY <2>2, <3>1 DEF WorkerFinished, Counters
      <3>3. QED BY <2>1, <3>1, <3>2 DEF SingleHeld, Succeeding, Running
    <2>8. CASE EndStep
      <3>1. UNCHANGED file
        BY <2>1, <2>8 DEF EndStep, Join, Copy, WriteFails, Sync, StopTracker, Report
      <3>2. CASE WriteFails
        <4>1. main = "write" /\ main' = "finish" /\ result' = "error" /\ UNCHANGED tracker
          BY <2>1, <3>2 DEF WriteFails, Goto, progress
        <4>2. QED BY <2>1, <3>1, <4>1 DEF SingleHeld, Succeeding, Running
      <3>3. CASE Sync
        <4>1. main = "sync" /\ main' = "finish" /\ UNCHANGED tracker
          BY <2>1, <3>3 DEF Sync, Goto, progress
        <4>2. QED BY <2>1, <3>1, <4>1 DEF SingleHeld, Succeeding, Running
      <3>4. CASE StopTracker
        <4>1. /\ main \in {"mark", "stop", "wait"} /\ main' \in {"stop", "wait", "ended"} /\ result' = result
              /\ tracker' \in {tracker, [tracker EXCEPT !.done = TRUE], [tracker EXCEPT !.cancelled = TRUE]}
          BY <3>4 DEF StopTracker, StopMark, StopCancel, Goto, progress
        <4>2. /\ tracker'.completed = tracker.completed /\ tracker'.active = tracker.active
              /\ tracker'.counted = tracker.counted /\ tracker'.total = tracker.total
          BY <2>2, <4>1 DEF Counters
        <4>3. QED BY <2>1, <3>1, <4>1, <4>2 DEF SingleHeld, Succeeding, Running
      <3>5. CASE Report
        <4>1. main \in {"ended", "emitted"} /\ main' \in {"emitted", "exited"} /\ UNCHANGED <<tracker, result>>
          BY <3>5 DEF Report, Goto, progress
        <4>2. QED BY <2>1, <3>1, <4>1 DEF SingleHeld, Succeeding, Running
      <3>6. ~Join /\ ~Copy
        BY <2>1 DEF Join, Copy
      <3>7. QED BY <2>8, <3>2, <3>3, <3>4, <3>5, <3>6 DEF EndStep
    <2>9. CASE TickerStep \/ Cancel \/ UNCHANGED vars
      <3>1. UNCHANGED <<main, result, file, tracker>>
        BY <2>9 DEF TickerStep, TickerTicks, TickerReports, TickerEnds, Tick, TickerReturns, TickerExits, Cancel, vars,
                    progress
      <3>2. QED BY <2>1, <3>1 DEF SingleHeld, Succeeding
    <2>10. ASSUME NEW w \in WorkerIds, WorkerStep(w) PROVE FALSE
      BY <2>1, <2>10, WorkersWork DEF InParts
    <2>11. QED BY <2>3, <2>4, <2>5, <2>6, <2>7, <2>8, <2>9, <2>10, StepCases DEF SingleStep
  <1>4. QED BY <1>1, <1>2, <1>3

-----------------------------------------------------------------------------
(* Success.                                                                *)

\* Where a part has come, the probe's length is the resource's.
LEMMA LengthIsTrue ==
  ASSUME Typed, InfoHeld, LiesHeld, ready # {}, info.len > 0
  PROVE  info.len = NumChunks
PROOF
  <1>1. server.honours \in BOOLEAN /\ server.total \in BOOLEAN
    BY DEF Typed, ServerKinds
  <1>2. QED BY <1>1, Parameters DEF Typed, Info, InfoHeld, LiesHeld

LEMMA SuccessKept ==
  ASSUME IInv, [Next]_vars
  PROVE  SuccessHeld'
PROOF
  <1>1. CASE ~(Succeeding' /\ sink' = "multi")
    BY <1>1 DEF SuccessHeld
  <1>2. CASE Succeeding' /\ sink' = "multi"
    <2>1. main' \notin Starting /\ main' # "transfer"
      <3>1. PhaseHeld'
        BY PhaseKept
      <3>2. result' = "ok" => main' \notin Starting \cup {"transfer", "write", "sync"}
        BY <3>1 DEF PhaseHeld
      <3>3. QED BY <1>2, <3>2 DEF Succeeding, Starting
    <2>2. sink = "multi" /\ UNCHANGED <<server, info, sink>>
      BY <1>2, <2>1, SinkKept, MultiSteps
    <2>3. ASSUME NEW w \in WorkerIds, WorkerStep(w) PROVE FALSE
      BY <2>1, <2>2, <2>3, WorkersWork, WorkerMoves DEF IInv
    <2>4. ~StartParts
      BY <2>1 DEF StartParts, Goto
    <2>5. UNCHANGED <<workers, jobs, have, from, ready, file, failed>>
      BY <2>1, <2>2, <2>3, <2>4, MultiSteps
    <2>6. CASE Succeeding
      BY <2>2, <2>5, <2>6 DEF IInv, SuccessHeld, Whole, Parts
    <2>7. CASE ~Succeeding
      <3>1. main \notin {"probe", "reprobe", "write", "finish", "sync"} /\ result # "ok"
        BY <2>2, <2>7 DEF IInv, PhaseHeld, Succeeding
      <3>2. Join /\ main' = "sync"
        <4>1. ~StartStep
          <5>1. ~AskServer /\ ~Probed /\ ~Reprobed /\ ~StartSingle
            BY <2>2, <3>1 DEF AskServer, Probed, Reprobed, StartSingle
          <5>2. CannotOpen \/ StartCancelled => main' = "ended" /\ result' = "error"
            BY DEF CannotOpen, StartCancelled, Return, Goto
          <5>3. ~CannotOpen /\ ~StartCancelled
            BY <1>2, <5>2 DEF Succeeding
          <5>4. QED BY <2>4, <5>1, <5>3 DEF StartStep
        <4>2. ~SingleStep
          <5>1. ~Receive /\ ~Eof /\ ~ReadFails /\ ~Stall
            BY <2>2 DEF Receive, Eof, ReadFails, Stall, Reading
          <5>2. ~Write /\ ~Finish /\ ~IdleTimeoutSingle
            BY <2>2, <3>1 DEF Write, Finish, IdleTimeoutSingle, Reading
          <5>3. QED BY <5>1, <5>2 DEF SingleStep
        <4>3. ~TickerStep /\ ~Cancel /\ ~UNCHANGED vars
          <5>1. TickerStep \/ Cancel \/ UNCHANGED vars => UNCHANGED <<main, result>>
            BY DEF TickerStep, TickerTicks, TickerReports, TickerEnds, Cancel, vars
          <5>2. QED BY <1>2, <2>7, <5>1 DEF Succeeding
        <4>4. EndStep
          BY <2>3, <4>1, <4>2, <4>3, StepCases
        <4>5. ~Copy /\ ~Sync
          BY <2>2, <3>1 DEF Copy, Sync
        <4>6. WriteFails \/ StopTracker \/ Report => ~Succeeding'
          BY <3>1 DEF WriteFails, StopTracker, Report, Goto, Succeeding
        <4>7. Join
          BY <1>2, <4>4, <4>5, <4>6 DEF EndStep
        <4>8. main' = "sync"
          BY <1>2, <4>7 DEF Join, Goto, Succeeding
        <4>9. QED BY <4>7, <4>8
      <3>3. main = "transfer" /\ ~Stopping /\ \A w \in WorkerIds : workers[w].pc = "off"
        BY <3>2 DEF Join, Goto
      <3>4. jobs = info.len
        <4>1. 1 \in WorkerIds
          BY Parameters DEF WorkerIds
        <4>2. QED BY <2>2, <3>3, <4>1 DEF IInv, MultiHeld
      <3>5. ready = Parts
        <4>1. \A w \in WorkerIds : ~Holds(w)
          BY <3>3 DEF Holds, Holding
        <4>2. \A p \in 0..(jobs - 1) : p \in ready
          BY <2>2, <3>3, <4>1 DEF IInv, MultiHeld
        <4>3. \A p \in ready : p \in 0..(jobs - 1)
          BY Parameters DEF IInv, Typed, Info, PartsHeld, Units
        <4>4. QED BY <3>4, <4>2, <4>3 DEF Parts
      <3>6. info.len \in Nat /\ info.len > 0 /\ info.len = NumChunks
        <4>1. info.len \in Nat /\ info.len > 0
          BY <2>2, Parameters DEF IInv, Typed, Info, InfoHeld, InParts
        <4>2. 0 \in ready
          BY <3>5, <4>1 DEF Parts
        <4>3. QED BY <4>1, <4>2, LengthIsTrue DEF IInv
      <3>7. file.units = Units /\ file.size = NumChunks
        <4>1. file.size \in {info.len, NumChunks} /\ \A p \in Units : have[p] >= PartLength => p \in file.units
          BY <2>2, <3>3 DEF IInv, MultiHeld, Running
        <4>2. file.units \subseteq Units /\ ready \subseteq Units
          BY DEF IInv, Typed
        <4>3. ready \subseteq file.units
          BY <4>1, <4>2 DEF IInv, PiecesHeld
        <4>4. QED BY <3>5, <3>6, <4>1, <4>2, <4>3 DEF Parts, Units
      <3>8. QED BY <2>2, <2>5, <3>5, <3>7 DEF SuccessHeld, Whole, Parts
    <2>8. QED BY <2>6, <2>7
  <1>3. QED BY <1>1, <1>2

\* A success of any kind: the resource is there, all of it but what was lost.
LEMMA SuccessIsWhole ==
  ASSUME IInv, Succeeding
  PROVE  /\ sink \in {"multi", "prefetch", "single"}
         /\ Whole \/ UnknownLength \/ (sink = "prefetch" /\ Lost # {})
         /\ InParts => ready = Parts /\ info.len = NumChunks
PROOF
  <1>1. sink \in {"multi", "prefetch", "single"}
    BY DEF IInv, PhaseHeld, Typed, Succeeding, Running
  <1>2. InParts => info.len \in Nat /\ info.len > 0
    BY Parameters DEF IInv, Typed, Info, InfoHeld
  <1>20. InParts /\ ready = Parts => info.len = NumChunks
    <2>1. InParts /\ ready = Parts => 0 \in ready
      BY <1>2 DEF Parts
    <2>2. QED BY <1>2, <2>1, LengthIsTrue DEF IInv
  <1>3. CASE sink = "multi"
    BY <1>1, <1>20, <1>3 DEF IInv, SuccessHeld, InParts
  <1>4. CASE sink = "single"
    <2>1. file.units = 0..(file.size - 1) /\ (file.size = NumChunks \/ ~server.len)
      BY <1>4 DEF IInv, SingleHeld
    <2>2. QED BY <1>1, <1>4, <2>1 DEF Whole, Units, UnknownLength, InParts
  <1>5. CASE sink = "prefetch"
    <2>1. /\ file.size = info.len /\ 0..(info.len - 1) \subseteq ready
          /\ file.units = {p \in 0..(info.len - 1) : from[p] = 0}
      BY <1>5 DEF IInv, PrefetchHeld, PhaseHeld, Succeeding
    <2>2. info.len \in Nat /\ info.len > 0 /\ jobs \in Nat
      BY <1>2, <1>5 DEF InParts, IInv, Typed
    <2>3. ready \subseteq 0..(info.len - 1)
      BY <2>2, Parameters DEF IInv, Typed, PartsHeld, Units
    <2>4. ready = Parts /\ info.len = NumChunks
      BY <1>5, <1>20, <2>1, <2>3 DEF Parts, InParts
    <2>5. ASSUME Lost = {} PROVE Whole
      <3>1. ASSUME NEW p \in Units PROVE from[p] = 0
        <4>1. <<p, 1>> \in Units \X (1..PartLength)
          BY DEF PartLength
        <4>2. ~(1 <= from[p])
          BY <2>5, <4>1 DEF Lost
        <4>3. from[p] \in Nat
          BY Parameters DEF IInv, Typed, Offsets, PartLength
        <4>4. QED BY <4>2, <4>3
      <3>2. QED BY <2>1, <2>4, <3>1 DEF Whole, Units
    <2>6. QED BY <1>1, <1>5, <2>4, <2>5
  <1>6. QED BY <1>1, <1>3, <1>4, <1>5

\* The snapshot Stop takes of a success.
LEMMA SnapshotAtEnd ==
  ASSUME IInv, main = "wait", result = "ok"
  PROVE  /\ Snapshot.done
         /\ ~UnknownLength => Snapshot.downloaded = PartLength * info.len - Cardinality(Lost)
         /\ Snapshot.completed = IF sink = "single" THEN 1 ELSE info.len
         /\ sink # "prefetch" => Snapshot.active = 0
PROOF
  <1>1. tracker \in Counters /\ NumChunks \in Nat /\ NumChunks > 0 /\ info.len \in 0..NumChunks
    BY Parameters DEF IInv, Typed, Info
  <1>2. /\ Snapshot.downloaded = IF tracker.total > 0 /\ tracker.counted > tracker.total THEN tracker.total
                                 ELSE tracker.counted
        /\ Snapshot.active = tracker.active /\ Snapshot.completed = tracker.completed /\ Snapshot.done = tracker.done
    BY DEF Snapshot
  <1>3. tracker.done
    BY DEF IInv, EventHeld
  <1>4. Succeeding /\ main \in Running
    BY DEF Succeeding, Running
  <1>5. CASE sink = "single"
    <2>1. /\ tracker.counted = PartLength * file.size /\ tracker.total = PartLength * info.len
          /\ tracker.completed = 1 /\ tracker.active = 0
          /\ file.size = NumChunks \/ ~server.len
      BY <1>4, <1>5 DEF IInv, SingleHeld
    <2>2. ~UnknownLength => info.len \in {1, NumChunks}
      BY <1>1, <1>5 DEF IInv, InfoHeld, UnknownLength
    <2>3. Cardinality(Lost) = 0
      <3>1. \A p \in Units : from[p] = 0
        <4>1. jobs = 0
          BY <1>5 DEF IInv, FreshHeld
        <4>2. QED BY <4>1, Parameters DEF IInv, PiecesHeld, Typed, Offsets, Units, PartLength
      <3>2. Lost = {}
        BY <3>1 DEF Lost, PartLength
      <3>3. QED BY <3>2, FS_EmptySet
    <2>4. QED BY <1>1, <1>2, <1>3, <1>5, <2>1, <2>2, <2>3 DEF UnknownLength, PartLength
  <1>6. CASE sink # "single"
    <2>1. InParts /\ ready = Parts /\ info.len = NumChunks /\ info.len > 0
      BY <1>1, <1>4, <1>6, SuccessIsWhole DEF InParts
    <2>10. ~GoesOn
      <3>1. GoesOn => 1 \in ready
        BY <1>1, <2>1 DEF GoesOn, Parts
      <3>2. GoesOn => ready \subseteq {0}
        BY DEF IInv, LiesHeld
      <3>3. QED BY <3>1, <3>2
    <2>2. Cardinality(ready) = info.len
      <3>1. 0 \in Int /\ info.len - 1 \in Int /\ ~(0 > info.len - 1) /\ info.len - 1 - 0 + 1 = info.len
        BY <1>1, <2>1
      <3>2. Cardinality(0..(info.len - 1)) = info.len
        BY <3>1, FS_Interval
      <3>3. QED BY <2>1, <3>2 DEF Parts
    <2>3. /\ tracker.completed = info.len /\ tracker.total = PartLength * info.len
          /\ tracker.active = Cardinality(Busy) /\ tracker.counted = Cardinality(Live)
      BY <1>4, <1>6, <2>2, <2>10 DEF IInv, CountsHeld
    <2>4. Lost = Pieces \ Live
      <3>1. \A p \in Units : have[p] = 2 /\ from[p] \in Nat
        <4>1. \A p \in Units : have[p] >= 2 /\ have[p] <= 2
          BY <2>1, <2>10 DEF IInv, PiecesHeld, Parts, Units, PartLength
        <4>2. \A p \in Units : have[p] \in Nat /\ from[p] \in Nat
          BY <1>1 DEF IInv, Typed, Offsets, PartLength
        <4>3. QED BY <4>1, <4>2
      <3>2. ASSUME NEW x \in Pieces PROVE x \in Lost <=> x \notin Live
        <4>1. x[1] \in Units /\ x[2] \in 1..2
          BY DEF Pieces, PartLength
        <4>2. x[2] <= have[x[1]] /\ (x[2] <= from[x[1]] <=> ~(from[x[1]] < x[2]))
          BY <3>1, <4>1
        <4>3. QED BY <4>2 DEF Lost, Live, Pieces
      <3>3. Lost \subseteq Pieces
        BY DEF Lost, Pieces
      <3>4. QED BY <3>2, <3>3
    <2>5. /\ Cardinality(Lost) = PartLength * info.len - Cardinality(Live)
          /\ Cardinality(Live) \in Nat /\ Cardinality(Lost) \in Nat
      <3>1. Live \in SUBSET Pieces /\ Lost \in SUBSET Pieces
        BY DEF Live, Lost, Pieces
      <3>2. Cardinality(Pieces \ Live) = Cardinality(Pieces) - Cardinality(Pieces \cap Live)
        BY PieceSets, FS_Difference
      <3>3. Pieces \cap Live = Live
        BY <3>1
      <3>4. QED BY <2>1, <2>4, <3>1, <3>2, <3>3, PieceSets
    <2>50. Snapshot.downloaded = PartLength * info.len - Cardinality(Lost)
      BY <1>1, <1>2, <2>3, <2>5 DEF PartLength
    <2>6. sink = "multi" => tracker.active = 0
      <3>1. sink = "multi" => Busy = {}
        BY DEF IInv, FreshHeld, Busy
      <3>2. QED BY <2>3, <3>1, FS_EmptySet
    <2>7. QED BY <1>1, <1>2, <1>3, <1>6, <2>1, <2>3, <2>50, <2>6 DEF InParts
  <1>7. QED BY <1>5, <1>6

\* After the tracker has stopped the last snapshot stays.
LEMMA EndKept ==
  ASSUME IInv, [Next]_vars
  PROVE  EndHeld'
PROOF
  <1>1. CASE ~(main' \in Over /\ result' = "ok")
    BY <1>1 DEF EndHeld
  <1>2. CASE main' \in Over /\ result' = "ok"
    <2>1. main' \notin Starting
      BY <1>2 DEF Starting, Over
    <2>2. main \in Starting \cup Running \cup Over
      BY DEF IInv, Typed
    <2>3. UNCHANGED <<server, sink>>
      BY <2>1, SinkKept, Settled
    <2>4. sink' # "none"
      BY <1>2, PhaseKept DEF PhaseHeld
    <2>5. info' = info
      BY <2>4, InfoKept
    <2>6. CASE StopTracker
      <3>1. main = "wait" /\ result = "ok" /\ event' = [kind |-> "progress", snap |-> Snapshot]
        BY <1>2, <2>6 DEF StopTracker, Goto, Over
      <3>10. Lost' = Lost
        BY <2>6 DEF StopTracker, parts, Lost
      <3>2. event'.snap = Snapshot
        BY <3>1
      <3>3. QED BY <2>3, <2>5, <3>1, <3>10, <3>2, SnapshotAtEnd DEF EndHeld, UnknownLength
    <2>7. CASE ~StopTracker
      <3>1. event'.snap = event.snap /\ main \in Over /\ result = "ok"
        <4>1. CASE StartStep
          <5>1. result' = result \/ result' = "error"
            BY <4>1 DEF StartStep, AskServer, Probed, Reprobed, CannotOpen, StartCancelled, StartParts, StartSingle, Return
          <5>2. main \in Starting
            BY <4>1 DEF StartStep, AskServer, Probed, Reprobed, CannotOpen, StartCancelled, StartParts, StartSingle, Starting
          <5>3. result = "none"
            BY <5>2 DEF IInv, PhaseHeld
          <5>4. QED BY <1>2, <5>1, <5>3
        <4>2. CASE SingleStep
          <5>1. main' \in Running
            BY <4>2 DEF SingleStep, Receive, Write, Eof, ReadFails, Stall, IdleTimeoutSingle, Finish, Goto, Reading, Running
          <5>2. QED BY <1>2, <5>1 DEF Running, Over
        <4>3. CASE Join \/ Copy \/ WriteFails \/ Sync
          <5>1. main' \in Running
            BY <4>3 DEF Join, Copy, WriteFails, Sync, Goto, Running
          <5>2. QED BY <1>2, <5>1 DEF Running, Over
        <4>4. CASE Report
          <5>1. main \in Over /\ result' = result /\ (event' = event \/ event' = [event EXCEPT !.kind = "completed"])
            BY <1>2, <4>4 DEF Report, Emit, Over
          <5>2. event'.snap = event.snap
            BY <5>1 DEF IInv, Typed
          <5>3. QED BY <1>2, <5>1, <5>2
        <4>5. CASE TickerStep
          <5>1. main' = main /\ ticker.pc # "none"
            BY <4>5 DEF TickerStep, TickerTicks, TickerReports, TickerEnds, Tick, TickerReturns, TickerExits
          <5>2. main \in Running
            BY <5>1 DEF IInv, EventHeld
          <5>3. QED BY <1>2, <5>1, <5>2 DEF Running, Over
        <4>6. CASE Cancel \/ UNCHANGED vars
          <5>1. UNCHANGED <<main, result, event>>
            BY <4>6 DEF Cancel, vars
          <5>2. QED BY <1>2, <5>1
        <4>7. ASSUME NEW w \in WorkerIds, WorkerStep(w) PROVE event' = event /\ main \in Over /\ result = "ok"
          <5>1. event' = event /\ result' = result
            BY <4>7, WorkerSettled
          <5>2. main' = main \/ main \in {"ended", "emitted"}
            BY <4>7, WorkerMoves DEF IInv
          <5>3. QED BY <1>2, <5>1, <5>2 DEF Over
        <4>8. QED BY <2>7, <4>1, <4>2, <4>3, <4>4, <4>5, <4>6, <4>7, StepCases DEF EndStep
      <3>2. EndHeld
        BY DEF IInv
      <3>3. Lost' = Lost
        <4>1. \A w \in WorkerIds : ~Holds(w)
          <5>1. InParts => ready = Parts
            BY <3>1, SuccessIsWhole DEF Succeeding
          <5>2. ~InParts => \A w \in WorkerIds : workers[w].pc = "off"
            BY DEF InParts, IInv, FreshHeld, Typed
          <5>3. InParts => \A w \in WorkerIds : workers[w].chunk < jobs => workers[w].chunk \in Parts
            <6>1. info.len \in Nat /\ jobs \in Nat /\ jobs <= info.len /\ \A w \in WorkerIds : workers[w].chunk \in Nat
              BY Parameters DEF IInv, Typed, Info, WorkerRecord, Units, PartsHeld
            <6>2. QED BY <6>1 DEF Parts
          <5>4. QED BY <5>1, <5>2, <5>3 DEF IInv, PartsHeld, Holds, Holding
        <4>2. \A p \in Units : from'[p] = from[p]
          <5>1. ASSUME NEW w \in WorkerIds, WorkerStep(w) PROVE \A p \in Units : from'[p] = from[p]
            BY <4>1, <5>1, WorkerChanges, PartGrows
          <5>2. ~StartParts
            BY <3>1 DEF StartParts, Over
          <5>3. QED BY <5>1, <5>2, WorkersKept DEF IInv
        <4>3. QED BY <4>2 DEF Lost, Units
      <3>4. QED BY <2>3, <2>5, <3>1, <3>2, <3>3 DEF EndHeld, UnknownLength
    <2>8. QED BY <2>6, <2>7
  <1>3. QED BY <1>1, <1>2

-----------------------------------------------------------------------------
(* The invariant, and what follows.                                        *)

LEMMA InitHeld ==
  ASSUME Init
  PROVE  IInv
PROOF
  <1>1. Typed
    BY InitTyped
  <1>2. \A w \in WorkerIds : workers[w].pc = "off"
    BY DEF Init, NoWorker
  <1>3. Busy = {} /\ \A p \in Units : have[p] = 0 /\ from[p] = 0
    BY <1>2 DEF Init, Busy
  <1>4. main = "probe" /\ sink = "none" /\ result = "none" /\ jobs = 0 /\ ready = {} /\ tracker = NoTracker
        /\ info = Unknown /\ event.kind = "none" /\ ticker.pc = "none" /\ file = [size |-> 0, units |-> {}]
        /\ probe.pc = "head"
    BY DEF Init, TrackerInit, StartProbe
  <1>5. InfoHeld /\ PhaseHeld /\ EventHeld
    BY <1>4 DEF InfoHeld, PhaseHeld, EventHeld, Unknown, InParts, Running, Starting
  <1>6. FreshHeld
    BY <1>2, <1>4 DEF FreshHeld
  <1>7. PartsHeld
    <2>1. info.len = 0
      BY <1>4 DEF Unknown
    <2>2. QED BY <1>2, <1>4, <2>1 DEF PartsHeld, Holds, Holding
  <1>70. PiecesHeld
    BY <1>2, <1>3, <1>4 DEF PiecesHeld, PartLength
  <1>8. LiesHeld
    BY <1>2, <1>4 DEF LiesHeld
  <1>9. CountsHeld
    <2>1. tracker.completed = 0 /\ tracker.active = 0 /\ tracker.counted = 0
      BY <1>4 DEF NoTracker
    <2>10. Live = {}
      BY <1>3 DEF Live, Pieces, PartLength
    <2>2. Cardinality(ready) = 0 /\ Cardinality(Busy) = 0 /\ Cardinality(Live) = 0
      BY <1>3, <1>4, <2>10, FS_EmptySet
    <2>3. QED BY <1>4, <2>1, <2>2 DEF CountsHeld, Running
  <1>10. MultiHeld /\ PrefetchHeld /\ SingleHeld /\ SuccessHeld
    BY <1>4 DEF MultiHeld, PrefetchHeld, SingleHeld, SuccessHeld, Succeeding
  <1>11. EndHeld
    BY <1>4 DEF EndHeld
  <1>12. QED BY <1>1, <1>5, <1>6, <1>7, <1>70, <1>8, <1>9, <1>10, <1>11 DEF IInv

LEMMA StepHeld ==
  ASSUME IInv, [Next]_vars
  PROVE  IInv'
BY TypedKept, InfoKept, PhaseKept, EventKept, FreshKept, PartsKept, PiecesKept, LiesKept, CountsKept, MultiKept, PrefetchKept,
   SingleKept, SuccessKept, EndKept DEF IInv

LEMMA InvariantHeld == Spec => []IInv
BY InitHeld, StepHeld, PTL DEF Spec

\* Every variable keeps its type. The tracker counts no worker that is not
\* there and no part more than there are, the parts are taken in order and the
\* file never grows beyond the resource.
THEOREM TypeCorrect == Spec => []TypeOK
PROOF
  <1>1. IInv => TypeOK
    <2>1. SUFFICES ASSUME IInv PROVE TypeOK
      OBVIOUS
    <2>2. Typed /\ tracker.active \in 0..MaxWorkers /\ tracker.completed \in 0..NumChunks
      BY <2>1, CountsTyped DEF IInv
    <2>3. jobs \in 0..NumChunks
      BY <2>1, <2>2, Parameters DEF IInv, PartsHeld, Typed, Info
    <2>4. tracker \in [total : 0..(PartLength * NumChunks), counted : Nat, active : 0..MaxWorkers, completed : 0..NumChunks,
                       done : BOOLEAN, cancelled : BOOLEAN]
      BY <2>2 DEF Typed, Counters
    <2>5. ticker.pc \in {"none", "waiting", "snapped"}
          /\ event.kind \in {"none", "probe", "progress", "completed", "error"}
      BY <2>2 DEF Typed
    <2>6. main \in {"probe", "reprobe", "start", "transfer", "write", "finish", "sync", "mark", "stop", "wait",
                    "ended", "emitted", "exited", "dead"}
      BY <2>2 DEF Typed, Starting, Running, Over
    <2>7. QED BY <2>2, <2>3, <2>4, <2>5, <2>6 DEF TypeOK, Typed, Info, WorkerRecord, Offsets
  <1>2. QED BY <1>1, InvariantHeld, PTL

\* When the event "completed" has been emitted the destination holds the whole
\* resource, whatever the server claimed about its ranges and its length, whatever
\* failed before, at whatever place within a part, and however many workers took
\* part. Only a response of unannounced length may have been cut short, and a
\* prefetched stream has lost the pieces of the attempts that broke off.
THEOREM CompletedMeansWhole == Spec => []CompletedIsWhole
PROOF
  <1>1. IInv => CompletedIsWhole
    <2>1. SUFFICES ASSUME IInv, event.kind = "completed"
                   PROVE  Whole \/ UnknownLength \/ (sink = "prefetch" /\ Lost # {})
      BY DEF CompletedIsWhole
    <2>2. Succeeding
      BY <2>1 DEF IInv, EventHeld, Succeeding
    <2>3. QED BY <2>1, <2>2, SuccessIsWhole
  <1>2. QED BY <1>1, InvariantHeld, PTL

\* The last progress event before "completed" shows every part, no worker, and every
\* byte but those taken back, of which none is subtracted that was not counted,
\* although workers, the ticker and Stop report concurrently.
THEOREM LastProgressShowsEnd == Spec => []LastProgressIsFinal
PROOF
  <1>1. IInv => LastProgressIsFinal
    <2>1. SUFFICES ASSUME IInv, event.kind = "completed" PROVE LastProgressIsFinal
      BY DEF LastProgressIsFinal
    <2>2. main \in Over /\ result = "ok"
      BY <2>1 DEF IInv, EventHeld, Over
    <2>3. QED BY <2>1, <2>2 DEF IInv, EndHeld, LastProgressIsFinal
  <1>2. QED BY <1>1, InvariantHeld, PTL

\* No event follows "completed" or "error": the ticker's goroutine has ended
\* before Stop returns, and a worker that is left emits nothing.
THEOREM NothingAfterTheEnd == Spec => TerminalIsLast
PROOF
  <1>1. IInv /\ [Next]_vars => [event.kind \in {"completed", "error"} => event' = event]_vars
    <2>1. SUFFICES ASSUME IInv, [Next]_vars, event.kind \in {"completed", "error"} PROVE event' = event
      OBVIOUS
    <2>2. main \in {"emitted", "exited", "dead"} /\ ticker.pc = "none"
      BY <2>1 DEF IInv, EventHeld, Typed, Running
    <2>3. CASE StartStep
      BY <2>2, <2>3 DEF StartStep, AskServer, Probed, Reprobed, CannotOpen, StartCancelled, StartParts, StartSingle
    <2>4. CASE SingleStep
      BY <2>2, <2>4 DEF SingleStep, Receive, Write, Eof, ReadFails, Stall, IdleTimeoutSingle, Finish, Reading
    <2>5. CASE EndStep
      BY <2>2, <2>5 DEF EndStep, Join, Copy, WriteFails, Sync, StopTracker, Report
    <2>6. CASE TickerStep
      BY <2>2, <2>6 DEF TickerStep, TickerTicks, TickerReports, TickerEnds, Tick, TickerReturns, TickerExits
    <2>7. CASE Cancel \/ UNCHANGED vars
      BY <2>7 DEF Cancel, vars
    <2>8. ASSUME NEW w \in WorkerIds, WorkerStep(w) PROVE event' = event
      BY <2>8, WorkerSettled
    <2>9. QED BY <2>1, <2>3, <2>4, <2>5, <2>6, <2>7, <2>8, StepCases
  <1>2. QED BY <1>1, InvariantHeld, PTL DEF Spec, TerminalIsLast
=============================================================================
