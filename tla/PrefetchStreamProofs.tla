------------------------ MODULE PrefetchStreamProofs ------------------------
(***************************************************************************)
(* Proofs about PrefetchStream, for every number of workers and chunks,    *)
(* every window, retry limit and series of events.                         *)
(***************************************************************************)
EXTENDS PrefetchStream, FiniteSetTheorems, SequenceTheorems, TLAPS

PCs == {"take", "window", "asleep", "fetch", "deliver", "cancel", "exited"}
WorkerRecord == [pc : PCs, chunk : Indices, attempt : 0..MaxRetries,
                 lo : 0..ChunkLen, hi : 0..ChunkLen, err : BOOLEAN]
SlotRecord == [full : BOOLEAN, err : BOOLEAN, data : Seq(Nat)]
Size == NumChunks * ChunkLen

(***************************************************************************)
(* The bounds of the constants, in the form the provers use them.          *)
(***************************************************************************)
LEMMA Parameters ==
  /\ NumChunks \in Nat /\ NumChunks > 0 /\ ChunkLen \in Nat /\ ChunkLen > 0
  /\ MaxPrefetch \in Nat /\ MaxPrefetch > 0 /\ MaxRetries \in Nat /\ Budget \in Nat
  /\ Size \in Nat /\ 0 \in Indices
  /\ \A c \in Indices : c \in Nat /\ c < NumChunks
PROOF
  <1>1. /\ NumChunks \in Nat /\ NumChunks > 0 /\ ChunkLen \in Nat /\ ChunkLen > 0
        /\ MaxPrefetch \in Nat /\ MaxPrefetch > 0 /\ MaxRetries \in Nat /\ Budget \in Nat
    BY StreamAssumption
  <1>2. Size \in Nat
    BY <1>1 DEF Size
  <1>3. QED BY <1>1, <1>2 DEF Indices

LEMMA Times ==
  ASSUME NEW c \in Nat
  PROVE  c * ChunkLen \in Nat
BY Parameters

(***************************************************************************)
(* The bytes of chunk c lie between those of the chunks around it.         *)
(***************************************************************************)
LEMMA ChunkBounds ==
  ASSUME NEW c \in Nat, NEW d \in Nat, c < d
  PROVE  c * ChunkLen \in Nat /\ d * ChunkLen \in Nat /\ c * ChunkLen + ChunkLen <= d * ChunkLen
PROOF
  <1>1. ChunkLen \in Nat
    BY Parameters
  <1>2. (d - c - 1) * ChunkLen >= 0
    BY <1>1
  <1>3. (d - c - 1) * ChunkLen = d * ChunkLen - c * ChunkLen - ChunkLen
    BY <1>1
  <1>4. c * ChunkLen \in Nat /\ d * ChunkLen \in Nat
    BY <1>1
  <1>5. QED BY <1>1, <1>2, <1>3, <1>4

LEMMA DataFacts ==
  ASSUME NEW c \in Nat, NEW lo \in 0..ChunkLen
  PROVE  /\ Data(c, lo) \in Seq(Nat) /\ Len(Data(c, lo)) = ChunkLen - lo
         /\ \A i \in 1..(ChunkLen - lo) : Data(c, lo)[i] = c * ChunkLen + lo + i - 1
PROOF
  <1>1. ChunkLen \in Nat /\ c * ChunkLen \in Nat
    BY Parameters
  <1>2. ChunkLen - lo \in Nat /\ lo \in Nat
    BY <1>1
  <1>3. \A i \in 1..(ChunkLen - lo) : c * ChunkLen + lo + i - 1 \in Nat
    BY <1>1, <1>2
  <1>4. Data(c, lo) \in [1..(ChunkLen - lo) -> Nat]
    BY <1>3 DEF Data
  <1>5. QED BY <1>2, <1>4 DEF Data

LEMMA WokenType ==
  ASSUME NEW ws \in [Workers -> WorkerRecord]
  PROVE  Woken(ws) \in [Workers -> WorkerRecord]
BY DEF Woken, WorkerRecord, PCs

LEMMA LocalsType ==
  ASSUME NEW pc \in PCs
  PROVE  Locals(pc) \in WorkerRecord
BY Parameters DEF Locals, WorkerRecord

(***************************************************************************)
(* Type correctness.                                                       *)
(***************************************************************************)
THEOREM TypeCorrect == Spec => []TypeOK
PROOF
  <1> USE Parameters
  <1>1. Init => TypeOK
    <2> SUFFICES ASSUME Init PROVE TypeOK
      OBVIOUS
    <2>1. worker \in [Workers -> WorkerRecord]
      BY LocalsType DEF Init, PCs
    <2>2. Empty \in SlotRecord
      BY DEF Empty, SlotRecord
    <2>3. slots \in [Indices -> SlotRecord]
      BY <2>2 DEF Init
    <2>4. worker \in [Workers -> WorkerRecord] /\ <<>> \in Seq(Nat) /\ {} \subseteq 0..(NumChunks * ChunkLen - 1)
      BY <2>1, EmptySeq
    <2>5. next \in 0..NumChunks /\ current \in 0..NumChunks /\ budget \in 0..Budget
      BY DEF Init
    <2>6. QED BY <2>3, <2>4, <2>5 DEF Init, TypeOK, WorkerRecord, PCs, SlotRecord
  <1>2. TypeOK /\ [Next]_vars => TypeOK'
    <2> SUFFICES ASSUME TypeOK, [Next]_vars PROVE TypeOK'
      OBVIOUS
    <2> USE DEF content, flags, helpers, reading
    <2>0. /\ worker \in [Workers -> WorkerRecord] /\ slots \in [Indices -> SlotRecord]
          /\ \A w \in Workers : worker[w] \in WorkerRecord
      BY DEF TypeOK, WorkerRecord, PCs, SlotRecord
    <2>01. ASSUME NEW w \in Workers
           PROVE  /\ worker[w].pc \in PCs /\ worker[w].chunk \in Indices /\ worker[w].attempt \in 0..MaxRetries
                  /\ worker[w].lo \in 0..ChunkLen /\ worker[w].hi \in 0..ChunkLen
      BY <2>0, <2>01 DEF WorkerRecord
    <2>02. ASSUME UNCHANGED <<slots, current, buf, out, lost, next, answer>>,
                  worker' \in [Workers -> WorkerRecord],
                  closed' \in BOOLEAN, cancelled' \in BOOLEAN, panicked' \in BOOLEAN,
                  reader' \in {"idle", "enter", "loop", "asleep"},
                  watcher' \in {"waiting", "done"}, finisher' \in {"waiting", "done"},
                  budget' \in 0..Budget
           PROVE  TypeOK'
      BY <2>02 DEF TypeOK, WorkerRecord, PCs
    <2>03. ASSUME NEW e, Spend(e) PROVE budget' \in 0..Budget
      BY <2>03 DEF Spend, TypeOK
    <2>04. Roused(reader) \in {"idle", "enter", "loop", "asleep"}
      BY DEF Roused, TypeOK
    <2>1. ASSUME NEW w \in Workers, TakeJob(w) PROVE TypeOK'
      <3>1. next \in Indices \/ next >= NumChunks
        BY DEF TypeOK, Indices
      <3>2. worker' \in [Workers -> WorkerRecord] /\ next' \in 0..NumChunks
        <4>1. CASE next < NumChunks
          <5>1. [Locals("window") EXCEPT !.chunk = next] \in WorkerRecord
            <6>1. Locals("window") \in WorkerRecord /\ next \in Indices
              BY <3>1, <4>1, LocalsType DEF PCs, TypeOK
            <6>2. QED BY <6>1 DEF WorkerRecord
          <5>2. next + 1 \in 0..NumChunks
            BY <3>1, <4>1 DEF TypeOK
          <5>3. /\ worker' = [worker EXCEPT ![w] = [Locals("window") EXCEPT !.chunk = next]]
                /\ next' = next + 1
            BY <2>1, <4>1 DEF TakeJob
          <5>4. QED BY <5>1, <5>2, <5>3, <2>0
        <4>2. CASE ~(next < NumChunks)
          BY <2>1, <4>2, LocalsType, <2>0 DEF TakeJob, PCs, TypeOK
        <4>3. QED BY <4>1, <4>2
      <3>3. QED BY <2>1, <3>2 DEF TakeJob, TypeOK, WorkerRecord, PCs
    <2>2. ASSUME NEW w \in Workers, EnterWindow(w) PROVE TypeOK'
      <3>1. worker' \in [Workers -> WorkerRecord]
        BY <2>2, <2>0 DEF EnterWindow, WorkerRecord, PCs
      <3>2. QED BY <2>2, <3>1, <2>02 DEF EnterWindow, TypeOK
    <2>3. ASSUME NEW w \in Workers, Receive(w) PROVE TypeOK'
      <3>1. worker' \in [Workers -> WorkerRecord]
        <4>1. PICK n \in (worker[w].hi + 1)..ChunkLen : worker' = [worker EXCEPT ![w].hi = n]
          BY <2>3 DEF Receive
        <4>2. n \in 0..ChunkLen
          BY <4>1, <2>01
        <4>3. QED BY <4>1, <4>2, <2>0 DEF WorkerRecord
      <3>2. QED BY <2>3, <3>1, <2>02 DEF Receive, TypeOK
    <2>4. ASSUME NEW w \in Workers, FinishFetch(w) PROVE TypeOK'
      <3>1. worker' \in [Workers -> WorkerRecord]
        BY <2>4, <2>0 DEF FinishFetch, WorkerRecord, PCs
      <3>2. QED BY <2>4, <3>1, <2>02 DEF FinishFetch, TypeOK
    <2>5. ASSUME NEW w \in Workers, Retry(w) PROVE TypeOK'
      <3>1. worker' \in [Workers -> WorkerRecord]
        <4>1. CASE MayRetry(worker[w].attempt)
          <5>1. worker[w].attempt + 1 \in 0..MaxRetries
            BY <4>1, <2>01 DEF MayRetry
          <5>2. [worker[w] EXCEPT !.attempt = @ + 1, !.lo = worker[w].hi] \in WorkerRecord
            BY <5>1, <2>0, <2>01 DEF WorkerRecord
          <5>3. QED BY <2>5, <4>1, <5>2, <2>0 DEF Retry
        <4>2. CASE ~ MayRetry(worker[w].attempt)
          <5>1. [worker[w] EXCEPT !.pc = "deliver", !.err = TRUE] \in WorkerRecord
            BY <2>0 DEF WorkerRecord, PCs
          <5>2. QED BY <2>5, <4>2, <5>1, <2>0 DEF Retry
        <4>3. QED BY <4>1, <4>2
      <3>2. lost' \subseteq 0..(Size - 1)
        <4>1. CASE UNCHANGED lost
          BY <4>1 DEF TypeOK, Size
        <4>2. CASE lost' = lost \cup {worker[w].chunk * ChunkLen + o : o \in worker[w].lo..(worker[w].hi - 1)}
          <5> DEFINE c == worker[w].chunk
          <5>0. c \in Indices
            BY <2>01
          <5>1. c \in Nat /\ c < NumChunks
            BY <5>0
          <5>2. c * ChunkLen \in Nat /\ c * ChunkLen + ChunkLen <= Size
            BY <5>1, ChunkBounds DEF Size
          <5>3. \A o \in worker[w].lo..(worker[w].hi - 1) : o \in 0..(ChunkLen - 1)
            BY <2>01
          <5> HIDE DEF c
          <5>4. \A o \in worker[w].lo..(worker[w].hi - 1) : c * ChunkLen + o \in 0..(Size - 1)
            BY <5>2, <5>3
          <5>5. lost \subseteq 0..(Size - 1)
            BY DEF TypeOK, Size
          <5>6. QED BY <4>2, <5>4, <5>5 DEF c
        <4>3. QED BY <2>5, <4>1, <4>2 DEF Retry
      <3>3. budget' \in 0..Budget
        BY <2>5, <2>03 DEF Retry
      <3>4. QED BY <2>5, <3>1, <3>2, <3>3 DEF Retry, TypeOK, WorkerRecord, PCs, Size
    <2>6. ASSUME NEW w \in Workers, FailFetch(w) PROVE TypeOK'
      <3>1. worker' \in [Workers -> WorkerRecord]
        BY <2>6, <2>0 DEF FailFetch, WorkerRecord, PCs
      <3>2. budget' \in 0..Budget
        BY <2>6, <2>03 DEF FailFetch, TypeOK
      <3>3. QED BY <2>6, <3>1, <3>2, <2>02 DEF FailFetch, TypeOK
    <2>7. ASSUME NEW w \in Workers, Deliver(w) PROVE TypeOK'
      <3>1. CASE closed
        <4>1. panicked' = TRUE /\ UNCHANGED <<slots, worker, reader>>
          BY <2>7, <3>1 DEF Deliver
        <4>2. QED BY <2>7, <4>1, <2>0, <2>02 DEF Deliver, TypeOK
      <3>2. CASE ~closed
        <4>1. Slot(w) \in SlotRecord
          <5>1. worker[w].err \in BOOLEAN
            BY <2>0 DEF WorkerRecord
          <5>2. Data(worker[w].chunk, worker[w].lo) \in Seq(Nat) /\ <<>> \in Seq(Nat)
            <6>1. worker[w].chunk \in Nat /\ worker[w].lo \in 0..ChunkLen
              BY <2>01
            <6>2. QED BY <6>1, DataFacts, EmptySeq
          <5>3. QED BY <5>1, <5>2 DEF Slot, SlotRecord
        <4>2. slots' \in [Indices -> SlotRecord]
          BY <2>7, <3>2, <4>1, <2>0 DEF Deliver
        <4>3. worker' \in [Workers -> WorkerRecord]
          <5>1. worker' = [Woken(worker) EXCEPT ![w] = Locals(IF worker[w].err THEN "cancel" ELSE "take")]
            BY <2>7, <3>2 DEF Deliver
          <5>2. Locals(IF worker[w].err THEN "cancel" ELSE "take") \in WorkerRecord
            BY LocalsType DEF PCs
          <5>3. QED BY <5>1, <5>2, <2>0, WokenType
        <4>4. reader' \in {"idle", "enter", "loop", "asleep"}
          BY <2>7, <3>2, <2>04 DEF Deliver, Announced
        <4>5. QED BY <2>7, <3>2, <4>2, <4>3, <4>4 DEF Deliver, TypeOK, WorkerRecord, PCs, SlotRecord
      <3>3. QED BY <3>1, <3>2
    <2>8. ASSUME NEW w \in Workers, CancelStream(w) PROVE TypeOK'
      <3>1. worker' \in [Workers -> WorkerRecord]
        BY <2>8, <2>0, LocalsType DEF CancelStream, PCs
      <3>2. QED BY <2>8, <3>1, <2>02 DEF CancelStream, TypeOK
    <2>9. CASE Call
      BY <2>9, <2>0, <2>02 DEF Call, TypeOK
    <2>10. ASSUME NEW data \in Seq(Nat), Hand(data) PROVE out' \in Seq(Nat) /\ buf' \in Seq(Nat)
      <3>1. PICK n \in 1..Len(data) : /\ out' = out \o SubSeq(data, 1, n)
                                      /\ buf' = SubSeq(data, n + 1, Len(data))
        BY <2>10 DEF Hand
      <3>2. SubSeq(data, 1, n) \in Seq(Nat) /\ SubSeq(data, n + 1, Len(data)) \in Seq(Nat)
        <4>1. \A i \in 1..Len(data) : data[i] \in Nat
          BY ElementOfSeq
        <4>2. Len(data) \in Nat /\ n \in Nat
          OBVIOUS
        <4>3. QED BY <4>1, <4>2, SubSeqProperties
      <3>3. out \in Seq(Nat)
        BY DEF TypeOK
      <3>4. QED BY <3>1, <3>2, <3>3, ConcatProperties
    <2>11. CASE ReadStep
      <3>1. CASE ReadClosed \/ ReadCancelled \/ ReadEnd \/ ReadSlotError
        BY <3>1 DEF ReadClosed, ReadCancelled, ReadEnd, ReadSlotError, Return, TypeOK
      <3>2. CASE ReadBuffered
        <4>1. out' \in Seq(Nat) /\ buf' \in Seq(Nat)
          BY <3>2, <2>10 DEF ReadBuffered, TypeOK
        <4>2. QED BY <3>2, <4>1 DEF ReadBuffered, Return, TypeOK
      <3>3. CASE ReadNext
        <4>1. current \in Indices
          BY <3>3 DEF ReadNext, AwaitsSlot, AtEnd, TypeOK, Indices
        <4>2. slots[current].data \in Seq(Nat) /\ Empty \in SlotRecord
          BY <4>1, <2>0 DEF SlotRecord, Empty
        <4>3. out' \in Seq(Nat) /\ buf' \in Seq(Nat)
          BY <3>3, <4>2, <2>10 DEF ReadNext
        <4>4. slots' \in [Indices -> SlotRecord] /\ current' \in 0..NumChunks
          BY <3>3, <4>1, <4>2, <2>0 DEF ReadNext, Indices
        <4>5. worker' \in [Workers -> WorkerRecord]
          BY <3>3, <2>0, WokenType DEF ReadNext, Advanced
        <4>6. QED BY <3>3, <4>3, <4>4, <4>5 DEF ReadNext, Return, TypeOK, WorkerRecord, PCs, SlotRecord
      <3>4. CASE ReadWaits
        BY <3>4, <2>0, <2>02 DEF ReadWaits, TypeOK
      <3>5. QED BY <2>11, <3>1, <3>2, <3>3, <3>4 DEF ReadStep
    <2>12. CASE Watch
      <3>1. worker' \in [Workers -> WorkerRecord]
        BY <2>12, <2>0, WokenType DEF Watch, WokenByWatch
      <3>2. QED BY <2>12, <3>1, <2>02, <2>04 DEF Watch, TypeOK
    <2>13. CASE WaitAll
      <3>1. worker' \in [Workers -> WorkerRecord]
        BY <2>13, <2>0, WokenType DEF WaitAll
      <3>2. QED BY <2>13, <3>1, <2>02, <2>04 DEF WaitAll, TypeOK
    <2>14. CASE CancelCaller
      BY <2>14, <2>0, <2>02, <2>03 DEF CancelCaller, TypeOK
    <2>15. CASE Close
      <3>1. worker' \in [Workers -> WorkerRecord]
        BY <2>15, <2>0, WokenType DEF Close
      <3>2. slots' \in [Indices -> SlotRecord]
        BY <2>15 DEF Close, Empty, SlotRecord
      <3>3. budget' \in 0..Budget
        BY <2>15, <2>03 DEF Close
      <3>4. QED BY <2>15, <3>1, <3>2, <3>3, <2>04 DEF Close, TypeOK, WorkerRecord, PCs, SlotRecord
    <2>16. CASE UNCHANGED vars
      BY <2>16 DEF vars, TypeOK
    <2>17. QED
      BY <2>1, <2>2, <2>3, <2>4, <2>5, <2>6, <2>7, <2>8, <2>9, <2>11, <2>12, <2>13, <2>14, <2>15, <2>16
      DEF Next, WorkerStep
  <1>3. QED BY <1>1, <1>2, PTL DEF Spec
-----------------------------------------------------------------------------
(* The window. A worker that holds a chunk holds it alone, the reader has  *)
(* not come to it, and its slot is empty; a full slot lies in the window.  *)

Holding == {"window", "asleep", "fetch", "deliver"}
Holds(w) == worker[w].pc \in Holding
InWindow(c) == current <= c /\ c < current + MaxPrefetch

HeldAhead ==
  \A w \in Workers : Holds(w) =>
    current <= worker[w].chunk /\ worker[w].chunk < next /\ ~slots[worker[w].chunk].full
FetchedInWindow ==
  \A w \in Workers : worker[w].pc \in {"fetch", "deliver"} => InWindow(worker[w].chunk)
HeldOnce ==
  \A v, w \in Workers : v # w /\ Holds(v) /\ Holds(w) => worker[v].chunk # worker[w].chunk
FullInWindow ==
  \A i \in Indices : slots[i].full => i < next /\ InWindow(i)

WindowInv == current <= next /\ HeldAhead /\ FetchedInWindow /\ HeldOnce /\ FullInWindow

(***************************************************************************)
(* A broadcast moves workers from their sleep to the window and changes    *)
(* nothing else of them.                                                   *)
(***************************************************************************)
LEMMA WokenFacts ==
  ASSUME NEW ws \in [Workers -> WorkerRecord], NEW w \in Workers
  PROVE  /\ Woken(ws)[w].chunk = ws[w].chunk /\ Woken(ws)[w].lo = ws[w].lo
         /\ Woken(ws)[w].hi = ws[w].hi /\ Woken(ws)[w].attempt = ws[w].attempt
         /\ Woken(ws)[w].err = ws[w].err
         /\ Woken(ws)[w].pc = IF ws[w].pc = "asleep" THEN "window" ELSE ws[w].pc
PROOF
  <1>1. ws[w] \in WorkerRecord
    OBVIOUS
  <1>2. Woken(ws)[w] = IF ws[w].pc = "asleep" THEN [ws[w] EXCEPT !.pc = "window"] ELSE ws[w]
    BY DEF Woken
  <1>3. CASE ws[w].pc = "asleep"
    <2>1. Woken(ws)[w] = [ws[w] EXCEPT !.pc = "window"]
      BY <1>2, <1>3
    <2>2. QED BY <1>1, <1>3, <2>1, Zenon DEF WorkerRecord
  <1>4. CASE ws[w].pc # "asleep"
    BY <1>2, <1>4
  <1>5. QED BY <1>3, <1>4

(***************************************************************************)
(* What a step may do to the workers, the slots and the window for         *)
(* WindowInv to survive: chunks stay with who holds them, no one moves     *)
(* into the window without looking, and the window does not pass a chunk   *)
(* that is held.                                                           *)
(***************************************************************************)
Same(w) == worker'[w].chunk = worker[w].chunk
Keeps(w) ==
  /\ worker'[w].pc \in Holding => Holds(w) /\ Same(w)
  /\ worker'[w].pc \in {"fetch", "deliver"} => worker[w].pc \in {"fetch", "deliver"} \/ InWindow(worker[w].chunk)

LEMMA WindowKept ==
  ASSUME WindowInv, UNCHANGED <<next, slots, current>>,
         \A w \in Workers : Keeps(w)
  PROVE  WindowInv'
BY DEF WindowInv, HeldAhead, FetchedInWindow, HeldOnce, FullInWindow, InWindow, Holds, Keeps, Same, Holding

LEMMA WokenKeeps ==
  ASSUME TypeOK, worker' = Woken(worker), NEW w \in Workers
  PROVE  Keeps(w)
PROOF
  <1>1. worker \in [Workers -> WorkerRecord]
    BY DEF TypeOK, WorkerRecord, PCs
  <1>2. /\ worker'[w].chunk = worker[w].chunk
        /\ worker'[w].pc = IF worker[w].pc = "asleep" THEN "window" ELSE worker[w].pc
    BY <1>1, WokenFacts
  <1>3. QED BY <1>2 DEF Keeps, Same, Holds, Holding

(***************************************************************************)
(* Backpressure: the chunks in memory, those being downloaded included,    *)
(* lie in a window of MaxPrefetch chunks.                                  *)
(***************************************************************************)
LEMMA WindowInvariant == Spec => []WindowInv
PROOF
  <1> USE Parameters
  <1>1. Init => WindowInv
    BY DEF Init, WindowInv, HeldAhead, FetchedInWindow, HeldOnce, FullInWindow, InWindow, Holds, Holding,
           Locals, Empty
  <1>2. TypeOK /\ WindowInv /\ [Next]_vars => WindowInv'
    <2> SUFFICES ASSUME TypeOK, WindowInv, [Next]_vars PROVE WindowInv'
      OBVIOUS
    <2> USE DEF content, flags, helpers, reading
    <2>0. /\ worker \in [Workers -> WorkerRecord] /\ slots \in [Indices -> SlotRecord]
          /\ next \in Int /\ current \in Int
      BY DEF TypeOK, WorkerRecord, PCs, SlotRecord
    <2>01. \A w \in Workers : worker[w] \in WorkerRecord /\ worker[w].chunk \in Indices
      BY <2>0 DEF WorkerRecord
    <2>02. ASSUME UNCHANGED <<next, slots, current, worker>> PROVE WindowInv'
      BY <2>02 DEF WindowInv, HeldAhead, FetchedInWindow, HeldOnce, FullInWindow, InWindow, Holds
    <2>03. ASSUME UNCHANGED <<next, slots, current>>, worker' = Woken(worker) PROVE WindowInv'
      BY <2>03, WokenKeeps, WindowKept
    <2>1. ASSUME NEW w \in Workers, TakeJob(w) PROVE WindowInv'
      <3>1. CASE next < NumChunks
        <4>1. /\ worker' = [worker EXCEPT ![w] = [Locals("window") EXCEPT !.chunk = next]]
              /\ next' = next + 1 /\ UNCHANGED <<slots, current>>
          BY <2>1, <3>1 DEF TakeJob
        <4>2. worker'[w].pc = "window" /\ worker'[w].chunk = next
          BY <4>1, <2>0 DEF Locals
        <4>3. \A v \in Workers : v # w => worker'[v] = worker[v]
          BY <4>1, <2>0
        <4>4. next \in Indices
          BY <3>1 DEF TypeOK, Indices
        <4>5. ~slots[next].full
          BY <4>4, <2>0 DEF WindowInv, FullInWindow
        <4>6. HeldAhead'
          <5> SUFFICES ASSUME NEW v \in Workers, Holds(v)'
                       PROVE  /\ current' <= worker'[v].chunk /\ worker'[v].chunk < next'
                              /\ ~slots'[worker'[v].chunk].full
            BY DEF HeldAhead
          <5>1. CASE v = w
            BY <5>1, <4>1, <4>2, <4>5, <2>0 DEF WindowInv
          <5>2. CASE v # w
            <6>1. Holds(v) /\ worker'[v].chunk = worker[v].chunk
              BY <5>2, <4>3 DEF Holds
            <6>2. current <= worker[v].chunk /\ worker[v].chunk < next /\ ~slots[worker[v].chunk].full
              BY <6>1 DEF WindowInv, HeldAhead
            <6>3. worker[v].chunk \in Int
              BY <2>01
            <6>4. QED BY <6>1, <6>2, <6>3, <4>1, <2>0
          <5>3. QED BY <5>1, <5>2
        <4>7. FetchedInWindow' /\ FullInWindow'
          BY <4>1, <4>2, <4>3, <2>0, <2>01 DEF WindowInv, FetchedInWindow, FullInWindow, InWindow
        <4>8. HeldOnce'
          <5>1. \A v \in Workers : v # w /\ Holds(v)' => worker'[v].chunk # next
            BY <4>3, <2>0, <2>01 DEF WindowInv, HeldAhead, Holds
          <5>2. QED BY <5>1, <4>2, <4>3 DEF WindowInv, HeldOnce, Holds
        <4>9. current' <= next'
          BY <4>1, <2>0 DEF WindowInv
        <4>10. QED BY <4>6, <4>7, <4>8, <4>9 DEF WindowInv
      <3>2. CASE ~(next < NumChunks)
        <4>1. worker' = [worker EXCEPT ![w] = Locals("exited")] /\ UNCHANGED <<next, slots, current>>
          BY <2>1, <3>2 DEF TakeJob
        <4>2. worker'[w].pc = "exited" /\ \A v \in Workers : v # w => worker'[v] = worker[v]
          BY <4>1, <2>0 DEF Locals
        <4>3. \A v \in Workers : Keeps(v)
          BY <4>2 DEF Keeps, Same, Holds, Holding
        <4>4. QED BY <4>1, <4>3, WindowKept
      <3>3. QED BY <3>1, <3>2
    <2>2. ASSUME NEW w \in Workers, EnterWindow(w) PROVE WindowInv'
      <3>1. /\ worker'[w].chunk = worker[w].chunk
            /\ worker'[w].pc \in {"exited", "asleep", "fetch"}
            /\ worker'[w].pc = "fetch" => ~Beyond(worker[w].chunk)
        BY <2>2, <2>0, <2>01 DEF EnterWindow, WorkerRecord
      <3>2. worker[w].pc = "window" /\ \A v \in Workers : v # w => worker'[v] = worker[v]
        BY <2>2, <2>0 DEF EnterWindow, At
      <3>3. worker'[w].pc = "fetch" => InWindow(worker[w].chunk)
        <4>1. current <= worker[w].chunk
          BY <3>2 DEF WindowInv, HeldAhead, Holds, Holding
        <4>2. QED BY <4>1, <3>1, <2>0, <2>01 DEF InWindow, Beyond
      <3>4. \A v \in Workers : Keeps(v)
        BY <3>1, <3>2, <3>3 DEF Keeps, Same, Holds, Holding
      <3>5. QED BY <2>2, <3>4, WindowKept DEF EnterWindow
    <2>3. ASSUME NEW w \in Workers, Receive(w) \/ FinishFetch(w) \/ Retry(w) \/ FailFetch(w) PROVE WindowInv'
      <3>1. /\ worker[w].pc = "fetch"
            /\ worker'[w].chunk = worker[w].chunk
            /\ worker'[w].pc \in {"fetch", "deliver"}
            /\ \A v \in Workers : v # w => worker'[v] = worker[v]
        <4>1. CASE Receive(w)
          BY <4>1, <2>0, <2>01 DEF Receive, At, WorkerRecord
        <4>2. CASE FinishFetch(w) \/ FailFetch(w)
          BY <4>2, <2>0, <2>01 DEF FinishFetch, FailFetch, At, WorkerRecord
        <4>3. CASE Retry(w)
          BY <4>3, <2>0, <2>01 DEF Retry, At, WorkerRecord
        <4>4. QED BY <2>3, <4>1, <4>2, <4>3
      <3>2. \A v \in Workers : Keeps(v)
        BY <3>1 DEF Keeps, Same, Holds, Holding
      <3>3. UNCHANGED <<next, slots, current>>
        BY <2>3 DEF Receive, FinishFetch, Retry, FailFetch
      <3>4. QED BY <3>2, <3>3, WindowKept
    <2>4. ASSUME NEW w \in Workers, Deliver(w) PROVE WindowInv'
      <3>1. CASE closed
        BY <2>4, <3>1, <2>02 DEF Deliver
      <3>2. CASE ~closed
        <4> DEFINE c == worker[w].chunk
        <4>1. /\ slots' = [slots EXCEPT ![c] = Slot(w)]
              /\ worker' = [Woken(worker) EXCEPT ![w] = Locals(IF worker[w].err THEN "cancel" ELSE "take")]
              /\ UNCHANGED <<next, current>>
              /\ worker[w].pc = "deliver"
          BY <2>4, <3>2 DEF Deliver, At
        <4>2. worker'[w].pc \in {"cancel", "take"}
          <5>1. worker'[w] = Locals(IF worker[w].err THEN "cancel" ELSE "take")
            BY <4>1 DEF Woken
          <5>2. QED BY <5>1 DEF Locals
        <4>3. ASSUME NEW v \in Workers, v # w
              PROVE  /\ worker'[v].chunk = worker[v].chunk
                     /\ worker'[v].pc = IF worker[v].pc = "asleep" THEN "window" ELSE worker[v].pc
          <5>1. worker'[v] = Woken(worker)[v]
            BY <4>1, <4>3 DEF Woken
          <5>2. QED BY <5>1, <2>0, WokenFacts
        <4>4. c \in Indices /\ c < next /\ InWindow(c)
          BY <4>1, <2>01 DEF WindowInv, HeldAhead, FetchedInWindow, Holds, Holding
        <4>5. \A i \in Indices : i # c => slots'[i] = slots[i]
          BY <4>1, <2>0
        <4>6. ASSUME NEW v \in Workers, Holds(v)'
              PROVE  v # w /\ Holds(v) /\ worker'[v].chunk = worker[v].chunk /\ worker[v].chunk # c
          <5>1. v # w
            BY <4>2, <4>6 DEF Holds, Holding
          <5>2. Holds(v) /\ worker'[v].chunk = worker[v].chunk
            BY <4>6, <5>1, <4>3 DEF Holds, Holding
          <5>3. QED BY <5>1, <5>2, <4>1 DEF WindowInv, HeldOnce, Holds, Holding
        <4> HIDE DEF c
        <4>7. HeldAhead'
          <5> SUFFICES ASSUME NEW v \in Workers, Holds(v)'
                       PROVE  /\ current' <= worker'[v].chunk /\ worker'[v].chunk < next'
                              /\ ~slots'[worker'[v].chunk].full
            BY DEF HeldAhead
          <5>1. Holds(v) /\ worker'[v].chunk = worker[v].chunk /\ worker[v].chunk # c
            BY <4>6
          <5>2. slots'[worker[v].chunk] = slots[worker[v].chunk]
            BY <5>1, <4>5, <2>01
          <5>3. QED BY <5>1, <5>2, <4>1 DEF WindowInv, HeldAhead
        <4>8. FetchedInWindow'
          <5> SUFFICES ASSUME NEW v \in Workers, worker'[v].pc \in {"fetch", "deliver"}
                       PROVE  current' <= worker'[v].chunk /\ worker'[v].chunk < current' + MaxPrefetch
            BY DEF FetchedInWindow, InWindow
          <5>1. v # w
            BY <4>2
          <5>2. worker[v].pc \in {"fetch", "deliver"} /\ worker'[v].chunk = worker[v].chunk
            BY <5>1, <4>3
          <5>3. QED BY <5>2, <4>1 DEF WindowInv, FetchedInWindow, InWindow
        <4>9. HeldOnce'
          BY <4>6 DEF WindowInv, HeldOnce
        <4>10. FullInWindow'
          <5> SUFFICES ASSUME NEW i \in Indices, slots'[i].full
                       PROVE  i < next' /\ InWindow(i)'
            BY DEF FullInWindow
          <5>1. CASE i = c
            BY <5>1, <4>1, <4>4 DEF InWindow
          <5>2. CASE i # c
            <6>1. slots[i].full
              BY <5>2, <4>5
            <6>2. QED BY <6>1, <4>1 DEF WindowInv, FullInWindow, InWindow
          <5>3. QED BY <5>1, <5>2
        <4>11. QED BY <4>1, <4>7, <4>8, <4>9, <4>10 DEF WindowInv
      <3>3. QED BY <3>1, <3>2
    <2>5. ASSUME NEW w \in Workers, CancelStream(w) PROVE WindowInv'
      <3>1. worker'[w].pc = "exited" /\ \A v \in Workers : v # w => worker'[v] = worker[v]
        BY <2>5, <2>0 DEF CancelStream, Locals
      <3>2. \A v \in Workers : Keeps(v)
        BY <3>1 DEF Keeps, Same, Holds, Holding
      <3>3. QED BY <2>5, <3>2, WindowKept DEF CancelStream
    <2>6. CASE Call \/ CancelCaller
      BY <2>6, <2>02 DEF Call, CancelCaller
    <2>7. CASE ReadStep
      <3>1. CASE ~ReadNext
        <4>1. UNCHANGED <<next, slots, current, worker>>
          BY <2>7, <3>1 DEF ReadStep, ReadClosed, ReadCancelled, ReadBuffered, ReadEnd, ReadSlotError, ReadWaits
        <4>2. QED BY <4>1, <2>02
      <3>2. CASE ReadNext
        <4>1. /\ slots' = [slots EXCEPT ![current] = Empty] /\ current' = current + 1
              /\ worker' = Woken(worker) /\ next' = next /\ slots[current].full
          BY <3>2 DEF ReadNext, Advanced
        <4>2. current \in Indices
          BY <3>2 DEF ReadNext, AwaitsSlot, AtEnd, TypeOK, Indices
        <4>3. current < next
          BY <4>1, <4>2 DEF WindowInv, FullInWindow
        <4>4. ASSUME NEW v \in Workers
              PROVE  /\ worker'[v].chunk = worker[v].chunk
                     /\ worker'[v].pc = IF worker[v].pc = "asleep" THEN "window" ELSE worker[v].pc
          BY <4>1, <2>0, WokenFacts
        <4>5. \A v \in Workers : Holds(v)' => Holds(v)
          BY <4>4 DEF Holds, Holding
        <4>6. ~slots'[current].full /\ \A i \in Indices : i # current => slots'[i] = slots[i]
          BY <4>1, <4>2, <2>0 DEF Empty
        <4>7. ASSUME NEW v \in Workers, Holds(v)
              PROVE  /\ current + 1 <= worker[v].chunk /\ worker[v].chunk < next
                     /\ ~slots'[worker[v].chunk].full
          <5>1. current <= worker[v].chunk /\ worker[v].chunk < next /\ ~slots[worker[v].chunk].full
            BY <4>7 DEF WindowInv, HeldAhead
          <5>2. worker[v].chunk # current
            BY <5>1, <4>1
          <5>3. worker[v].chunk \in Indices
            BY <2>01
          <5>4. QED BY <5>1, <5>2, <5>3, <4>6, <2>0
        <4>8. HeldAhead'
          BY <4>1, <4>4, <4>5, <4>7 DEF HeldAhead
        <4>9. FetchedInWindow'
          <5> SUFFICES ASSUME NEW v \in Workers, worker'[v].pc \in {"fetch", "deliver"}
                       PROVE  current' <= worker'[v].chunk /\ worker'[v].chunk < current' + MaxPrefetch
            BY DEF FetchedInWindow, InWindow
          <5>1. worker[v].pc \in {"fetch", "deliver"} /\ worker'[v].chunk = worker[v].chunk
            BY <4>4
          <5>2. current + 1 <= worker[v].chunk
            BY <5>1, <4>7 DEF Holds, Holding
          <5>3. worker[v].chunk < current + MaxPrefetch /\ worker[v].chunk \in Int
            BY <5>1, <2>01 DEF WindowInv, FetchedInWindow, InWindow
          <5>4. QED BY <5>1, <5>2, <5>3, <4>1, <2>0 DEF InWindow
        <4>10. HeldOnce'
          BY <4>4, <4>5 DEF WindowInv, HeldOnce
        <4>11. FullInWindow'
          <5> SUFFICES ASSUME NEW i \in Indices, slots'[i].full
                       PROVE  i < next' /\ InWindow(i)'
            BY DEF FullInWindow
          <5>1. i # current /\ slots[i].full
            BY <4>6
          <5>2. i < next /\ current <= i /\ i < current + MaxPrefetch /\ i \in Int
            BY <5>1 DEF WindowInv, FullInWindow, InWindow
          <5>3. QED BY <5>1, <5>2, <4>1, <2>0 DEF InWindow
        <4>12. QED BY <4>1, <4>3, <4>8, <4>9, <4>10, <4>11, <2>0 DEF WindowInv
      <3>3. QED BY <3>1, <3>2
    <2>8. CASE Watch \/ WaitAll
      BY <2>8, <2>03 DEF Watch, WaitAll, WokenByWatch
    <2>9. CASE Close
      <3>1. /\ worker' = Woken(worker) /\ UNCHANGED <<next, current>>
            /\ \A i \in Indices : ~slots'[i].full
        BY <2>9 DEF Close, Empty
      <3>2. \A v \in Workers : /\ worker'[v].chunk = worker[v].chunk
                               /\ worker'[v].pc = IF worker[v].pc = "asleep" THEN "window" ELSE worker[v].pc
        BY <3>1, <2>0, WokenFacts
      <3>3. QED
        BY <3>1, <3>2, <2>01
        DEF WindowInv, HeldAhead, FetchedInWindow, HeldOnce, FullInWindow, InWindow, Holds, Holding
    <2>10. CASE UNCHANGED vars
      BY <2>10, <2>02 DEF vars
    <2>11. QED BY <2>1, <2>2, <2>3, <2>4, <2>5, <2>6, <2>7, <2>8, <2>9, <2>10 DEF Next, WorkerStep
  <1>3. QED BY <1>1, <1>2, TypeCorrect, PTL DEF Spec

(***************************************************************************)
(* "Bounded memory backpressure": never more than MaxPrefetch chunks in    *)
(* memory, those being downloaded included.                                *)
(***************************************************************************)
THEOREM MemoryBounded == Spec => []PrefetchBounded
PROOF
  <1>1. ASSUME TypeOK, WindowInv PROVE PrefetchBounded
    <2> DEFINE W == current..(current + MaxPrefetch - 1)
    <2>0. current \in Int /\ \A w \in Workers : worker[w].chunk \in Indices
      BY <1>1 DEF TypeOK
    <2>1. \A i \in Indices : InWindow(i) => i \in W
      BY <2>0, Parameters DEF InWindow
    <2>2. InMemory \subseteq W
      <3> HIDE DEF W
      <3> QED BY <1>1, <2>0, <2>1 DEF InMemory, WindowInv, FullInWindow, FetchedInWindow
    <2>3. IsFiniteSet(W) /\ Cardinality(W) = MaxPrefetch
      <3>1. current + MaxPrefetch - 1 \in Int /\ ~(current > current + MaxPrefetch - 1)
        BY <2>0, Parameters
      <3>2. IsFiniteSet(W) /\ Cardinality(W) = (current + MaxPrefetch - 1) - current + 1
        BY <2>0, <3>1, FS_Interval
      <3>3. QED BY <2>0, <3>2, Parameters
    <2>4. Cardinality(InMemory) <= Cardinality(W)
      <3> HIDE DEF W
      <3> QED BY <2>2, <2>3, FS_Subset
    <2>5. QED BY <2>3, <2>4 DEF PrefetchBounded
  <1>2. QED BY <1>1, TypeCorrect, WindowInvariant, PTL
-----------------------------------------------------------------------------
(* The refinement of OrderedStream. What an attempt that broke off had in  *)
(* its buffer is lost, so of the bytes of a chunk the first lo are, lo     *)
(* being where the attempt began whose buffer holds the rest.              *)

GoneUpTo(c, lo) == \A o \in 0..(ChunkLen - 1) : c * ChunkLen + o \in lost <=> o < lo

Attempts ==
  \A w \in Workers :
    /\ worker[w].pc \in {"window", "asleep"} => worker[w].lo = 0 /\ worker[w].hi = 0 /\ ~worker[w].err
    /\ worker[w].pc = "fetch" =>
         worker[w].lo <= worker[w].hi /\ worker[w].lo < ChunkLen /\ ~worker[w].err
    /\ worker[w].pc = "deliver" /\ ~worker[w].err => worker[w].lo < ChunkLen
    /\ Holds(w) /\ ~worker[w].err => GoneUpTo(worker[w].chunk, worker[w].lo)

UntakenWhole == \A c \in Indices : next <= c => GoneUpTo(c, 0)

SlotsWhole ==
  \A c \in Indices : slots[c].full /\ ~slots[c].err =>
    \E lo \in 0..(ChunkLen - 1) : slots[c].data = Data(c, lo) /\ GoneUpTo(c, lo)

ClosedIsCancelled == closed => cancelled

\* After an error every further Read fails.
ErrorStays ==
  answer = "error" =>
    cancelled \/ (buf = <<>> /\ current < NumChunks /\ slots[current].full /\ slots[current].err)

\* pos is the offset up to which the reader has read; buf holds what there is
\* from it to the end of the last chunk taken.
Rest(pos) ==
  /\ Len(buf) = current * ChunkLen - pos
  /\ \A i \in 1..Len(buf) : buf[i] = pos + i - 1 /\ buf[i] \notin lost
ReadSoFar ==
  \E pos \in 0..(current * ChunkLen) : Ordered!Prefix(out, pos, lost) /\ (~closed => Rest(pos))

StreamInv ==
  Attempts /\ UntakenWhole /\ SlotsWhole /\ ClosedIsCancelled /\ ErrorStays /\ ReadSoFar

(***************************************************************************)
(* A byte belongs to one chunk.                                            *)
(***************************************************************************)
LEMMA ByteOfOneChunk ==
  ASSUME NEW c \in Nat, NEW d \in Nat, c # d, NEW o \in 0..(ChunkLen - 1), NEW p \in 0..(ChunkLen - 1)
  PROVE  c * ChunkLen + o # d * ChunkLen + p
PROOF
  <1>1. CASE c < d
    <2>1. c * ChunkLen \in Nat /\ d * ChunkLen \in Nat /\ c * ChunkLen + ChunkLen <= d * ChunkLen
      BY <1>1, ChunkBounds
    <2>2. QED BY <2>1, Parameters
  <1>2. CASE d < c
    <2>1. c * ChunkLen \in Nat /\ d * ChunkLen \in Nat /\ d * ChunkLen + ChunkLen <= c * ChunkLen
      BY <1>2, ChunkBounds
    <2>2. QED BY <2>1, Parameters
  <1>3. QED BY <1>1, <1>2

(***************************************************************************)
(* What Read hands out continues what it has handed out, when only lost    *)
(* bytes lie between.                                                      *)
(***************************************************************************)
LEMMA PrefixExtended ==
  ASSUME NEW s \in Seq(Nat), NEW t \in Seq(Nat), NEW p \in Nat, NEW q \in Nat, p <= q, NEW gone,
         Ordered!Prefix(s, p, gone),
         \A b \in p..(q - 1) : b \in gone,
         \A i \in 1..Len(t) : t[i] = q + i - 1 /\ t[i] \notin gone
  PROVE  Ordered!Prefix(s \o t, q + Len(t), gone)
PROOF
  <1> DEFINE m == Len(s)
             k == Len(t)
             r == s \o t
  <1>1. /\ m \in Nat /\ k \in Nat /\ Len(r) = m + k
        /\ \A i \in 1..m : r[i] = s[i]
        /\ \A i \in (m + 1)..(m + k) : r[i] = t[i - m]
    BY ConcatProperties
  <1>2. /\ \A i \in 1..m : s[i] \in 0..(p - 1) /\ s[i] \notin gone
        /\ \A b \in 0..(p - 1) : b \in gone \/ \E i \in 1..m : s[i] = b
        /\ \A i, j \in 1..m : i < j => s[i] < s[j]
    BY DEF Ordered!Prefix
  <1> HIDE DEF m, k, r
  <1>3. ASSUME NEW i \in (m + 1)..(m + k) PROVE r[i] = q + (i - m) - 1 /\ r[i] \notin gone
    <2>1. i - m \in 1..k /\ r[i] = t[i - m]
      BY <1>1
    <2>2. QED BY <2>1 DEF k
  <1>4. ASSUME NEW i \in 1..(m + k) PROVE r[i] \in 0..(q + k - 1) /\ r[i] \notin gone
    <2>1. CASE i <= m
      <3>1. i \in 1..m
        BY <2>1, <1>1
      <3>2. r[i] = s[i] /\ s[i] \in 0..(p - 1) /\ s[i] \notin gone
        BY <3>1, <1>1, <1>2
      <3>3. 0..(p - 1) \subseteq 0..(q + k - 1)
        BY <1>1
      <3>4. QED BY <3>2, <3>3
    <2>2. CASE i > m
      <3>1. i \in (m + 1)..(m + k)
        BY <2>2, <1>1
      <3>2. QED BY <3>1, <1>1, <1>3
    <2>3. QED BY <2>1, <2>2, <1>1
  <1>5. ASSUME NEW b \in 0..(q + k - 1) PROVE b \in gone \/ \E i \in 1..(m + k) : r[i] = b
    <2>1. CASE b < p
      <3>1. b \in gone \/ \E i \in 1..m : s[i] = b
        BY <2>1, <1>2
      <3>2. QED BY <3>1, <1>1
    <2>2. CASE p <= b /\ b < q
      BY <2>2
    <2>3. CASE q <= b
      <3> DEFINE i == m + (b - q) + 1
      <3>1. i \in (m + 1)..(m + k)
        BY <2>3, <1>1
      <3>2. r[i] = b
        BY <3>1, <1>1, <1>3
      <3>3. i \in 1..(m + k)
        BY <3>1, <1>1
      <3>4. QED BY <3>2, <3>3
    <2>4. QED BY <2>1, <2>2, <2>3
  <1>6. ASSUME NEW i \in 1..(m + k), NEW j \in 1..(m + k), i < j PROVE r[i] < r[j]
    <2>1. CASE j <= m
      BY <2>1, <1>1, <1>2, <1>6
    <2>2. CASE i <= m /\ j > m
      <3>1. r[i] \in 0..(p - 1)
        BY <2>2, <1>1, <1>2
      <3>2. r[j] = q + (j - m) - 1
        BY <2>2, <1>1, <1>3
      <3>3. QED BY <3>1, <3>2, <2>2, <1>1
    <2>3. CASE i > m
      <3>1. r[i] = q + (i - m) - 1 /\ r[j] = q + (j - m) - 1
        BY <2>3, <1>1, <1>3, <1>6
      <3>2. QED BY <3>1, <1>1, <1>6
    <2>4. QED BY <2>1, <2>2, <2>3, <1>1
  <1>7. Ordered!Prefix(r, q + k, gone)
    BY <1>1, <1>4, <1>5, <1>6 DEF Ordered!Prefix
  <1>8. QED BY <1>7 DEF r, k

(***************************************************************************)
(* Losing bytes the reader has not come to changes nothing for it.         *)
(***************************************************************************)
LEMMA PrefixLoses ==
  ASSUME NEW s \in Seq(Nat), NEW p \in Nat, NEW gone, NEW more, gone \subseteq more,
         \A b \in more : b \in gone \/ b \notin 0..(p - 1),
         Ordered!Prefix(s, p, gone)
  PROVE  Ordered!Prefix(s, p, more)
BY DEF Ordered!Prefix

(***************************************************************************)
(* What Read leaves behind when it has handed out some of data, which      *)
(* begin at offset q.                                                      *)
(***************************************************************************)
LEMMA Handed ==
  ASSUME NEW data \in Seq(Nat), out \in Seq(Nat), Hand(data),
         NEW p \in Nat, NEW q \in Nat, p <= q,
         Ordered!Prefix(out, p, lost),
         \A b \in p..(q - 1) : b \in lost,
         \A i \in 1..Len(data) : data[i] = q + i - 1 /\ data[i] \notin lost
  PROVE  \E n \in 1..Len(data) :
           /\ Ordered!Prefix(out', q + n, lost)
           /\ Len(out') = Len(out) + n
           /\ Len(buf') = Len(data) - n
           /\ \A i \in 1..Len(buf') : buf'[i] = q + n + i - 1 /\ buf'[i] \notin lost
PROOF
  <1>1. PICK n \in 1..Len(data) : /\ out' = out \o SubSeq(data, 1, n)
                                  /\ buf' = SubSeq(data, n + 1, Len(data))
    BY DEF Hand
  <1> DEFINE t == SubSeq(data, 1, n)
             u == SubSeq(data, n + 1, Len(data))
             k == Len(data)
  <1>2. k \in Nat /\ n \in Nat /\ n <= k /\ \A i \in 1..k : data[i] \in Nat
    BY ElementOfSeq
  <1>3. t \in Seq(Nat) /\ Len(t) = n /\ \A i \in 1..n : t[i] = data[i]
    <2>1. \A i \in 1..n : data[i] \in Nat
      BY <1>2
    <2>2. /\ t \in Seq(Nat) /\ Len(t) = IF 1 <= n THEN n - 1 + 1 ELSE 0
          /\ \A i \in 1..(n - 1 + 1) : t[i] = data[1 + i - 1]
      BY <1>2, <2>1, SubSeqProperties
    <2> HIDE DEF t
    <2>3. QED BY <1>2, <2>2
  <1>4. Len(u) = k - n /\ \A i \in 1..(k - n) : u[i] = data[n + i]
    <2>1. \A i \in (n + 1)..k : data[i] \in Nat
      BY <1>2
    <2>2. /\ Len(u) = IF n + 1 <= k THEN k - (n + 1) + 1 ELSE 0
          /\ \A i \in 1..(k - (n + 1) + 1) : u[i] = data[(n + 1) + i - 1]
      BY <1>2, <2>1, SubSeqProperties
    <2> HIDE DEF u, k
    <2>3. QED BY <1>2, <2>2
  <1>5. Ordered!Prefix(out', q + n, lost)
    <2>1. \A i \in 1..Len(t) : t[i] = q + i - 1 /\ t[i] \notin lost
      BY <1>2, <1>3
    <2> HIDE DEF t
    <2>2. Ordered!Prefix(out \o t, q + Len(t), lost)
      BY <1>3, <2>1, PrefixExtended
    <2>3. QED BY <1>1, <1>3, <2>2 DEF t
  <1>6. Len(out') = Len(out) + n
    BY <1>1, <1>3, ConcatProperties
  <1>7. Len(buf') = Len(data) - n
    BY <1>1, <1>4
  <1>8. ASSUME NEW i \in 1..(k - n) PROVE buf'[i] = q + n + i - 1 /\ buf'[i] \notin lost
    <2>1. buf'[i] = data[n + i] /\ n + i \in 1..k
      BY <1>1, <1>2, <1>4
    <2>2. QED BY <2>1, <1>2
  <1>9. QED BY <1>5, <1>6, <1>7, <1>8
-----------------------------------------------------------------------------
AttemptOK(w) ==
  /\ worker[w].pc \in {"window", "asleep"} => worker[w].lo = 0 /\ worker[w].hi = 0 /\ ~worker[w].err
  /\ worker[w].pc = "fetch" =>
       worker[w].lo <= worker[w].hi /\ worker[w].lo < ChunkLen /\ ~worker[w].err
  /\ worker[w].pc = "deliver" /\ ~worker[w].err => worker[w].lo < ChunkLen
  /\ Holds(w) /\ ~worker[w].err => GoneUpTo(worker[w].chunk, worker[w].lo)

LEMMA AttemptsAre == Attempts <=> \A w \in Workers : AttemptOK(w)
BY DEF Attempts, AttemptOK

LEMMA AttemptsArePrimed == Attempts' <=> \A w \in Workers : AttemptOK(w)'
BY DEF Attempts, AttemptOK

LEMMA AttemptUntouched ==
  ASSUME NEW w \in Workers, AttemptOK(w), worker'[w] = worker[w], lost' = lost
  PROVE  AttemptOK(w)'
BY DEF AttemptOK, Holds, GoneUpTo

LEMMA AttemptWoken ==
  ASSUME TypeOK, NEW w \in Workers, AttemptOK(w), worker'[w] = Woken(worker)[w], lost' = lost
  PROVE  AttemptOK(w)'
PROOF
  <1>1. worker \in [Workers -> WorkerRecord]
    BY DEF TypeOK, WorkerRecord, PCs
  <1>2. CASE worker[w].pc = "asleep"
    <2>1. /\ worker'[w].pc = "window" /\ worker'[w].chunk = worker[w].chunk
          /\ worker'[w].lo = worker[w].lo /\ worker'[w].hi = worker[w].hi
          /\ worker'[w].err = worker[w].err
      BY <1>1, <1>2, WokenFacts
    <2>2. worker[w].lo = 0 /\ worker[w].hi = 0 /\ ~worker[w].err /\ GoneUpTo(worker[w].chunk, 0)
      BY <1>2 DEF AttemptOK, Holds, Holding
    <2>3. ~worker'[w].err
      BY <2>1, <2>2, Zenon
    <2>4. QED BY <2>1, <2>2, <2>3 DEF AttemptOK, GoneUpTo
  <1>3. CASE worker[w].pc # "asleep"
    <2>1. worker'[w] = worker[w]
      BY <1>3 DEF Woken
    <2>2. QED BY <2>1, AttemptUntouched
  <1>4. QED BY <1>2, <1>3

(***************************************************************************)
(* Steps that leave the reader, the slots and the lost bytes alone keep    *)
(* all but the part about the workers.                                     *)
(***************************************************************************)
LEMMA OuterKept ==
  ASSUME StreamInv, UNCHANGED <<lost, slots, current, buf, out, answer, closed>>,
         next \in Nat, next' \in Nat, next <= next', cancelled => cancelled'
  PROVE  UntakenWhole' /\ SlotsWhole' /\ ClosedIsCancelled' /\ ErrorStays' /\ ReadSoFar'
PROOF
  <1>1. UntakenWhole'
    <2>1. \A c \in Indices : next' <= c => next <= c
      BY Parameters
    <2>2. QED BY <2>1 DEF StreamInv, UntakenWhole, GoneUpTo
  <1>2. SlotsWhole'
    BY DEF StreamInv, SlotsWhole, GoneUpTo
  <1>3. ClosedIsCancelled' /\ ErrorStays' /\ ReadSoFar'
    BY DEF StreamInv, ClosedIsCancelled, ErrorStays, ReadSoFar, Rest, Ordered!Prefix
  <1>4. QED BY <1>1, <1>2, <1>3

(***************************************************************************)
(* What an attempt loses are bytes of its chunk alone.                     *)
(***************************************************************************)
LEMMA LostOfOneChunk ==
  ASSUME NEW c \in Nat, NEW lo \in 0..ChunkLen, NEW hi \in 0..ChunkLen, lo <= hi,
         lost' = lost \cup {c * ChunkLen + o : o \in lo..(hi - 1)}
  PROVE  /\ GoneUpTo(c, lo) => GoneUpTo(c, hi)'
         /\ \A d \in Nat, e \in Nat : c # d /\ GoneUpTo(d, e) => GoneUpTo(d, e)'
PROOF
  <1>1. ChunkLen \in Nat /\ c * ChunkLen \in Nat
    BY Parameters
  <1>2. ASSUME GoneUpTo(c, lo) PROVE GoneUpTo(c, hi)'
    <2> SUFFICES ASSUME NEW o \in 0..(ChunkLen - 1)
                 PROVE  c * ChunkLen + o \in lost' <=> o < hi
      BY DEF GoneUpTo
    <2>1. c * ChunkLen + o \in lost <=> o < lo
      BY <1>2 DEF GoneUpTo
    <2>2. c * ChunkLen + o \in {c * ChunkLen + p : p \in lo..(hi - 1)} <=> o \in lo..(hi - 1)
      BY <1>1
    <2>3. o \in lo..(hi - 1) <=> lo <= o /\ o < hi
      BY <1>1
    <2>4. QED BY <2>1, <2>2, <2>3, <1>1
  <1>3. ASSUME NEW d \in Nat, NEW e \in Nat, c # d, GoneUpTo(d, e) PROVE GoneUpTo(d, e)'
    <2> SUFFICES ASSUME NEW o \in 0..(ChunkLen - 1)
                 PROVE  d * ChunkLen + o \in lost' <=> o < e
      BY DEF GoneUpTo
    <2>1. d * ChunkLen + o \in lost <=> o < e
      BY <1>3 DEF GoneUpTo
    <2>2. ASSUME NEW p \in lo..(hi - 1) PROVE d * ChunkLen + o # c * ChunkLen + p
      <3>1. p \in 0..(ChunkLen - 1)
        BY <1>1
      <3>2. QED BY <3>1, <1>3, ByteOfOneChunk
    <2>3. QED BY <2>1, <2>2
  <1>4. QED BY <1>2, <1>3

(***************************************************************************)
(* A Read that returns data leaves the reader further on, at the offset    *)
(* the rest in its buffer begins with.                                     *)
(***************************************************************************)
LEMMA DataRead ==
  ASSUME TypeOK, StreamInv, ReadBuffered \/ ReadNext
  PROVE  /\ ~closed /\ answer # "error" /\ Len(out') > Len(out)
         /\ \E n \in 1..Size :
              n <= current' * ChunkLen /\ Ordered!Prefix(out', n, lost) /\ Rest(n)'
PROOF
  <1> USE Parameters
  <1>1. current \in 0..NumChunks /\ buf \in Seq(Nat) /\ out \in Seq(Nat)
    BY DEF TypeOK
  <1>2. ~cancelled /\ ~closed /\ lost' = lost
    BY DEF ReadBuffered, ReadNext, AwaitsSlot, StreamInv, ClosedIsCancelled
  <1>3. PICK pos \in 0..(current * ChunkLen) : Ordered!Prefix(out, pos, lost) /\ Rest(pos)
    BY <1>2 DEF StreamInv, ReadSoFar
  <1>4. answer # "error"
    BY <1>2 DEF ReadBuffered, ReadNext, AwaitsSlot, StreamInv, ErrorStays
  <1>5. current * ChunkLen \in Nat /\ pos \in Nat /\ Len(out) \in Nat
    BY <1>1, <1>3
  <1>6. CASE ReadBuffered
    <2>1. Hand(buf) /\ current' = current
      BY <1>6 DEF ReadBuffered
    <2>2. /\ \A i \in 1..Len(buf) : buf[i] = pos + i - 1 /\ buf[i] \notin lost
          /\ Len(buf) = current * ChunkLen - pos
      BY <1>3 DEF Rest
    <2>3. PICK n \in 1..Len(buf) :
            /\ Ordered!Prefix(out', pos + n, lost)
            /\ Len(out') = Len(out) + n
            /\ Len(buf') = Len(buf) - n
            /\ \A i \in 1..Len(buf') : buf'[i] = pos + n + i - 1 /\ buf'[i] \notin lost
      <3>1. pos <= pos /\ \A b \in pos..(pos - 1) : b \in lost
        BY <1>5
      <3>2. QED BY <3>1, <2>1, <2>2, <1>1, <1>3, <1>5, Handed
    <2>4. n \in Nat /\ n > 0 /\ pos + n <= current * ChunkLen
      BY <2>2, <2>3, <1>1, <1>5
    <2>5. current * ChunkLen <= Size
      <3>1. CASE current < NumChunks
        <4>1. current * ChunkLen + ChunkLen <= NumChunks * ChunkLen
          BY <3>1, <1>1, ChunkBounds
        <4>2. QED BY <4>1, <1>5 DEF Size
      <3>2. CASE current = NumChunks
        BY <3>2, <1>5 DEF Size
      <3>3. QED BY <3>1, <3>2, <1>1
    <2>6. pos + n \in 1..Size
      BY <2>4, <2>5, <1>5
    <2>7. Rest(pos + n)'
      <3>1. Len(buf') = current * ChunkLen - (pos + n)
        BY <2>2, <2>3, <2>4, <1>5
      <3>2. QED BY <3>1, <2>1, <2>3, <1>2 DEF Rest
    <2>8. QED BY <2>1, <2>3, <2>4, <2>6, <2>7, <1>2, <1>4, <1>5
  <1>7. CASE ReadNext
    <2>1. /\ Hand(slots[current].data) /\ current' = current + 1
          /\ buf = <<>> /\ slots[current].full /\ ~slots[current].err
      BY <1>7 DEF ReadNext, AwaitsSlot
    <2>2. current \in Indices /\ current < NumChunks
      BY <1>7, <1>1 DEF ReadNext, AwaitsSlot, AtEnd, Indices
    <2>3. PICK lo \in 0..(ChunkLen - 1) :
            slots[current].data = Data(current, lo) /\ GoneUpTo(current, lo)
      BY <2>1, <2>2 DEF StreamInv, SlotsWhole
    <2>4. pos = current * ChunkLen
      BY <2>1, <1>3, <1>5 DEF Rest
    <2> DEFINE q == pos + lo
               data == slots[current].data
    <2>5. /\ data \in Seq(Nat) /\ Len(data) = ChunkLen - lo
          /\ \A i \in 1..(ChunkLen - lo) : data[i] = current * ChunkLen + lo + i - 1
      <3>1. lo \in 0..ChunkLen /\ current \in Nat
        BY <1>1
      <3>2. QED BY <3>1, <2>3, DataFacts
    <2>6. \A o \in 0..(ChunkLen - 1) : pos + o \in lost <=> o < lo
      BY <2>3, <2>4 DEF GoneUpTo
    <2>7. ASSUME NEW b \in pos..(q - 1) PROVE b \in lost
      <3>1. b - pos \in 0..(ChunkLen - 1) /\ b - pos < lo /\ pos + (b - pos) = b
        BY <1>5
      <3>2. QED BY <3>1, <2>6
    <2>8. ASSUME NEW i \in 1..Len(data) PROVE data[i] = q + i - 1 /\ data[i] \notin lost
      <3>1. i \in 1..(ChunkLen - lo)
        BY <2>5
      <3>2. data[i] = pos + (lo + i - 1) /\ data[i] = q + i - 1
        BY <3>1, <2>4, <2>5, <1>5
      <3>3. lo + i - 1 \in 0..(ChunkLen - 1) /\ ~(lo + i - 1 < lo)
        BY <3>1
      <3>4. QED BY <3>2, <3>3, <2>6
    <2>9. q \in Nat /\ pos <= q /\ Hand(data)
      BY <2>1, <1>5
    <2> HIDE DEF data
    <2>10. PICK n \in 1..Len(data) :
            /\ Ordered!Prefix(out', q + n, lost)
            /\ Len(out') = Len(out) + n
            /\ Len(buf') = Len(data) - n
            /\ \A i \in 1..Len(buf') : buf'[i] = q + n + i - 1 /\ buf'[i] \notin lost
      <3> HIDE DEF q
      <3> QED BY <2>5, <2>7, <2>8, <2>9, <1>1, <1>3, <1>5, Handed
    <2>11. /\ current' * ChunkLen = pos + ChunkLen /\ current' * ChunkLen <= Size
      <3>1. (current + 1) * ChunkLen = current * ChunkLen + ChunkLen
        BY <1>1
      <3>2. current * ChunkLen + ChunkLen <= NumChunks * ChunkLen
        BY <2>2, <1>1, ChunkBounds
      <3>3. QED BY <3>1, <3>2, <2>1, <2>4 DEF Size
    <2>12. n \in Nat /\ n > 0 /\ n <= ChunkLen - lo
      BY <2>5, <2>10
    <2>13. q + n <= pos + ChunkLen /\ q + n \in Nat /\ q + n > 0
      BY <2>12, <1>5
    <2>14. q + n \in 1..Size /\ q + n <= current' * ChunkLen
      <3> HIDE DEF q
      <3> QED BY <2>11, <2>13, <1>5
    <2>15. Rest(q + n)'
      <3>1. Len(buf') = current' * ChunkLen - (q + n)
        BY <2>5, <2>10, <2>11, <2>12, <1>5
      <3>2. QED BY <3>1, <2>10, <1>2 DEF Rest
    <2>16. Len(out') > Len(out)
      BY <2>10, <2>12, <1>5
    <2>17. QED BY <2>10, <2>14, <2>15, <2>16, <1>2, <1>4
  <1>8. QED BY <1>6, <1>7

(***************************************************************************)
(* The invariant of the stream holds in every reachable state.             *)
(***************************************************************************)
LEMMA StreamInvariant == Spec => []StreamInv
PROOF
  <1> USE Parameters
  <1>1. Init => StreamInv
    <2> SUFFICES ASSUME Init PROVE StreamInv
      OBVIOUS
    <2>1. \A w \in Workers : worker[w].pc = "take"
      BY DEF Init, Locals
    <2>2. Attempts
      BY <2>1 DEF Attempts, Holds, Holding
    <2>3. UntakenWhole
      BY DEF Init, UntakenWhole, GoneUpTo
    <2>4. \A c \in Indices : ~slots[c].full
      BY DEF Init, Empty
    <2>5. SlotsWhole
      BY <2>4 DEF SlotsWhole
    <2>6. ClosedIsCancelled /\ ErrorStays
      BY DEF Init, ClosedIsCancelled, ErrorStays
    <2>7. ReadSoFar
      <3>1. current * ChunkLen = 0 /\ out = <<>> /\ buf = <<>>
        BY DEF Init
      <3>2. Ordered!Prefix(out, 0, lost) /\ Rest(0)
        BY <3>1 DEF Ordered!Prefix, Rest
      <3>3. QED BY <3>1, <3>2 DEF ReadSoFar
    <2>8. QED BY <2>2, <2>3, <2>5, <2>6, <2>7 DEF StreamInv
  <1>2. TypeOK /\ WindowInv /\ StreamInv /\ [Next]_vars => StreamInv'
    <2> SUFFICES ASSUME TypeOK, WindowInv, StreamInv, [Next]_vars PROVE StreamInv'
      OBVIOUS
    <2> USE DEF content, flags, helpers, reading
    <2>0. /\ worker \in [Workers -> WorkerRecord] /\ slots \in [Indices -> SlotRecord]
          /\ next \in 0..NumChunks /\ current \in 0..NumChunks
      BY DEF TypeOK, WorkerRecord, PCs, SlotRecord
    <2>01. ASSUME NEW w \in Workers
           PROVE  /\ worker[w].pc \in PCs /\ worker[w].chunk \in Indices
                  /\ worker[w].lo \in 0..ChunkLen /\ worker[w].hi \in 0..ChunkLen
                  /\ AttemptOK(w)
      <3>1. worker[w] \in WorkerRecord
        BY <2>0
      <3>2. QED BY <3>1, AttemptsAre DEF StreamInv, WorkerRecord
    \* A step of worker w.
    <2>02. ASSUME NEW w \in Workers, NEW x, worker' = [worker EXCEPT ![w] = x], AttemptOK(w)',
                  UNCHANGED <<lost, slots, current, buf, out, answer, closed>>,
                  next' \in Nat, next <= next', cancelled => cancelled'
           PROVE  StreamInv'
      <3>1. UntakenWhole' /\ SlotsWhole' /\ ClosedIsCancelled' /\ ErrorStays' /\ ReadSoFar'
        BY <2>02, <2>0, OuterKept
      <3>2. ASSUME NEW v \in Workers PROVE AttemptOK(v)'
        <4>1. CASE v = w
          BY <4>1, <2>02
        <4>2. CASE v # w
          BY <4>2, <2>02, <2>01, <2>0, AttemptUntouched
        <4>3. QED BY <4>1, <4>2
      <3>3. QED BY <3>1, <3>2, AttemptsArePrimed DEF StreamInv
    \* A step that moves no worker, or wakes them.
    <2>03. ASSUME worker' = worker \/ worker' = Woken(worker), lost' = lost
           PROVE  Attempts'
      <3>1. ASSUME NEW v \in Workers PROVE AttemptOK(v)'
        BY <2>03, <2>01, AttemptUntouched, AttemptWoken
      <3>2. QED BY <3>1, AttemptsArePrimed
    <2>04. ASSUME worker' = worker \/ worker' = Woken(worker),
                  UNCHANGED <<next, lost, slots, current, buf, out, answer, closed>>,
                  cancelled => cancelled'
           PROVE  StreamInv'
      <3>1. UntakenWhole' /\ SlotsWhole' /\ ClosedIsCancelled' /\ ErrorStays' /\ ReadSoFar'
        BY <2>04, <2>0, OuterKept
      <3>2. QED BY <3>1, <2>03, <2>04 DEF StreamInv
    <2>1. ASSUME NEW w \in Workers, TakeJob(w) PROVE StreamInv'
      <3>1. CASE next < NumChunks
        <4>1. /\ worker' = [worker EXCEPT ![w] = [Locals("window") EXCEPT !.chunk = next]]
              /\ next' = next + 1
          BY <2>1, <3>1 DEF TakeJob
        <4>2. GoneUpTo(next, 0)
          <5>1. next \in Indices
            BY <3>1, <2>0 DEF Indices
          <5>2. QED BY <5>1, <2>0 DEF StreamInv, UntakenWhole
        <4>3. /\ worker'[w].pc = "window" /\ worker'[w].chunk = next
              /\ worker'[w].lo = 0 /\ worker'[w].hi = 0
          BY <4>1, <2>0 DEF Locals
        <4>4. ~worker'[w].err
          <5>1. worker'[w].err = FALSE
            BY <4>1, <2>0 DEF Locals
          <5>2. QED BY <5>1
        <4>5. AttemptOK(w)'
          <5>1. lost' = lost
            BY <2>1 DEF TakeJob
          <5>2. QED BY <4>2, <4>3, <4>4, <5>1 DEF AttemptOK, GoneUpTo
        <4>6. next' \in Nat /\ next <= next'
          BY <4>1, <2>0
        <4>7. QED BY <4>1, <4>5, <4>6, <2>1, <2>02 DEF TakeJob
      <3>2. CASE ~(next < NumChunks)
        <4>1. worker' = [worker EXCEPT ![w] = Locals("exited")] /\ next' = next
          BY <2>1, <3>2 DEF TakeJob
        <4>2. worker'[w].pc = "exited"
          BY <4>1, <2>0 DEF Locals
        <4>3. AttemptOK(w)'
          BY <4>2 DEF AttemptOK, Holds, Holding
        <4>4. /\ UNCHANGED <<lost, slots, current, buf, out, answer, closed, cancelled>>
              /\ next' \in Nat /\ next <= next'
          BY <4>1, <2>0, <2>1 DEF TakeJob
        <4>5. QED BY <4>1, <4>3, <4>4, <2>02
      <3>3. QED BY <3>1, <3>2
    <2>2. ASSUME NEW w \in Workers, EnterWindow(w) PROVE StreamInv'
      <3> DEFINE to == IF closed \/ cancelled THEN "exited"
                       ELSE IF Beyond(worker[w].chunk) THEN "asleep" ELSE "fetch"
                 x == [worker[w] EXCEPT !.pc = to]
      <3>1. worker' = [worker EXCEPT ![w] = x] /\ worker[w].pc = "window" /\ lost' = lost
        BY <2>2 DEF EnterWindow, At
      <3>2. to \in {"exited", "asleep", "fetch"}
        OBVIOUS
      <3> HIDE DEF to
      <3>3. /\ worker'[w].pc = to /\ worker'[w].chunk = worker[w].chunk
            /\ worker'[w].lo = worker[w].lo /\ worker'[w].hi = worker[w].hi
            /\ worker'[w].err = worker[w].err
        BY <3>1, <2>0 DEF WorkerRecord
      <3>4. worker[w].lo = 0 /\ worker[w].hi = 0 /\ ~worker[w].err /\ GoneUpTo(worker[w].chunk, 0)
        BY <3>1, <2>01 DEF AttemptOK, Holds, Holding
      <3>5. ~worker'[w].err
        BY <3>3, <3>4, Zenon
      <3>6. GoneUpTo(worker[w].chunk, 0)'
        BY <3>1, <3>3, <3>4 DEF GoneUpTo
      <3>7. AttemptOK(w)'
        BY <3>1, <3>2, <3>3, <3>4, <3>5 DEF AttemptOK, GoneUpTo
      <3> HIDE DEF x
      <3>8. /\ UNCHANGED <<lost, slots, current, buf, out, answer, closed>>
            /\ next' \in Nat /\ next <= next' /\ (cancelled => cancelled')
        BY <2>0, <2>2 DEF EnterWindow
      <3>9. QED BY <3>1, <3>7, <3>8, <2>02
    <2>3. ASSUME NEW w \in Workers, Receive(w) PROVE StreamInv'
      <3>1. PICK n \in (worker[w].hi + 1)..ChunkLen : worker' = [worker EXCEPT ![w].hi = n]
        BY <2>3 DEF Receive
      <3> DEFINE x == [worker[w] EXCEPT !.hi = n]
      <3>2. worker' = [worker EXCEPT ![w] = x] /\ worker[w].pc = "fetch" /\ lost' = lost
        BY <3>1, <2>3 DEF Receive, At
      <3>3. /\ worker'[w].pc = "fetch" /\ worker'[w].chunk = worker[w].chunk
            /\ worker'[w].lo = worker[w].lo /\ worker'[w].hi = n
            /\ worker'[w].err = worker[w].err
        BY <3>2, <2>0 DEF WorkerRecord
      <3>4. /\ worker[w].lo <= worker[w].hi /\ worker[w].lo < ChunkLen /\ ~worker[w].err
            /\ GoneUpTo(worker[w].chunk, worker[w].lo)
        BY <3>2, <2>01 DEF AttemptOK, Holds, Holding
      <3>5. ~worker'[w].err
        BY <3>3, <3>4, Zenon
      <3>6. worker'[w].lo <= worker'[w].hi
        BY <3>3, <3>4, <2>01
      <3>7. AttemptOK(w)'
        BY <3>2, <3>3, <3>4, <3>5, <3>6 DEF AttemptOK, GoneUpTo
      <3> HIDE DEF x
      <3>8. /\ UNCHANGED <<lost, slots, current, buf, out, answer, closed>>
            /\ next' \in Nat /\ next <= next' /\ (cancelled => cancelled')
        BY <2>0, <2>3 DEF Receive
      <3>9. QED BY <3>2, <3>7, <3>8, <2>02
    <2>4. ASSUME NEW w \in Workers, FinishFetch(w) PROVE StreamInv'
      <3> DEFINE x == [worker[w] EXCEPT !.pc = "deliver"]
      <3>1. worker' = [worker EXCEPT ![w] = x] /\ worker[w].pc = "fetch" /\ lost' = lost
        BY <2>4 DEF FinishFetch, At
      <3>2. /\ worker'[w].pc = "deliver" /\ worker'[w].chunk = worker[w].chunk
            /\ worker'[w].lo = worker[w].lo /\ worker'[w].hi = worker[w].hi
            /\ worker'[w].err = worker[w].err
        BY <3>1, <2>0 DEF WorkerRecord
      <3>3. worker[w].lo < ChunkLen /\ GoneUpTo(worker[w].chunk, worker[w].lo)
        BY <3>1, <2>01 DEF AttemptOK, Holds, Holding
      <3>4. AttemptOK(w)'
        BY <3>1, <3>2, <3>3 DEF AttemptOK, GoneUpTo
      <3> HIDE DEF x
      <3>5. /\ UNCHANGED <<lost, slots, current, buf, out, answer, closed>>
            /\ next' \in Nat /\ next <= next' /\ (cancelled => cancelled')
        BY <2>0, <2>4 DEF FinishFetch
      <3>6. QED BY <3>1, <3>4, <3>5, <2>02
    <2>5. ASSUME NEW w \in Workers, FailFetch(w) PROVE StreamInv'
      <3> DEFINE x == [worker[w] EXCEPT !.pc = "deliver", !.err = TRUE]
      <3>1. worker' = [worker EXCEPT ![w] = x] /\ lost' = lost
        BY <2>5, <2>0 DEF FailFetch, At
      <3>2. worker'[w].pc = "deliver"
        BY <3>1, <2>0 DEF WorkerRecord
      <3>3. worker'[w].err
        <4>1. worker'[w].err = TRUE
          BY <3>1, <2>0 DEF WorkerRecord
        <4>2. QED BY <4>1
      <3>4. AttemptOK(w)'
        BY <3>2, <3>3 DEF AttemptOK
      <3> HIDE DEF x
      <3>5. /\ UNCHANGED <<lost, slots, current, buf, out, answer, closed>>
            /\ next' \in Nat /\ next <= next' /\ (cancelled => cancelled')
        BY <2>0, <2>5 DEF FailFetch
      <3>6. QED BY <3>1, <3>4, <3>5, <2>02
    <2>6. ASSUME NEW w \in Workers, CancelStream(w) PROVE StreamInv'
      <3>1. worker' = [worker EXCEPT ![w] = Locals("exited")] /\ cancelled'
        BY <2>6 DEF CancelStream
      <3>2. worker'[w].pc = "exited"
        BY <3>1, <2>0 DEF Locals
      <3>3. AttemptOK(w)'
        BY <3>2 DEF AttemptOK, Holds, Holding
      <3>4. /\ UNCHANGED <<lost, slots, current, buf, out, answer, closed>>
            /\ next' \in Nat /\ next <= next' /\ (cancelled => cancelled')
        BY <2>0, <2>6 DEF CancelStream
      <3>5. QED BY <3>1, <3>3, <3>4, <2>02
    <2>7. ASSUME NEW w \in Workers, Retry(w) PROVE StreamInv'
      <3> DEFINE again == MayRetry(worker[w].attempt)
                 c == worker[w].chunk
                 lo == worker[w].lo
                 hi == worker[w].hi
                 x == IF again THEN [worker[w] EXCEPT !.attempt = @ + 1, !.lo = worker[w].hi]
                      ELSE [worker[w] EXCEPT !.pc = "deliver", !.err = TRUE]
      <3>1. /\ worker' = [worker EXCEPT ![w] = x] /\ worker[w].pc = "fetch" /\ hi < ChunkLen
            /\ UNCHANGED <<next, slots, current, buf, out, answer, closed, cancelled>>
        BY <2>7, <2>01 DEF Retry, At, AttemptOK
      <3>2. /\ c \in Indices /\ lo \in 0..ChunkLen /\ hi \in 0..ChunkLen /\ lo <= hi /\ lo < ChunkLen
            /\ ~worker[w].err /\ GoneUpTo(c, lo)
        BY <3>1, <2>01 DEF AttemptOK, Holds, Holding
      <3>3. c \in Nat /\ c < NumChunks /\ c \in Int
        BY <3>2
      <3>4. current <= c /\ c < next /\ ~slots[c].full
        BY <3>1 DEF WindowInv, HeldAhead, Holds, Holding
      <3>5. \/ lost' = lost /\ hi = lo
            \/ lost' = lost \cup {c * ChunkLen + o : o \in lo..(hi - 1)}
        BY <2>7 DEF Retry
      <3>6. /\ \A o \in 0..(ChunkLen - 1) : c * ChunkLen + o \in lost' <=> o < hi
            /\ \A d \in Indices, e \in Nat : c # d /\ GoneUpTo(d, e) => GoneUpTo(d, e)'
        <4> HIDE DEF c, lo, hi
        <4>1. CASE lost' = lost /\ hi = lo
          BY <4>1, <3>2 DEF GoneUpTo
        <4>2. CASE lost' = lost \cup {c * ChunkLen + o : o \in lo..(hi - 1)}
          <5>1. \A o \in 0..(ChunkLen - 1) : c * ChunkLen + o \in lost' <=> o < hi
            BY <4>2, <3>2, <3>3, LostOfOneChunk DEF GoneUpTo
          <5>2. \A d \in Indices, e \in Nat : c # d /\ GoneUpTo(d, e) => GoneUpTo(d, e)'
            BY <4>2, <3>2, <3>3, LostOfOneChunk
          <5>3. QED BY <5>1, <5>2
        <4>3. QED BY <4>1, <4>2, <3>5
      \* The lost bytes lie behind all the reader has taken.
      <3>7. \A b \in lost' : b \in lost \/ (b \in Nat /\ current * ChunkLen <= b)
        <4> HIDE DEF c, lo, hi
        <4>1. c * ChunkLen \in Nat /\ current * ChunkLen \in Nat /\ current * ChunkLen <= c * ChunkLen
          <5>1. CASE current = c
            BY <5>1, <3>3, Times
          <5>2. CASE current < c
            BY <5>2, <3>3, <2>0, ChunkBounds
          <5>3. QED BY <5>1, <5>2, <3>3, <3>4, <2>0
        <4>2. \A o \in lo..(hi - 1) : c * ChunkLen + o \in Nat /\ current * ChunkLen <= c * ChunkLen + o
          BY <4>1, <3>2
        <4>3. QED BY <4>2, <3>5
      <3>8. lost \subseteq lost'
        BY <3>5
      <3>9. Attempts'
        <4>1. ASSUME NEW v \in Workers PROVE AttemptOK(v)'
          <5>1. CASE v = w /\ again
            <6>1. /\ worker'[v].pc = "fetch" /\ worker'[v].chunk = c
                  /\ worker'[v].lo = hi /\ worker'[v].hi = hi /\ worker'[v].err = worker[w].err
              BY <5>1, <3>1, <2>0 DEF WorkerRecord
            <6>2. ~worker'[v].err
              BY <6>1, <3>2, Zenon
            <6>3. QED BY <6>1, <6>2, <3>1, <3>2, <3>6 DEF AttemptOK, GoneUpTo
          <5>2. CASE v = w /\ ~again
            <6>1. worker'[v].pc = "deliver" /\ worker'[v].err = TRUE
              BY <5>2, <3>1, <2>0 DEF WorkerRecord
            <6>2. worker'[v].err
              BY <6>1
            <6>3. QED BY <6>1, <6>2 DEF AttemptOK
          <5>3. CASE v # w
            <6>1. worker'[v] = worker[v] /\ worker[v].lo \in Nat /\ worker[v].chunk \in Indices
              BY <5>3, <3>1, <2>0, <2>01
            <6>2. Holds(v) => worker[v].chunk # c
              BY <5>3, <3>1 DEF WindowInv, HeldOnce, Holds, Holding
            <6>3. Holds(v) /\ ~worker[v].err => GoneUpTo(worker[v].chunk, worker[v].lo)
              BY <2>01 DEF AttemptOK
            <6> DEFINE d == worker[v].chunk
                       e == worker[v].lo
            <6>4. ASSUME Holds(v), ~worker[v].err
                  PROVE  \A o \in 0..(ChunkLen - 1) : d * ChunkLen + o \in lost' <=> o < e
              <7>1. GoneUpTo(d, e) /\ d # c /\ d \in Indices /\ e \in Nat
                BY <6>1, <6>2, <6>3, <6>4
              <7> HIDE DEF d, e, c
              <7>2. QED BY <7>1, <3>6 DEF GoneUpTo
            <6>5. QED BY <6>1, <6>4, <2>01 DEF AttemptOK, Holds, GoneUpTo
          <5>4. QED BY <5>1, <5>2, <5>3
        <4>2. QED BY <4>1, AttemptsArePrimed
      <3>10. UntakenWhole'
        <4>1. ASSUME NEW d \in Indices, next <= d PROVE GoneUpTo(d, 0)'
          <5>1. GoneUpTo(d, 0) /\ d # c
            BY <4>1, <3>3, <3>4, <2>0 DEF StreamInv, UntakenWhole
          <5>2. QED BY <5>1, <3>6
        <4>2. QED BY <4>1, <3>1 DEF UntakenWhole
      <3>11. SlotsWhole'
        <4>1. ASSUME NEW d \in Indices, slots[d].full, ~slots[d].err
              PROVE  \E e \in 0..(ChunkLen - 1) : slots[d].data = Data(d, e) /\ GoneUpTo(d, e)'
          <5>1. PICK e \in 0..(ChunkLen - 1) : slots[d].data = Data(d, e) /\ GoneUpTo(d, e)
            BY <4>1 DEF StreamInv, SlotsWhole
          <5>2. d # c /\ e \in Nat
            BY <4>1, <3>4
          <5>3. GoneUpTo(d, e)'
            BY <5>1, <5>2, <3>6
          <5>4. QED BY <5>1, <5>3
        <4>2. QED BY <4>1, <3>1 DEF SlotsWhole
      <3>12. ReadSoFar'
        <4>1. PICK pos \in 0..(current * ChunkLen) : Ordered!Prefix(out, pos, lost) /\ (~closed => Rest(pos))
          BY DEF StreamInv, ReadSoFar
        <4>2. current * ChunkLen \in Nat /\ pos \in Nat /\ pos <= current * ChunkLen /\ out \in Seq(Nat)
          BY <2>0, <4>1, Times DEF TypeOK
        <4>3. Ordered!Prefix(out, pos, lost')
          <5>1. \A b \in lost' : b \in lost \/ b \notin 0..(pos - 1)
            BY <3>7, <4>2
          <5>2. QED BY <5>1, <3>8, <4>1, <4>2, PrefixLoses
        <4>4. ASSUME ~closed PROVE Rest(pos)'
          <5>1. /\ Len(buf) = current * ChunkLen - pos
                /\ \A i \in 1..Len(buf) : buf[i] = pos + i - 1 /\ buf[i] \notin lost
            BY <4>1, <4>4 DEF Rest
          <5>2. ASSUME NEW i \in 1..Len(buf) PROVE buf[i] \notin lost'
            <6>1. pos + i - 1 < current * ChunkLen
              BY <5>1, <4>2
            <6>2. buf[i] = pos + i - 1 /\ buf[i] \notin lost
              BY <5>1
            <6>3. QED BY <6>1, <6>2, <3>7, <4>2
          <5>3. QED BY <5>1, <5>2, <3>1 DEF Rest
        <4>5. Ordered!Prefix(out, pos, lost)'
          BY <4>3, <3>1 DEF Ordered!Prefix
        <4>6. pos \in (0..(current * ChunkLen))'
          BY <4>1, <3>1
        <4>7. QED BY <4>4, <4>5, <4>6, <3>1 DEF ReadSoFar
      <3>13. ClosedIsCancelled' /\ ErrorStays'
        BY <3>1 DEF StreamInv, ClosedIsCancelled, ErrorStays
      <3>14. QED BY <3>9, <3>10, <3>11, <3>12, <3>13 DEF StreamInv
    <2>8. ASSUME NEW w \in Workers, Deliver(w) PROVE StreamInv'
      <3>1. /\ worker[w].pc = "deliver"
            /\ UNCHANGED <<next, lost, current, buf, out, answer, closed, cancelled>>
        BY <2>8 DEF Deliver, At
      <3>2. CASE closed
        <4>1. UNCHANGED <<slots, worker>>
          BY <2>8, <3>2 DEF Deliver
        <4>2. QED BY <4>1, <3>1, <2>04
      <3>3. CASE ~closed
        <4> DEFINE c == worker[w].chunk
                   lo == worker[w].lo
                   after == IF worker[w].err THEN "cancel" ELSE "take"
        <4>1. /\ slots' = [slots EXCEPT ![c] = Slot(w)]
              /\ worker' = [Woken(worker) EXCEPT ![w] = Locals(after)]
          BY <2>8, <3>3 DEF Deliver
        <4>2. c \in Indices /\ ~slots[c].full /\ lo \in 0..ChunkLen
          BY <3>1, <2>01 DEF WindowInv, HeldAhead, Holds, Holding
        <4>3. Attempts'
          <5>1. Woken(worker) \in [Workers -> WorkerRecord]
            BY <2>0, WokenType
          <5>2. ASSUME NEW v \in Workers PROVE AttemptOK(v)'
            <6>1. CASE v = w
              <7>1. worker'[v].pc \in {"cancel", "take"}
                BY <6>1, <5>1, <4>1 DEF Locals
              <7>2. QED BY <7>1 DEF AttemptOK, Holds, Holding
            <6>2. CASE v # w
              <7>1. worker'[v] = Woken(worker)[v]
                BY <6>2, <5>1, <4>1
              <7>2. QED BY <7>1, <3>1, <2>01, AttemptWoken
            <6>3. QED BY <6>1, <6>2
          <5>3. QED BY <5>2, AttemptsArePrimed
        <4>4. slots'[c] = Slot(w) /\ \A d \in Indices : d # c => slots'[d] = slots[d]
          <5> HIDE DEF c
          <5> QED BY <4>1, <4>2, <2>0
        <4>5. SlotsWhole'
          <5>1. ASSUME NEW d \in Indices, slots'[d].full, ~slots'[d].err
                PROVE  \E e \in 0..(ChunkLen - 1) : slots'[d].data = Data(d, e) /\ GoneUpTo(d, e)
            <6>1. CASE d # c
              BY <6>1, <5>1, <4>4 DEF StreamInv, SlotsWhole
            <6>2. CASE d = c
              <7>1. ~worker[w].err
                <8>1. slots'[d].err = worker[w].err
                  BY <6>2, <4>4 DEF Slot
                <8>2. QED BY <8>1, <5>1, Zenon
              <7>2. slots'[d].data = Data(c, lo)
                BY <6>2, <7>1, <4>4 DEF Slot
              <7>3. lo < ChunkLen /\ GoneUpTo(c, lo)
                BY <7>1, <3>1, <2>01 DEF AttemptOK, Holds, Holding
              <7>4. lo \in 0..(ChunkLen - 1)
                BY <7>3, <4>2
              <7>5. QED BY <6>2, <7>2, <7>3, <7>4
            <6>3. QED BY <6>1, <6>2
          <5>2. QED BY <5>1, <3>1 DEF SlotsWhole, GoneUpTo
        <4>6. ErrorStays'
          <5>1. ASSUME current < NumChunks, slots[current].full PROVE slots'[current] = slots[current]
            <6>1. current \in Indices
              BY <5>1, <2>0 DEF Indices
            <6>2. QED BY <6>1, <5>1, <4>2, <4>4
          <5>2. QED BY <5>1, <3>1 DEF StreamInv, ErrorStays
        <4>7. UntakenWhole' /\ ClosedIsCancelled' /\ ReadSoFar'
          BY <3>1 DEF StreamInv, UntakenWhole, GoneUpTo, ClosedIsCancelled, ReadSoFar, Rest, Ordered!Prefix
        <4>8. QED BY <4>3, <4>5, <4>6, <4>7 DEF StreamInv
      <3>4. QED BY <3>2, <3>3
    <2>9. CASE Call \/ Watch \/ WaitAll \/ CancelCaller \/ ReadWaits
      <3>1. worker' = worker \/ worker' = Woken(worker)
        BY <2>9 DEF Call, Watch, WokenByWatch, WaitAll, CancelCaller, ReadWaits
      <3>2. /\ UNCHANGED <<next, lost, slots, current, buf, out, answer, closed>>
            /\ cancelled => cancelled'
        BY <2>9 DEF Call, Watch, WaitAll, CancelCaller, ReadWaits
      <3>3. QED BY <3>1, <3>2, <2>04
    <2>10. CASE ReadClosed \/ ReadCancelled \/ ReadEnd \/ ReadSlotError
      <3>1. UNCHANGED <<next, worker, slots, current, buf, closed, cancelled, out, lost>>
        BY <2>10 DEF ReadClosed, ReadCancelled, ReadEnd, ReadSlotError
      <3>2. ErrorStays'
        <4>1. answer' = "error" =>
                cancelled \/ (buf = <<>> /\ current < NumChunks /\ slots[current].full /\ slots[current].err)
          BY <2>10, <2>0
          DEF ReadClosed, ReadCancelled, ReadEnd, ReadSlotError, AwaitsSlot, AtEnd, Return
        <4>2. QED BY <3>1, <4>1 DEF ErrorStays
      <3>3. UntakenWhole' /\ SlotsWhole' /\ ClosedIsCancelled' /\ ReadSoFar'
        BY <3>1 DEF StreamInv, UntakenWhole, SlotsWhole, GoneUpTo, ClosedIsCancelled, ReadSoFar, Rest, Ordered!Prefix
      <3>4. QED BY <3>1, <3>2, <3>3, <2>03 DEF StreamInv
    <2>11. CASE ReadBuffered \/ ReadNext
      <3>1. /\ \E n \in 1..Size : n <= current' * ChunkLen /\ Ordered!Prefix(out', n, lost) /\ Rest(n)'
        BY <2>11, DataRead
      <3>2. UNCHANGED <<next, lost, closed, cancelled>> /\ answer' = "data" /\ ~cancelled
        BY <2>11 DEF ReadBuffered, ReadNext, AwaitsSlot, Return
      <3>3. Attempts'
        BY <2>11, <3>2, <2>03 DEF ReadBuffered, ReadNext, Advanced
      <3>4. UntakenWhole' /\ ClosedIsCancelled' /\ ErrorStays'
        BY <3>2 DEF StreamInv, UntakenWhole, GoneUpTo, ClosedIsCancelled, ErrorStays
      <3>5. SlotsWhole'
        <4>1. CASE ReadBuffered
          BY <4>1 DEF ReadBuffered, StreamInv, SlotsWhole, GoneUpTo
        <4>2. CASE ReadNext
          <5>1. slots' = [slots EXCEPT ![current] = Empty]
            BY <4>2 DEF ReadNext
          <5>2. ASSUME NEW c \in Indices, slots'[c].full PROVE slots'[c] = slots[c]
            BY <5>1, <5>2, <2>0 DEF Empty
          <5>3. QED BY <5>2, <3>2 DEF StreamInv, SlotsWhole, GoneUpTo
        <4>3. QED BY <4>1, <4>2, <2>11
      <3>6. ReadSoFar'
        <4>1. PICK n \in 1..Size : n <= current' * ChunkLen /\ Ordered!Prefix(out', n, lost) /\ Rest(n)'
          BY <3>1
        <4>2. current' * ChunkLen \in Nat
          <5>1. current' \in Nat
            BY <2>11, <2>0 DEF ReadBuffered, ReadNext
          <5>2. QED BY <5>1, Times
        <4>3. n \in 0..(current' * ChunkLen)
          BY <4>1, <4>2
        <4>4. Ordered!Prefix(out', n, lost')
          BY <4>1, <3>2
        <4>5. QED BY <4>1, <4>3, <4>4 DEF ReadSoFar, Ordered!Prefix
      <3>7. QED BY <3>3, <3>4, <3>5, <3>6 DEF StreamInv
    <2>12. CASE Close
      <3>1. /\ worker' = Woken(worker) /\ UNCHANGED <<next, current, lost, out, answer>>
            /\ closed' = TRUE /\ cancelled' = TRUE /\ slots' = [i \in Indices |-> Empty]
        BY <2>12 DEF Close
      <3>2. Attempts'
        BY <3>1, <2>03
      <3>3. UntakenWhole' /\ ClosedIsCancelled' /\ ErrorStays'
        BY <3>1 DEF StreamInv, UntakenWhole, GoneUpTo, ClosedIsCancelled, ErrorStays
      <3>4. SlotsWhole'
        <4>1. \A c \in Indices : ~slots'[c].full
          BY <3>1 DEF Empty
        <4>2. QED BY <4>1 DEF SlotsWhole
      <3>5. ReadSoFar'
        BY <3>1 DEF StreamInv, ReadSoFar, Ordered!Prefix
      <3>6. QED BY <3>2, <3>3, <3>4, <3>5 DEF StreamInv
    <2>13. CASE UNCHANGED vars
      BY <2>13, <2>04 DEF vars
    <2>14. QED
      BY <2>1, <2>2, <2>3, <2>4, <2>5, <2>6, <2>7, <2>8, <2>9, <2>10, <2>11, <2>12, <2>13
      DEF Next, WorkerStep, ReadStep
  <1>3. QED BY <1>1, <1>2, TypeCorrect, WindowInvariant, PTL DEF Spec

(***************************************************************************)
(* A Read that says the end has come has returned everything there is, or  *)
(* the reader has closed the stream.                                       *)
(***************************************************************************)
LEMMA EndRead ==
  ASSUME TypeOK, StreamInv, ReadEnd, ~closed
  PROVE  Ordered!Prefix(out, Size, lost)
PROOF
  <1>1. PICK pos \in 0..(current * ChunkLen) : Ordered!Prefix(out, pos, lost) /\ Rest(pos)
    BY DEF StreamInv, ReadSoFar
  <1>2. current = NumChunks /\ buf = <<>>
    BY Parameters DEF ReadEnd, AtEnd, TypeOK
  <1>3. pos = current * ChunkLen
    <2>1. current * ChunkLen \in Nat
      BY <1>2, Parameters, Times
    <2>2. Len(buf) = 0 /\ Len(buf) = current * ChunkLen - pos
      BY <1>1, <1>2 DEF Rest
    <2>3. QED BY <1>1, <2>1, <2>2
  <1>4. QED BY <1>1, <1>2, <1>3 DEF Size

(***************************************************************************)
(* The workers, the window and the wake-ups together give what a stream    *)
(* promises: every step of PrefetchStream is one of OrderedStream, or      *)
(* changes nothing the reader sees.                                        *)
(***************************************************************************)
THEOREM StreamIsOrdered == Spec => InOrder
PROOF
  <1>1. Init => Ordered!Init
    BY DEF Init, Ordered!Init
  <1>2. TypeOK /\ StreamInv /\ StreamInv' /\ [Next]_vars => [Ordered!Next]_(Ordered!vars)
    <2> SUFFICES ASSUME TypeOK, StreamInv, StreamInv', [Next]_vars
                 PROVE  Ordered!Next \/ UNCHANGED Ordered!vars
      OBVIOUS
    <2> USE DEF content, flags, helpers, reading
    <2>1. CASE UNCHANGED <<out, answer, lost, closed>>
      BY <2>1 DEF Ordered!vars
    <2>2. ASSUME NEW w \in Workers, WorkerStep(w) PROVE Ordered!Next \/ UNCHANGED Ordered!vars
      <3>1. CASE Retry(w)
        <4>1. UNCHANGED <<out, answer, closed>>
          BY <3>1 DEF Retry
        <4>2. lost \subseteq lost'
          BY <3>1 DEF Retry
        <4>3. \A i \in 1..Len(out) : out[i] \notin lost'
          BY <4>1 DEF StreamInv, ReadSoFar, Ordered!Prefix
        <4>4. Ordered!Lose
          BY <4>1, <4>2, <4>3 DEF Ordered!Lose
        <4>5. QED BY <4>4 DEF Ordered!Next
      <3>2. CASE ~Retry(w)
        <4>1. UNCHANGED <<out, answer, lost, closed>>
          BY <2>2, <3>2
          DEF WorkerStep, TakeJob, EnterWindow, Receive, FinishFetch, FailFetch, Deliver, CancelStream
        <4>2. QED BY <4>1, <2>1
      <3>3. QED BY <3>1, <3>2
    <2>3. CASE ReadClosed \/ ReadEnd
      <3>1. answer' = "eof" /\ UNCHANGED <<out, lost, closed>>
        BY <2>3 DEF ReadClosed, ReadEnd, Return
      <3>2. ~closed => Ordered!Prefix(out, Size, lost)
        BY <2>3, EndRead DEF ReadClosed
      <3>3. Ordered!Finish
        BY <3>1, <3>2 DEF Ordered!Finish, Size
      <3>4. QED BY <3>3 DEF Ordered!Next
    <2>4. CASE ReadCancelled \/ ReadSlotError
      <3>1. answer' = "error" /\ UNCHANGED <<out, lost, closed>>
        BY <2>4 DEF ReadCancelled, ReadSlotError, Return
      <3>2. QED BY <3>1 DEF Ordered!Fail, Ordered!Next
    <2>5. CASE ReadBuffered \/ ReadNext
      <3>1. /\ ~closed /\ answer # "error" /\ Len(out') > Len(out)
            /\ \E n \in 1..Size : Ordered!Prefix(out', n, lost)
        BY <2>5, DataRead
      <3>2. answer' = "data" /\ UNCHANGED <<lost, closed>>
        BY <2>5 DEF ReadBuffered, ReadNext, Return
      <3>3. Ordered!Emit
        BY <3>1, <3>2 DEF Ordered!Emit, Size
      <3>4. QED BY <3>3 DEF Ordered!Next
    <2>6. CASE Close
      <3>1. closed' = TRUE /\ UNCHANGED <<out, answer, lost>>
        BY <2>6 DEF Close
      <3>2. QED BY <3>1 DEF Ordered!Close, Ordered!Next
    <2>7. CASE Call \/ ReadWaits \/ Watch \/ WaitAll \/ CancelCaller \/ UNCHANGED vars
      BY <2>1, <2>7 DEF Call, ReadWaits, Watch, WaitAll, CancelCaller, vars
    <2>8. QED BY <2>2, <2>3, <2>4, <2>5, <2>6, <2>7 DEF Next, ReadStep
  <1>3. QED BY <1>1, <1>2, TypeCorrect, StreamInvariant, PTL DEF Spec, InOrder, Ordered!Spec
=============================================================================
