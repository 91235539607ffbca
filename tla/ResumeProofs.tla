---------------------------- MODULE ResumeProofs ----------------------------
(***************************************************************************)
(* More theorems about ResumableDownload: what one session hands on to the *)
(* next, what a failure needs, and what the progress tracker shows.        *)
(***************************************************************************)
EXTENDS ResumableDownloadProofs, LeastElements

(* Sums. MapThenSumSet is a function over the subsets of a finite set,     *)
(* defined by recursion; IsSum is its equation. That there is such a       *)
(* function, and what it gives, is shown by a subset with the least        *)
(* number of elements for which it would not hold.                         *)

First(s) == CHOOSE x \in s : TRUE
SumEquation(it, g, s) == it[s] = IF s = {} THEN 0 ELSE g[First(s)] + it[s \ {First(s)}]
IsSum(it, g, S) == it = [s \in SUBSET S |-> IF s = {} THEN 0 ELSE g[First(s)] + it[s \ {First(s)}]]
SumOf(g, S) == (CHOOSE it : IsSum(it, g, S))[S]

\* To take one element away leaves a smaller finite set.
LEMMA Smaller ==
  ASSUME NEW S, IsFiniteSet(S), NEW s \in SUBSET S
  PROVE  /\ IsFiniteSet(s) /\ Cardinality(s) \in Nat /\ Cardinality(s) <= Cardinality(S)
         /\ s # {} => /\ First(s) \in s /\ s \ {First(s)} \in SUBSET S
                      /\ Cardinality(s \ {First(s)}) = Cardinality(s) - 1
                      /\ Cardinality(s) # 0
<1>1. IsFiniteSet(s) /\ Cardinality(s) \in Nat /\ Cardinality(s) <= Cardinality(S)
  BY FS_Subset, FS_CardinalityType
<1>2. ASSUME s # {}
      PROVE  /\ First(s) \in s /\ s \ {First(s)} \in SUBSET S
             /\ Cardinality(s \ {First(s)}) = Cardinality(s) - 1
             /\ Cardinality(s) # 0
  <2>1. First(s) \in s
    BY <1>2 DEF First
  <2>2. Cardinality(s \ {First(s)}) = Cardinality(s) - 1
    BY <1>1, <2>1, FS_RemoveElement
  <2>3. Cardinality(s) # 0
    BY <1>1, <1>2, FS_EmptySet
  <2>4. QED
    BY <2>1, <2>2, <2>3
<1>3. QED
  BY <1>1, <1>2

LEMMA SumExists ==
  ASSUME NEW S, IsFiniteSet(S), NEW g
  PROVE  \E it : IsSum(it, g, S)
<1> DEFINE Partial(h, n) == \A s \in SUBSET S : Cardinality(s) <= n => SumEquation(h, g, s)
           Missing == {n \in Nat : ~ \E h : Partial(h, n)}
<1>1. Missing = {}
  <2> SUFFICES ASSUME Missing # {} PROVE FALSE
    OBVIOUS
  <2>1. PICK m \in Missing : \A k \in Missing : m <= k
    <3>1. Missing \subseteq Nat
      OBVIOUS
    <3> HIDE DEF Missing
    <3>2. QED
      BY <3>1, LeastElement
  <2>2. m \in Nat
    OBVIOUS
  <2>3. CASE m = 0
    <3> DEFINE h == [s \in SUBSET S |-> 0]
    <3>1. ASSUME NEW s \in SUBSET S, Cardinality(s) <= 0
          PROVE  SumEquation(h, g, s)
      <4>1. Cardinality(s) \in Nat /\ (s # {} => Cardinality(s) # 0)
        BY Smaller
      <4>2. s = {}
        BY <3>1, <4>1
      <4>3. QED
        BY <4>2 DEF SumEquation
    <3>2. Partial(h, m)
      BY <2>3, <3>1
    <3>3. \E f : Partial(f, m)
      <4> HIDE DEF h, Partial
      <4> QED BY <3>2
    <3>4. QED
      BY <3>3, <2>1
  <2>4. CASE m # 0
    <3>1. m - 1 \in Nat /\ m - 1 \notin Missing
      BY <2>1, <2>2, <2>4
    <3>2. PICK f : Partial(f, m - 1)
      BY <3>1
    <3> DEFINE Next1(s) == IF s = {} THEN 0 ELSE g[First(s)] + f[s \ {First(s)}]
               h == [s \in SUBSET S |-> IF Cardinality(s) <= m - 1 THEN f[s] ELSE Next1(s)]
    <3>3. ASSUME NEW s \in SUBSET S, Cardinality(s) <= m
          PROVE  SumEquation(h, g, s)
      <4>1. h[s] = Next1(s)
        <5>1. CASE Cardinality(s) <= m - 1
          <6>1. SumEquation(f, g, s)
            BY <3>2, <5>1
          <6>2. QED
            BY <5>1, <6>1 DEF SumEquation
        <5>2. CASE ~(Cardinality(s) <= m - 1)
          BY <5>2
        <5>3. QED
          BY <5>1, <5>2
      <4>2. CASE s = {}
        BY <4>1, <4>2 DEF SumEquation
      <4>3. CASE s # {}
        <5>1. /\ s \ {First(s)} \in SUBSET S /\ Cardinality(s \ {First(s)}) = Cardinality(s) - 1
              /\ Cardinality(s) \in Nat
          BY <4>3, Smaller
        <5>2. Cardinality(s \ {First(s)}) <= m - 1
          BY <2>2, <3>3, <5>1
        <5>3. h[s \ {First(s)}] = f[s \ {First(s)}]
          BY <5>1, <5>2
        <5>4. QED
          BY <4>1, <4>3, <5>3 DEF SumEquation
      <4>4. QED
        BY <4>2, <4>3
    <3>4. Partial(h, m)
      BY <3>3
    <3>5. \E k : Partial(k, m)
      <4> HIDE DEF h, Partial
      <4> QED BY <3>4
    <3>6. QED
      BY <3>5, <2>1
  <2>5. QED
    BY <2>3, <2>4
<1>2. Cardinality(S) \in Nat
  BY FS_CardinalityType
<1>3. PICK f : Partial(f, Cardinality(S))
  BY <1>1, <1>2
<1> DEFINE h == [s \in SUBSET S |-> f[s]]
<1>4. ASSUME NEW s \in SUBSET S
      PROVE  h[s] = IF s = {} THEN 0 ELSE g[First(s)] + h[s \ {First(s)}]
  <2>1. SumEquation(f, g, s)
    BY <1>3, Smaller
  <2>2. s # {} => s \ {First(s)} \in SUBSET S
    OBVIOUS
  <2>3. QED
    BY <2>1, <2>2 DEF SumEquation
<1>5. IsSum(h, g, S)
  BY <1>4 DEF IsSum
<1>6. QED
  <2> HIDE DEF h
  <2> QED BY <1>5

LEMMA SumChosen ==
  ASSUME NEW S, IsFiniteSet(S), NEW g
  PROVE  \E it : IsSum(it, g, S) /\ SumOf(g, S) = it[S]
BY SumExists DEF SumOf

\* The sum after one of the terms has changed by d.
LEMMA SumAdds ==
  ASSUME NEW S, IsFiniteSet(S), NEW f \in [S -> Int], NEW g \in [S -> Int],
         NEW a \in S, NEW d \in Int, \A x \in S : g[x] = IF x = a THEN f[x] + d ELSE f[x]
  PROVE  SumOf(f, S) \in Int /\ SumOf(g, S) = SumOf(f, S) + d
<1>1. PICK i : IsSum(i, f, S) /\ SumOf(f, S) = i[S]
  BY SumChosen
<1>2. PICK j : IsSum(j, g, S) /\ SumOf(g, S) = j[S]
  BY SumChosen
<1> DEFINE Adds(s) == i[s] \in Int /\ j[s] = i[s] + (IF a \in s THEN d ELSE 0)
           Wrong == {s \in SUBSET S : ~Adds(s)}
           Sizes == {Cardinality(s) : s \in Wrong}
<1>3. ASSUME NEW s \in SUBSET S
      PROVE  /\ i[s] = IF s = {} THEN 0 ELSE f[First(s)] + i[s \ {First(s)}]
             /\ j[s] = IF s = {} THEN 0 ELSE g[First(s)] + j[s \ {First(s)}]
  BY <1>1, <1>2 DEF IsSum
<1>4. Wrong = {}
  <2> SUFFICES ASSUME Wrong # {} PROVE FALSE
    OBVIOUS
  <2>1. Sizes \subseteq Nat /\ Sizes # {}
    <3>1. \A s \in SUBSET S : Cardinality(s) \in Nat
      BY Smaller
    <3>2. QED
      BY <3>1
  <2>2. PICK m \in Sizes : \A k \in Sizes : m <= k
    <3> HIDE DEF Sizes
    <3> QED BY <2>1, LeastElement
  <2>3. PICK s \in Wrong : Cardinality(s) = m
    BY <2>2
  <2>4. s \in SUBSET S /\ ~Adds(s)
    OBVIOUS
  <2>5. s # {}
    <3>1. s = {} => i[s] = 0 /\ j[s] = 0 /\ a \notin s
      BY <1>3, <2>4
    <3>2. i[s] = 0 /\ j[s] = 0 /\ a \notin s => Adds(s)
      OBVIOUS
    <3>3. QED
      BY <2>4, <3>1, <3>2
  <2>6. /\ First(s) \in s /\ s \ {First(s)} \in SUBSET S
        /\ Cardinality(s \ {First(s)}) = m - 1 /\ m \in Nat
    BY <2>3, <2>4, <2>5, Smaller
  <2>7. Adds(s \ {First(s)})
    <3>1. s \ {First(s)} \notin Wrong
      <4>1. Cardinality(s \ {First(s)}) \notin Sizes
        <5> HIDE DEF Sizes
        <5> QED BY <2>2, <2>6
      <4>2. QED
        BY <4>1
    <3>2. QED
      BY <2>6, <3>1
  <2>8. i[s] = f[First(s)] + i[s \ {First(s)}] /\ j[s] = g[First(s)] + j[s \ {First(s)}]
    BY <1>3, <2>4, <2>5
  <2>9. First(s) \in S /\ f[First(s)] \in Int
    BY <2>4, <2>6
  <2>10. g[First(s)] = IF First(s) = a THEN f[First(s)] + d ELSE f[First(s)]
    BY <2>9
  <2>11. Adds(s)
    <3>1. CASE First(s) = a
      <4>1. a \in s /\ a \notin s \ {First(s)} /\ g[First(s)] = f[First(s)] + d
        BY <2>6, <2>10, <3>1
      <4>2. QED
        BY <2>7, <2>8, <2>9, <4>1
    <3>2. CASE First(s) # a
      <4>1. (a \in s <=> a \in s \ {First(s)}) /\ g[First(s)] = f[First(s)]
        BY <2>10, <3>2
      <4>2. QED
        BY <2>7, <2>8, <2>9, <4>1
    <3>3. QED
      BY <3>1, <3>2
  <2>12. QED
    BY <2>4, <2>11
<1>5. Adds(S)
  BY <1>4
<1>6. QED
  BY <1>1, <1>2, <1>5

\* Sums of numbers that are not negative, and of zeros.
LEMMA SumBounds ==
  ASSUME NEW S, IsFiniteSet(S), NEW f \in [S -> Nat]
  PROVE  SumOf(f, S) \in Nat /\ ((\A x \in S : f[x] = 0) => SumOf(f, S) = 0)
<1>1. PICK i : IsSum(i, f, S) /\ SumOf(f, S) = i[S]
  BY SumChosen
<1> DEFINE Good(s) == i[s] \in Nat /\ ((\A x \in S : f[x] = 0) => i[s] = 0)
           Wrong == {s \in SUBSET S : ~Good(s)}
           Sizes == {Cardinality(s) : s \in Wrong}
<1>3. ASSUME NEW s \in SUBSET S
      PROVE  i[s] = IF s = {} THEN 0 ELSE f[First(s)] + i[s \ {First(s)}]
  BY <1>1 DEF IsSum
<1>4. Wrong = {}
  <2> SUFFICES ASSUME Wrong # {} PROVE FALSE
    OBVIOUS
  <2>1. Sizes \subseteq Nat /\ Sizes # {}
    <3>1. \A s \in SUBSET S : Cardinality(s) \in Nat
      BY Smaller
    <3>2. QED
      BY <3>1
  <2>2. PICK m \in Sizes : \A k \in Sizes : m <= k
    <3> HIDE DEF Sizes
    <3> QED BY <2>1, LeastElement
  <2>3. PICK s \in Wrong : Cardinality(s) = m
    BY <2>2
  <2>4. s \in SUBSET S /\ ~Good(s)
    OBVIOUS
  <2>5. s # {}
    BY <1>3, <2>4
  <2>6. /\ First(s) \in s /\ s \ {First(s)} \in SUBSET S
        /\ Cardinality(s \ {First(s)}) = m - 1 /\ m \in Nat
    BY <2>3, <2>4, <2>5, Smaller
  <2>7. Good(s \ {First(s)})
    <3>1. s \ {First(s)} \notin Wrong
      <4>1. Cardinality(s \ {First(s)}) \notin Sizes
        <5> HIDE DEF Sizes
        <5> QED BY <2>2, <2>6
      <4>2. QED
        BY <4>1
    <3>2. QED
      BY <2>6, <3>1
  <2>8. i[s] = f[First(s)] + i[s \ {First(s)}] /\ First(s) \in S /\ f[First(s)] \in Nat
    BY <1>3, <2>4, <2>5, <2>6
  <2>9. QED
    BY <2>4, <2>7, <2>8
<1>5. Good(S)
  BY <1>4
<1>6. QED
  BY <1>1, <1>5

\* The two sums of the properties.
LEMMA TotalIsSum ==
  ASSUME NEW cs
  PROVE  TotalDownloaded(cs) = SumOf([c \in Chunks |-> cs[c].downloaded], Chunks)
<1> DEFINE g == [c \in Chunks |-> cs[c].downloaded]
           Body(it, s) == IF s = {} THEN 0 ELSE cs[First(s)].downloaded + it[s \ {First(s)}]
<1>1. ASSUME NEW it, NEW s \in SUBSET Chunks
      PROVE  Body(it, s) = IF s = {} THEN 0 ELSE g[First(s)] + it[s \ {First(s)}]
  <2>1. s # {} => First(s) \in Chunks
    BY DEF First
  <2>2. QED
    BY <2>1
<1>2. \A it : IsSum(it, g, Chunks) <=> it = [s \in SUBSET Chunks |-> Body(it, s)]
  <2> HIDE DEF g, Body
  <2> QED BY <1>1 DEF IsSum
<1>3. (CHOOSE it : IsSum(it, g, Chunks)) = CHOOSE it : it = [s \in SUBSET Chunks |-> Body(it, s)]
  <2> HIDE DEF g, Body
  <2> QED BY <1>2, Zenon
<1>4. TotalDownloaded(cs) = (CHOOSE it : it = [s \in SUBSET Chunks |-> Body(it, s)])[Chunks]
  BY Zenon DEF TotalDownloaded, MapThenSumSet, MapThenFoldSet, First
<1>5. QED
  BY <1>3, <1>4 DEF SumOf

Reads == [w \in Workers |-> worker[w].read]

LEMMA ReadsAreSum == MapThenSumSet(LAMBDA w : worker[w].read, Workers) = SumOf(Reads, Workers)
<1> DEFINE g == [w \in Workers |-> worker[w].read]
           Body(it, s) == IF s = {} THEN 0 ELSE worker[First(s)].read + it[s \ {First(s)}]
<1>1. ASSUME NEW it, NEW s \in SUBSET Workers
      PROVE  Body(it, s) = IF s = {} THEN 0 ELSE g[First(s)] + it[s \ {First(s)}]
  <2>1. s # {} => First(s) \in Workers
    BY DEF First
  <2>2. QED
    BY <2>1
<1>2. \A it : IsSum(it, g, Workers) <=> it = [s \in SUBSET Workers |-> Body(it, s)]
  <2> HIDE DEF g, Body
  <2> QED BY <1>1 DEF IsSum
<1>3. (CHOOSE it : IsSum(it, g, Workers)) = CHOOSE it : it = [s \in SUBSET Workers |-> Body(it, s)]
  <2> HIDE DEF g, Body
  <2> QED BY <1>2, Zenon
<1>4. MapThenSumSet(LAMBDA w : worker[w].read, Workers)
        = (CHOOSE it : it = [s \in SUBSET Workers |-> Body(it, s)])[Workers]
  BY Zenon DEF MapThenSumSet, MapThenFoldSet, First
<1>5. QED
  BY <1>3, <1>4 DEF SumOf, Reads
-----------------------------------------------------------------------------
(* The tracker. What a step of worker w does to the counter and to what    *)
(* its attempt has read.                                                   *)

LEMMA RetryOrFailRead ==
  ASSUME TypeOK, NEW w \in Workers, RetryOrFail(w)
  PROVE  worker'[w].read = 0
BY DEF RetryOrFail, FailWorker, Locals, Attempt, TypeOK

LEMMA CounterMoves ==
  ASSUME TypeOK, WorkersBounded, NEW w \in Workers, WorkerStep(w)
  PROVE  \/ worker'[w].read = worker[w].read /\ counted' = counted /\ ~Completes(w)
         \/ CountBytes(w) /\ worker'[w].read = worker[w].read + worker[w].n
         \/ worker'[w].read = 0 /\ RollBack(worker[w].read) /\ UNCHANGED chunks
         \/ worker'[w].read = 0 /\ counted' = counted
<1> USE DEF session, memory, ckpt, server, names
<1>0. FailWorker(w) => worker'[w].read = 0
  BY DEF FailWorker, Locals, Attempt, TypeOK
<1>1. CASE TakeJob(w) \/ SyncCompleted(w) \/ SaveCheckpoint(w)
  <2>1. counted' = counted
    BY <1>1 DEF TakeJob, SyncCompleted, SaveCheckpoint
  <2>2. worker'[w].read = 0 \/ (worker'[w].read = worker[w].read /\ ~Completes(w))
    <3>1. CASE TakeJob(w)
      BY <3>1 DEF TakeJob, Locals, Attempt, TypeOK
    <3>2. CASE SyncCompleted(w)
      BY <3>2 DEF SyncCompleted, Locals, Attempt, TypeOK, Completes
    <3>3. CASE SaveCheckpoint(w)
      BY <3>3 DEF SaveCheckpoint, Locals, Attempt, TypeOK
    <3>4. QED
      BY <1>1, <3>1, <3>2, <3>3
  <2>3. QED
    BY <2>1, <2>2
<1>2. CASE BeginAttempt(w)
  <2>1. counted' = counted
    BY <1>2 DEF BeginAttempt
  <2>2. worker[w].read = 0
    BY <1>2 DEF BeginAttempt, WorkersBounded, AttemptBounds
  <2>3. worker'[w].read = 0
    BY <1>0, <1>2, <2>2, RetryOrFailRead DEF BeginAttempt, TypeOK
  <2>4. QED
    BY <2>1, <2>3
<1>3. CASE FullContent(w) \/ FatalStatus(w) \/ RequestFails(w)
  <2>1. counted' = counted /\ worker[w].read = 0
    BY <1>3 DEF FullContent, FatalStatus, RequestFails, WorkersBounded, AttemptBounds
  <2>2. worker'[w].read = 0
    BY <1>0, <1>3, <2>1, RetryOrFailRead DEF FullContent, FatalStatus, RequestFails, TypeOK
  <2>3. QED
    BY <2>1, <2>2
<1>4. CASE PartialContent(w) \/ ReadBody(w) \/ WriteBody(w) \/ EndBody(w) \/ LockCheckpoint(w) \/ SyncDownloaded(w)
  <2>1. counted' = counted /\ worker'[w].pc # "lock"
    BY <1>4 DEF PartialContent, ReadBody, WriteBody, EndBody, LockCheckpoint, SyncDownloaded, TypeOK
  <2>2. worker'[w].read = worker[w].read
    BY <1>4 DEF PartialContent, ReadBody, WriteBody, EndBody, LockCheckpoint, SyncDownloaded, TypeOK
  <2>3. QED
    BY <2>1, <2>2 DEF Completes
<1>5. CASE WriteFails(w) \/ ReadCancelled(w)
  BY <1>5, RetryOrFailRead DEF WriteFails, ReadCancelled
<1>6. CASE CountBytes(w)
  <2>1. PICK pc : worker' = [worker EXCEPT ![w].pc = pc, ![w].read = worker[w].read + worker[w].n, ![w].n = 0]
    BY <1>6 DEF CountBytes
  <2>2. worker'[w].read = worker[w].read + worker[w].n
    BY <2>1 DEF TypeOK
  <2>3. QED
    BY <1>6, <2>2
<1>7. CASE FinishAttempt(w)
  <2>1. CASE worker[w].read = End[worker[w].chunk] - worker[w].req + 1
    BY <1>7, <2>1 DEF FinishAttempt, Locals, Attempt, TypeOK
  <2>2. CASE worker[w].read # End[worker[w].chunk] - worker[w].req + 1
    BY <1>7, <2>2, RetryOrFailRead DEF FinishAttempt
  <2>3. QED
    BY <2>1, <2>2
<1>8. QED
  BY <1>1, <1>2, <1>3, <1>4, <1>5, <1>6, <1>7 DEF WorkerStep

\* A step of one worker moves the sum of what is read by as much as it moves
\* its own part, and no part is larger than the sum.
LEMMA ReadsMove ==
  ASSUME TypeOK, TypeOK', NEW w \in Workers, \A v \in Workers \ {w} : worker'[v] = worker[v]
  PROVE  /\ worker[w].read \in Nat /\ worker'[w].read \in Nat
         /\ SumOf(Reads, Workers) \in Nat /\ SumOf(Reads, Workers) >= worker[w].read
         /\ SumOf(Reads, Workers)' = SumOf(Reads, Workers) + worker'[w].read - worker[w].read
<1>0. IsFiniteSet(Workers)
  BY ParameterAssumption
<1>1. /\ \A v \in Workers : worker[v].read \in Nat /\ worker'[v].read \in Nat
      /\ Reads \in [Workers -> Nat] /\ Reads' \in [Workers -> Nat]
      /\ Reads \in [Workers -> Int] /\ Reads' \in [Workers -> Int]
  <2>1. \A v \in Workers : worker[v].read \in 0..Length /\ worker'[v].read \in 0..Length
    BY DEF TypeOK
  <2>2. QED
    BY <2>1, LayoutFacts DEF Reads
<1>2. SumOf(Reads, Workers) \in Nat
  BY <1>0, <1>1, SumBounds
<1> DEFINE d == worker'[w].read - worker[w].read
           less == [v \in Workers |-> IF v = w THEN 0 ELSE worker[v].read]
<1>3. SumOf(Reads', Workers) = SumOf(Reads, Workers) + d
  <2>1. d \in Int /\ \A v \in Workers : Reads'[v] = IF v = w THEN Reads[v] + d ELSE Reads[v]
    BY <1>1 DEF Reads
  <2> HIDE DEF d
  <2>2. QED
    BY <1>0, <1>1, <2>1, SumAdds
<1>4. SumOf(Reads, Workers) >= worker[w].read
  <2>1. less \in [Workers -> Nat] /\ less \in [Workers -> Int]
    BY <1>1
  <2>2. \A v \in Workers : Reads[v] = IF v = w THEN less[v] + worker[w].read ELSE less[v]
    BY <1>1 DEF Reads
  <2> HIDE DEF less
  <2>3. SumOf(less, Workers) \in Nat
    BY <1>0, <2>1, SumBounds
  <2>4. SumOf(Reads, Workers) = SumOf(less, Workers) + worker[w].read
    <3>1. worker[w].read \in Int
      BY <1>1
    <3>2. QED
      BY <1>0, <1>1, <2>1, <2>2, <3>1, SumAdds
  <2>5. QED
    BY <1>1, <2>3, <2>4
<1>5. SumOf(Reads, Workers)' = SumOf(Reads', Workers)
  BY DEF SumOf, IsSum
<1>6. QED
  BY <1>1, <1>2, <1>3, <1>4, <1>5

Covered == counted \in Nat /\ (main = "workers" => counted >= SumOf(Reads, Workers))

LEMMA ReadsZero ==
  ASSUME NEW pc, worker' = [w \in Workers |-> Locals(pc)]
  PROVE  SumOf(Reads, Workers)' = 0
<1>0. IsFiniteSet(Workers)
  BY ParameterAssumption
<1>1. Reads' = [w \in Workers |-> 0]
  BY DEF Reads, Locals, Attempt
<1>2. SumOf([w \in Workers |-> 0], Workers) = 0
  BY <1>0, SumBounds
<1>3. QED
  BY <1>1, <1>2 DEF SumOf, IsSum

LEMMA CoveredStep ==
  ASSUME Control, Covered, [Next]_vars
  PROVE  Covered'
<1> USE DEF session, memory, ckpt, server, names
<1>0. TypeOK /\ TypeOK' /\ WorkersBounded /\ Ownership
  BY TypeStep DEF Control
<1>1. ASSUME NEW w \in Workers, WorkerStep(w)
      PROVE  Covered'
  <2>1. main = "workers" /\ \A v \in Workers \ {w} : worker'[v] = worker[v]
    BY <1>0, <1>1, WorkerStepMain, WorkerEffect
  <2>2. /\ worker[w].read \in Nat /\ worker'[w].read \in Nat
        /\ SumOf(Reads, Workers) \in Nat /\ SumOf(Reads, Workers) >= worker[w].read
        /\ SumOf(Reads, Workers)' = SumOf(Reads, Workers) + worker'[w].read - worker[w].read
    BY <1>0, <2>1, ReadsMove
  <2>3. counted \in Nat /\ counted >= SumOf(Reads, Workers)
    BY <2>1 DEF Covered
  <2>4. CASE worker'[w].read = worker[w].read /\ counted' = counted
    BY <2>2, <2>3, <2>4 DEF Covered
  <2>5. CASE CountBytes(w) /\ worker'[w].read = worker[w].read + worker[w].n
    <3>1. counted' = counted + worker[w].n /\ worker[w].n \in Nat
      BY <1>0, <2>5, LayoutFacts DEF CountBytes, TypeOK
    <3>2. QED
      BY <2>2, <2>3, <2>5, <3>1 DEF Covered
  <2>6. CASE worker'[w].read = 0 /\ RollBack(worker[w].read)
    <3>1. counted' = counted - worker[w].read
      BY <2>2, <2>3, <2>6 DEF RollBack
    <3>2. QED
      BY <2>2, <2>3, <2>6, <3>1 DEF Covered
  <2>7. CASE worker'[w].read = 0 /\ counted' = counted
    BY <2>2, <2>3, <2>7 DEF Covered
  <2>8. QED
    BY <1>0, <1>1, <2>4, <2>5, <2>6, <2>7, CounterMoves
<1>2. CASE ResumeSession
  <2>1. SumOf(Reads, Workers)' = 0
    BY <1>2, ReadsZero DEF ResumeSession
  <2>2. counted' \in Nat
    <3>1. counted' = SumOf([c \in Chunks |-> disk.st[c].downloaded], Chunks)
      BY <1>2, TotalIsSum DEF ResumeSession
    <3>2. [c \in Chunks |-> disk.st[c].downloaded] \in [Chunks -> Nat]
      BY <1>0, LayoutFacts DEF TypeOK, ChunkState
    <3>3. IsFiniteSet(Chunks)
      BY FS_Interval, LayoutFacts DEF Chunks
    <3>4. QED
      BY <3>1, <3>2, <3>3, SumBounds
  <2>3. QED
    BY <2>1, <2>2 DEF Covered
<1>3. CASE InitCheckpoint
  <2>1. SumOf(Reads, Workers)' = 0 /\ counted' = counted
    BY <1>3, ReadsZero DEF InitCheckpoint
  <2>2. QED
    BY <2>1 DEF Covered
<1>4. CASE SingleCopy
  <2>1. counted' \in Nat /\ main' # "workers"
    <3>1. PICK n \in 1..(Length - counted) : counted' = counted + n
      BY <1>4 DEF SingleCopy
    <3>2. counted \in Nat /\ main' # "workers"
      BY <1>4 DEF SingleCopy, Covered
    <3>3. QED
      BY <3>1, <3>2, LayoutFacts
  <2>2. QED
    BY <2>1 DEF Covered
<1>5. CASE OpenFresh \/ Crash
  BY <1>5 DEF OpenFresh, Crash, Covered
<1>6. CASE PersistOnPause \/ ReturnMultipart \/ CleanUp \/ SingleEnd \/ SingleFails
  BY <1>6 DEF PersistOnPause, ReturnMultipart, CleanUp, SingleEnd, SingleFails, Covered
<1>7. CASE Pause \/ ServerUpdate \/ UNCHANGED vars
  <2>1. UNCHANGED <<main, counted, worker>>
    BY <1>7 DEF Pause, ServerUpdate, vars
  <2>2. SumOf(Reads, Workers)' = SumOf(Reads, Workers)
    BY <2>1 DEF SumOf, IsSum, Reads
  <2>3. QED
    BY <2>1, <2>2 DEF Covered
<1>8. QED
  BY <1>1, <1>2, <1>3, <1>4, <1>5, <1>6, <1>7 DEF Next, StartSession, CallerStep

LEMMA ControlInvariant == Spec => []Control
<1>1. Init => Control
  BY TypeInit, RestInit DEF Control
<1>2. Control /\ [Next]_vars => Control'
  BY TypeStep, OwnershipStep, CountsStep DEF Control
<1>3. QED
  BY <1>1, <1>2, PTL DEF Spec

\* Whatever fails and is taken back, and whoever adds meanwhile, the counter
\* covers what the attempts in flight have read: SubBytes never meets its
\* clamp.
THEOREM ClampNeverBites == Spec => []TrackerCoversAttempts
<1>1. Init => Covered
  BY DEF Init, Covered
<1>2. Control /\ Covered /\ [Next]_vars => Covered'
  BY CoveredStep
<1>3. Covered => TrackerCoversAttempts
  BY ReadsAreSum DEF Covered, TrackerCoversAttempts
<1>4. QED
  BY <1>1, <1>2, <1>3, ControlInvariant, PTL DEF Spec
-----------------------------------------------------------------------------
(* Where no server answers a range with the whole resource, the body of an *)
(* attempt is the rest of its chunk.                                       *)

Needed(w) == End[worker[w].chunk] - worker[w].req + 1
Reading == {"read", "write", "count", "ended"}
BodyFits == \A w \in Workers : worker[w].pc \in Reading => worker[w].body = Needed(w)

LEMMA BodyFitsWorker ==
  ASSUME "full" \notin Events, TypeOK, NEW w \in Workers, WorkerStep(w), BodyFits
  PROVE  worker'[w].pc \in Reading => worker'[w].body = Needed(w)'
<1> USE DEF session, memory, ckpt, server, names
<1>0. (FailWorker(w) \/ RetryOrFail(w)) => worker'[w].pc \notin Reading
  BY DEF RetryOrFail, FailWorker, Locals, Attempt, TypeOK, Reading
<1>1. CASE TakeJob(w) \/ SyncCompleted(w) \/ SaveCheckpoint(w) \/ LockCheckpoint(w) \/ SyncDownloaded(w)
  <2>1. worker'[w].pc \notin Reading
    <3>1. CASE TakeJob(w)
      BY <3>1 DEF TakeJob, Locals, Attempt, TypeOK, Reading
    <3>2. CASE SyncCompleted(w)
      <4>1. CASE worker[w].idx < NumChunks
        <5>1. worker'[w] = [worker[w] EXCEPT !.pc = "syncD", !.idx = @ + 1]
          BY <3>2, <4>1 DEF SyncCompleted, TypeOK
        <5>2. worker'[w].pc = "syncD"
          BY <5>1 DEF TypeOK
        <5>3. QED
          BY <5>2 DEF Reading
      <4>2. CASE ~(worker[w].idx < NumChunks)
        BY <3>2, <4>2 DEF SyncCompleted, Locals, Attempt, TypeOK, Reading
      <4>3. QED
        BY <4>1, <4>2
    <3>5. CASE SaveCheckpoint(w)
      BY <3>5 DEF SaveCheckpoint, Locals, Attempt, TypeOK, Reading
    <3>3. CASE LockCheckpoint(w) \/ SyncDownloaded(w)
      BY <3>3 DEF LockCheckpoint, SyncDownloaded, TypeOK, Reading
    <3>4. QED
      BY <1>1, <3>1, <3>2, <3>3, <3>5
  <2>2. QED
    BY <2>1
<1>2. CASE BeginAttempt(w)
  <2>1. worker'[w].pc \notin Reading
    BY <1>0, <1>2 DEF BeginAttempt, TypeOK, Reading
  <2>2. QED
    BY <2>1
<1>3. CASE FatalStatus(w) \/ RequestFails(w) \/ WriteFails(w) \/ ReadCancelled(w)
  BY <1>0, <1>3 DEF FatalStatus, RequestFails, WriteFails, ReadCancelled
<1>4. ~FullContent(w)
  BY DEF FullContent, Spend
<1>5. CASE PartialContent(w)
  BY <1>5 DEF PartialContent, TypeOK, Needed
<1>6. CASE ReadBody(w) \/ WriteBody(w) \/ EndBody(w) \/ CountBytes(w)
  <2>1. /\ worker[w].pc \in Reading /\ worker'[w].body = worker[w].body
        /\ worker'[w].req = worker[w].req /\ worker'[w].chunk = worker[w].chunk
    <3>1. CASE ReadBody(w)
      BY <3>1 DEF ReadBody, TypeOK, Reading
    <3>2. CASE WriteBody(w)
      BY <3>2 DEF WriteBody, TypeOK, Reading
    <3>3. CASE EndBody(w)
      BY <3>3 DEF EndBody, TypeOK, Reading
    <3>4. CASE CountBytes(w)
      <4>1. PICK pc : worker' = [worker EXCEPT ![w].pc = pc, ![w].read = worker[w].read + worker[w].n, ![w].n = 0]
        BY <3>4 DEF CountBytes
      <4>2. QED
        BY <3>4, <4>1 DEF CountBytes, TypeOK, Reading
    <3>5. QED
      BY <1>6, <3>1, <3>2, <3>3, <3>4
  <2>2. QED
    BY <2>1 DEF BodyFits, Needed
<1>7. CASE FinishAttempt(w)
  <2>1. worker'[w].pc \notin Reading
    BY <1>0, <1>7 DEF FinishAttempt, Locals, Attempt, TypeOK, Reading
  <2>2. QED
    BY <2>1
<1>8. QED
  BY <1>1, <1>2, <1>3, <1>4, <1>5, <1>6, <1>7 DEF WorkerStep

LEMMA BodyFitsStep ==
  ASSUME "full" \notin Events, Control, BodyFits, [Next]_vars
  PROVE  BodyFits'
<1> USE DEF session, memory, ckpt, server, names
<1>0. TypeOK /\ Ownership
  BY DEF Control
<1>1. ASSUME NEW w \in Workers, WorkerStep(w)
      PROVE  BodyFits'
  <2>1. \A v \in Workers \ {w} : worker'[v] = worker[v]
    BY <1>0, <1>1, WorkerEffect
  <2>2. QED
    BY <1>0, <1>1, <2>1, BodyFitsWorker DEF BodyFits, Needed
<1>2. ASSUME NEW pc \in {"take", "exited"}, worker' = [w \in Workers |-> Locals(pc)]
      PROVE  BodyFits'
  BY <1>2, Restarted DEF BodyFits, Reading
<1>3. CASE ResumeSession \/ InitCheckpoint
  BY <1>2, <1>3 DEF ResumeSession, InitCheckpoint
<1>4. CASE OpenFresh \/ Crash
  BY <1>2, <1>4 DEF OpenFresh, Crash
<1>5. CASE \/ PersistOnPause \/ ReturnMultipart \/ CleanUp \/ SingleCopy \/ SingleEnd \/ SingleFails
           \/ Pause \/ ServerUpdate \/ UNCHANGED vars
  <2>1. worker' = worker
    BY <1>5 DEF PersistOnPause, ReturnMultipart, CleanUp, SingleCopy, SingleEnd, SingleFails, Pause,
                ServerUpdate, vars
  <2>2. QED
    BY <2>1 DEF BodyFits, Needed
<1>6. QED
  BY <1>1, <1>3, <1>4, <1>5 DEF Next, StartSession, CallerStep

LEMMA BodyFitsInit == Init => BodyFits
BY DEF Init, BodyFits, Reading, Locals, Attempt

\* The sum of the counts after one of them has grown by d.
LEMMA TotalMoves ==
  ASSUME NEW cs \in [Chunks -> ChunkState], NEW ds \in [Chunks -> ChunkState], NEW c \in Chunks, NEW d \in Int,
         ds[c].downloaded = cs[c].downloaded + d,
         \A x \in Chunks \ {c} : ds[x].downloaded = cs[x].downloaded
  PROVE  TotalDownloaded(cs) \in Int /\ TotalDownloaded(ds) = TotalDownloaded(cs) + d
<1> DEFINE f == [x \in Chunks |-> cs[x].downloaded]
           g == [x \in Chunks |-> ds[x].downloaded]
<1>1. \A x \in Chunks : cs[x].downloaded \in Int /\ ds[x].downloaded \in Int
  BY LayoutFacts DEF ChunkState
<1>2. f \in [Chunks -> Int] /\ g \in [Chunks -> Int]
  BY <1>1
<1>3. \A x \in Chunks : g[x] = IF x = c THEN f[x] + d ELSE f[x]
  OBVIOUS
<1>4. IsFiniteSet(Chunks)
  BY FS_Interval, LayoutFacts DEF Chunks
<1>5. TotalDownloaded(cs) = SumOf(f, Chunks) /\ TotalDownloaded(ds) = SumOf(g, Chunks)
  BY TotalIsSum
<1>6. SumOf(f, Chunks) \in Int /\ SumOf(g, Chunks) = SumOf(f, Chunks) + d
  <2> HIDE DEF f, g
  <2> QED BY <1>2, <1>3, <1>4, SumAdds
<1>7. QED
  BY <1>5, <1>6

LEMMA TotalIsNatural ==
  ASSUME NEW cs \in [Chunks -> ChunkState]
  PROVE  TotalDownloaded(cs) \in Nat
<1>1. [x \in Chunks |-> cs[x].downloaded] \in [Chunks -> Nat]
  BY LayoutFacts DEF ChunkState
<1>2. IsFiniteSet(Chunks)
  BY FS_Interval, LayoutFacts DEF Chunks
<1>3. QED
  BY <1>1, <1>2, TotalIsSum, SumBounds

Modest ==
  /\ main = "opened" => counted = 0
  /\ main = "workers" => counted <= TotalDownloaded(chunks)

\* A chunk that is completed had all its bytes counted before.
LEMMA CompletionCountsNothing ==
  ASSUME TypeOK, Counts, WorkersBounded, NEW w \in Workers, Completes(w)
  PROVE  /\ worker[w].chunk \in Chunks
         /\ chunks' = [chunks EXCEPT ![worker[w].chunk] =
                         [downloaded |-> chunks[worker[w].chunk].downloaded, completed |-> TRUE]]
<1> DEFINE c == worker[w].chunk
<1>1. worker[w].pc \in Fetching /\ worker[w].read = End[c] - worker[w].req + 1
  BY DEF Completes, Fetching
<1>2. c \in Chunks /\ worker[w].req \in Int /\ worker[w].read \in Int /\ Start[c] \in Int /\ End[c] \in Int
  <2>1. c \in Chunks /\ worker[w].req \in 0..Length /\ worker[w].read \in 0..Length
    BY DEF TypeOK
  <2>2. Start[c] \in Int /\ End[c] \in Int
    BY <2>1, LayoutFacts
  <2>3. QED
    BY <2>1, <2>2
<1>3. worker[w].req + worker[w].read - Start[c] = Size(c)
  BY <1>1, <1>2 DEF Size
<1>4. chunks[c].downloaded = Size(c)
  BY <1>1, <1>2, <1>3, LayoutFacts DEF Counts
<1>5. QED
  BY <1>2, <1>4 DEF Completes

LEMMA ModestWorker ==
  ASSUME Control, Control', Covered, BodyFits, Modest, NEW w \in Workers, WorkerStep(w)
  PROVE  Modest'
<1> DEFINE c == worker[w].chunk
<1>0. /\ TypeOK /\ TypeOK' /\ WorkersBounded /\ Ownership /\ Counts
      /\ chunks \in [Chunks -> ChunkState] /\ chunks' \in [Chunks -> ChunkState]
      /\ c \in Chunks
  BY DEF Control, TypeOK
<1>1. main = "workers" /\ main' = "workers"
  BY <1>0, WorkerStepMain
<1>2. /\ counted \in Nat /\ counted <= TotalDownloaded(chunks) /\ TotalDownloaded(chunks) \in Nat
      /\ TotalDownloaded(chunks') \in Nat
      /\ worker[w].read \in Nat
  <2>1. worker[w].read \in Nat
    BY <1>0, LayoutFacts DEF TypeOK
  <2>2. QED
    BY <1>0, <1>1, <2>1, TotalIsNatural DEF Modest, Covered
<1>3. CASE CountBytes(w)
  <2>1. /\ worker[w].pc = "count" /\ counted' = counted + worker[w].n
        /\ chunks' = [chunks EXCEPT ![c].downloaded = IF Downloaded(w) > Size(c) THEN Size(c) ELSE Downloaded(w)]
    BY <1>3 DEF CountBytes
  <2>2. /\ worker[w].n \in Int /\ worker[w].req \in Int /\ worker[w].read \in Int /\ worker[w].body \in Int
        /\ Start[c] \in Int /\ End[c] \in Int /\ worker[w].n \in Nat
        /\ worker[w].read + worker[w].n <= worker[w].body
    <3>1. worker[w].pc \in Fetching
      BY <2>1 DEF Fetching
    <3>2. worker[w] \in WorkerRecord /\ AttemptBounds(worker[w])
      BY <1>0 DEF WorkersBounded, TypeOK, WorkerRecord
    <3>3. QED
      BY <3>1, <3>2, AttemptFacts
  <2>3. worker[w].body = End[c] - worker[w].req + 1
    BY <2>1 DEF BodyFits, Reading, Needed
  <2>4. ~(Downloaded(w) > Size(c))
    BY <2>2, <2>3 DEF Downloaded, Size
  <2>5. chunks[c].downloaded = worker[w].req + worker[w].read - Start[c]
    <3>1. worker[w].req + worker[w].read - Start[c] <= Size(c)
      BY <2>2, <2>3 DEF Size
    <3>2. worker[w].pc \in Fetching
      BY <2>1 DEF Fetching
    <3>3. QED
      BY <1>0, <3>1, <3>2 DEF Counts
  <2>6. /\ chunks'[c].downloaded = chunks[c].downloaded + worker[w].n
        /\ \A x \in Chunks \ {c} : chunks'[x].downloaded = chunks[x].downloaded
    <3>1. chunks'[c].downloaded = Downloaded(w)
      BY <1>0, <2>1, <2>4 DEF ChunkState
    <3>2. Downloaded(w) = chunks[c].downloaded + worker[w].n
      BY <2>2, <2>5 DEF Downloaded
    <3>3. QED
      BY <1>0, <2>1, <3>1, <3>2
  <2>7. TotalDownloaded(chunks') = TotalDownloaded(chunks) + worker[w].n
    BY <1>0, <2>2, <2>6, TotalMoves
  <2>8. QED
    BY <1>1, <1>2, <2>1, <2>2, <2>7 DEF Modest
<1>4. CASE ~CountBytes(w)
  <2>1. counted' <= counted
    <3>1. CASE RollBack(worker[w].read)
      BY <1>2, <3>1 DEF RollBack
    <3>2. QED
      BY <1>0, <1>2, <1>4, <3>1, CounterMoves
  <2>2. \A x \in Chunks : chunks'[x].downloaded = chunks[x].downloaded
    <3>1. CASE Completes(w)
      <4>1. chunks' = [chunks EXCEPT ![c] = [downloaded |-> chunks[c].downloaded, completed |-> TRUE]]
        BY <1>0, <3>1, CompletionCountsNothing
      <4>2. QED
        BY <1>0, <4>1
    <3>2. CASE ~Completes(w)
      <4>1. ~Counted(w) \/ chunks' = chunks
        <5>1. WorkerStep(w) /\ worker[w].pc = "count" => CountBytes(w)
          BY DEF WorkerStep, TakeJob, BeginAttempt, PartialContent, FullContent, FatalStatus, RequestFails,
                 ReadBody, WriteBody, WriteFails, EndBody, ReadCancelled, FinishAttempt, LockCheckpoint,
                 SyncDownloaded, SyncCompleted, SaveCheckpoint
        <5>2. QED
          BY <1>4, <5>1 DEF Counted
      <4>2. QED
        BY <1>0, <3>2, <4>1, AttemptEffect DEF SameAttempt, NewAttempt, NoAttempt
    <3>3. QED
      BY <3>1, <3>2
  <2>3. TotalDownloaded(chunks') = TotalDownloaded(chunks)
    <3>1. TotalDownloaded(chunks') = TotalDownloaded(chunks) + 0
      <4>0. chunks[c].downloaded \in 0..Length
        BY <1>0 DEF ChunkState
      <4>1. chunks'[c].downloaded = chunks[c].downloaded + 0
        BY <1>0, <2>2, <4>0
      <4>2. QED
        BY <1>0, <2>2, <4>1, TotalMoves
    <3>2. QED
      BY <1>2, <3>1
  <2>4. counted' \in Int
    <3>1. RollBack(worker[w].read) => counted' \in Int
      BY <1>2 DEF RollBack
    <3>2. QED
      BY <1>0, <1>2, <1>4, <3>1, CounterMoves
  <2>5. QED
    BY <1>1, <1>2, <2>1, <2>3, <2>4 DEF Modest
<1>5. QED
  BY <1>3, <1>4

LEMMA ModestStep ==
  ASSUME Control, Control', Covered, BodyFits, Modest, [Next]_vars
  PROVE  Modest'
<1> USE DEF session, memory, ckpt, server, names
<1>0. disk.st \in [Chunks -> ChunkState] /\ chunks \in [Chunks -> ChunkState]
  BY DEF Control, TypeOK
<1>1. CASE \E w \in Workers : WorkerStep(w)
  BY <1>1, ModestWorker
<1>2. CASE ResumeSession
  <2>1. main' = "workers" /\ counted' = TotalDownloaded(disk.st) /\ chunks' = disk.st
    BY <1>2 DEF ResumeSession
  <2>2. TotalDownloaded(disk.st) \in Nat
    BY <1>0, TotalIsNatural
  <2>3. QED
    BY <2>1, <2>2 DEF Modest
<1>3. CASE InitCheckpoint
  <2>1. main' = "workers" /\ counted' = 0 /\ chunks' = chunks
    BY <1>3 DEF InitCheckpoint, Modest
  <2>2. TotalDownloaded(chunks) \in Nat
    BY <1>0, TotalIsNatural
  <2>3. QED
    BY <2>1, <2>2 DEF Modest
<1>4. CASE OpenFresh \/ Crash
  BY <1>4 DEF OpenFresh, Crash, Modest
<1>5. CASE PersistOnPause \/ ReturnMultipart \/ CleanUp \/ SingleCopy \/ SingleEnd \/ SingleFails
  BY <1>5 DEF PersistOnPause, ReturnMultipart, CleanUp, SingleCopy, SingleEnd, SingleFails, Modest
<1>6. CASE Pause \/ ServerUpdate \/ UNCHANGED vars
  <2>1. UNCHANGED <<main, counted, chunks>>
    BY <1>6 DEF Pause, ServerUpdate, vars
  <2>2. QED
    BY <2>1 DEF Modest
<1>7. QED
  BY <1>1, <1>2, <1>3, <1>4, <1>5, <1>6 DEF Next, StartSession, CallerStep

\* The tracker never shows more than the chunks have, however attempts fail
\* and are taken back, as long as no server answers a range with more than was
\* asked for (such a body is counted whole, and its chunk clamped).
THEOREM NothingCountedTwice ==
  ASSUME "full" \notin Events
  PROVE  Spec => []TrackerNeverOverstates
<1> DEFINE Inv == Covered /\ BodyFits /\ Modest
<1>1. Init => Inv
  BY BodyFitsInit DEF Init, Covered, Modest
<1>2. Control /\ Control' /\ Inv /\ [Next]_vars => Inv'
  BY CoveredStep, BodyFitsStep, ModestStep
<1>3. Inv => TrackerNeverOverstates
  BY DEF Modest, TrackerNeverOverstates
<1> HIDE DEF Inv
<1>4. QED
  BY <1>1, <1>2, <1>3, ControlInvariant, PTL DEF Spec
-----------------------------------------------------------------------------
(* What one session hands on to the next. cpMu is held through every step  *)
(* of SyncFromChunks and Save.                                             *)

MutexHeld == \A w \in Workers : worker[w].pc \in Syncing => cpMu = w

\* Which steps touch the checkpoint.
LEMMA CheckpointSteps ==
  ASSUME NEW w \in Workers, WorkerStep(w), worker[w].pc \in {"lock"} \cup Syncing
  PROVE  LockCheckpoint(w) \/ SyncDownloaded(w) \/ SyncCompleted(w) \/ SaveCheckpoint(w)
BY DEF WorkerStep, TakeJob, BeginAttempt, PartialContent, FullContent, FatalStatus, RequestFails,
       ReadBody, WriteBody, WriteFails, CountBytes, EndBody, ReadCancelled, FinishAttempt, Syncing

LEMMA OtherSteps ==
  ASSUME TypeOK, NEW w \in Workers, WorkerStep(w), worker[w].pc \notin {"lock"} \cup Syncing
  PROVE  /\ UNCHANGED <<cpMem, disk, cpMu>> /\ worker'[w].pc \notin Syncing
         /\ Completes(w) => worker'[w].idx = 1
<1> USE DEF session, memory, ckpt, server, names
<1>1. ~LockCheckpoint(w) /\ ~SyncDownloaded(w) /\ ~SyncCompleted(w) /\ ~SaveCheckpoint(w)
  BY DEF LockCheckpoint, SyncDownloaded, SyncCompleted, SaveCheckpoint, Syncing
<1>2. UNCHANGED <<cpMem, disk, cpMu>>
  BY <1>1 DEF WorkerStep, TakeJob, BeginAttempt, PartialContent, FullContent, FatalStatus, RequestFails,
       ReadBody, WriteBody, WriteFails, CountBytes, EndBody, ReadCancelled, FinishAttempt
<1>3. worker'[w].pc \notin Syncing
  BY WorkerEffect DEF GoesOn, GivesUp, Takes, Completes, Persists, Active, Syncing
<1>4. ASSUME Completes(w)
      PROVE  worker'[w].idx = 1
  <2>1. worker[w].pc = "ended" /\ worker'[w].pc = "lock"
    BY <1>4 DEF Completes
  <2>2. FinishAttempt(w)
    BY <2>1 DEF WorkerStep, TakeJob, BeginAttempt, PartialContent, FullContent, FatalStatus, RequestFails,
         ReadBody, WriteBody, WriteFails, CountBytes, EndBody, ReadCancelled, LockCheckpoint, SyncDownloaded,
         SyncCompleted, SaveCheckpoint
  <2>3. worker' = [worker EXCEPT ![w] = Locals("lock")]
    BY <1>4, <2>2 DEF FinishAttempt, Completes
  <2>4. QED
    BY <2>3 DEF Locals, Attempt, TypeOK
<1>5. QED
  BY <1>2, <1>3, <1>4

LEMMA MutexStep ==
  ASSUME TypeOK, Ownership, MutexHeld, [Next]_vars
  PROVE  MutexHeld'
<1> USE DEF session, memory, ckpt, server, names
<1>1. ASSUME NEW w \in Workers, WorkerStep(w)
      PROVE  MutexHeld'
  <2>1. \A v \in Workers \ {w} : worker'[v] = worker[v]
    BY <1>1, WorkerEffect
  <2>2. NoWorker \notin Workers
    BY ParameterAssumption
  <2>3. CASE LockCheckpoint(w)
    BY <2>1, <2>2, <2>3 DEF LockCheckpoint, MutexHeld
  <2>4. CASE SyncDownloaded(w) \/ SyncCompleted(w)
    <3>1. worker[w].pc \in Syncing /\ UNCHANGED cpMu
      BY <2>4 DEF SyncDownloaded, SyncCompleted, Syncing
    <3>2. QED
      BY <2>1, <3>1 DEF MutexHeld
  <2>5. CASE SaveCheckpoint(w)
    <3>1. worker[w].pc \in Syncing /\ worker'[w].pc = "take"
      BY <2>5 DEF SaveCheckpoint, Syncing, Locals, Attempt, TypeOK
    <3>2. \A v \in Workers \ {w} : worker[v].pc \notin Syncing
      BY <3>1 DEF MutexHeld
    <3>3. QED
      BY <2>1, <3>1, <3>2 DEF MutexHeld, Syncing
  <2>6. CASE worker[w].pc \notin {"lock"} \cup Syncing
    BY <1>1, <2>1, <2>6, OtherSteps DEF MutexHeld
  <2>7. QED
    BY <1>1, <2>3, <2>4, <2>5, <2>6, CheckpointSteps
<1>2. ASSUME NEW pc \in {"take", "exited"}, worker' = [w \in Workers |-> Locals(pc)]
      PROVE  MutexHeld'
  BY <1>2, Restarted DEF MutexHeld, Syncing
<1>3. CASE ResumeSession \/ OpenFresh \/ InitCheckpoint \/ Crash
  BY <1>2, <1>3 DEF ResumeSession, OpenFresh, InitCheckpoint, Crash
<1>4. CASE \/ PersistOnPause \/ ReturnMultipart \/ CleanUp \/ SingleCopy \/ SingleEnd \/ SingleFails
           \/ Pause \/ ServerUpdate \/ UNCHANGED vars
  <2>1. UNCHANGED <<worker, cpMu>>
    BY <1>4 DEF PersistOnPause, ReturnMultipart, CleanUp, SingleCopy, SingleEnd, SingleFails, Pause,
                ServerUpdate, vars
  <2>2. QED
    BY <2>1 DEF MutexHeld
<1>5. QED
  BY <1>1, <1>3, <1>4 DEF Next, StartSession, CallerStep

\* What Accounted says of the workers alone: no chunk is forgotten while
\* nothing has gone wrong.
NothingForgotten ==
  /\ stopped => downloadErr
  /\ main = "workers" /\ ~paused /\ ~stopped =>
       /\ \A c \in Chunks : \/ chunks[c].completed \/ c \in jobs
                            \/ \E w \in Workers : worker[w].pc \in Active /\ worker[w].chunk = c
       /\ (\E w \in Workers : worker[w].pc = "exited") => jobs = {}

LEMMA NothingForgottenStep ==
  ASSUME TypeOK, Ownership, Session, NothingForgotten, [Next]_vars
  PROVE  NothingForgotten'
<1> USE DEF session, memory, ckpt, server, names
<1>1. ASSUME NEW w \in Workers, WorkerStep(w)
      PROVE  NothingForgotten'
  <2>1. main = "workers"
    BY <1>1, WorkerStepMain
  <2>2. Accounted
    BY <2>1 DEF Session, NothingForgotten, Accounted, SuccessComplete
  <2>3. QED
    BY <1>1, <2>2, AccountedWorker DEF Accounted, NothingForgotten
<1>2. ASSUME worker' = [w \in Workers |-> Locals("take")],
             jobs' = {c \in Chunks : ~chunks'[c].completed}, stopped' => downloadErr'
      PROVE  NothingForgotten'
  BY <1>2, Restarted DEF NothingForgotten
<1>3. CASE ResumeSession
  BY <1>2, <1>3 DEF ResumeSession
<1>4. CASE InitCheckpoint
  BY <1>2, <1>4 DEF InitCheckpoint, NothingForgotten
<1>5. CASE OpenFresh \/ Crash
  BY <1>5 DEF OpenFresh, Crash, NothingForgotten
<1>6. CASE PersistOnPause \/ ReturnMultipart \/ CleanUp \/ SingleCopy \/ SingleEnd \/ SingleFails
  BY <1>6 DEF PersistOnPause, ReturnMultipart, CleanUp, SingleCopy, SingleEnd, SingleFails, NothingForgotten
<1>7. CASE Pause
  BY <1>7 DEF Pause, NothingForgotten
<1>8. CASE ServerUpdate \/ UNCHANGED vars
  BY <1>8 DEF ServerUpdate, vars, NothingForgotten
<1>9. QED
  BY <1>1, <1>3, <1>4, <1>5, <1>6, <1>7, <1>8 DEF Next, StartSession, CallerStep

\* What a completed chunk counts does not change any more.
LEMMA CompletedStays ==
  ASSUME TypeOK, WorkersBounded, Ownership, NEW w \in Workers, WorkerStep(w),
         NEW c \in Chunks, chunks[c].completed
  PROVE  chunks'[c] = chunks[c]
<1>1. CASE SameAttempt(w) \/ NewAttempt(w) \/ NoAttempt(w)
  BY <1>1 DEF SameAttempt, NewAttempt, NoAttempt
<1>2. CASE Counted(w) \/ Completes(w)
  <2>1. worker[w].pc \in Active
    BY <1>2 DEF Counted, Completes, Active
  <2>2. worker[w].chunk # c
    BY <2>1 DEF Ownership, OneWriterPerChunk
  <2>3. QED
    BY <1>2, <2>2 DEF Counted, Completes, TypeOK
<1>3. QED
  BY <1>1, <1>2, AttemptEffect

\* Worker w has still to copy chunk c into the checkpoint, or has and will
\* save it.
WillSave(w, c) ==
  \/ worker[w].pc = "lock" /\ worker[w].idx = 1
  \/ worker[w].pc = "syncD" /\ (worker[w].idx <= c \/ cpMem[c] = chunks[c])
  \/ worker[w].pc = "syncC" /\ \/ worker[w].idx < c
                               \/ cpMem[c] = chunks[c]
                               \/ worker[w].idx = c /\ cpMem[c].downloaded = chunks[c].downloaded
  \/ worker[w].pc = "save" /\ cpMem[c] = chunks[c]

OnDisk(c) ==
  \/ disk.st[c] = chunks[c] /\ cpMem[c] = chunks[c]
  \/ \E w \in Workers : WillSave(w, c)

\* Who takes a chunk through lock, SyncFromChunks and Save takes it to the
\* disk.
LEMMA OnDiskStep ==
  ASSUME TypeOK, WorkersBounded, Ownership, MutexHeld, NEW w \in Workers, WorkerStep(w),
         "savefail" \notin Events, NEW c \in Chunks, chunks[c].completed, OnDisk(c)
  PROVE  OnDisk(c)'
<1> USE DEF session, memory, ckpt, server, names
<1>0. /\ chunks'[c] = chunks[c] /\ \A v \in Workers \ {w} : worker'[v] = worker[v]
      /\ c \in 1..NumChunks /\ NumChunks \in Nat /\ c \in Int
      /\ worker[w].idx \in 1..NumChunks /\ worker[w].idx \in Int
      /\ chunks[c] \in ChunkState /\ cpMem \in [Chunks -> ChunkState]
  <2>1. chunks'[c] = chunks[c] /\ \A v \in Workers \ {w} : worker'[v] = worker[v]
    BY CompletedStays, WorkerEffect
  <2>2. NumChunks \in Nat /\ worker[w].idx \in Chunks
    BY LayoutFacts DEF TypeOK
  <2>3. chunks[c] \in ChunkState /\ cpMem \in [Chunks -> ChunkState]
    BY DEF TypeOK
  <2>4. QED
    BY <2>1, <2>2, <2>3 DEF Chunks
<1>1. CASE worker[w].pc \notin {"lock"} \cup Syncing
  <2>1. cpMem' = cpMem /\ disk' = disk
    BY <1>1, OtherSteps
  <2>2. ~WillSave(w, c)
    BY <1>1 DEF WillSave, Syncing
  <2>3. \A v \in Workers : WillSave(v, c) => WillSave(v, c)'
    BY <1>0, <2>1, <2>2 DEF WillSave
  <2>4. QED
    BY <1>0, <2>1, <2>3 DEF OnDisk
<1>2. CASE LockCheckpoint(w)
  <2>1. /\ cpMem' = cpMem /\ disk' = disk /\ worker[w].pc = "lock"
        /\ worker'[w].pc = "syncD" /\ worker'[w].idx = worker[w].idx
    BY <1>2 DEF LockCheckpoint, TypeOK
  <2>2. WillSave(w, c) => WillSave(w, c)'
    BY <1>0, <2>1 DEF WillSave
  <2>3. \A v \in Workers : WillSave(v, c) => WillSave(v, c)'
    BY <1>0, <2>1, <2>2 DEF WillSave
  <2>4. QED
    BY <1>0, <2>1, <2>3 DEF OnDisk
<1>3. ASSUME worker[w].pc \in Syncing
      PROVE  \A v \in Workers \ {w} : WillSave(v, c) => WillSave(v, c)'
  <2>1. \A v \in Workers \ {w} : worker[v].pc \notin Syncing
    BY <1>3 DEF MutexHeld
  <2>2. QED
    BY <1>0, <2>1 DEF WillSave, Syncing
<1>4. CASE SyncDownloaded(w)
  <2>1. /\ disk' = disk /\ worker[w].pc = "syncD" /\ worker'[w].pc = "syncC" /\ worker'[w].idx = worker[w].idx
        /\ cpMem'[c] = IF worker[w].idx = c THEN [cpMem[c] EXCEPT !.downloaded = chunks[c].downloaded]
                       ELSE cpMem[c]
    BY <1>0, <1>4 DEF SyncDownloaded, TypeOK
  <2>2. /\ cpMem[c] = chunks[c] => cpMem'[c] = chunks[c]
        /\ worker[w].idx = c => cpMem'[c].downloaded = chunks[c].downloaded
    BY <1>0, <2>1 DEF ChunkState
  <2>3. WillSave(w, c) => WillSave(w, c)'
    BY <1>0, <2>1, <2>2 DEF WillSave
  <2>4. QED
    BY <1>0, <1>3, <2>1, <2>2, <2>3 DEF OnDisk, Syncing
<1>5. CASE SyncCompleted(w)
  <2>1. /\ disk' = disk /\ worker[w].pc = "syncC"
        /\ cpMem'[c] = IF worker[w].idx = c THEN [cpMem[c] EXCEPT !.completed = chunks[c].completed]
                       ELSE cpMem[c]
    BY <1>0, <1>5 DEF SyncCompleted, TypeOK
  <2>2. /\ cpMem[c] = chunks[c] => cpMem'[c] = chunks[c]
        /\ worker[w].idx = c /\ cpMem[c].downloaded = chunks[c].downloaded => cpMem'[c] = chunks[c]
    <3>1. cpMem[c] \in ChunkState
      BY <1>0
    <3>2. \A r \in ChunkState : r = [downloaded |-> r.downloaded, completed |-> r.completed]
      BY DEF ChunkState
    <3>3. \A r \in ChunkState : \A x \in BOOLEAN :
            [r EXCEPT !.completed = x] = [downloaded |-> r.downloaded, completed |-> x]
      BY DEF ChunkState
    <3>4. chunks[c].completed \in BOOLEAN
      BY <1>0 DEF ChunkState
    <3>5. [cpMem[c] EXCEPT !.completed = chunks[c].completed] =
             [downloaded |-> cpMem[c].downloaded, completed |-> chunks[c].completed]
      BY <3>1, <3>3, <3>4
    <3>6. chunks[c] = [downloaded |-> chunks[c].downloaded, completed |-> chunks[c].completed]
      BY <1>0, <3>2
    <3>7. QED
      BY <2>1, <3>5, <3>6
  <2>3. \/ worker[w].idx < NumChunks /\ worker'[w].pc = "syncD" /\ worker'[w].idx = worker[w].idx + 1
        \/ ~(worker[w].idx < NumChunks) /\ worker'[w].pc = "save"
    <3>1. CASE worker[w].idx < NumChunks
      <4>1. worker'[w] = [worker[w] EXCEPT !.pc = "syncD", !.idx = @ + 1]
        BY <1>5, <3>1 DEF SyncCompleted, TypeOK
      <4>2. QED
        BY <3>1, <4>1 DEF TypeOK
    <3>2. CASE ~(worker[w].idx < NumChunks)
      BY <1>5, <3>2 DEF SyncCompleted, TypeOK, Locals, Attempt
    <3>3. QED
      BY <3>1, <3>2
  <2>4. WillSave(w, c) => WillSave(w, c)'
    BY <1>0, <2>1, <2>2, <2>3 DEF WillSave
  <2>5. QED
    BY <1>0, <1>3, <2>1, <2>2, <2>4 DEF OnDisk, Syncing
<1>6. CASE SaveCheckpoint(w)
  <2>1. worker[w].pc = "save" /\ cpMem' = cpMem /\ disk' = [id |-> cpId, st |-> cpMem]
    BY <1>6 DEF SaveCheckpoint, Save, Spend
  <2>2. cpMem[c] = chunks[c] => OnDisk(c)'
    BY <1>0, <2>1 DEF OnDisk
  <2>3. WillSave(w, c) => cpMem[c] = chunks[c]
    BY <2>1 DEF WillSave
  <2>4. \A v \in Workers \ {w} : WillSave(v, c) => WillSave(v, c)'
    BY <1>3, <2>1 DEF Syncing
  <2>5. QED
    BY <2>2, <2>3, <2>4 DEF OnDisk
<1>7. QED
  BY <1>1, <1>2, <1>4, <1>5, <1>6, CheckpointSteps

Saved == disk = [id |-> Identity, st |-> chunks]

\* The checkpoint on disk, where every save succeeds and the resource stays.
Persisted ==
  /\ main # "idle" => cpId = Identity
  /\ disk # NoCheckpoint => disk.id = Identity
  /\ main = "opened" => chunks = FreshChunks
  /\ main = "single" => ~ranges
  /\ main = "workers" => disk.id = Identity /\ \A c \in Chunks : chunks[c].completed => OnDisk(c)
  /\ main = "waited" => Saved
  /\ main = "idle" /\ result = "error" /\ ranges => Saved

LEMMA PersistedWorker ==
  ASSUME "savefail" \notin Events, TypeOK, WorkersBounded, Ownership, Session, MutexHeld, Persisted,
         NEW w \in Workers, WorkerStep(w)
  PROVE  Persisted'
<1>1. main = "workers" /\ main' = "workers" /\ Identity' = Identity /\ cpId' = cpId /\ cpId = Identity
  <2>1. main = "workers" /\ main' = "workers"
    BY WorkerStepMain
  <2>2. QED
    BY <2>1, WorkerEffect DEF Persisted, Identity, server
<1>2. disk'.id = Identity'
  <2>1. disk' = disk \/ disk' = [id |-> cpId, st |-> cpMem]
    BY WorkerCheckpoint
  <2>2. QED
    BY <1>1, <2>1 DEF Persisted
<1>3. ASSUME NEW c \in Chunks, chunks'[c].completed
      PROVE  OnDisk(c)'
  <2>1. CASE chunks[c].completed
    BY <1>1, <2>1, OnDiskStep DEF Persisted
  <2>2. CASE ~chunks[c].completed
    <3>1. Completes(w)
      <4>1. CASE SameAttempt(w) \/ NewAttempt(w) \/ NoAttempt(w)
        BY <1>3, <2>2, <4>1 DEF SameAttempt, NewAttempt, NoAttempt
      <4>2. CASE Counted(w)
        BY <1>3, <2>2, <4>2 DEF Counted, TypeOK, ChunkState
      <4>3. QED
        BY <4>1, <4>2, AttemptEffect
    <3>2. worker[w].pc \notin {"lock"} \cup Syncing /\ worker'[w].pc = "lock"
      BY <3>1 DEF Completes, Syncing
    <3>3. worker'[w].idx = 1
      BY <3>1, <3>2, OtherSteps
    <3>4. QED
      BY <3>2, <3>3 DEF OnDisk, WillSave
  <2>3. QED
    BY <2>1, <2>2
<1>4. QED
  BY <1>1, <1>2, <1>3 DEF Persisted

LEMMA PersistedStep ==
  ASSUME "savefail" \notin Events, "update" \notin Events, Cardinality(Workers) > 1,
         TypeOK, WorkersBounded, Ownership, Session, MutexHeld, NothingForgotten, Persisted, [Next]_vars
  PROVE  Persisted'
<1> USE DEF session, memory, ckpt, server, names
<1>1. CASE \E w \in Workers : WorkerStep(w)
  BY <1>1, PersistedWorker
<1>2. CASE ResumeSession
  <2>1. /\ main' = "workers" /\ chunks' = disk.st /\ cpMem' = disk.st
        /\ UNCHANGED <<disk, version, headers>> /\ cpId' = disk.id /\ disk.id = Identity
    BY <1>2 DEF ResumeSession, IsResumeValid, Persisted
  <2>2. QED
    BY <2>1 DEF Persisted, OnDisk, Identity
<1>3. CASE OpenFresh
  BY <1>3 DEF OpenFresh, Persisted, Identity
<1>4. CASE InitCheckpoint
  <2>1. /\ main' = "workers" /\ UNCHANGED <<chunks, version, headers, cpId>>
        /\ disk' = [id |-> cpId, st |-> cpMem]
    BY <1>4 DEF InitCheckpoint, Save, Spend
  <2>2. chunks = FreshChunks /\ cpId = Identity
    BY <1>4 DEF InitCheckpoint, Persisted
  <2>3. QED
    BY <2>1, <2>2 DEF Persisted, FreshChunks, Identity
<1>5. CASE PersistOnPause
  <2>1. /\ main = "workers" /\ main' = "waited" /\ UNCHANGED <<chunks, version, headers, cpId>>
        /\ cpId = Identity /\ Identity' = Identity
        /\ \A w \in Workers : worker[w].pc = "exited"
    BY <1>5 DEF PersistOnPause, Persisted, Identity
  <2>2. CASE MustPersist
    BY <1>5, <2>1, <2>2 DEF PersistOnPause, Save, Spend, Persisted, Saved
  <2>3. CASE ~MustPersist
    <3>1. UNCHANGED disk /\ ~paused /\ ~stopped
      BY <1>5, <2>3 DEF PersistOnPause, MustPersist, CtxDone
    <3>2. \A c \in Chunks : chunks[c].completed
      <4>1. \E w \in Workers : worker[w].pc = "exited"
        BY <2>1, ParameterAssumption
      <4>2. QED
        BY <2>1, <3>1, <4>1 DEF NothingForgotten, Active
    <3>3. \A c \in Chunks : disk.st[c] = chunks[c]
      BY <2>1, <3>2 DEF Persisted, OnDisk, WillSave
    <3>4. disk = [id |-> Identity, st |-> chunks]
      <4>1. disk.id = Identity /\ disk.st = chunks
        BY <2>1, <3>3 DEF Persisted, TypeOK
      <4>2. QED
        BY <4>1 DEF TypeOK
    <3>5. QED
      BY <2>1, <3>1, <3>4 DEF Persisted, Saved
  <2>4. QED
    BY <2>2, <2>3
<1>6. CASE ReturnMultipart
  BY <1>6 DEF ReturnMultipart, Persisted, Saved, Identity
<1>7. CASE CleanUp \/ SingleCopy \/ SingleEnd
  BY <1>7 DEF CleanUp, SingleCopy, SingleEnd, Persisted, Identity
<1>8. CASE SingleFails
  BY <1>8 DEF SingleFails, Persisted, Identity
<1>9. CASE Crash
  BY <1>9 DEF Crash, Persisted, Identity
<1>10. CASE Pause \/ UNCHANGED vars
  <2>1. UNCHANGED <<main, result, chunks, worker, cpMem, cpId, disk, version, headers, ranges>>
    BY <1>10 DEF Pause, vars
  <2>2. QED
    BY <2>1 DEF Persisted, OnDisk, WillSave, Saved, Identity
<1>11. ~ServerUpdate
  BY DEF ServerUpdate, Spend
<1>12. QED
  BY <1>1, <1>2, <1>3, <1>4, <1>5, <1>6, <1>7, <1>8, <1>9, <1>10, <1>11 DEF Next, StartSession, CallerStep

\* After a pause or a failure the next session takes over every count of the
\* last one, if the content stays, saves succeed and downloads are concurrent:
\* a completed chunk is on disk before its worker takes the next one, and the
\* rest is saved when the workers have gone.
THEOREM ResumeTakesOver ==
  ASSUME "savefail" \notin Events, "update" \notin Events, Cardinality(Workers) > 1
  PROVE  Spec => ResumeLosesNothing
<1> DEFINE Inv == Session /\ MutexHeld /\ NothingForgotten /\ Persisted
           Act == main = "idle" /\ result = "error" /\ ranges /\ main' # "idle"
                    => main' = "workers" /\ chunks' = chunks
<1>1. Init => Inv
  <2> SUFFICES ASSUME Init PROVE Inv
    OBVIOUS
  <2>1. Session
    BY RestInit
  <2>2. MutexHeld /\ NothingForgotten /\ Persisted
    BY DEF Init, MutexHeld, NothingForgotten, Persisted, Locals, Attempt, Syncing
  <2>3. QED
    BY <2>1, <2>2
<1>2. Control /\ Inv /\ [Next]_vars => Inv'
  BY SessionStep, MutexStep, NothingForgottenStep, PersistedStep DEF Control
<1>3. Control /\ Inv /\ [Next]_vars => [Act]_vars
  <2> SUFFICES ASSUME Control, Inv, [Next]_vars, main = "idle", result = "error", ranges, main' # "idle"
               PROVE  main' = "workers" /\ chunks' = chunks
    OBVIOUS
  <2>1. disk = [id |-> Identity, st |-> chunks]
    BY DEF Persisted, Saved
  <2>2. /\ disk # NoCheckpoint /\ disk.id.ver = version /\ disk.id.headers = headers
        /\ disk.st = chunks
    <3>1. /\ disk.id.ver = version /\ disk.id.headers = headers
          /\ disk.st = chunks /\ version \in 1..MaxVersion
      BY <2>1 DEF Control, TypeOK, Versions, Identity
    <3>2. version # 0
      BY <3>1, LayoutFacts
    <3>3. NoCheckpoint.id.ver = 0
      BY DEF NoCheckpoint, NoIdentity
    <3>4. QED
      BY <3>1, <3>2, <3>3
  <2>3. IsResumeValid(disk)
    BY <2>2 DEF IsResumeValid, SameContent, Control, Counts
  <2>4. StartSession
    BY IdleStep DEF Control, ServerUpdate, vars, session
  <2>5. ResumeSession
    BY <2>3, <2>4 DEF StartSession, OpenFresh
  <2>6. QED
    BY <2>2, <2>5 DEF ResumeSession
<1>4. Spec => [](Control /\ Inv)
  <2> HIDE DEF Inv
  <2> QED BY <1>1, <1>2, ControlInvariant, PTL DEF Spec
<1>5. QED
  <2> HIDE DEF Inv, Act
  <2>2. Spec => [][Act]_vars
    BY <1>3, <1>4, PTL DEF Spec
  <2>3. QED
    BY <2>2 DEF ResumeLosesNothing, Act
-----------------------------------------------------------------------------
(* What a failure needs. Within the retries no worker has failed, none has *)
(* used more retries than there were faults, and none holds a chunk whose  *)
(* bytes are all counted but that is not completed.                        *)

Calm == Events \cap {"pause", "crash", "fatal", "full", "diskfull"} = {}

Tries(w) ==
  worker[w].pc \in Active =>
    /\ worker[w].attempt <= Budget - budget
    /\ worker[w].pc = "ended" /\ worker[w].read # Needed(w) => worker[w].attempt < Budget - budget
    /\ worker[w].pc \in {"attempt", "request"} => chunks[worker[w].chunk].downloaded < Size(worker[w].chunk)

WellSoFar ==
  /\ ~downloadErr /\ ~stopped
  /\ \A w \in Workers : Tries(w)
  /\ \A c \in jobs : chunks[c].downloaded < Size(c)
  /\ main \in {"idle", "opened", "single"} => disk = NoCheckpoint
  /\ main = "opened" => chunks = FreshChunks

CauseInv == ~paused /\ (WithinRetries => WellSoFar)

LEMMA SaveBudget ==
  ASSUME TypeOK, NEW st, Save(st)
  PROVE  budget' = budget \/ budget' = budget - 1
BY DEF Save, Spend

LEMMA BudgetFalls ==
  ASSUME TypeOK, [Next]_vars
  PROVE  /\ budget \in Nat /\ budget' \in Int /\ budget' <= budget
         /\ Budget \in Nat /\ budget <= Budget /\ MaxRetries \in Nat
         /\ WithinRetries' => WithinRetries
<1> USE DEF session, memory, ckpt, server, names
<1>1. budget \in Nat /\ budget <= Budget /\ Budget \in Nat /\ MaxRetries \in Nat
  BY LayoutFacts DEF TypeOK
<1>2. budget' = budget \/ budget' = budget - 1
  <2>1. ASSUME NEW w \in Workers, WorkerStep(w)
        PROVE  budget' = budget \/ budget' = budget - 1
    <3>1. CASE SaveCheckpoint(w)
      BY <3>1, SaveBudget DEF SaveCheckpoint
    <3>2. CASE ~SaveCheckpoint(w)
      BY <2>1, <3>2 DEF WorkerStep, TakeJob, BeginAttempt, PartialContent, FullContent, FatalStatus, RequestFails,
         ReadBody, WriteBody, WriteFails, CountBytes, EndBody, ReadCancelled, FinishAttempt, LockCheckpoint,
         SyncDownloaded, SyncCompleted, Spend
    <3>3. QED
      BY <3>1, <3>2
  <2>2. CASE InitCheckpoint \/ PersistOnPause
    BY <2>2, SaveBudget DEF InitCheckpoint, PersistOnPause
  <2>3. CASE StartSession \/ ReturnMultipart \/ CleanUp \/ SingleCopy \/ UNCHANGED vars
    BY <2>3 DEF StartSession, ResumeSession, OpenFresh, ReturnMultipart, CleanUp, SingleCopy, vars
  <2>4. CASE SingleEnd \/ SingleFails \/ Pause \/ Crash \/ ServerUpdate
    BY <2>4 DEF SingleEnd, SingleFails, Pause, Crash, ServerUpdate, Spend
  <2>5. QED
    BY <2>1, <2>2, <2>3, <2>4 DEF Next, CallerStep
<1>3. QED
  BY <1>1, <1>2 DEF WithinRetries

\* A retry after a fault that was paid for.
LEMMA Retried ==
  ASSUME TypeOK, NEW w \in Workers, RetryOrFail(w), worker[w].attempt < MaxRetries,
         NEW k \in Int, worker[w].attempt < k
  PROVE  /\ UNCHANGED <<downloadErr, stopped>>
         /\ worker'[w].pc = "attempt" /\ worker'[w].chunk = worker[w].chunk
         /\ worker'[w].attempt <= k
<1>1. worker' = [worker EXCEPT ![w] = Attempt("attempt", worker[w].chunk, NextAttempt(w))]
      /\ UNCHANGED <<downloadErr, stopped>>
  BY DEF RetryOrFail, MayRetry
<1>2. /\ worker'[w].pc = "attempt" /\ worker'[w].chunk = worker[w].chunk
      /\ worker'[w].attempt = worker[w].attempt + 1
  BY <1>1 DEF TypeOK, Attempt, NextAttempt
<1>3. worker[w].attempt \in Int
  BY LayoutFacts DEF TypeOK
<1>4. QED
  BY <1>1, <1>2, <1>3

LEMMA TriesWorker ==
  ASSUME Calm, Control, Control', BodyFits, CauseInv, WithinRetries, WithinRetries',
         NEW w \in Workers, WorkerStep(w)
  PROVE  Tries(w)' /\ ~downloadErr' /\ ~stopped'
<1> USE DEF session, memory, ckpt, server, names
<1> DEFINE s == worker[w]
           used == Budget - budget
<1>0. /\ TypeOK /\ TypeOK' /\ WorkersBounded /\ Ownership /\ Counts
      /\ ~downloadErr /\ ~stopped /\ ~paused /\ ~CtxDone /\ Tries(w)
      /\ \A c \in jobs : chunks[c].downloaded < Size(c)
  BY DEF Control, CauseInv, WellSoFar, CtxDone
<1>1. /\ budget \in Nat /\ budget' \in Int /\ Budget \in Nat /\ budget <= Budget
      /\ used \in Nat /\ used' \in Int /\ used <= MaxRetries /\ used' <= MaxRetries /\ MaxRetries \in Nat
      /\ used <= used'
  BY <1>0, BudgetFalls DEF Next, WithinRetries
<1>2. /\ s.chunk \in Chunks /\ s.attempt \in Nat
      /\ chunks[s.chunk].downloaded \in Int /\ Start[s.chunk] \in Int /\ End[s.chunk] \in Int
  <2>1. s.chunk \in Chunks /\ s.attempt \in 0..MaxRetries
    BY <1>0 DEF TypeOK
  <2>2. chunks[s.chunk].downloaded \in 0..Length
    BY <1>0, <2>1 DEF TypeOK, ChunkState
  <2>3. s.attempt \in Nat
    BY <1>1, <2>1
  <2>4. chunks[s.chunk].downloaded \in Int
    BY <2>2, LayoutFacts
  <2>5. Start[s.chunk] \in Int /\ End[s.chunk] \in Int
    BY <2>1, LayoutFacts
  <2>6. QED
    BY <2>1, <2>3, <2>4, <2>5
<1>3. \A e \in {"pause", "crash", "fatal", "full", "diskfull"} : ~Spend(e)
  BY DEF Calm, Spend
<1>4. ~FullContent(w) /\ ~FatalStatus(w) /\ ~WriteFails(w) /\ ~ReadCancelled(w)
  BY <1>0, <1>3 DEF FullContent, FatalStatus, WriteFails, ReadCancelled
<1>5. CASE TakeJob(w)
  <2>1. UNCHANGED <<downloadErr, stopped, chunks>>
    BY <1>5 DEF TakeJob
  <2>2. CASE worker' = [worker EXCEPT ![w] = Locals("exited")]
    BY <1>0, <2>1, <2>2 DEF Tries, Locals, Attempt, Active, TypeOK
  <2>3. ASSUME NEW c \in jobs, worker' = [worker EXCEPT ![w] = Attempt("attempt", c, 0)]
        PROVE  Tries(w)'
    <3>1. worker'[w].pc = "attempt" /\ worker'[w].chunk = c /\ worker'[w].attempt = 0
      BY <1>0, <2>3 DEF Attempt, TypeOK
    <3>2. QED
      BY <1>0, <1>1, <2>1, <3>1 DEF Tries
  <2>4. QED
    BY <1>0, <1>5, <2>1, <2>2, <2>3 DEF TakeJob
<1>6. CASE BeginAttempt(w)
  <2>1. s.pc = "attempt" /\ chunks[s.chunk].downloaded < Size(s.chunk) /\ s.attempt <= used
    BY <1>0, <1>6 DEF BeginAttempt, Tries, Active
  <2>2. ~(RequestStart(s.chunk) > End[s.chunk])
    BY <1>2, <2>1 DEF RequestStart, Size
  <2>3. /\ UNCHANGED <<downloadErr, stopped, chunks, budget>>
        /\ worker' = [worker EXCEPT ![w].pc = "request", ![w].woff = WriterOffset(s.chunk),
                                    ![w].req = RequestStart(s.chunk)]
    BY <1>0, <1>6, <2>2 DEF BeginAttempt
  <2>4. worker'[w].pc = "request" /\ worker'[w].chunk = s.chunk /\ worker'[w].attempt = s.attempt
    BY <1>0, <2>3 DEF TypeOK
  <2>5. QED
    BY <1>0, <2>1, <2>3, <2>4 DEF Tries
<1>7. CASE PartialContent(w) \/ ReadBody(w) \/ WriteBody(w)
  <2>1. s.pc \in Active /\ UNCHANGED <<downloadErr, stopped, budget>>
    BY <1>7 DEF PartialContent, ReadBody, WriteBody, Active
  <2>2. worker'[w].pc \in {"read", "write", "count"} /\ worker'[w].attempt = s.attempt
    <3>1. CASE PartialContent(w)
      BY <1>0, <3>1 DEF PartialContent, TypeOK
    <3>2. CASE ReadBody(w)
      BY <1>0, <3>2 DEF ReadBody, TypeOK
    <3>3. CASE WriteBody(w)
      BY <1>0, <3>3 DEF WriteBody, TypeOK
    <3>4. QED
      BY <1>7, <3>1, <3>2, <3>3
  <2>3. QED
    BY <1>0, <2>1, <2>2 DEF Tries
<1>8. CASE RequestFails(w)
  <2>1. s.pc = "request" /\ RetryOrFail(w) /\ UNCHANGED chunks /\ budget' = budget - 1
    BY <1>0, <1>8 DEF RequestFails, Spend
  <2>2. s.attempt < used' /\ chunks[s.chunk].downloaded < Size(s.chunk)
    BY <1>0, <1>1, <1>2, <2>1 DEF Tries, Active
  <2>3. s.attempt < MaxRetries
    BY <1>1, <1>2, <2>2
  <2>4. /\ UNCHANGED <<downloadErr, stopped>>
        /\ worker'[w].pc = "attempt" /\ worker'[w].chunk = s.chunk /\ worker'[w].attempt <= used'
    BY <1>0, <1>1, <2>1, <2>2, <2>3, Retried
  <2>5. QED
    BY <1>0, <2>1, <2>2, <2>4 DEF Tries
<1>9. CASE CountBytes(w)
  <2>1. PICK pc \in IF s.read + s.n = s.body THEN {"read", "ended"} ELSE {"read"} :
          worker' = [worker EXCEPT ![w].pc = pc, ![w].read = s.read + s.n, ![w].n = 0]
    BY <1>9 DEF CountBytes
  <2>2. /\ worker'[w].pc = pc /\ worker'[w].read = s.read + s.n /\ worker'[w].attempt = s.attempt
        /\ worker'[w].chunk = s.chunk /\ worker'[w].req = s.req
    BY <1>0, <2>1 DEF TypeOK
  <2>3. s.pc = "count" /\ UNCHANGED <<downloadErr, stopped, budget>>
    BY <1>9 DEF CountBytes
  <2>4. s.body = Needed(w) /\ s.attempt <= used
    BY <1>0, <2>3 DEF BodyFits, Reading, Tries, Active
  <2>5. worker'[w].pc = "ended" => worker'[w].read = Needed(w)'
    BY <2>1, <2>2, <2>4 DEF Needed
  <2>6. QED
    BY <1>0, <2>1, <2>2, <2>3, <2>4, <2>5 DEF Tries
<1>10. CASE EndBody(w)
  <2>1. /\ s.pc = "read" /\ UNCHANGED <<downloadErr, stopped>>
        /\ s.read = s.body \/ budget' = budget - 1
    BY <1>10 DEF EndBody, Spend
  <2>2. /\ worker'[w].pc = "ended" /\ worker'[w].read = s.read /\ worker'[w].attempt = s.attempt
        /\ worker'[w].chunk = s.chunk /\ worker'[w].req = s.req
    BY <1>0, <1>10 DEF EndBody, TypeOK
  <2>3. s.body = Needed(w) /\ s.attempt <= used
    BY <1>0, <2>1 DEF BodyFits, Reading, Tries, Active
  <2>4. worker'[w].read # Needed(w)' => s.attempt < used'
    BY <1>1, <1>2, <2>1, <2>2, <2>3 DEF Needed
  <2>5. worker'[w].attempt <= used'
    <3>1. s.attempt <= used /\ s.attempt \in Int
      BY <1>2, <2>3
    <3>2. s.attempt <= used'
      BY <1>1, <3>1
    <3>3. QED
      BY <2>2, <3>2
  <2>6. Tries(w)'
    BY <2>2, <2>4, <2>5 DEF Tries
  <2>7. QED
    BY <1>0, <2>1, <2>6
<1>11. CASE FinishAttempt(w)
  <2>1. s.pc = "ended" /\ UNCHANGED budget
    BY <1>11 DEF FinishAttempt
  <2>2. CASE s.read = End[s.chunk] - s.req + 1
    <3>1. UNCHANGED <<downloadErr, stopped>> /\ worker' = [worker EXCEPT ![w] = Locals("lock")]
      BY <1>11, <2>2 DEF FinishAttempt
    <3>2. worker'[w].pc = "lock"
      BY <1>0, <3>1 DEF Locals, Attempt, TypeOK
    <3>3. QED
      BY <1>0, <3>1, <3>2 DEF Tries, Active
  <2>3. CASE s.read # End[s.chunk] - s.req + 1
    <3>1. RetryOrFail(w) /\ UNCHANGED chunks
      BY <1>11, <2>3 DEF FinishAttempt
    <3>2. s.attempt < used /\ s.body = Needed(w)
      BY <1>0, <2>1, <2>3 DEF Tries, Active, BodyFits, Reading, Needed
    <3>3. chunks[s.chunk].downloaded < Size(s.chunk)
      <4>1. s \in WorkerRecord /\ AttemptBounds(s) /\ s.pc \in Fetching
        BY <1>0, <2>1 DEF WorkersBounded, TypeOK, WorkerRecord, Fetching
      <4>2. /\ s.req \in Int /\ s.read \in Int /\ s.body \in Int /\ s.n \in Int /\ 0 <= s.n
            /\ s.read + s.n <= s.body
        BY <4>1, AttemptFacts
      <4>3. s.req + s.read - Start[s.chunk] < Size(s.chunk)
        BY <1>2, <2>3, <3>2, <4>2 DEF Needed, Size
      <4>4. chunks[s.chunk].downloaded = s.req + s.read - Start[s.chunk]
        <5>1. s.req + s.read - Start[s.chunk] <= Size(s.chunk)
          BY <1>2, <4>2, <4>3 DEF Size
        <5>2. QED
          BY <1>0, <4>1, <5>1 DEF Counts
      <4>5. QED
        BY <4>3, <4>4
    <3>4. s.attempt < MaxRetries
      BY <1>1, <1>2, <3>2
    <3>5. /\ UNCHANGED <<downloadErr, stopped>>
          /\ worker'[w].pc = "attempt" /\ worker'[w].chunk = s.chunk /\ worker'[w].attempt <= used
      BY <1>0, <1>1, <3>1, <3>2, <3>4, Retried
    <3>6. QED
      BY <1>0, <2>1, <3>1, <3>3, <3>5 DEF Tries
  <2>4. QED
    BY <2>2, <2>3
<1>12. CASE LockCheckpoint(w) \/ SyncDownloaded(w) \/ SyncCompleted(w) \/ SaveCheckpoint(w)
  <2>1. worker[w].pc \in {"lock"} \cup Syncing
    BY <1>12 DEF LockCheckpoint, SyncDownloaded, SyncCompleted, SaveCheckpoint, Syncing
  <2>2. Persists(w)
    BY <1>0, <2>1, WorkerEffect DEF GoesOn, GivesUp, Takes, Completes, Syncing, Active
  <2>3. QED
    BY <1>0, <2>2 DEF Persists, Tries, Active, Syncing
<1>13. QED
  BY <1>4, <1>5, <1>6, <1>7, <1>8, <1>9, <1>10, <1>11, <1>12 DEF WorkerStep

LEMMA WellWorker ==
  ASSUME Calm, Control, Control', BodyFits, CauseInv, WithinRetries, WithinRetries',
         NEW w \in Workers, WorkerStep(w)
  PROVE  WellSoFar'
<1>0. /\ TypeOK /\ WorkersBounded /\ Ownership /\ WellSoFar /\ chunks \in [Chunks -> ChunkState]
      /\ jobs \subseteq Chunks
  BY DEF Control, CauseInv, TypeOK
<1>1. /\ main' = "workers" /\ \A v \in Workers \ {w} : worker'[v] = worker[v]
      /\ Tries(w)' /\ ~downloadErr' /\ ~stopped'
  BY <1>0, WorkerStepMain, WorkerEffect, TriesWorker
<1>2. \A c \in Chunks : chunks'[c] = chunks[c] \/ (worker[w].pc \in Active /\ worker[w].chunk = c)
  <2>1. CASE SameAttempt(w) \/ NewAttempt(w) \/ NoAttempt(w)
    BY <2>1 DEF SameAttempt, NewAttempt, NoAttempt
  <2>2. CASE Counted(w) \/ Completes(w)
    <3>1. worker[w].pc \in Active
      BY <2>2 DEF Counted, Completes, Active
    <3>2. QED
      BY <1>0, <2>2, <3>1 DEF Counted, Completes
  <2>3. QED
    BY <1>0, <2>1, <2>2, AttemptEffect
<1>3. ASSUME NEW v \in Workers \ {w}
      PROVE  Tries(v)'
  <2> SUFFICES ASSUME worker[v].pc \in Active PROVE Tries(v)'
    BY <1>1 DEF Tries
  <2>1. worker[v].chunk \in Chunks /\ chunks'[worker[v].chunk] = chunks[worker[v].chunk]
    <3>1. worker[v].chunk \in Chunks
      BY <1>0 DEF TypeOK
    <3>2. ~(worker[w].pc \in Active /\ worker[w].chunk = worker[v].chunk)
      BY <1>0 DEF Ownership, OneWriterPerChunk
    <3>3. QED
      BY <1>2, <3>1, <3>2
  <2>2. /\ Tries(v) /\ worker'[v] = worker[v]
        /\ budget \in Nat /\ budget' \in Int /\ Budget \in Nat /\ budget' <= budget
    BY <1>0, <1>1, BudgetFalls DEF WellSoFar, Next
  <2>3. worker[v].attempt \in Int
    BY <1>0, LayoutFacts DEF TypeOK
  <2>4. QED
    BY <2>1, <2>2, <2>3 DEF Tries, Needed
<1>4. jobs' \subseteq jobs
  BY <1>0, WorkerEffect DEF GoesOn, GivesUp, Takes, Completes, Persists
<1>5. ASSUME NEW c \in jobs'
      PROVE  chunks'[c].downloaded < Size(c)
  <2>1. c \in jobs /\ c \in Chunks
    BY <1>0, <1>4
  <2>2. ~(worker[w].pc \in Active /\ worker[w].chunk = c)
    BY <1>0, <2>1 DEF Ownership, OneWriterPerChunk
  <2>3. QED
    BY <1>0, <1>2, <2>1, <2>2 DEF WellSoFar
<1>6. QED
  BY <1>1, <1>3, <1>5 DEF WellSoFar

LEMMA WellStep ==
  ASSUME Calm, Control, Control', Session, BodyFits, CauseInv, WithinRetries, WithinRetries', [Next]_vars
  PROVE  WellSoFar'
<1> USE DEF session, memory, ckpt, server, names
<1>0. /\ TypeOK /\ Ownership /\ WellSoFar /\ ~paused
      /\ \A e \in {"pause", "crash", "fatal", "full", "diskfull"} : ~Spend(e)
  BY DEF Control, CauseInv, Calm, Spend
<1>1. CASE \E w \in Workers : WorkerStep(w)
  BY <1>1, WellWorker
<1>2. ASSUME worker' = [w \in Workers |-> Locals("take")] \/ worker' = [w \in Workers |-> Locals("exited")]
      PROVE  \A w \in Workers : Tries(w)'
  BY <1>2, Restarted DEF Tries, Active
<1>3. ~ResumeSession
  BY <1>0 DEF ResumeSession, IsResumeValid, WellSoFar
<1>4. CASE OpenFresh
  BY <1>0, <1>2, <1>4 DEF OpenFresh, WellSoFar
<1>5. CASE InitCheckpoint
  <2>1. chunks' = FreshChunks /\ jobs' \subseteq Chunks /\ main' = "workers"
        /\ UNCHANGED <<stopped, downloadErr>>
    BY <1>0, <1>5 DEF InitCheckpoint, WellSoFar
  <2>2. \A c \in Chunks : chunks'[c].downloaded < Size(c)
    BY <2>1, LayoutFacts DEF FreshChunks
  <2>3. QED
    BY <1>0, <1>2, <1>5, <2>1, <2>2 DEF InitCheckpoint, WellSoFar
<1>6. ~Crash /\ ~Pause
  BY <1>0 DEF Crash, Pause
<1>7. CASE \/ PersistOnPause \/ ReturnMultipart \/ CleanUp \/ SingleCopy \/ SingleEnd \/ SingleFails
           \/ ServerUpdate \/ UNCHANGED vars
  <2>1. UNCHANGED <<stopped, downloadErr, worker, jobs, chunks>>
    BY <1>7 DEF PersistOnPause, ReturnMultipart, CleanUp, SingleCopy, SingleEnd, SingleFails, ServerUpdate, vars
  <2>2. \A w \in Workers : Tries(w)'
    <3>1. \A w \in Workers : worker[w].attempt \in Int
      BY <1>0, LayoutFacts DEF TypeOK
    <3>2. /\ \A w \in Workers : Tries(w)
          /\ budget \in Nat /\ budget' \in Int /\ Budget \in Nat /\ budget' <= budget
      BY <1>0, BudgetFalls DEF WellSoFar
    <3>3. QED
      BY <2>1, <3>1, <3>2 DEF Tries, Needed
  <2>3. main' \in {"idle", "opened", "single"} => disk' = NoCheckpoint
    BY <1>0, <1>7 DEF PersistOnPause, ReturnMultipart, CleanUp, SingleCopy, SingleEnd, SingleFails,
                      ServerUpdate, vars, WellSoFar
  <2>4. main' = "opened" => main = "opened"
    BY <1>7 DEF PersistOnPause, ReturnMultipart, CleanUp, SingleCopy, SingleEnd, SingleFails, ServerUpdate, vars
  <2>5. QED
    BY <1>0, <2>1, <2>2, <2>3, <2>4 DEF WellSoFar
<1>8. QED
  BY <1>1, <1>3, <1>4, <1>5, <1>6, <1>7 DEF Next, StartSession, CallerStep

LEMMA CauseStep ==
  ASSUME Calm, Control, Control', Session, BodyFits, CauseInv, [Next]_vars
  PROVE  CauseInv'
<1> USE DEF session, memory, ckpt, server, names
<1>1. ~paused'
  <2>1. ~paused /\ ~Pause
    BY DEF CauseInv, Pause, Calm, Spend
  <2>2. CASE \E w \in Workers : WorkerStep(w)
    BY <2>1, <2>2, WorkerEffect DEF Control
  <2>3. CASE StartSession \/ CallerStep \/ Crash \/ ServerUpdate \/ UNCHANGED vars
    BY <2>1, <2>3 DEF StartSession, ResumeSession, OpenFresh, CallerStep, InitCheckpoint, PersistOnPause,
         ReturnMultipart, CleanUp, SingleCopy, SingleEnd, SingleFails, Crash, ServerUpdate, vars
  <2>4. QED
    BY <2>1, <2>2, <2>3 DEF Next
<1>2. WithinRetries' => WithinRetries
  BY BudgetFalls DEF Control
<1>3. QED
  BY <1>1, <1>2, WellStep DEF CauseInv

\* Where the environment has nothing but transient faults, short bodies, lost
\* saves and replaced contents, a ranged download fails only after more of
\* them than a chunk has retries.
THEOREM FailuresHaveCauses ==
  ASSUME Calm
  PROVE  Spec => FailureNeedsCause
<1> DEFINE Inv == Session /\ BodyFits /\ CauseInv
           Act == main = "waited" /\ result' = "error" => ~WithinRetries
<1>1. Init => Inv
  <2> SUFFICES ASSUME Init PROVE Inv
    OBVIOUS
  <2>1. Session /\ BodyFits
    BY RestInit, BodyFitsInit
  <2>2. CauseInv
    <3>1. \A w \in Workers : worker[w].pc = "exited"
      BY DEF Init, Locals, Attempt
    <3>2. QED
      BY <3>1 DEF Init, CauseInv, WellSoFar, Tries, Active
  <2>3. QED
    BY <2>1, <2>2
<1>2. Control /\ Control' /\ Inv /\ [Next]_vars => Inv'
  <2>1. "full" \notin Events
    BY DEF Calm
  <2>2. QED
    BY <2>1, SessionStep, BodyFitsStep, CauseStep DEF Control
<1>3. Control /\ Inv /\ [Next]_vars => [Act]_vars
  <2> SUFFICES ASSUME Control, Inv, Next, main = "waited", result' = "error"
               PROVE  ~WithinRetries
    OBVIOUS
  <2>1. result = "none" /\ ~paused
    BY DEF Session, CauseInv
  <2>2. \A w \in Workers : ~WorkerStep(w)
    BY WorkerStepMain DEF Control
  <2>3. ~StartSession /\ ~InitCheckpoint /\ ~CleanUp /\ ~SingleCopy /\ ~SingleEnd /\ ~SingleFails /\ ~ServerUpdate
        /\ ~PersistOnPause
    BY DEF StartSession, ResumeSession, OpenFresh, InitCheckpoint, CleanUp, SingleCopy, SingleEnd, SingleFails,
           ServerUpdate, PersistOnPause
  <2>4. ~Pause /\ ~Crash
    BY DEF Pause, Crash, Calm, Spend
  <2>5. ReturnMultipart
    BY <2>2, <2>3, <2>4 DEF Next, CallerStep
  <2>6. downloadErr
    BY <2>1, <2>5 DEF ReturnMultipart
  <2>7. QED
    BY <2>6 DEF CauseInv, WellSoFar
<1>4. Spec => [](Control /\ Inv)
  <2> HIDE DEF Inv
  <2> QED BY <1>1, <1>2, ControlInvariant, PTL DEF Spec
<1>5. QED
  <2> HIDE DEF Inv, Act
  <2>2. Spec => [][Act]_vars
    BY <1>3, <1>4, PTL DEF Spec
  <2>3. QED
    BY <2>2 DEF FailureNeedsCause, Act
=============================================================================
