------------------------- MODULE ChunkLayoutProofs -------------------------
(***************************************************************************)
(* Proofs about ChunkLayout: for every length, preferred size and          *)
(* concurrency, the chunks CalculateChunks returns tile the resource, a    *)
(* checkpoint made of them is accepted before a resume, and whatever       *)
(* checkpoint is accepted tiles the resource too.                          *)
(***************************************************************************)
EXTENDS ChunkLayout, LeastElements, FiniteSetTheorems, SequenceTheorems, TLAPS

ChunkRecord == [index : Nat, start : Nat, end : Nat, downloaded : {0}, completed : {FALSE}]

(***************************************************************************)
(* The chunk size is at least one whenever there is something to cut: the  *)
(* loop of CalculateChunks makes progress.                                 *)
(***************************************************************************)
LEMMA ChunkSizePositive ==
  ASSUME TypeOK, total > 0
  PROVE  ChunkSize \in Nat /\ ChunkSize >= 1
PROOF
  <1>1. Parts \in Nat \ {0}
    BY LayoutParameters DEF Parts, TypeOK
  <1>2. total \div Parts \in Int
    BY <1>1 DEF TypeOK
  <1>3. DynamicSize \in Int /\ DynamicSize >= 1
    BY <1>2, LayoutParameters DEF DynamicSize, Smaller, Larger
  <1>4. QED
    BY <1>3 DEF ChunkSize, Smaller, TypeOK

LEMMA EndOfBounds ==
  ASSUME TypeOK, start < total
  PROVE  EndOf(start) \in Nat /\ start <= EndOf(start) /\ EndOf(start) < total
PROOF
  <1>1. ChunkSize \in Nat /\ ChunkSize >= 1
    BY ChunkSizePositive DEF TypeOK
  <1>2. QED
    BY <1>1 DEF EndOf, Smaller, TypeOK

LEMMA AppendedChunks ==
  ASSUME TypeOK, AppendChunk
  PROVE  /\ chunks' \in Seq(ChunkRecord)
         /\ Len(chunks') = Len(chunks) + 1
         /\ \A i \in 1..Len(chunks) : chunks'[i] = chunks[i]
         /\ chunks'[Len(chunks) + 1] = Chunk(Len(chunks), start, EndOf(start))
PROOF
  <1>1. Chunk(Len(chunks), start, EndOf(start)) \in ChunkRecord
    BY EndOfBounds DEF TypeOK, AppendChunk, Chunk, ChunkRecord
  <1>2. chunks \in Seq(ChunkRecord)
    BY DEF TypeOK, ChunkRecord
  <1>3. QED
    BY <1>1, <1>2, AppendProperties DEF AppendChunk
-----------------------------------------------------------------------------
(***************************************************************************)
(* Type correctness.                                                       *)
(***************************************************************************)
THEOREM TypeCorrect == Spec => []TypeOK
PROOF
  <1>1. Init => TypeOK
    BY LayoutParameters DEF Init, TypeOK
  <1>2. TypeOK /\ [Next]_vars => TypeOK'
    <2> SUFFICES ASSUME TypeOK, [Next]_vars PROVE TypeOK'
      OBVIOUS
    <2>1. CASE AppendChunk
      <3>1. start' \in Nat
        BY <2>1, EndOfBounds DEF AppendChunk, TypeOK
      <3>2. QED
        BY <2>1, <3>1, AppendedChunks DEF AppendChunk, TypeOK, args, ChunkRecord
    <2>2. CASE Load
      BY <2>2 DEF Load, TypeOK, args
    <2>3. CASE UNCHANGED vars
      BY <2>3 DEF vars, TypeOK, args
    <2>4. QED BY <2>1, <2>2, <2>3 DEF Next
  <1>3. QED BY <1>1, <1>2, PTL DEF Spec

(***************************************************************************)
(* The loop invariant of CalculateChunks: what is cut so far are           *)
(* consecutive, non-empty pieces of 0..start-1, numbered from zero.        *)
(***************************************************************************)
THEOREM Tiling == Spec => []TilesSoFar
PROOF
  <1>1. Init => TilesSoFar
    BY LayoutParameters DEF Init, TilesSoFar, Larger
  <1>2. TypeOK /\ TilesSoFar /\ [Next]_vars => TilesSoFar'
    <2> SUFFICES ASSUME TypeOK, TilesSoFar, [Next]_vars PROVE TilesSoFar'
      OBVIOUS
    <2>1. CASE AppendChunk
      <3> DEFINE n == Len(chunks)
                 e == EndOf(start)
      <3>0. n \in Nat /\ (chunks = <<>> <=> n = 0)
        BY EmptySeq DEF TypeOK
      <3>1. e \in Nat /\ start <= e /\ e < total /\ start \in Nat /\ total \in Int
        BY <2>1, EndOfBounds DEF AppendChunk, TypeOK
      <3>2. /\ Len(chunks') = n + 1
            /\ \A i \in 1..n : chunks'[i] = chunks[i]
            /\ chunks'[n + 1] = Chunk(n, start, e)
            /\ chunks' # <<>>
        BY <2>1, <3>0, AppendedChunks
      <3>3. start' = e + 1 /\ total' = total
        BY <2>1 DEF AppendChunk, args
      <3>4. Chunk(n, start, e).index = n /\ Chunk(n, start, e).start = start /\ Chunk(n, start, e).end = e
        BY DEF Chunk
      <3>5. start = IF n = 0 THEN 0 ELSE chunks[n].end + 1
        BY <3>0 DEF TilesSoFar
      <3> HIDE DEF n, e
      <3>6. start' <= Larger(total', 0)
        BY <3>1, <3>3 DEF Larger
      <3>7. start' = IF chunks' = <<>> THEN 0 ELSE chunks'[Len(chunks')].end + 1
        BY <3>2, <3>3, <3>4
      <3>8. ASSUME NEW i \in 1..Len(chunks')
            PROVE  /\ chunks'[i].index = i - 1
                   /\ chunks'[i].start = IF i = 1 THEN 0 ELSE chunks'[i - 1].end + 1
                   /\ chunks'[i].start <= chunks'[i].end
                   /\ chunks'[i].end < total'
        <4>1. CASE i \in 1..n
          <5>1. chunks'[i] = chunks[i] /\ (i # 1 => chunks'[i - 1] = chunks[i - 1])
            BY <4>1, <3>2, <3>0
          <5>2. QED BY <5>1, <4>1, <3>3 DEF TilesSoFar, n
        <4>2. CASE i = n + 1
          <5>1. n # 0 => chunks'[n] = chunks[n]
            BY <3>2, <3>0
          <5>2. QED BY <5>1, <4>2, <3>0, <3>1, <3>2, <3>3, <3>4, <3>5
        <4>3. QED BY <4>1, <4>2, <3>2, <3>0
      <3>9. QED BY <3>6, <3>7, <3>8 DEF TilesSoFar
    <2>2. CASE Load
      BY <2>2 DEF Load, TilesSoFar, args
    <2>3. CASE UNCHANGED vars
      BY <2>3 DEF vars, TilesSoFar, args
    <2>4. QED BY <2>1, <2>2, <2>3 DEF Next
  <1>3. QED BY <1>1, <1>2, TypeCorrect, PTL DEF Spec
(***************************************************************************)
(* The two files agree: the layout CalculateChunks returns, saved before   *)
(* any byte is written, passes the validity check of a later resume.       *)
(***************************************************************************)
THEOREM FreshAccepted == Spec => []FreshLayoutAccepted
PROOF
  <1>1. ASSUME TypeOK, TilesSoFar PROVE FreshLayoutAccepted
    <2> SUFFICES ASSUME Returned, total > 0
                 PROVE  IsResumeValid(NewCheckpoint(chunks), total)
      BY DEF FreshLayoutAccepted
    <2> DEFINE n == Len(chunks)
               cp == NewCheckpoint(chunks)
    <2>0. n \in Nat /\ (chunks = <<>> <=> n = 0)
      BY <1>1, EmptySeq DEF TypeOK
    <2>1. start = total /\ total \in Int
      BY <1>1 DEF Returned, TypeOK, TilesSoFar, Larger
    <2>2. n > 0
      BY <1>1, <2>0, <2>1 DEF TilesSoFar
    <2>3. /\ cp.chunks = chunks /\ cp.contentLength = total /\ cp.totalChunks = n
      BY DEF NewCheckpoint
    <2>4. ExpectedStart(cp, n + 1) = total
      <3>1. n + 1 # 1 /\ (n + 1) - 1 = n
        BY <2>0, <2>2
      <3>2. total = chunks[n].end + 1
        BY <1>1, <2>0, <2>1, <2>2 DEF TilesSoFar
      <3>3. QED BY <2>3, <3>1, <3>2 DEF ExpectedStart
    <2>5. ASSUME NEW i \in 1..n PROVE StateValid(cp, i)
      <3>1. chunks[i] \in ChunkRecord
        BY <1>1, <2>0, ElementOfSeq DEF TypeOK, ChunkRecord
      <3>2. /\ chunks[i].index = i - 1
            /\ chunks[i].start = IF i = 1 THEN 0 ELSE chunks[i - 1].end + 1
            /\ chunks[i].start <= chunks[i].end
            /\ chunks[i].end < total
        BY <1>1, <2>5 DEF TilesSoFar
      <3>3. /\ chunks[i].downloaded >= 0
            /\ chunks[i].downloaded <= chunks[i].end - chunks[i].start + 1
        <4>1. chunks[i].downloaded = 0 /\ chunks[i].start \in Nat /\ chunks[i].end \in Nat
          BY <3>1 DEF ChunkRecord
        <4>2. QED BY <4>1, <3>2
      <3>4. ~ chunks[i].completed
        BY <3>1, Zenon DEF ChunkRecord
      <3>5. chunks[i].start = ExpectedStart(cp, i)
        BY <2>3, <3>2 DEF ExpectedStart
      <3> HIDE DEF cp
      <3>6. QED BY <2>3, <3>2, <3>3, <3>4, <3>5, Zenon DEF StateValid
    <2> HIDE DEF n, cp
    <2>6. QED BY <2>0, <2>1, <2>2, <2>3, <2>4, <2>5 DEF IsResumeValid, n, cp
  <1>2. QED BY <1>1, TypeCorrect, Tiling, PTL
-----------------------------------------------------------------------------
(***************************************************************************)
(* What Load reads back: whatever field differs from what was saved, it is *)
(* a sequence of chunks with integer bounds.                               *)
(***************************************************************************)
IntBounds(cs) ==
  /\ Len(cs) \in Nat
  /\ \A i \in 1..Len(cs) : cs[i].start \in Int /\ cs[i].end \in Int

LoadedTyped == loaded # <<>> => IntBounds(loaded[1].chunks)

LEMMA ChunkFields ==
  ASSUME NEW c \in ChunkRecord
  PROVE  c.start \in Int /\ c.end \in Int
PROOF
  <1>1. c.start \in Nat /\ c.end \in Nat
    BY DEF ChunkRecord
  <1>2. QED BY <1>1

(***************************************************************************)
(* Overwriting a field of a chunk with an integer keeps its bounds         *)
(* integers.                                                               *)
(***************************************************************************)
LEMMA ChangedFields ==
  ASSUME NEW c \in ChunkRecord, NEW v \in Int,
         NEW r \in {[c EXCEPT !.start = v], [c EXCEPT !.end = v], [c EXCEPT !.index = v],
                    [c EXCEPT !.downloaded = v],
                    [[c EXCEPT !.downloaded = v] EXCEPT !.completed = TRUE]}
  PROVE  r.start \in Int /\ r.end \in Int
PROOF
  <1> USE ChunkFields
  <1>1. CASE r = [c EXCEPT !.start = v]
    BY <1>1 DEF ChunkRecord
  <1>2. CASE r = [c EXCEPT !.end = v]
    BY <1>2 DEF ChunkRecord
  <1>3. CASE r = [c EXCEPT !.index = v]
    BY <1>3 DEF ChunkRecord
  <1>4. CASE r = [c EXCEPT !.downloaded = v]
    BY <1>4 DEF ChunkRecord
  <1>5. CASE r = [[c EXCEPT !.downloaded = v] EXCEPT !.completed = TRUE]
    BY <1>5 DEF ChunkRecord
  <1>6. QED BY <1>1, <1>2, <1>3, <1>4, <1>5

LEMMA BoundsOfChunks ==
  ASSUME NEW cs \in Seq(ChunkRecord)
  PROVE  IntBounds(cs)
PROOF
  <1>1. \A i \in 1..Len(cs) : cs[i] \in ChunkRecord
    BY ElementOfSeq
  <1>2. QED BY <1>1, ChunkFields DEF IntBounds

LEMMA BoundsOfChanged ==
  ASSUME NEW cs \in Seq(ChunkRecord), NEW i \in 1..Len(cs), NEW r,
         r.start \in Int, r.end \in Int
  PROVE  IntBounds([cs EXCEPT ![i] = r])
PROOF
  <1> DEFINE S == ChunkRecord \union {r}
             ds == [cs EXCEPT ![i] = r]
  <1>1. cs \in Seq(S) /\ r \in S
    BY SeqMonotonic
  <1>2. ds \in Seq(S) /\ Len(ds) = Len(cs)
    <2> HIDE DEF S
    <2> QED BY <1>1, ExceptSeq
  <1>3. \A j \in 1..Len(ds) : ds[j] \in S
    <2> HIDE DEF S, ds
    <2> QED BY <1>2, ElementOfSeq
  <1>4. \A x \in S : x.start \in Int /\ x.end \in Int
    BY ChunkFields
  <1> HIDE DEF S, ds
  <1>5. QED BY <1>2, <1>3, <1>4 DEF IntBounds, ds

(***************************************************************************)
(* Every checkpoint read back has integer bounds.                          *)
(***************************************************************************)
LEMMA LoadedIsTyped == Spec => []LoadedTyped
PROOF
  <1>1. Init => LoadedTyped
    BY DEF Init, LoadedTyped
  <1>2. TypeOK /\ LoadedTyped /\ [Next]_vars => LoadedTyped'
    <2> SUFFICES ASSUME TypeOK, LoadedTyped, [Next]_vars PROVE LoadedTyped'
      OBVIOUS
    <2>1. CASE AppendChunk
      BY <2>1 DEF AppendChunk, LoadedTyped
    <2>2. CASE Load
      <3>1. chunks \in Seq(ChunkRecord)
        BY DEF TypeOK, ChunkRecord
      <3>2. \A cs : <<NewCheckpoint(cs)>>[1].chunks = cs
        BY DEF NewCheckpoint
      <3>3. CASE loaded' = <<NewCheckpoint(chunks)>>
        BY <3>1, <3>2, <3>3, BoundsOfChunks DEF LoadedTyped
      <3>4. ASSUME NEW i \in 1..Len(chunks), NEW v \in Values,
                   loaded' \in {<<NewCheckpoint([chunks EXCEPT ![i].start = v])>>,
                       <<NewCheckpoint([chunks EXCEPT ![i].end = v])>>,
                       <<NewCheckpoint([chunks EXCEPT ![i].index = v])>>,
                       <<NewCheckpoint([chunks EXCEPT ![i].downloaded = v])>>,
                       <<NewCheckpoint([chunks EXCEPT ![i].downloaded = v,
                                                      ![i].completed = TRUE])>>}
            PROVE  LoadedTyped'
        <4>1. v \in Int
          BY <3>4, LayoutParameters
        <4>2. chunks[i] \in ChunkRecord
          BY <3>1, ElementOfSeq
        <4> DEFINE c == chunks[i]
                   Ok(r) == r.start \in Int /\ r.end \in Int
        <4>3. /\ Ok([c EXCEPT !.start = v]) /\ Ok([c EXCEPT !.end = v])
              /\ Ok([c EXCEPT !.index = v]) /\ Ok([c EXCEPT !.downloaded = v])
              /\ Ok([[c EXCEPT !.downloaded = v] EXCEPT !.completed = TRUE])
          <5>1. \A r \in {[c EXCEPT !.start = v], [c EXCEPT !.end = v], [c EXCEPT !.index = v],
                    [c EXCEPT !.downloaded = v],
                    [[c EXCEPT !.downloaded = v] EXCEPT !.completed = TRUE]} : Ok(r)
            BY <4>1, <4>2, ChangedFields
          <5> HIDE DEF Ok
          <5>2. QED BY <5>1
        <4>4. \A r : Ok(r) => IntBounds([chunks EXCEPT ![i] = r])
          BY <3>1, BoundsOfChanged
        <4>5. \E r : Ok(r) /\ loaded' = <<NewCheckpoint([chunks EXCEPT ![i] = r])>>
          <5> HIDE DEF Ok
          <5>1. CASE loaded' = <<NewCheckpoint([chunks EXCEPT ![i].start = v])>>
            BY <5>1, <4>3
          <5>2. CASE loaded' = <<NewCheckpoint([chunks EXCEPT ![i].end = v])>>
            BY <5>2, <4>3
          <5>3. CASE loaded' = <<NewCheckpoint([chunks EXCEPT ![i].index = v])>>
            BY <5>3, <4>3
          <5>4. CASE loaded' = <<NewCheckpoint([chunks EXCEPT ![i].downloaded = v])>>
            BY <5>4, <4>3
          <5>5. CASE loaded' = <<NewCheckpoint([chunks EXCEPT ![i].downloaded = v,
                                                      ![i].completed = TRUE])>>
            <6>1. [chunks EXCEPT ![i].downloaded = v, ![i].completed = TRUE]
                    = [chunks EXCEPT ![i] = [[c EXCEPT !.downloaded = v] EXCEPT !.completed = TRUE]]
              BY <3>1
            <6>2. QED BY <5>5, <4>3, <6>1
          <5>6. QED BY <3>4, <5>1, <5>2, <5>3, <5>4, <5>5
        <4> HIDE DEF Ok
        <4>6. QED BY <3>2, <4>4, <4>5 DEF LoadedTyped
      <3>5. ASSUME NEW n \in 0..Len(chunks), loaded' = <<NewCheckpoint(SubSeq(chunks, 1, n))>>
            PROVE  LoadedTyped'
        <4>1. SubSeq(chunks, 1, n) \in Seq(ChunkRecord)
          BY <3>1
        <4>2. IntBounds(SubSeq(chunks, 1, n))
          BY <4>1, BoundsOfChunks
        <4>3. QED BY <3>2, <3>5, <4>2 DEF LoadedTyped
      <3>6. QED BY <2>2, <3>3, <3>4, <3>5 DEF Load
    <2>3. CASE UNCHANGED vars
      BY <2>3 DEF vars, LoadedTyped
    <2>4. QED BY <2>1, <2>2, <2>3 DEF Next
  <1>3. QED BY <1>1, <1>2, TypeCorrect, PTL DEF Spec
-----------------------------------------------------------------------------
(***************************************************************************)
(* In an accepted layout the chunks begin where the one before ends: a     *)
(* later chunk lies wholly after an earlier one.                           *)
(***************************************************************************)
LEMMA AcceptedIsMonotone ==
  ASSUME NEW cp, NEW len, IsResumeValid(cp, len), IntBounds(cp.chunks),
         NEW i \in 1..Len(cp.chunks), NEW j \in 1..Len(cp.chunks), i < j
  PROVE  cp.chunks[i].end < cp.chunks[j].start
PROOF
  <1> DEFINE cs == cp.chunks
             n == Len(cs)
             T == {k \in (i + 1)..n : ~ (cs[i].end < cs[k].start)}
  <1>0. n \in Nat /\ \A k \in 1..n : cs[k].start \in Int /\ cs[k].end \in Int
    BY DEF IntBounds
  <1>1. \A k \in 1..n : /\ cs[k].start = IF k = 1 THEN 0 ELSE cs[k - 1].end + 1
                        /\ cs[k].start <= cs[k].end
    BY DEF IsResumeValid, StateValid, ExpectedStart
  <1> HIDE DEF cs, n
  <1>2. ASSUME T # {} PROVE FALSE
    <2>1. T \subseteq Nat
      OBVIOUS
    <2>2. PICK k \in T : \A l \in T : k <= l
      <3> HIDE DEF T
      <3> QED BY <1>2, <2>1, LeastElement
    <2>3. k # i + 1
      BY <1>0, <1>1, <2>2 DEF n, cs
    <2>4. k - 1 \in (i + 1)..n /\ k - 1 \notin T
      BY <1>0, <2>2, <2>3
    <2>5. cs[i].end < cs[k - 1].start
      BY <2>4
    <2>6. cs[k].start = cs[k - 1].end + 1 /\ cs[k - 1].start <= cs[k - 1].end
      BY <1>0, <1>1, <2>2, <2>4
    <2>7. cs[i].end \in Int /\ cs[k - 1].start \in Int /\ cs[k - 1].end \in Int /\ cs[k].start \in Int
      BY <1>0, <2>4, <2>2 DEF n, cs
    <2>8. cs[i].end < cs[k].start
      BY <2>5, <2>6, <2>7
    <2>9. QED BY <2>8, <2>2
  <1>3. j \in (i + 1)..n
    BY <1>0 DEF n, cs
  <1>4. QED BY <1>2, <1>3 DEF cs

(***************************************************************************)
(* In an accepted layout every chunk lies within the resource.             *)
(***************************************************************************)
LEMMA AcceptedIsWithin ==
  ASSUME NEW cp, NEW len, IsResumeValid(cp, len), IntBounds(cp.chunks),
         NEW i \in 1..Len(cp.chunks)
  PROVE  cp.chunks[i].start >= 0 /\ cp.chunks[i].end < len
PROOF
  <1>0. Len(cp.chunks) \in Nat /\ \A k \in 1..Len(cp.chunks) : cp.chunks[k].start \in Int /\ cp.chunks[k].end \in Int
    BY DEF IntBounds
  <1>1. cp.chunks[i].end < len
    BY DEF IsResumeValid, StateValid
  <1>2. 1 \in 1..Len(cp.chunks) /\ cp.chunks[1].start = 0 /\ cp.chunks[1].start <= cp.chunks[1].end
    BY <1>0 DEF IsResumeValid, StateValid, ExpectedStart
  <1>3. i # 1 => cp.chunks[1].end < cp.chunks[i].start
    BY <1>0, <1>2, AcceptedIsMonotone
  <1>4. QED BY <1>0, <1>1, <1>2, <1>3

(***************************************************************************)
(* In an accepted layout every offset of the resource is in some chunk:    *)
(* the first chunk that ends at or after it begins at or before it.        *)
(***************************************************************************)
LEMMA AcceptedCovers ==
  ASSUME NEW cp, NEW len \in Int, IsResumeValid(cp, len), IntBounds(cp.chunks),
         NEW o \in 0..(len - 1)
  PROVE  \E i \in 1..Len(cp.chunks) : o \in cp.chunks[i].start..cp.chunks[i].end
PROOF
  <1> DEFINE cs == cp.chunks
             n == Len(cs)
             T == {k \in 1..n : o <= cs[k].end}
  <1>0. n \in Nat /\ \A k \in 1..n : cs[k].start \in Int /\ cs[k].end \in Int
    BY DEF IntBounds
  <1>1. \A k \in 1..n : cs[k].start = IF k = 1 THEN 0 ELSE cs[k - 1].end + 1
    BY DEF IsResumeValid, StateValid, ExpectedStart
  <1>2. n > 0 /\ cs[n].end + 1 = len
    BY <1>0 DEF IsResumeValid, ExpectedStart
  <1> HIDE DEF cs, n
  <1>3. n \in T
    BY <1>0, <1>2
  <1>4. PICK k \in T : \A l \in T : k <= l
    <2>1. T \subseteq Nat /\ T # {}
      BY <1>3
    <2> HIDE DEF T
    <2>2. QED BY <2>1, LeastElement
  <1>5. cs[k].start <= o
    <2>1. CASE k = 1
      BY <2>1, <1>0, <1>1, <1>4
    <2>2. CASE k # 1
      <3>1. k - 1 \in 1..n /\ k - 1 \notin T
        BY <1>0, <1>4, <2>2
      <3>2. cs[k - 1].end < o /\ cs[k - 1].end \in Int
        BY <1>0, <3>1
      <3>3. cs[k].start = cs[k - 1].end + 1
        BY <1>1, <1>4, <2>2
      <3>4. QED BY <3>2, <3>3
    <2>3. QED BY <2>1, <2>2
  <1>6. k \in 1..n /\ o <= cs[k].end /\ cs[k].start \in Int /\ cs[k].end \in Int
    BY <1>0, <1>4
  <1>7. o \in cs[k].start..cs[k].end
    BY <1>5, <1>6
  <1>8. QED BY <1>6, <1>7 DEF cs, n

(***************************************************************************)
(* Whatever checkpoint is read back, if IsResumeValid accepts it its       *)
(* chunks cover every offset of the resource exactly once and reach        *)
(* nowhere beyond it.                                                      *)
(***************************************************************************)
THEOREM AcceptedTiles == Spec => []AcceptedLayoutTiles
PROOF
  <1>1. ASSUME TypeOK, LoadedTyped PROVE AcceptedLayoutTiles
    <2> SUFFICES ASSUME loaded # <<>>, IsResumeValid(loaded[1], total),
                        NEW o \in 0..(total - 1)
                 PROVE  LET cs == loaded[1].chunks IN
                        /\ \E i \in 1..Len(cs) : o \in cs[i].start..cs[i].end
                        /\ \A i, j \in 1..Len(cs) : o \in cs[i].start..cs[i].end /\ o \in cs[j].start..cs[j].end => i = j
                        /\ \A i \in 1..Len(cs) : cs[i].start >= 0 /\ cs[i].end < total
      BY DEF AcceptedLayoutTiles
    <2> DEFINE cp == loaded[1]
               cs == cp.chunks
    <2>0. IntBounds(cs) /\ total \in Int /\ IsResumeValid(cp, total)
      BY <1>1 DEF LoadedTyped, TypeOK
    <2> HIDE DEF cp
    <2>1. \E i \in 1..Len(cs) : o \in cs[i].start..cs[i].end
      BY <2>0, AcceptedCovers
    <2>2. ASSUME NEW i \in 1..Len(cs), NEW j \in 1..Len(cs),
                 o \in cs[i].start..cs[i].end, o \in cs[j].start..cs[j].end
          PROVE  i = j
      <3>1. i < j => cs[i].end < cs[j].start
        BY <2>0, AcceptedIsMonotone
      <3>2. j < i => cs[j].end < cs[i].start
        BY <2>0, AcceptedIsMonotone
      <3>3. /\ cs[i].start \in Int /\ cs[i].end \in Int
            /\ cs[j].start \in Int /\ cs[j].end \in Int /\ i \in Int /\ j \in Int
        BY <2>0 DEF IntBounds
      <3>4. QED BY <2>2, <3>1, <3>2, <3>3
    <2>3. \A i \in 1..Len(cs) : cs[i].start >= 0 /\ cs[i].end < total
      BY <2>0, AcceptedIsWithin
    <2>4. QED BY <2>1, <2>2, <2>3 DEF cp
  <1>2. QED BY <1>1, TypeCorrect, LoadedIsTyped, PTL
=============================================================================
