---------------------------- MODULE ChunkLayout ----------------------------
(***************************************************************************)
(* How pkg/engine cuts a resource into chunks (CalculateChunks), records   *)
(* the layout in a checkpoint and judges it again before a resume          *)
(* (Checkpoint.IsResumeValid). The loop of CalculateChunks is a state      *)
(* machine; when it has returned, the checkpoint made of its chunks is     *)
(* saved, downloads move its counters, and what is read back may differ    *)
(* from what was saved in any one field.                                   *)
(***************************************************************************)
EXTENDS Integers, Sequences

CONSTANTS
  Totals,             \* content lengths, any int64
  Preferred,          \* Options.ChunkSize, any int64
  Concurrencies,      \* Options.Concurrency, any int
  DefaultConcurrency, \* 8 in options.go
  MinChunk, MaxChunk, \* 2 MiB and 64 MiB in the code
  Values              \* bound: what a field of a loaded checkpoint may hold

ASSUME LayoutParameters ==
  /\ Totals \subseteq Int /\ Preferred \subseteq Int /\ Concurrencies \subseteq Int
  /\ DefaultConcurrency \in Nat \ {0}
  /\ MinChunk \in Nat \ {0} /\ MaxChunk \in Nat /\ MinChunk <= MaxChunk
  /\ Values \subseteq Int

VARIABLES
  total, preferred, concurrency, \* the arguments of CalculateChunks
  start,                         \* its loop variable
  chunks,                        \* the slice it builds
  loaded                         \* the checkpoint read back, or <<>>

args == <<total, preferred, concurrency>>
vars == <<args, start, chunks, loaded>>
-----------------------------------------------------------------------------
Smaller(a, b) == IF a < b THEN a ELSE b
Larger(a, b) == IF a > b THEN a ELSE b

Parts == 4 * (IF concurrency <= 0 THEN DefaultConcurrency ELSE concurrency)

\* The preferred size, or one that gives each connection several chunks.
DynamicSize == Smaller(Larger(total \div Parts, MinChunk), MaxChunk)
ChunkSize_BUG == Smaller(IF preferred < 0 THEN DynamicSize ELSE preferred, total)
ChunkSize == Smaller(IF preferred <= 0 THEN DynamicSize ELSE preferred, total)

Chunk(i, s, e) == [index |-> i, start |-> s, end |-> e, downloaded |-> 0, completed |-> FALSE]

\* The last offset of the chunk that begins at s.
EndOf_BUG(s) == s + ChunkSize
EndUnclipped_BUG(s) == s + ChunkSize - 1
EndOf(s) == Smaller(s + ChunkSize - 1, total - 1)

AppendChunk ==
  /\ start < total
  /\ chunks' = Append(chunks, Chunk(Len(chunks), start, EndOf(start)))
  /\ start' = EndOf(start) + 1
  /\ UNCHANGED <<args, loaded>>

Returned == start >= total

\* NewCheckpoint.
NewCheckpoint(cs) ==
  [contentLength |-> total, totalChunks |-> Len(cs), chunks |-> cs]

\* One pass over the stored chunks, expecting each to begin where the one
\* before it ended.
ExpectedStart(cp, i) == IF i = 1 THEN 0 ELSE cp.chunks[i - 1].end + 1

StateValid_BUG(cp, i) ==
  LET s == cp.chunks[i] IN
  /\ s.index = i - 1
  /\ s.start <= s.end /\ s.end < cp.contentLength
  /\ s.downloaded >= 0 /\ s.downloaded <= s.end - s.start + 1
  /\ s.completed => s.downloaded = s.end - s.start + 1

StateValid(cp, i) ==
  LET s == cp.chunks[i] IN
  /\ s.index = i - 1
  /\ s.start = ExpectedStart(cp, i)
  /\ s.start <= s.end /\ s.end < cp.contentLength
  /\ s.downloaded >= 0 /\ s.downloaded <= s.end - s.start + 1
  /\ s.completed => s.downloaded = s.end - s.start + 1

\* The identity of the content (ETag, Last-Modified, Accept-Ranges) is the
\* subject of ResumableDownload; here the length and the layout.
IsResumeValid(cp, contentLength) ==
  /\ cp.contentLength > 0 /\ cp.contentLength = contentLength
  /\ Len(cp.chunks) > 0 /\ cp.totalChunks = Len(cp.chunks)
  /\ \A i \in 1..Len(cp.chunks) : StateValid(cp, i)
  /\ ExpectedStart(cp, Len(cp.chunks) + 1) = cp.contentLength

\* What is loaded: the saved checkpoint, with one field of one chunk, or the
\* number of chunks, other than it was written.
Load ==
  /\ Returned /\ loaded = <<>>
  /\ \/ loaded' = <<NewCheckpoint(chunks)>>
     \/ \E i \in 1..Len(chunks), v \in Values :
          loaded' \in {<<NewCheckpoint([chunks EXCEPT ![i].start = v])>>,
                       <<NewCheckpoint([chunks EXCEPT ![i].end = v])>>,
                       <<NewCheckpoint([chunks EXCEPT ![i].index = v])>>,
                       <<NewCheckpoint([chunks EXCEPT ![i].downloaded = v])>>,
                       <<NewCheckpoint([chunks EXCEPT ![i].downloaded = v,
                                                      ![i].completed = TRUE])>>}
     \/ \E n \in 0..Len(chunks) : loaded' = <<NewCheckpoint(SubSeq(chunks, 1, n))>>
  /\ UNCHANGED <<args, start, chunks>>

Init ==
  /\ total \in Totals /\ preferred \in Preferred /\ concurrency \in Concurrencies
  /\ start = 0
  /\ chunks = <<>>
  /\ loaded = <<>>

Next == AppendChunk \/ Load

Spec == Init /\ [][Next]_vars
-----------------------------------------------------------------------------
TypeOK ==
  /\ total \in Int /\ preferred \in Int /\ concurrency \in Int
  /\ start \in Nat
  /\ chunks \in Seq([index : Nat, start : Nat, end : Nat, downloaded : {0}, completed : {FALSE}])

\* The chunks built so far cut 0..start-1 into consecutive, non-empty pieces,
\* numbered from zero, and none reaches past the resource.
TilesSoFar ==
  /\ start <= Larger(total, 0)
  /\ start = IF chunks = <<>> THEN 0 ELSE chunks[Len(chunks)].end + 1
  /\ \A i \in 1..Len(chunks) :
       /\ chunks[i].index = i - 1
       /\ chunks[i].start = IF i = 1 THEN 0 ELSE chunks[i - 1].end + 1
       /\ chunks[i].start <= chunks[i].end
       /\ chunks[i].end < total

\* A checkpoint of a layout CalculateChunks returned is accepted by the check
\* made before a resume (two functions in two files that must agree).
FreshLayoutAccepted ==
  Returned /\ total > 0 => IsResumeValid(NewCheckpoint(chunks), total)

\* Whatever is read back, an accepted layout tiles the resource: workers that
\* follow it write every byte exactly once and none beyond the end.
AcceptedLayoutTiles ==
  loaded # <<>> /\ IsResumeValid(loaded[1], total) =>
    LET cs == loaded[1].chunks IN
    \A o \in 0..(total - 1) :
      /\ \E i \in 1..Len(cs) : o \in cs[i].start..cs[i].end
      /\ \A i, j \in 1..Len(cs) : o \in cs[i].start..cs[i].end /\ o \in cs[j].start..cs[j].end => i = j
      /\ \A i \in 1..Len(cs) : cs[i].start >= 0 /\ cs[i].end < total
=============================================================================
