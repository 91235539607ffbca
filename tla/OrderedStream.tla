--------------------------- MODULE OrderedStream ---------------------------
(***************************************************************************)
(* What Engine.DownloadStream promises to the reader of a stream: its      *)
(* bytes come in order from the first to the last, none missing and none   *)
(* twice; the end is announced only after all of them, unless the reader   *)
(* closed the stream itself; after an error there is no more data. Bytes   *)
(* the reader has not seen may be lost, those of attempts that broke off.  *)
(***************************************************************************)
EXTENDS Naturals, Sequences

CONSTANT Size   \* of the resource; a byte is its offset

VARIABLES
  out,     \* what Read has returned so far
  answer,  \* what the last Read said: "none", "data", "eof" or "error"
  lost,    \* bytes that will not come
  open     \* Close has not been called

vars == <<out, answer, lost, open>>

\* s is the first n bytes in their order, without those of gone: there is one
\* such sequence.
Prefix(s, n, gone) ==
  /\ \A i \in 1..Len(s) : s[i] \in 0..(n - 1) /\ s[i] \notin gone
  /\ \A b \in 0..(n - 1) : b \in gone \/ \E i \in 1..Len(s) : s[i] = b
  /\ \A i, j \in 1..Len(s) : i < j => s[i] < s[j]

Init == out = <<>> /\ answer = "none" /\ lost = {} /\ open = TRUE

Emit ==
  /\ open /\ answer # "error"
  /\ \E n \in 1..Size : Prefix(out', n, lost)
  /\ Len(out') > Len(out)
  /\ answer' = "data"
  /\ UNCHANGED <<lost, open>>

Finish ==
  /\ open => Prefix(out, Size, lost)
  /\ answer' = "eof"
  /\ UNCHANGED <<out, lost, open>>

Fail ==
  /\ answer' = "error"
  /\ UNCHANGED <<out, lost, open>>

Lose ==
  /\ lost \subseteq lost' /\ \A i \in 1..Len(out) : out[i] \notin lost'
  /\ UNCHANGED <<out, answer, open>>

Close ==
  /\ open' = FALSE
  /\ UNCHANGED <<out, answer, lost>>

Next == Emit \/ Finish \/ Fail \/ Lose \/ Close

Spec == Init /\ [][Next]_vars
=============================================================================
