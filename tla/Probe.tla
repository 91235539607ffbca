------------------------------- MODULE Probe -------------------------------
(***************************************************************************)
(* pkg/engine/probe.go: Probe finds out the length of a resource and       *)
(* whether ranges of it can be asked for: a HEAD request, and a GET for    *)
(* the first byte when that does not tell, with retries. File names, types *)
(* and the address checks are left out.                                    *)
(***************************************************************************)
EXTENDS Integers

CONSTANTS
  NumChunks,   \* the resource's length, in chunks
  MaxRetries

VARIABLES
  server,  \* how this resource's server answers
  probe,   \* the request Probe makes next, "done" or "failed"; its attempt
  info     \* FileInfo: the length, 0 for none, and AcceptRanges

probing == <<probe, info>>
-----------------------------------------------------------------------------
\* A server answers every request with 404 ("gone"), HEAD requests with 405
\* ("nohead") or none so. It sends the length or does not, sends Accept-Ranges
\* or does not, honours ranges or does not, then with the total or without it.
ServerKinds == [kind : {"ok", "nohead", "gone"}, len : BOOLEAN, advertises : BOOLEAN,
                honours : BOOLEAN, total : BOOLEAN]

Unknown == [len |-> 0, ranges |-> FALSE]
StartProbe == [pc |-> "head", attempt |-> 0]

\* parseResponseInfo, and probeWithGetRange: the 206 for one byte has length 1
\* where its Content-Range names no total.
WholeInfo == [len |-> IF server.len THEN NumChunks ELSE 0, ranges |-> server.advertises]
RangeInfo == IF server.honours THEN [len |-> IF server.total THEN NumChunks ELSE 1, ranges |-> TRUE]
             ELSE WholeInfo

\* Attempts are numbered from zero to MaxRetries.
MayTryAgain_BUG(attempt) == attempt <= MaxRetries
MayTryAgain(attempt) == attempt < MaxRetries

AttemptFails ==
  probe' = IF MayTryAgain(probe.attempt) THEN [pc |-> "head", attempt |-> probe.attempt + 1]
           ELSE [probe EXCEPT !.pc = "failed"]
ProbeTo(pc) == probe' = [probe EXCEPT !.pc = pc]

\* One request and its answer. It fails when the connection does, its timeout
\* passes or the context ends. The context is looked at before an attempt.
AskHead(fails, ended) ==
  /\ probe.pc = "head"
  /\ \/ ended /\ ProbeTo("failed") /\ UNCHANGED info
     \/ fails /\ ProbeTo("get") /\ UNCHANGED info
     \/ /\ ~fails /\ ~ended
        /\ IF server.kind = "gone" THEN ProbeTo("failed") /\ UNCHANGED info
           ELSE IF server.kind = "nohead" \/ WholeInfo = Unknown THEN ProbeTo("get") /\ UNCHANGED info
           ELSE info' = WholeInfo /\ ProbeTo(IF WholeInfo.ranges THEN "done" ELSE "test")

AskRange(fails) ==
  /\ probe.pc = "get"
  /\ IF fails THEN AttemptFails /\ UNCHANGED info
     ELSE IF server.kind = "gone" THEN ProbeTo("failed") /\ UNCHANGED info
     ELSE info' = RangeInfo /\ ProbeTo("done")

\* HEAD told the length only; whether this request fails makes no difference.
TestRange(fails) ==
  /\ probe.pc = "test"
  /\ info' = [info EXCEPT !.ranges = ~fails /\ RangeInfo.ranges]
  /\ ProbeTo("done")

ProbeStep(fails, ended) == AskHead(fails, ended) \/ AskRange(fails) \/ TestRange(fails)
=============================================================================
