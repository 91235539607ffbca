------------------------ MODULE MCResumableDownload ------------------------
(***************************************************************************)
(* Small instances of ResumableDownload for TLC.                           *)
(***************************************************************************)
EXTENDS ResumableDownload, TLC

\* Two chunks, of two bytes and of one: a chunk can be half done, and the last
\* chunk is shorter than the others.
MCStart == <<0, 2>>
MCEnd == <<1, 2>>

\* Three chunks, more than the two workers, so that the queue matters.
MCStart4 == <<0, 2, 3>>
MCEnd4 == <<1, 2, 3>>
MCStart5 == <<0, 2, 4>>
MCEnd5 == <<1, 3, 4>>

\* The same length with a chunk of three bytes: a retry, or a resumed session,
\* that continues in its middle has more than one byte behind it or ahead.
MCStartLong == <<0, 3, 4>>
MCEndLong == <<2, 3, 4>>

\* No worker differs from another but by its name. Sound for invariants and
\* action properties, so it is not used where liveness is checked.
SymmetricWorkers == Permutations(Workers)
=============================================================================
