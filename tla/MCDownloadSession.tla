-------------------------- MODULE MCDownloadSession --------------------------
(***************************************************************************)
(* A small instance of DownloadSession for TLC.                            *)
(***************************************************************************)
EXTENDS DownloadSession

Answers(kind, len, advertises, honours, total) ==
  [kind |-> kind, len |-> len, advertises |-> advertises, honours |-> honours, total |-> total]

\* Ranges: advertised, found out by a test, without a total, advertised but
\* ignored. No ranges: with a length, without. Nothing at all.
MCServers ==
  {Answers("ok", TRUE, TRUE, TRUE, TRUE), Answers("ok", TRUE, FALSE, TRUE, TRUE),
   Answers("nohead", FALSE, FALSE, TRUE, FALSE), Answers("ok", TRUE, TRUE, FALSE, TRUE),
   Answers("ok", TRUE, FALSE, FALSE, TRUE), Answers("ok", FALSE, FALSE, FALSE, TRUE),
   Answers("gone", FALSE, FALSE, FALSE, FALSE)}
=============================================================================
