--------------------------- MODULE MCDownloadQueue ---------------------------
(***************************************************************************)
(* A small instance of DownloadQueue for TLC.                              *)
(***************************************************************************)
EXTENDS DownloadQueue

CONSTANTS t1, t2

\* The tasks are interchangeable: t2 is not the first to be enqueued.
InOrder == status[t2] # None => status[t1] # None
=============================================================================
