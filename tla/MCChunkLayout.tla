--------------------------- MODULE MCChunkLayout ---------------------------
(***************************************************************************)
(* Bounds for ChunkLayout: lengths on both sides of every threshold, with  *)
(* the 2 MiB floor scaled to 2 and the 64 MiB ceiling to 4.                *)
(***************************************************************************)
EXTENDS ChunkLayout

MCTotals == -1..18
MCPreferred == -1..6
MCConcurrencies == 0..2
MCValues == -1..19
=============================================================================
