-------------------------- MODULE MCPrefetchStream --------------------------
(***************************************************************************)
(* Small instances of PrefetchStream for TLC.                              *)
(***************************************************************************)
EXTENDS PrefetchStream
=============================================================================
