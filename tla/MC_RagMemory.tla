------------------------------ MODULE MC_RagMemory ------------------------------
(***************************************************************************)
(* An instance of RagMemory for TLC: a text of two chunks, one of a single *)
(* chunk, and a poor one.                                                  *)
(***************************************************************************)
EXTENDS RagMemory, TLC

CONSTANTS audit, note, long, short, poor

MCChunks == long :> 2 @@ short :> 1 @@ poor :> 1
================================================================================
