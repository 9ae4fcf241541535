---------------------------- MODULE MCPoolMemory ----------------------------
(* PoolMemory for TLC, with sizes of a few units. *)
EXTENDS PoolMemory, TLC
=============================================================================
