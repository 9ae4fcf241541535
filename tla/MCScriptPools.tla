---------------------------- MODULE MCScriptPools ----------------------------
(* ScriptPools for TLC: pools and cells are model values. *)
EXTENDS ScriptPools, TLC
=============================================================================
