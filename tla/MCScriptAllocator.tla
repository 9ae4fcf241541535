-------------------------- MODULE MCScriptAllocator --------------------------
(* ScriptAllocator for TLC: interchangeable threads. *)
EXTENDS ScriptAllocator, TLC

Symmetry == Permutations(Threads)
=============================================================================
