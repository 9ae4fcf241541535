---------------------------- MODULE MCThreadSync ----------------------------
(* ThreadSync for TLC: the threads are model values and interchangeable. *)
EXTENDS ThreadSync, TLC

Symmetry == Permutations(Threads)
=============================================================================
