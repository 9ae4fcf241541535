------------------------------ MODULE MCInterp ------------------------------
(***************************************************************************)
(* Interp for TLC.  main is called by the host and declares a local, inc   *)
(* is called by guest and host and gives a result, note has a parameter    *)
(* and no result and is called by Prepare; peek is a host function that    *)
(* may call any of them.                                                   *)
(***************************************************************************)
EXTENDS Interp, TLC

CONSTANTS main, inc, note, peek

Sizes(m, i, n, p) == (main :> m) @@ (inc :> i) @@ (note :> n) @@ (peek :> p)

MCFuncs == {main, inc, note}
MCParams == Sizes(1, 1, 1, 1)
MCResults == Sizes(1, 1, 0, 1)
MCDeclared == (main :> 1) @@ (inc :> 0) @@ (note :> 0)
=============================================================================
