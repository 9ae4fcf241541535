---------------------------- MODULE MCGuestMemory ----------------------------
(***************************************************************************)
(* GuestMemory for TLC: bytes of one bit, so that i32 has four and i64     *)
(* eight.  One thread executes each numeric opcode and each access alone;  *)
(* two race with two instructions each.                                    *)
(***************************************************************************)
EXTENDS GuestMemory, TLC

MCWidth == [i32 |-> 4, i64 |-> 8]
MCMantissa == [f32 |-> 2, f64 |-> 5]
MCMemory == [n \in 0 .. 9 |-> IF n \in {0, 2, 3, 6, 8} THEN 1 ELSE 0]

-----------------------------------------------------------------------------
Integer(op, t) == [op |-> op, type |-> t]
Truncation(op, t, s, f) == [op |-> op, type |-> t, signed |-> s, from |-> f]
Access(op, f, t, n, s, at, o) ==
    [op |-> op, function |-> f, type |-> t, bytes |-> n, signed |-> s, atomic |-> at, offset |-> o]

Types == {"i32", "i64"}
Sizes == {<<"i32", n>> : n \in {1, 2, 4}} \cup {<<"i64", n>> : n \in {1, 2, 4, 8}}
Narrow == Sizes \ {<<"i32", 4>>, <<"i64", 8>>}
\* An atomic access has no offset but 0 (AccessAsWritten of BodyExec).
Offsets == {0, 1, 14}

MCOpcodes ==
    {Integer(op, t) : op \in IntBinops \cup IntUnops, t \in Types}
    \cup {[op |-> "extend_s", type |-> z[1], bits |-> z[2]] : z \in Narrow}
    \cup {Truncation(op, t, s, f) : op \in {"trunc", "trunc_sat"}, t \in Types, s \in BOOLEAN, f \in {"f32", "f64"}}
    \cup {Integer(op, "f32") : op \in FloatComparisons \cup {"min", "max", "abs", "neg", "copysign", "div_by_zero"}}
    \cup {Integer("demote", "f32")}
    \cup {Access("load", "", z[1], z[2], TRUE, FALSE, o) : z \in Narrow, o \in Offsets}
    \cup {Access(op, "", z[1], z[2], FALSE, FALSE, o) : op \in {"load", "store"}, z \in Sizes, o \in Offsets}
    \cup {Access(op, "", z[1], z[2], FALSE, TRUE, 0) : op \in {"load", "store"}, z \in Sizes}
    \cup {Access("rmw", f, z[1], z[2], FALSE, TRUE, 0) :
            f \in {"add", "sub", "and", "or", "xor", "xchg"}, z \in Sizes}
    \cup {Access("cmpxchg", "", z[1], z[2], FALSE, TRUE, 0) : z \in Sizes}

I32 == 0 .. 15
\* 0, 1, 2, an odd one, the greatest, the least and their neighbours.
I64 == {0, 1, 2, 5, 8, 100, 127, 128, 129, 254, 255}
F64 == 0 .. 1023
\* Both zeros, subnormals, ones, limits, infinities, NaNs quiet and not.
F32 == {0, 1, 5, 20, 59, 60, 61, 62, 64, 65, 84, 123, 124, 125, 127}

MCOperandsOf(i) ==
    CASE i.op \in IntBinops /\ i.type # "f32" -> IF i.type = "i32" THEN I32 \X I32 ELSE I64 \X I64
      [] i.op \in IntUnops \cup {"extend_s"} -> {<<x>> : x \in IF i.type = "i32" THEN I32 ELSE 0 .. 255}
      [] i.op \in {"trunc", "trunc_sat"} -> {<<x>> : x \in IF i.from = "f32" THEN 0 .. 127 ELSE F64}
      [] i.op = "demote" -> {<<x>> : x \in {d \in F64 : ~IsInF32Range(d)}}
      [] i.op = "div_by_zero" -> F32 \X {0, 64}
      [] i.op \in {"abs", "neg"} -> {<<x>> : x \in 0 .. 127}
      [] i.op \in {"min", "max", "copysign"} \cup FloatComparisons /\ i.type = "f32" -> F32 \X F32
      [] i.op = "load" -> {<<x>> : x \in I32}
      [] i.op = "store" -> I32 \X {5, 10}
      [] i.op = "rmw" -> I32 \X {3, 13}
      [] i.op = "cmpxchg" -> I32 \X {0, 1, 5, 13} \X {2, 7}
-----------------------------------------------------------------------------
\* What racing threads do to the first four bytes, each with the operands it
\* needs; the second may take the result of the first for its top one.
Contending ==
    {[i |-> Access("rmw", "add", "i32", 4, FALSE, TRUE, 0), args |-> <<0, 3>>],
     [i |-> Access("rmw", "xchg", "i32", 1, FALSE, TRUE, 1), args |-> <<0, 1>>],
     [i |-> Access("rmw", "sub", "i32", 2, FALSE, TRUE, 2), args |-> <<0, 1>>],
     [i |-> Access("store", "", "i32", 1, FALSE, FALSE, 1), args |-> <<0, 1>>],
     [i |-> Access("store", "", "i32", 4, FALSE, TRUE, 0), args |-> <<0, 6>>],
     [i |-> Access("load", "", "i32", 4, FALSE, FALSE, 0), args |-> <<0>>],
     [i |-> Access("cmpxchg", "", "i32", 4, FALSE, TRUE, 0), args |-> <<0, 13, 6>>],
     [i |-> Access("cmpxchg", "", "i32", 1, FALSE, TRUE, 1), args |-> <<0, 0, 1>>]}

MCRacing ==
    {[code |-> <<p[1].i, p[2].i>>,
      stack |-> (IF p[1].i.op = "store" THEN p[2].args ELSE SubSeq(p[2].args, 1, Len(p[2].args) - 1))
                \o p[1].args] : p \in Contending \X Contending}
=============================================================================
