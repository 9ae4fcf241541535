----------------------------- MODULE TypeChecker -----------------------------
(***************************************************************************)
(* The type checker of wasm/TypeChecker.cpp, as operators over its state.   *)
(*                                                                          *)
(* A checker c is a record:                                                 *)
(*   types   type_stack_, the last element on top                           *)
(*   labels  label_stack_: [kind, sig, limit, unreachable], the innermost   *)
(*           construct last                                                 *)
(*   ok      FALSE once a check has failed; the reader then gives the whole *)
(*           module up, so nothing is said of a checker that is not ok      *)
(*                                                                          *)
(* Error texts are left out.                                                *)
(***************************************************************************)
EXTENDS Naturals, Sequences, SequencesExt

AnyType == "any"
LabelKinds == {"Func", "Block", "Loop", "If", "Else"}

Fail(c) == [c EXCEPT !.ok = FALSE]
Require(c, condition) == [c EXCEPT !.ok = @ /\ condition]

HasLabel(c, depth) == depth < Len(c.labels)
GetLabel(c, depth) == c.labels[Len(c.labels) - depth]
TopLabel(c) == Last(c.labels)

ResetTypeStackToLabel(c) == [c EXCEPT !.types = SubSeq(@, 1, TopLabel(c).limit)]
PushTypes(c, sig) == [c EXCEPT !.types = @ \o sig]
PushLabel(c, kind, sig) ==
    [c EXCEPT !.labels =
        Append(@, [kind |-> kind, sig |-> sig, limit |-> Len(c.types), unreachable |-> FALSE])]
PopLabel(c) == [c EXCEPT !.labels = Front(@)]

\* Code after an unconditional branch: whatever it pops below the limit of
\* its construct has type Any.
SetUnreachable(c) ==
    ResetTypeStackToLabel([c EXCEPT !.labels[Len(c.labels)].unreachable = TRUE])

Below(c, depth) == TopLabel(c).limit + depth >= Len(c.types)
PeekType(c, depth) == IF Below(c, depth) THEN AnyType ELSE c.types[Len(c.types) - depth]
CheckType(actual, expected) == actual = expected \/ AnyType \in {actual, expected}
PeekAndCheckType(c, depth, expected) ==
    /\ Below(c, depth) => TopLabel(c).unreachable
    /\ CheckType(PeekType(c, depth), expected)

DropTypes(c, count) ==
    IF TopLabel(c).limit + count <= Len(c.types)
    THEN [c EXCEPT !.types = SubSeq(@, 1, Len(@) - count)]
    ELSE IF TopLabel(c).unreachable THEN ResetTypeStackToLabel(c) ELSE Fail(c)

CheckSignature(c, sig) ==
    \A i \in DOMAIN sig : PeekAndCheckType(c, Len(sig) - i, sig[i])
PopAndCheck(c, sig) == Require(DropTypes(c, Len(sig)), CheckSignature(c, sig))
\* PopAndCheckCall and CheckOpcode1 to 3: the arguments go, the results come.
CheckCall(c, params, results) == PushTypes(PopAndCheck(c, params), results)

CheckTypeStackEnd(c) == Len(c.types) = TopLabel(c).limit
-----------------------------------------------------------------------------
BeginFunction(results) ==
    PushLabel([types |-> <<>>, labels |-> <<>>, ok |-> TRUE], "Func", results)

OnSelect(c) ==
    LET type == PeekType(c, 1)
    IN  Require(PushTypes(DropTypes(c, 3), <<type>>),
                /\ PeekAndCheckType(c, 0, "i32")
                /\ PeekAndCheckType(c, 1, AnyType)
                /\ PeekAndCheckType(c, 2, type))

\* What a branch to this label takes with it: a loop is entered anew, with nothing.
BranchTypes(label) == IF label.kind = "Loop" THEN <<>> ELSE label.sig

OnBr(c, depth) ==
    IF ~HasLabel(c, depth) THEN Fail(c)
    ELSE Require(SetUnreachable(c), CheckSignature(c, BranchTypes(GetLabel(c, depth))))

OnBrIf(c, depth) ==
    IF ~HasLabel(c, depth) THEN Fail(c)
    ELSE LET taken == BranchTypes(GetLabel(c, depth))
         IN  CheckCall(PopAndCheck(c, <<"i32">>), taken, taken)

\* BeginBrTable, OnBrTableTarget for each target and EndBrTable. The targets
\* must agree with each other: each with the one before it.
OnBrTable(c, depths) ==
    LET popped == PopAndCheck(c, <<"i32">>)
        taken(i) == BranchTypes(GetLabel(c, depths[i]))
    IN  IF \E i \in DOMAIN depths : ~HasLabel(c, depths[i]) THEN Fail(c)
        ELSE Require(SetUnreachable(popped),
                     /\ \A i \in DOMAIN depths : CheckSignature(popped, taken(i))
                     /\ \A i \in DOMAIN depths \ {1} : taken(i) = taken(i - 1))

OnReturn(c) == SetUnreachable(PopAndCheck(c, Head(c.labels).sig))

OnBlock(c, sig) == PushLabel(c, "Block", sig)
OnLoop(c, sig) == PushLabel(c, "Loop", sig)
OnIf(c, sig) == PushLabel(PopAndCheck(c, <<"i32">>), "If", sig)

OnElse(c) ==
    LET popped == PopAndCheck(c, TopLabel(c).sig)
        reset  == ResetTypeStackToLabel(popped)
        last   == Len(c.labels)
    IN  Require([reset EXCEPT !.labels[last].kind = "Else", !.labels[last].unreachable = FALSE],
                TopLabel(c).kind = "If" /\ CheckTypeStackEnd(popped))

\* OnEnd(label, ...): the results go below the label and back above it.
CloseLabel(c) ==
    LET popped == PopAndCheck(c, TopLabel(c).sig)
    IN  Require(PopLabel(PushTypes(ResetTypeStackToLabel(popped), TopLabel(c).sig)),
                CheckTypeStackEnd(popped))

OnEnd(c) == Require(CloseLabel(c), TopLabel(c).kind = "If" => TopLabel(c).sig = <<>>)
EndFunction(c) == Require(CloseLabel(c), TopLabel(c).kind = "Func")
==============================================================================
