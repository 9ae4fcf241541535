---------------------------- MODULE StructuredCode ----------------------------
(***************************************************************************)
(* What a function body means, with no compiled form: operands, and the     *)
(* constructs entered and not yet left, each with the height of the         *)
(* operands when it was entered. A branch leaves constructs, drops the      *)
(* operands above the target's height and keeps what the target is due:     *)
(* the results of a block or if, nothing for a loop, which starts over.     *)
(*                                                                          *)
(* block and loop do nothing of their own: going to a position also enters  *)
(* the blocks and loops that begin there.                                   *)
(***************************************************************************)
EXTENDS Naturals, Sequences, SequencesExt, FiniteSets

CONSTANTS LocalTypes, Results, Globals, Operators

VARIABLES
    status,    \* "reading", "rejected", "running", "returned", "trapped"
    body,      \* the instructions, once they are read
    pc,        \* the index of the instruction to execute
    frames,    \* the constructs around it: [start, height], the innermost last
    operands, locals, globals

vars == <<status, body, pc, frames, operands, locals, globals>>

Initial(types) == [i \in DOMAIN types |-> [type |-> types[i], src |-> 0]]
Init ==
    /\ status = "reading"
    /\ body = <<>> /\ pc = 0 /\ frames = <<>> /\ operands = <<>>
    /\ locals = Initial(LocalTypes)
    /\ globals = Initial([g \in DOMAIN Globals |-> Globals[g].type])
-----------------------------------------------------------------------------
(* The shape of a body b. *)

Level(b, i) ==
    Cardinality({j \in 1 .. i : b[j].op \in {"block", "loop", "if"}})
      - Cardinality({j \in 1 .. i : b[j].op = "end"})
\* The end that belongs to the construct that starts at i.
EndOf(b, i) ==
    CHOOSE e \in i + 1 .. Len(b) :
        /\ b[e].op = "end" /\ Level(b, e) + 1 = Level(b, i)
        /\ \A j \in i + 1 .. e - 1 : Level(b, j) >= Level(b, i)
\* Where an if goes when its condition fails: behind the else, or to the end.
ElseOf(b, i) ==
    LET elses == {j \in i + 1 .. EndOf(b, i) : b[j].op = "else" /\ Level(b, j) = Level(b, i)}
    IN  IF elses = {} THEN EndOf(b, i) ELSE (CHOOSE j \in elses : TRUE) + 1
\* The first instruction at or after p that is no block or loop.
Landing(b, p) ==
    CHOOSE q \in p .. Len(b) :
        /\ b[q].op \notin {"block", "loop"}
        /\ \A j \in p .. q - 1 : b[j].op \in {"block", "loop"}

Keep(n, sequence) == SubSeq(sequence, Len(sequence) - n + 1, Len(sequence))
Height == IF frames = <<>> THEN 0 ELSE Last(frames).height
Here == body[pc]
Executing(op) == status = "running" /\ Here.op = op

\* Goes to p of the body b, entering what begins there.
GoTo(b, p, around, left) ==
    LET q == Landing(b, p)
    IN  /\ pc' = q
        /\ frames' = around \o [k \in 1 .. q - p |-> [start |-> p + k - 1, height |-> Len(left)]]
        /\ operands' = left
Continue(left) == GoTo(body, pc + 1, frames, left)

\* Leaves depth constructs for the target of a branch.
Branch(depth, given) ==
    LET target == Len(frames) - depth
        frame  == frames[target]
        below  == SubSeq(given, 1, frame.height)
    IN  IF target = 0
        THEN pc' = Len(body) /\ frames' = <<>> /\ operands' = Keep(Len(Results), given)
        ELSE IF body[frame.start].op = "loop"
        THEN GoTo(body, frame.start + 1, SubSeq(frames, 1, target), below)
        ELSE /\ pc' = EndOf(body, frame.start)
             /\ frames' = SubSeq(frames, 1, target)
             /\ operands' = below \o Keep(Len(body[frame.start].sig), given)

\* No instruction takes operands from outside of its construct.
Has(n) == Len(operands) >= Height + n
Rest(n) == SubSeq(operands, 1, Len(operands) - n)
Operand(depth) == operands[Len(operands) - depth + 1]
Only == UNCHANGED <<status, body, locals, globals>>
-----------------------------------------------------------------------------
Start ==
    /\ status = "reading" /\ status' = "running"
    /\ GoTo(body', 1, <<>>, <<>>)
    /\ UNCHANGED <<locals, globals>>
Reject ==
    /\ status = "reading" /\ status' = "rejected"
    /\ UNCHANGED <<body, pc, frames, operands, locals, globals>>

Const == Executing("const") /\ Continue(Append(operands, [type |-> Here.sig[1], src |-> pc])) /\ Only
Operator ==
    /\ status = "running" /\ Here.op \in DOMAIN Operators
    /\ LET n == Len(Operators[Here.op].params)
       IN  Has(n) /\ Continue(Rest(n) \o [i \in DOMAIN Here.sig |-> [type |-> Here.sig[i], src |-> pc]])
    /\ Only
Drop == Executing("drop") /\ Has(1) /\ Continue(Rest(1)) /\ Only
Select ==
    /\ Executing("select") /\ Has(3)
    /\ \E chosen \in {Operand(2), Operand(3)} : Continue(Append(Rest(3), chosen))
    /\ Only
GetLocal == Executing("get_local") /\ Continue(Append(operands, locals[Here.arg])) /\ Only
SetLocal ==
    /\ Executing("set_local") /\ Has(1) /\ Continue(Rest(1))
    /\ locals' = [locals EXCEPT ![Here.arg] = Operand(1)]
    /\ UNCHANGED <<status, body, globals>>
TeeLocal ==
    /\ Executing("tee_local") /\ Has(1) /\ Continue(operands)
    /\ locals' = [locals EXCEPT ![Here.arg] = Operand(1)]
    /\ UNCHANGED <<status, body, globals>>
GetGlobal == Executing("get_global") /\ Continue(Append(operands, globals[Here.arg])) /\ Only
SetGlobal ==
    /\ Executing("set_global") /\ Has(1) /\ Continue(Rest(1))
    /\ globals' = [globals EXCEPT ![Here.arg] = Operand(1)]
    /\ UNCHANGED <<status, body, locals>>

If ==
    /\ Executing("if") /\ Has(1) /\ Only
    /\ LET around == Append(frames, [start |-> pc, height |-> Len(operands) - 1])
       IN  \/ GoTo(body, pc + 1, around, Rest(1))
           \/ GoTo(body, ElseOf(body, pc), around, Rest(1))
\* The end of a then branch.
Else == Executing("else") /\ pc' = EndOf(body, Last(frames).start) /\ Only /\ UNCHANGED <<frames, operands>>
\* A construct leaves exactly its results on top of what was there before it.
End ==
    /\ Executing("end") /\ frames # <<>>
    /\ Len(operands) = Height + Len(body[Last(frames).start].sig)
    /\ GoTo(body, pc + 1, Front(frames), operands)
    /\ Only
Br == Executing("br") /\ Branch(Here.depths[1], operands) /\ Only
BrIf ==
    /\ Executing("br_if") /\ Has(1) /\ Only
    /\ Branch(Here.depths[1], Rest(1)) \/ Continue(Rest(1))
BrTable ==
    /\ Executing("br_table") /\ Has(1) /\ Only
    /\ \E i \in DOMAIN Here.depths : Branch(Here.depths[i], Rest(1))

Finish(n) ==
    /\ status' = "returned" /\ frames' = <<>> /\ locals' = <<>>
    /\ operands' = Keep(n, operands)
    /\ UNCHANGED <<body, pc, globals>>
Return == Executing("return") /\ Has(Len(Results)) /\ Finish(Len(Results))
\* The last end: nothing but the results is left.
EndBody == Executing("end") /\ frames = <<>> /\ Len(operands) = Len(Results) /\ Finish(Len(Results))

MayTrap == DOMAIN Operators \cup {"unreachable", "set_global"}
Trap ==
    /\ status = "running" /\ Here.op \in MayTrap /\ status' = "trapped"
    /\ UNCHANGED <<body, pc, frames, operands, locals, globals>>

Next ==
    \/ Start \/ Reject
    \/ Const \/ Operator \/ Drop \/ Select
    \/ GetLocal \/ SetLocal \/ TeeLocal \/ GetGlobal \/ SetGlobal
    \/ If \/ Else \/ End \/ Br \/ BrIf \/ BrTable
    \/ Return \/ EndBody \/ Trap
Spec == Init /\ [][Next]_vars
=============================================================================
