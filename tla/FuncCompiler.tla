----------------------------- MODULE FuncCompiler -----------------------------
(***************************************************************************)
(* The compiler of one function body: ModuleReader's handlers of            *)
(* wasm/BinarySource.cc, called by ReadFunctionBody of wasm/Binary.cpp for  *)
(* one instruction after the other.                                         *)
(*                                                                          *)
(* A body is any sequence of instructions up to a bound: each action is one *)
(* handler, with an instruction the type checker may accept or refuse. A    *)
(* handler asks the checker, then emits opcodes; block, loop and the end of *)
(* the body emit none. A jump names a label, and EndFunctionBody writes the *)
(* label's position into it.                                                *)
(*                                                                          *)
(* Positions in the opcodes are counted from 1; the code counts from 0.     *)
(*                                                                          *)
(* source and noted are history: the instructions read, and the checker's   *)
(* stacks before each of them. Every opcode carries the index of its         *)
(* instruction in src.                                                      *)
(***************************************************************************)
EXTENDS TypeChecker, Integers

CONSTANTS
    LocalTypes,     \* the types of the parameters and the declared locals
    Results,        \* the result types of the function, at most one
    BlockTypes,     \* the signatures a block, loop or if may have
    ConstTypes,     \* the types of constants a body may hold
    Operators,      \* name -> [class, params, results]: what else it may hold
    Globals,        \* the module's globals: [type, mutable]
    StackPointer,   \* the index of the global that is the user stack pointer
    HasMemory,      \* the module has a memory
    HasTable,       \* the module has a table
    BrTables,       \* the target lists a br_table may have, the default last
    Offsets,        \* the static offsets of a plain access to memory
    AtomicOffsets,  \* the static offsets of an atomic access
    CleanLoops,     \* TRUE: a branch to a loop leaves no operand above the loop's own
    Common,         \* the instructions of long bodies
    MaxLength,      \* bound on the length of a body of common instructions
    ShortLength,    \* bound on the length of every other body
    MaxRare         \* bound on the other instructions in such a body

Classes == {"unary", "binary", "compare", "convert", "load", "store", "atomic_load",
            "atomic_store", "atomic_rmw", "atomic_cmpxchg", "current_memory", "grow_memory",
            "call", "call_indirect"}

\* The other opcodes, which no operator is named like.
Opcodes == {"const", "drop", "select", "get_local", "set_local", "tee_local",
            "get_global", "set_global", "interp_get_stack", "interp_set_stack",
            "block", "loop", "if", "else", "end", "br", "br_if", "br_table", "return", "unreachable"}

\* Locals, operands and results have types of values; Any is none of them.
ValueTypes == {"i32", "i64", "f32", "f64"}

ASSUME OperatorShape ==
    \A name \in DOMAIN Operators :
        /\ name \notin Opcodes
        /\ Operators[name].class \in Classes
        /\ Operators[name].params \in Seq(ValueTypes)
        /\ Operators[name].results \in Seq(ValueTypes) /\ Len(Operators[name].results) <= 1
ASSUME ResultShape ==
    /\ BlockTypes \cup {Results} \subseteq Seq(ValueTypes)
    /\ \A sig \in BlockTypes \cup {Results} : Len(sig) <= 1
ASSUME ValueShape ==
    /\ LocalTypes \in Seq(ValueTypes) /\ ConstTypes \subseteq ValueTypes
    /\ Globals \in Seq([type : ValueTypes, mutable : BOOLEAN])
ASSUME ImmediateShape ==
    /\ BrTables \subseteq Seq(Nat) \ {<<>>}
    /\ Offsets \cup AtomicOffsets \subseteq Nat
ASSUME BoundShape == MaxLength \in Nat /\ ShortLength \in Nat /\ MaxRare \in Nat /\ CleanLoops \in BOOLEAN
ASSUME ModuleShape == HasMemory \in BOOLEAN /\ HasTable \in BOOLEAN /\ StackPointer \in Int

kInvalidIndex == -1

VARIABLES
    phase,       \* "reading", "running", "returned", "trapped" or "rejected"
    checker,     \* _typechecker
    opcodes,     \* _opcodes, then the function's opcodes: [op, v1, v2, src]
    labels,      \* _labels: [results, stack, offset, origin]
    labelStack,  \* _labelStack: indices into labels
    source,      \* the instructions read: [op, sig, depths, arg]
    noted        \* the checker's [types, labels] before each of them

compilerVars == <<checker, opcodes, labels, labelStack, source, noted>>
-----------------------------------------------------------------------------
Instr(op, sig, depths, arg) == [op |-> op, sig |-> sig, depths |-> depths, arg |-> arg]
Plain(op) == Instr(op, <<>>, <<>>, 0)

\* Mutant: positions are those after the opcode that is about to be emitted.
PositionAfter == Len(opcodes) + 2
NextPosition == Len(opcodes) + 1
OpcodeRec(op, v1, v2) == [op |-> op, v1 |-> v1, v2 |-> v2, src |-> Len(source) + 1]
Label(results, stack, position, origin) ==
    [results |-> results, stack |-> stack, offset |-> position, origin |-> origin]
\* PushLabel appends; the new label's index is the length.
Pushed(label) == Append(labels, label)
PushedStack == Append(labelStack, Len(labels) + 1)
\* PopLabel: a label that has no position yet, any but a loop's, gets this one.
Positioned(position) ==
    LET id == Last(labelStack)
    IN  IF labels[id].offset = kInvalidIndex
        THEN [labels EXCEPT ![id].offset = position] ELSE labels
BranchLabel(depth) == labelStack[Len(labelStack) - depth]

Opened == {"block", "loop", "if"}
\* The bounds: the ends still owed count towards the length.
Fits(instr, open) ==
    LET read == Append(source, instr)
        rare == {i \in DOMAIN read : read[i].op \notin Common}
    IN  /\ Len(read) + open <= IF rare = {} THEN MaxLength ELSE ShortLength
        /\ Cardinality(rare) <= MaxRare

Note == [types |-> checker.types, labels |-> checker.labels]
GiveUp ==
    /\ phase' = "rejected"
    /\ checker' = BeginFunction(Results)
    /\ opcodes' = <<>> /\ labels' = <<>> /\ labelStack' = <<>>
    /\ source' = <<>> /\ noted' = <<>>

\* What the handlers share: the checker is asked first, and a refusal ends the
\* reading of the module. After that the opcodes and the labels are written.
Handle(instr, checked, newOpcodes, newLabels, newStack) ==
    /\ Fits(instr, Len(newStack))
    /\ IF checked.ok
       THEN /\ checker' = checked
            /\ opcodes' = newOpcodes
            /\ labels' = newLabels
            /\ labelStack' = newStack
            /\ source' = Append(source, instr)
            /\ noted' = Append(noted, Note)
            /\ UNCHANGED phase
       ELSE GiveUp
Emit(instr, checked, recs) == Handle(instr, checked, opcodes \o recs, labels, labelStack)
-----------------------------------------------------------------------------
(* Instructions that only move operands. *)

OnConstExpr(type) ==
    Emit(Instr("const", <<type>>, <<>>, 0), PushTypes(checker, <<type>>), <<OpcodeRec("const", 0, 0)>>)

Is(name, class) == Operators[name].class = class
Apply(name, condition, v1, v2) ==
    LET o == Operators[name]
    IN  Emit(Instr(name, o.results, <<>>, v1 + v2),  \* one of the two is zero
             Require(CheckCall(checker, o.params, o.results), condition),
             <<OpcodeRec(name, v1, v2)>>)

OnUnaryExpr(name) == Is(name, "unary") /\ Apply(name, TRUE, 0, 0)
OnBinaryExpr(name) == Is(name, "binary") /\ Apply(name, TRUE, 0, 0)
OnCompareExpr(name) == Is(name, "compare") /\ Apply(name, TRUE, 0, 0)
OnConvertExpr(name) == Is(name, "convert") /\ Apply(name, TRUE, 0, 0)

\* Mutant: a plain access emits its numbers as an atomic one does.
LoadAsAtomic(name, aligned, offset) == Is(name, "load") /\ Apply(name, HasMemory /\ aligned, 0, offset)

\* value64 of a plain access: the offset in v1, the memory index in v2.
OnLoadExpr(name, aligned, offset) == Is(name, "load") /\ Apply(name, HasMemory /\ aligned, offset, 0)
OnStoreExpr(name, aligned, offset) == Is(name, "store") /\ Apply(name, HasMemory /\ aligned, offset, 0)
\* The atomic ones have it the other way round.
ApplyAtomic(name, class, aligned, offset) ==
    Is(name, class) /\ Apply(name, HasMemory /\ aligned, 0, offset)
OnAtomicLoadExpr(name, aligned, offset) == ApplyAtomic(name, "atomic_load", aligned, offset)
OnAtomicStoreExpr(name, aligned, offset) == ApplyAtomic(name, "atomic_store", aligned, offset)
OnAtomicRmwExpr(name, aligned, offset) == ApplyAtomic(name, "atomic_rmw", aligned, offset)
OnAtomicRmwCmpxchgExpr(name, aligned, offset) == ApplyAtomic(name, "atomic_cmpxchg", aligned, offset)
\* OnAtomicWaitExpr and OnAtomicWakeExpr return an error once they have emitted.
OnAtomicWaitExpr == GiveUp

OnCurrentMemoryExpr(name) == Is(name, "current_memory") /\ Apply(name, HasMemory, 0, 0)
OnGrowMemoryExpr(name) == Is(name, "grow_memory") /\ Apply(name, HasMemory, 0, 0)
OnCallExpr(name) == Is(name, "call") /\ Apply(name, TRUE, 0, 0)
\* The index of the table element is the last parameter.
OnCallIndirectExpr(name) == Is(name, "call_indirect") /\ Apply(name, HasTable, 0, 0)

OnDropExpr == Emit(Plain("drop"), DropTypes(checker, 1), <<OpcodeRec("drop", 0, 0)>>)
OnSelectExpr == Emit(Plain("select"), OnSelect(checker), <<OpcodeRec("select", 0, 0)>>)

Variable(op, index, checked) == Emit(Instr(op, <<>>, <<>>, index), checked, <<OpcodeRec(op, index, 0)>>)
NoSuch(op, index) == Variable(op, index, Fail(checker))

OnGetLocalExpr(index) ==
    IF index \in DOMAIN LocalTypes
    THEN Variable("get_local", index, PushTypes(checker, <<LocalTypes[index]>>))
    ELSE NoSuch("get_local", index)
OnSetLocalExpr(index) ==
    IF index \in DOMAIN LocalTypes
    THEN Variable("set_local", index, PopAndCheck(checker, <<LocalTypes[index]>>))
    ELSE NoSuch("set_local", index)
OnTeeLocalExpr(index) ==
    LET type == <<LocalTypes[index]>>
    IN  IF index \in DOMAIN LocalTypes
        THEN Variable("tee_local", index, CheckCall(checker, type, type))
        ELSE NoSuch("tee_local", index)

\* The global the user stack pointer is kept in has opcodes of its own.
GlobalRec(op, stackOp, index) ==
    IF index = StackPointer THEN OpcodeRec(stackOp, 0, 0) ELSE OpcodeRec(op, index, 0)
OnGetGlobalExpr(index) ==
    IF index \in DOMAIN Globals
    THEN Emit(Instr("get_global", <<>>, <<>>, index),
              PushTypes(checker, <<Globals[index].type>>),
              <<GlobalRec("get_global", "interp_get_stack", index)>>)
    ELSE NoSuch("get_global", index)
OnSetGlobalExpr(index) ==
    IF index \in DOMAIN Globals
    THEN Emit(Instr("set_global", <<>>, <<>>, index),
              Require(PopAndCheck(checker, <<Globals[index].type>>), Globals[index].mutable),
              <<GlobalRec("set_global", "interp_set_stack", index)>>)
    ELSE NoSuch("set_global", index)
-----------------------------------------------------------------------------
(* Control. *)

OnBlockExpr(sig) ==
    LET checked == OnBlock(checker, sig)
    IN  Handle(Instr("block", sig, <<>>, 0), checked, opcodes,
               Pushed(Label(Len(sig), Len(checked.types), kInvalidIndex, kInvalidIndex)), PushedStack)

\* A loop's label has its position from the start: the next opcode.
OnLoopExpr(sig) ==
    LET checked == OnLoop(checker, sig)
    IN  Handle(Instr("loop", sig, <<>>, 0), checked, opcodes,
               Pushed(Label(Len(sig), Len(checked.types), NextPosition, kInvalidIndex)), PushedStack)

\* Mutant: the label is made before the condition is popped.
IfUnpopped(sig) ==
    Handle(Instr("if", sig, <<>>, 0), OnIf(checker, sig),
           Append(opcodes, OpcodeRec("if", Len(labels) + 1, kInvalidIndex)),
           Pushed(Label(Len(sig), Len(checker.types), kInvalidIndex, NextPosition)), PushedStack)
\* The label remembers the If, for the else to tell it where to go.
OnIfExpr(sig) ==
    LET checked == OnIf(checker, sig)
    IN  Handle(Instr("if", sig, <<>>, 0), checked,
               Append(opcodes, OpcodeRec("if", Len(labels) + 1, kInvalidIndex)),
               Pushed(Label(Len(sig), Len(checked.types), kInvalidIndex, NextPosition)), PushedStack)

\* Mutant: a condition that fails lands on the Else, and skips its branch.
ElseOnElse ==
    LET emitted == Append(opcodes, OpcodeRec("else", Last(labelStack), kInvalidIndex))
    IN  Handle(Plain("else"), OnElse(checker),
               [emitted EXCEPT ![labels[Last(labelStack)].origin].v2 = Len(emitted)],
               labels, labelStack)
\* Writes into the If: a condition that fails lands after the Else.
OnElseExpr ==
    LET id      == Last(labelStack)
        emitted == Append(opcodes, OpcodeRec("else", id, kInvalidIndex))
    IN  Handle(Plain("else"), OnElse(checker),
               [emitted EXCEPT ![labels[id].origin].v2 = Len(emitted) + 1], labels, labelStack)

\* Mutant: the label is popped first, and the End gets those of the one around it.
EndOfOuter ==
    LET label == labels[labelStack[Len(labelStack) - 1]]
    IN  /\ Len(labelStack) > 1
        /\ Handle(Plain("end"), OnEnd(checker),
                  Append(opcodes, OpcodeRec("end", label.stack, label.results)),
                  Positioned(NextPosition), Front(labelStack))
\* Branches to the construct that ends here land on the End itself.
OnEndExpr ==
    LET label == labels[Last(labelStack)]
    IN  /\ Len(labelStack) > 1
        /\ Handle(Plain("end"), OnEnd(checker),
                  Append(opcodes, OpcodeRec("end", label.stack, label.results)),
                  Positioned(NextPosition), Front(labelStack))

\* What compilers emit and CleanLoops assumes: going back to a loop, they leave
\* no operand of this turn behind.
Clean(c, depths) ==
    \A d \in Range(depths) :
        (CleanLoops /\ HasLabel(c, d) /\ ~TopLabel(c).unreachable /\ GetLabel(c, d).kind = "Loop")
            => Len(c.types) <= GetLabel(c, d).limit
JumpRec(op, depth) == OpcodeRec(op, BranchLabel(depth), kInvalidIndex)

OnBrExpr(depth) ==
    /\ Clean(checker, <<depth>>)
    /\ Emit(Instr("br", <<>>, <<depth>>, 0), OnBr(checker, depth), <<JumpRec("br", depth)>>)
OnBrIfExpr(depth) ==
    /\ Clean(DropTypes(checker, 1), <<depth>>)
    /\ Emit(Instr("br_if", <<>>, <<depth>>, 0), OnBrIf(checker, depth), <<JumpRec("br_if", depth)>>)
\* A head that holds the number of targets before the default, then the targets.
OnBrTableExpr(depths) ==
    /\ Clean(DropTypes(checker, 1), depths)
    /\ Emit(Instr("br_table", <<>>, depths, 0), OnBrTable(checker, depths),
            <<OpcodeRec("br_table", Len(depths) - 1, 0)>>
              \o [i \in DOMAIN depths |-> JumpRec("br_table", depths[i])])

OnReturnExpr == Emit(Plain("return"), OnReturn(checker), <<OpcodeRec("return", Len(Results), 0)>>)
OnUnreachableExpr ==
    Emit(Plain("unreachable"), SetUnreachable(checker), <<OpcodeRec("unreachable", 0, 0)>>)
-----------------------------------------------------------------------------
(* The body as a whole. *)

BeginFunctionBody ==
    /\ phase = "reading"
    /\ checker = BeginFunction(Results)
    /\ opcodes = <<>>
    /\ labels = <<Label(Len(Results), 0, kInvalidIndex, kInvalidIndex)>>
    /\ labelStack = <<1>>
    /\ source = <<>> /\ noted = <<>>

Jumps == {"br", "br_if", "br_table", "if", "else"}
\* Every jump that has no target yet gets its label's position.
Patched(positions) ==
    [i \in DOMAIN opcodes |->
        IF opcodes[i].op \in Jumps /\ opcodes[i].v2 = kInvalidIndex
        THEN [opcodes[i] EXCEPT !.v2 = positions[opcodes[i].v1].offset] ELSE opcodes[i]]

\* The last end: the function's label gets the position after the last opcode.
EndFunctionBody ==
    IF EndFunction(checker).ok
    THEN /\ phase' = "running"
         /\ checker' = EndFunction(checker)
         /\ opcodes' = Patched(Positioned(NextPosition))
         /\ labels' = <<>>
         /\ labelStack' = Front(labelStack)
         /\ source' = Append(source, Plain("end"))
         /\ noted' = Append(noted, Note)
    ELSE GiveUp

Depths == 0 .. Len(labelStack)
Indices(sequence) == 1 .. Len(sequence) + 1

\* ReadFunctionBody: the instruction decides on the handler.
ReadControl ==
    \/ \E sig \in BlockTypes : OnBlockExpr(sig) \/ OnLoopExpr(sig) \/ OnIfExpr(sig)
    \/ OnElseExpr \/ OnEndExpr \/ OnReturnExpr \/ OnUnreachableExpr
    \/ \E depth \in Depths : OnBrExpr(depth) \/ OnBrIfExpr(depth)
    \/ \E depths \in BrTables : OnBrTableExpr(depths)

ReadOperands ==
    \/ OnDropExpr \/ OnSelectExpr
    \/ \E type \in ConstTypes : OnConstExpr(type)
    \/ \E index \in Indices(LocalTypes) :
        OnGetLocalExpr(index) \/ OnSetLocalExpr(index) \/ OnTeeLocalExpr(index)
    \/ \E index \in Indices(Globals) : OnGetGlobalExpr(index) \/ OnSetGlobalExpr(index)

ReadOperator ==
    \E name \in DOMAIN Operators :
        \/ OnUnaryExpr(name) \/ OnBinaryExpr(name)
        \/ OnCompareExpr(name) \/ OnConvertExpr(name)
        \/ OnCurrentMemoryExpr(name) \/ OnGrowMemoryExpr(name)
        \/ OnCallExpr(name) \/ OnCallIndirectExpr(name)

ReadAccess ==
    \E name \in DOMAIN Operators, aligned \in BOOLEAN :
        \/ \E offset \in Offsets :
            OnLoadExpr(name, aligned, offset) \/ OnStoreExpr(name, aligned, offset)
        \/ \E offset \in AtomicOffsets :
            \/ OnAtomicLoadExpr(name, aligned, offset) \/ OnAtomicStoreExpr(name, aligned, offset)
            \/ OnAtomicRmwExpr(name, aligned, offset)
            \/ OnAtomicRmwCmpxchgExpr(name, aligned, offset)

Read ==
    /\ phase = "reading"
    /\ \/ ReadControl \/ ReadOperands \/ ReadOperator \/ ReadAccess
       \/ OnAtomicWaitExpr \/ EndFunctionBody
-----------------------------------------------------------------------------
\* While a body is read, the compiler's labels say of every open construct
\* what the checker's do: how high the operands below it are and how many
\* results it leaves. The two stacks are pushed and popped in different
\* classes; EmitOpcodeValue(End, stack, results) trusts that they agree.
LabelsInStep ==
    phase = "reading" =>
        /\ Len(labelStack) = Len(checker.labels)
        /\ \A k \in DOMAIN labelStack :
            /\ labels[labelStack[k]].stack = checker.labels[k].limit
            /\ labels[labelStack[k]].results = Len(checker.labels[k].sig)
==============================================================================
