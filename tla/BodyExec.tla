------------------------------- MODULE BodyExec -------------------------------
(***************************************************************************)
(* A body of FuncCompiler, run by the loop of Thread::Run                   *)
(* (wasm/Thread.cpp, with wasm/ThreadUtils.cc): one frame, its locals at    *)
(* the bottom of the value stack and its operands above them.               *)
(*                                                                          *)
(* A value is the type it was made with and the instruction that made it:   *)
(* enough to tell when a jump leaves the wrong operand on the stack.        *)
(* Conditions, addresses and the contents of memory are choices, and so is  *)
(* the trap of an instruction that can trap. A call takes its arguments and *)
(* leaves results; frames are the matter of module Interp.                  *)
(***************************************************************************)
EXTENDS FuncCompiler

VARIABLES
    pc,       \* _currentFrame->position
    stack,    \* _valueStack up to _valueStackTop, the frame's locals first
    globals   \* the values of the module's globals, _userStackPointer among them

vars == <<phase, checker, opcodes, labels, labelStack, source, noted, pc, stack, globals>>

Value(type, src) == [type |-> type, src |-> src]
Values(types, src) == [i \in DOMAIN types |-> Value(types[i], src)]

Init ==
    /\ BeginFunctionBody
    /\ pc = 1
    /\ stack = Values(LocalTypes, 0)
    /\ globals = [g \in DOMAIN Globals |-> Value(Globals[g].type, 0)]
-----------------------------------------------------------------------------
Running == phase = "running" /\ pc <= Len(opcodes)
At(op) == Running /\ opcodes[pc].op = op

Top(n) == SubSeq(stack, Len(stack) - n + 1, Len(stack))
Without(n) == SubSeq(stack, 1, Len(stack) - n)
Pick(depth) == stack[Len(stack) - depth + 1]

\* An opcode that ends with ++ it.
Advance(newStack) ==
    /\ stack' = newStack
    /\ pc' = pc + 1
    /\ UNCHANGED <<phase, compilerVars, globals>>
JumpTo(target, newStack) ==
    /\ stack' = newStack
    /\ pc' = target
    /\ UNCHANGED <<phase, compilerVars, globals>>
Trap ==
    /\ phase' = "trapped"
    /\ UNCHANGED <<compilerVars, pc, stack, globals>>

\* Leaves the frame with its results where its locals were.
PopCall(results) ==
    /\ phase' = "returned"
    /\ stack' = Top(results)
    /\ UNCHANGED <<compilerVars, pc, globals>>
-----------------------------------------------------------------------------
(* Operators: arguments off the stack, a result onto it. *)

CurrentClass(classes) ==
    /\ Running
    /\ opcodes[pc].op \in DOMAIN Operators
    /\ Operators[opcodes[pc].op].class \in classes
\* Pop for every argument, Push for a result.
Operate ==
    LET o == Operators[opcodes[pc].op]
    IN  Advance(Without(Len(o.params)) \o Values(o.results, opcodes[pc].src))

ExecConst == At("const") /\ Advance(stack \o Values(source[opcodes[pc].src].sig, opcodes[pc].src))
\* Unop and Binop; UnopTrap and BinopTrap are those of conversions and divisions.
ExecUnop == CurrentClass({"unary"}) /\ Operate
ExecBinop == CurrentClass({"compare"}) /\ Operate
ExecBinopTrap == CurrentClass({"binary"}) /\ (Operate \/ Trap)
ExecConvert == CurrentClass({"convert"}) /\ (Operate \/ Trap)
ExecCurrentMemory == CurrentClass({"current_memory"}) /\ Operate
ExecGrowMemory == CurrentClass({"grow_memory"}) /\ Operate
ExecCall == CurrentClass({"call", "call_indirect"}) /\ (Operate \/ Trap)

\* GetAccessAddress and GetAtomicAccessAddress: v2 is the index of the memory,
\* v1 the static offset. There is one memory; another index is past the end
\* of the vector of memories, and the program may do anything, here stop.
MemoryIndex == opcodes[pc].v2
StaticOffset == opcodes[pc].v1
Access(classes) == CurrentClass(classes) /\ (Trap \/ (MemoryIndex = 0 /\ Operate))
ExecLoad == Access({"load"})
ExecStore == Access({"store"})
ExecAtomicLoad == Access({"atomic_load"})
ExecAtomicStore == Access({"atomic_store"})
ExecAtomicRmw == Access({"atomic_rmw"})
ExecAtomicRmwCmpxchg == Access({"atomic_cmpxchg"})

ExecDrop == At("drop") /\ Advance(Without(1))
ExecSelect ==
    /\ At("select")
    /\ \E cond \in BOOLEAN :
        Advance(Append(Without(3), IF cond THEN Pick(3) ELSE Pick(2)))

ExecGetLocal == At("get_local") /\ Advance(Append(stack, stack[opcodes[pc].v1]))
ExecSetLocal ==
    At("set_local") /\ Advance(SubSeq([stack EXCEPT ![opcodes[pc].v1] = Pick(1)], 1, Len(stack) - 1))
ExecTeeLocal == At("tee_local") /\ Advance([stack EXCEPT ![opcodes[pc].v1] = Pick(1)])

ExecGetGlobal == At("get_global") /\ Advance(Append(stack, globals[opcodes[pc].v1]))
ExecGetStack == At("interp_get_stack") /\ Advance(Append(stack, globals[StackPointer]))
StoreGlobal(index) ==
    /\ globals' = [globals EXCEPT ![index] = Pick(1)]
    /\ stack' = Without(1)
    /\ pc' = pc + 1
    /\ UNCHANGED <<phase, compilerVars>>
ExecSetGlobal == At("set_global") /\ StoreGlobal(opcodes[pc].v1)
\* The user stack pointer does not go below its guard.
ExecSetStack == At("interp_set_stack") /\ (StoreGlobal(StackPointer) \/ Trap)
-----------------------------------------------------------------------------
(* Control. *)

ExecBr == (At("br") \/ At("else")) /\ JumpTo(opcodes[pc].v2, stack)
ExecBrIf ==
    /\ At("br_if")
    /\ \E cond \in BOOLEAN : JumpTo(IF cond THEN opcodes[pc].v2 ELSE pc + 1, Without(1))
ExecIf ==
    /\ At("if")
    /\ \E cond \in BOOLEAN : JumpTo(IF cond THEN pc + 1 ELSE opcodes[pc].v2, Without(1))
\* A key beyond the targets takes the last record, the default.
ExecBrTable ==
    /\ At("br_table")
    /\ \E key \in 0 .. opcodes[pc].v1 + 1 :
        LET targets == opcodes[pc].v1
            target  == pc + (IF key >= targets THEN targets ELSE key) + 1
        IN  JumpTo(opcodes[target].v2, Without(1))

\* StoreResult: the results move down to the height the construct was entered at.
ExecEnd ==
    /\ At("end")
    /\ LET base == Len(LocalTypes) + opcodes[pc].v1
       IN  Advance(SubSeq(stack, 1, base) \o Top(opcodes[pc].v2))

ExecReturn == At("return") /\ PopCall(opcodes[pc].v1)
ExecUnreachable == At("unreachable") /\ Trap
\* it == end: the loop over the opcodes is left and the frame popped.
ImplicitReturn == phase = "running" /\ pc > Len(opcodes) /\ PopCall(Len(Results))

ExecOperands ==
    \/ ExecConst \/ ExecDrop \/ ExecSelect
    \/ ExecUnop \/ ExecBinop \/ ExecBinopTrap \/ ExecConvert
    \/ ExecCurrentMemory \/ ExecGrowMemory \/ ExecCall
    \/ ExecLoad \/ ExecStore \/ ExecAtomicLoad \/ ExecAtomicStore
    \/ ExecAtomicRmw \/ ExecAtomicRmwCmpxchg
    \/ ExecGetLocal \/ ExecSetLocal \/ ExecTeeLocal
    \/ ExecGetGlobal \/ ExecGetStack \/ ExecSetGlobal \/ ExecSetStack
ExecControl ==
    \/ ExecBr \/ ExecBrIf \/ ExecIf \/ ExecBrTable \/ ExecEnd
    \/ ExecReturn \/ ExecUnreachable \/ ImplicitReturn

Run == ExecOperands \/ ExecControl
Next == (Read /\ UNCHANGED <<pc, stack, globals>>) \/ Run
Spec == Init /\ [][Next]_vars
-----------------------------------------------------------------------------
(* The compiled body against the structured one. *)

Loaded == phase \in {"running", "returned", "trapped"}
Position == IF pc <= Len(opcodes) THEN opcodes[pc].src ELSE Len(source)
Operands == SubSeq(stack, Len(LocalTypes) + 1, Len(stack))

Shape == INSTANCE StructuredCode WITH
    status <- phase, body <- source, pc <- pc, frames <- <<>>,
    operands <- stack, locals <- stack, globals <- globals

\* The constructs around the current instruction, and how high the checker
\* says the operands were when each of them was entered.
Enclosing ==
    SetToSortSeq({i \in 1 .. Position - 1 :
                    source[i].op \in Opened /\ Shape!EndOf(source, i) >= Position}, <)
EnteredAt(i) == Len(noted[i].types) - (IF source[i].op = "if" THEN 1 ELSE 0)
\* A branch to the end of a block leaves the dropping of operands to the End
\* it jumps to, and a branch to the end of the body to PopCall.
DueAt(position) ==
    IF position = Len(source) THEN Top(Len(Results))
    ELSE IF source[position].op = "end"
    THEN LET start == Last(Enclosing)
         IN  SubSeq(Operands, 1, EnteredAt(start)) \o Top(Len(source[start].sig))
    ELSE Operands

Structured == INSTANCE StructuredCode WITH
    status <- phase,
    body <- IF Loaded THEN source ELSE <<>>,
    pc <- IF Loaded THEN Position ELSE 0,
    frames <- IF phase \in {"running", "trapped"}
              THEN [k \in DOMAIN Enclosing |->
                       [start |-> Enclosing[k], height |-> EnteredAt(Enclosing[k])]]
              ELSE <<>>,
    operands <- IF phase = "returned" THEN stack
                ELSE IF Loaded THEN DueAt(Position) ELSE <<>>,
    locals <- IF phase = "returned" THEN <<>> ELSE SubSeq(stack, 1, Len(LocalTypes)),
    globals <- globals

\* The emitted opcodes with their patched jumps do what the structured body
\* means: every operand an instruction takes, and every result, is the one
\* the same instruction of the source had put there.
ImplementsStructured == Structured!Spec
-----------------------------------------------------------------------------
TypeOK ==
    /\ phase \in {"reading", "running", "returned", "trapped", "rejected"}
    /\ checker.ok
    /\ Len(noted) = Len(source)
    /\ Loaded => \A i \in DOMAIN opcodes :
                    opcodes[i].op \in Jumps => opcodes[i].v2 \in 0 .. Len(opcodes) + 1
    /\ pc \in 1 .. Len(opcodes) + 1 \/ phase # "running"
    /\ \A i \in DOMAIN stack : stack[i].src \in 0 .. Len(source)

TypesOf(values) == [i \in DOMAIN values |-> values[i].type]

\* When an opcode is executed, the operands have the types the checker had on
\* its stack when it accepted the instruction, and the checker did not take
\* the instruction, nor a construct around it, for unreachable: so no opcode reads
\* an operand of another type, a local, or what lies below the frame. An End that was
\* jumped to may find more below its results, and be taken for unreachable itself;
\* what it keeps has the types from before the construct and those of its results.
OperandsAsChecked ==
    /\ TypeOK
    /\ phase = "running" =>
        LET known == noted[Position]
            label == Last(known.labels)
            live(n) == \A k \in 1 .. n : ~known.labels[k].unreachable
            kept == SubSeq(Operands, 1, label.limit) \o Top(Len(label.sig))
        IN  IF source[Position].op # "end"
            THEN live(Len(known.labels)) /\ TypesOf(Operands) = known.types
            ELSE /\ live(Len(known.labels) - 1)
                 /\ Len(Operands) >= label.limit + Len(label.sig)
                 /\ TypesOf(kept) = SubSeq(known.types, 1, label.limit) \o label.sig
                 /\ ~label.unreachable => TypesOf(kept) = known.types

\* An access goes to the memory and adds the offset its instruction names. An atomic
\* one does so only if the offset is 0: BinarySource.cc emits its offset where
\* GetAtomicAccessAddress looks for the number of a memory, and there is only one.
AccessAsWritten ==
    Running =>
        LET rec == opcodes[pc]
            written == source[rec.src].arg
            Class(classes) == rec.op \in DOMAIN Operators /\ Operators[rec.op].class \in classes
        IN  /\ Class({"load", "store"}) => MemoryIndex = 0 /\ StaticOffset = written
            /\ Class({"atomic_load", "atomic_store", "atomic_rmw", "atomic_cmpxchg"})
                 => StaticOffset = 0 /\ (MemoryIndex = 0 <=> written = 0)
=============================================================================
