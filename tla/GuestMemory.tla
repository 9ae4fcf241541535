----------------------------- MODULE GuestMemory -----------------------------
(***************************************************************************)
(* Thread::Run on opcodes without control: what loads, stores and atomic   *)
(* accesses of ThreadUtils.cc do to a memory that threads share, and the   *)
(* numeric opcodes of NumericOps.                                          *)
(*                                                                         *)
(* A memcpy of the size of a type is one step.  AtomicRmw and              *)
(* AtomicRmwCmpxchg are two, a load and a store, for other threads may run *)
(* between them.  Bytes have ByteBits bits, little end first; floats are   *)
(* loaded and stored as the integers of their size.  The memory does not   *)
(* grow here: ThreadSync is about that.                                    *)
(***************************************************************************)
EXTENDS OpcodeMeaning, Sequences

CONSTANTS Thread,
          ByteBits,
          Contents,       \* the bytes the memory begins with, at addresses from 0
          Opcodes,        \* the instructions a thread may execute alone,
          OperandsOf(_),  \* the operands to try for each, the top one last
          Racing          \* the [code, stack] of threads that run at once

ASSUME WidthsAreBytes == ByteBits * 4 = Width["i32"] /\ ByteBits * 8 = Width["i64"]

MemorySize == Cardinality(DOMAIN Contents)
NoRead == [addr |-> -1, value |-> 0]

VARIABLES program,  \* thread -> the [code, stack] it began with
          memory,   \* memory->data
          rest,     \* the instructions from it on
          stack,    \* _valueStack
          trap,     \* the result, "" while there is none
          read      \* what an atomic access has read and not yet stored over

vars == <<program, memory, rest, stack, trap, read>>
-----------------------------------------------------------------------------
Idle == [code |-> <<>>, stack |-> <<>>]

Init ==
    /\ \/ \E i \in Opcodes : \E args \in OperandsOf(i) :
             LET first == CHOOSE t \in Thread : TRUE
             IN program = [t \in Thread |->
                             IF t = first THEN [code |-> <<i>>, stack |-> args] ELSE Idle]
       \/ program \in [Thread -> Racing]
    /\ memory = Contents
    /\ rest = [t \in Thread |-> program[t].code]
    /\ stack = [t \in Thread |-> program[t].stack]
    /\ trap = [t \in Thread |-> ""]
    /\ read = [t \in Thread |-> NoRead]

It(t) == Head(rest[t])
Below(t, n) == SubSeq(stack[t], 1, Len(stack[t]) - n)
Pick(t, depth) == stack[t][Len(stack[t]) + 1 - depth]

Executes(t, op) == trap[t] = "" /\ read[t] = NoRead /\ rest[t] # <<>> /\ It(t).op = op

\* Mutant: the sum has 32 bits.
WrappedAddress(base, i) == (base + i.offset) % 2 ^ Width["i32"]

\* GetAccessAddress and GetAtomicAccessAddress: the sum has 64.
Address(base, i) == base + i.offset
AccessTrap(addr, i) ==
    IF addr + i.bytes > MemorySize THEN "MemoryAccessOutOfBounds"
    ELSE IF i.atomic /\ (addr & (i.bytes - 1)) # 0 THEN "AtomicMemoryAccessUnaligned" ELSE ""

LoadFromMemory(addr, bytes) ==
    MapThenSumSet(LAMBDA n : memory[addr + n] * 2 ^ (n * ByteBits), 0 .. bytes - 1)
StoreToMemory(addr, bytes, v) ==
    LET Byte(n) == (v \div 2 ^ (n * ByteBits)) % 2 ^ ByteBits
    IN memory' = [a \in DOMAIN memory |->
                    IF a \in addr .. addr + bytes - 1 THEN Byte(a - addr) ELSE memory[a]]

\* static_cast to ExtendedType, and the value as a MemType.
Extended(i, v) == IF i.signed THEN IntExtendS(Width[i.type], v, i.bytes * ByteBits) ELSE v
AsMemType(i, v) == Rep(i.bytes * ByteBits, v)

\* The opcode is done, with these operands.
Done(t, operands) ==
    /\ stack' = [stack EXCEPT ![t] = operands]
    /\ rest' = [rest EXCEPT ![t] = Tail(@)]
    /\ UNCHANGED <<program, trap>>
Trapped(t, name) ==
    /\ name # ""
    /\ trap' = [trap EXCEPT ![t] = name]
    /\ rest' = [rest EXCEPT ![t] = Tail(@)]
    /\ UNCHANGED <<program, memory, stack, read>>

\* The operands above the address, which is where the access goes.
Above(op) == CASE op = "load" -> 0 [] op \in {"store", "rmw"} -> 1 [] op = "cmpxchg" -> 2
At(t) == Address(Pick(t, Above(It(t).op) + 1), It(t))

Accesses(t, op) == Executes(t, op) /\ AccessTrap(At(t), It(t)) = ""
AccessTraps(t) == \E op \in {"load", "store", "rmw", "cmpxchg"} :
                     Executes(t, op) /\ Trapped(t, AccessTrap(At(t), It(t)))

Load(t) ==
    /\ Accesses(t, "load")
    /\ Done(t, Append(Below(t, 1), Extended(It(t), LoadFromMemory(At(t), It(t).bytes))))
    /\ UNCHANGED <<memory, read>>

Store(t) ==
    /\ Accesses(t, "store")
    /\ StoreToMemory(At(t), It(t).bytes, AsMemType(It(t), Pick(t, 1)))
    /\ Done(t, Below(t, 2))
    /\ UNCHANGED read

Reads(t) ==
    /\ read' = [read EXCEPT ![t] = [addr |-> At(t), value |-> LoadFromMemory(At(t), It(t).bytes)]]
    /\ UNCHANGED <<program, memory, rest, stack, trap>>

\* AtomicRmw.
RmwFunction(i, x, y) ==
    IF i.function = "xchg" THEN y ELSE IntBinary(i.function, Width[i.type], x, y).value

RmwRead(t) == Accesses(t, "rmw") /\ Reads(t)

RmwStore(t) ==
    LET i == It(t)
    IN /\ read[t] # NoRead /\ i.op = "rmw"
       /\ StoreToMemory(read[t].addr, i.bytes,
                        AsMemType(i, RmwFunction(i, read[t].value, AsMemType(i, Pick(t, 1)))))
       /\ read' = [read EXCEPT ![t] = NoRead]
       /\ Done(t, Append(Below(t, 2), read[t].value))

\* AtomicRmwCmpxchg: replace is the top, expect the one below.
CmpxchgRead(t) ==
    LET value == LoadFromMemory(At(t), It(t).bytes)
    IN /\ Accesses(t, "cmpxchg")
       /\ IF value = AsMemType(It(t), Pick(t, 2)) THEN Reads(t)
          ELSE Done(t, Append(Below(t, 3), value)) /\ UNCHANGED <<memory, read>>

CmpxchgStore(t) ==
    /\ read[t] # NoRead /\ It(t).op = "cmpxchg"
    /\ StoreToMemory(read[t].addr, It(t).bytes, AsMemType(It(t), Pick(t, 1)))
    /\ read' = [read EXCEPT ![t] = NoRead]
    /\ Done(t, Append(Below(t, 3), read[t].value))

\* Binop, BinopTrap, Unop and UnopTrap.
Operands(op) ==
    IF op \in IntBinops \cup FloatComparisons \cup {"min", "max", "div_by_zero", "copysign"}
    THEN 2 ELSE 1

Numeric(t) ==
    LET i == It(t)
        n == Operands(i.op)
        result == Apply(i, [k \in {1, 2} |-> IF k <= n THEN Pick(t, n + 1 - k) ELSE 0])
    IN /\ trap[t] = "" /\ rest[t] # <<>> /\ i.op \notin {"load", "store", "rmw", "cmpxchg"}
       /\ IF result.trap # "" THEN Trapped(t, result.trap)
          ELSE Done(t, Append(Below(t, n), result.value)) /\ UNCHANGED <<memory, read>>

Next == \E t \in Thread : \/ AccessTraps(t) \/ Load(t) \/ Store(t) \/ RmwRead(t) \/ RmwStore(t)
                          \/ CmpxchgRead(t) \/ CmpxchgStore(t) \/ Numeric(t)

Spec == Init /\ [][Next]_vars
-----------------------------------------------------------------------------
Shared == INSTANCE SharedBytes

\* The bytes an atomic access stores over are no more those it read, as another
\* thread has stored in between: its own store takes that one back.
TakesBack(t) ==
    /\ read[t] # NoRead /\ read'[t] = NoRead
    /\ LoadFromMemory(read[t].addr, It(t).bytes) # read[t].value

\* Loads, stores, read-modify-writes and compare-exchanges are single steps on the
\* bytes they name, bounds and alignment included, all but those that take back
\* another thread's store: ThreadUtils.cc 206 and 218 read and store as two accesses.
ImplementsShared ==
    Shared!Init /\ [][Shared!Next \/ \E t \in Thread : TakesBack(t)]_<<memory, rest, stack, trap>>

\* A thread that began with one numeric opcode ends with what the opcode means,
\* or with the trap it calls for: the operators of ThreadOps.cc at every operand.
OpcodesAsDefined ==
    \A t \in Thread :
       LET code == program[t].code
           args == program[t].stack
           numeric == code # <<>> /\ code[1].op \notin {"load", "store", "rmw", "cmpxchg"}
       IN (numeric /\ Len(code) = 1 /\ rest[t] = <<>>) =>
             Means(code[1], [k \in {1, 2} |-> IF k <= Len(args) THEN args[k] ELSE 0],
                   IF trap[t] = "" THEN Ok(stack[t][Len(stack[t])]) ELSE Trap(trap[t]))
=============================================================================
