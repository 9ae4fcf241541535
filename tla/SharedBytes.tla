----------------------------- MODULE SharedBytes -----------------------------
(***************************************************************************)
(* What guests are promised of the memory they share: every access is one  *)
(* step on the bytes it names, in memory and, when atomic, aligned; else   *)
(* the guest is trapped and no byte changes.                               *)
(***************************************************************************)
EXTENDS Integers, Sequences

CONSTANTS Thread, ByteBits

VARIABLES memory,  \* address -> byte
          rest,    \* thread -> the instructions it has not executed
          stack,   \* thread -> its operands
          trap     \* thread -> "" or why it stopped

vars == <<memory, rest, stack, trap>>

SizeOf(t) == IF t = "i32" THEN 4 ELSE 8
Digit(v, n) == (v \div 2 ^ (n * ByteBits)) % 2 ^ ByteBits

\* The operands of the kind of access i above its address.
Arguments(i) == CASE i.op = "load" -> 0 [] i.op \in {"store", "rmw"} -> 1 [] i.op = "cmpxchg" -> 2

\* rmw functions on the bits of a and b.
BitOf(v, n) == (v \div 2 ^ n) % 2
Updated(f, a, b, bits) ==
    LET Same(v) == \A n \in 0 .. bits - 1 :
            BitOf(v, n) = CASE f = "and" -> BitOf(a, n) * BitOf(b, n)
                            [] f = "or" -> IF BitOf(a, n) + BitOf(b, n) > 0 THEN 1 ELSE 0
                            [] f = "xor" -> (BitOf(a, n) + BitOf(b, n)) % 2
    IN CASE f = "add" -> (a + b) % 2 ^ bits
         [] f = "sub" -> (a - b) % 2 ^ bits
         [] f = "xchg" -> b % 2 ^ bits
         [] f \in {"and", "or", "xor"} -> CHOOSE v \in 0 .. 2 ^ bits - 1 : Same(v)

\* A load gives the number its bytes are the digits of, the sign carried on if signed.
Access(t) ==
    LET i == Head(rest[t])
        bits == i.bytes * ByteBits
        Arg(n) == stack[t][Len(stack[t]) + 1 - n]
        first == Arg(Arguments(i) + 1) + i.offset
        touched == first .. first + i.bytes - 1
        below == SubSeq(stack[t], 1, Len(stack[t]) - Arguments(i) - 1)
        old == CHOOSE v \in 0 .. 2 ^ bits - 1 : \A n \in 0 .. i.bytes - 1 : Digit(v, n) = memory[first + n]
        wide == 2 ^ (SizeOf(i.type) * ByteBits)
        loaded == IF i.signed /\ 2 * old >= 2 ^ bits THEN old - 2 ^ bits + wide ELSE old
        Written(v) == [a \in DOMAIN memory |-> IF a \in touched THEN Digit(v, a - first) ELSE memory[a]]
    IN IF ~(touched \subseteq DOMAIN memory)
       THEN trap' = [trap EXCEPT ![t] = "MemoryAccessOutOfBounds"] /\ UNCHANGED <<memory, stack>>
       ELSE IF i.atomic /\ first % i.bytes # 0
       THEN trap' = [trap EXCEPT ![t] = "AtomicMemoryAccessUnaligned"] /\ UNCHANGED <<memory, stack>>
       ELSE /\ UNCHANGED trap
            /\ memory' = CASE i.op = "load" -> memory
                           [] i.op = "store" -> Written(Arg(1))
                           [] i.op = "rmw" -> Written(Updated(i.function, old, Arg(1), bits))
                           [] i.op = "cmpxchg" -> IF old = Arg(2) % 2 ^ bits THEN Written(Arg(1)) ELSE memory
            /\ stack' = [stack EXCEPT ![t] = IF i.op = "store" THEN below ELSE Append(below, loaded)]

\* What needs no memory changes nothing but the operands, or traps.
Compute(t) ==
    /\ UNCHANGED memory
    /\ \A u \in Thread \ {t} : stack'[u] = stack[u] /\ trap'[u] = trap[u]

Init == /\ \A t \in Thread : trap[t] = ""
        /\ memory \in [DOMAIN memory -> 0 .. 2 ^ ByteBits - 1]

Next == \E t \in Thread :
    /\ trap[t] = "" /\ rest[t] # <<>>
    /\ rest' = [rest EXCEPT ![t] = Tail(@)]
    /\ IF Head(rest[t]).op \in {"load", "store", "rmw", "cmpxchg"} THEN Access(t) ELSE Compute(t)
=============================================================================
