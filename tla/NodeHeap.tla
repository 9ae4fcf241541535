------------------------------ MODULE NodeHeap ------------------------------
(***************************************************************************)
(* What ScriptRuntime::Allocator promises to the pools of the guest: an    *)
(* allocation returns a piece of the linear memory that is large enough    *)
(* and shares no byte with a piece handed out before and not yet freed.    *)
(* ScriptAllocator is the implementation.                                  *)
(***************************************************************************)
EXTENDS Integers

CONSTANTS Base,      \* the first unit after the allocator itself
          Limit,     \* the units the memory can ever have
          Requests   \* the sizes asked for

VARIABLE held        \* the nodes handed out and not freed

Nodes == [start : Base .. Limit - 1, units : 1..Limit]

Units(n) == n.start .. n.start + n.units - 1

Init == held = {}

Alloc(r) == \E n \in Nodes :
              /\ n.units >= r
              /\ n.start + n.units <= Limit
              /\ \A m \in held : Units(m) \cap Units(n) = {}
              /\ held' = held \cup {n}

Free == \E gone \in (SUBSET held) \ {{}} : held' = held \ gone

Next == Free \/ \E r \in Requests : Alloc(r)

Spec == Init /\ [][Next]_held
=============================================================================
