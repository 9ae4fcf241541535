----------------------------- MODULE ScriptPools -----------------------------
(***************************************************************************)
(* The memory pools of one script thread: the tree of struct Pool and the  *)
(* stack of current pools of struct ThreadContext                          *)
(* (src/stappler/src/SPWasmScriptAllocator.cc), as the guest drives them   *)
(* through the host functions of SPWasmScriptMemory.cc.                    *)
(*                                                                         *)
(* A pool is in the list of its parent's children through sibling; its ref *)
(* is the address of the pointer that points at it, here the slot          *)
(* <<"child", p>> or <<"sibling", p>> that holds this pointer.             *)
(* do_destroy and clear are recursive: work is the stack of their calls,   *)
(* and each step is one turn of their loop over the children.              *)
(* What the pools allocate is in PoolMemory and in ScriptAllocator.        *)
(***************************************************************************)
EXTENDS Integers, SequencesExt, FiniteSetsExt

CONSTANTS Pools,     \* the places a pool can be at
          Cells,     \* the places a PoolCtx can be at; bounds the stack
          AnyOrder,  \* may the guest destroy a child other than the newest?
          Null

ASSUME PoolsAssumption == /\ Null \notin Pools \cup Cells
                          /\ IsFiniteSet(Pools)
                          /\ Pools # {}
                          /\ IsFiniteSet(Cells)
                          /\ Cells # {}
                          /\ AnyOrder \in BOOLEAN

VARIABLES live,       \* the pools that exist
          parent, child, sibling, ref,
          work,       \* the calls of do_destroy and clear under way
          root,       \* ThreadContext::root
          cells,      \* the cells in memory that the root pool has handed out
          poolStack,  \* ThreadContext::poolStack and unused, the heads of two
          unused,     \*   lists of PoolCtx cells
          next,       \* [Cells -> PoolCtx::next]
          pool        \* [Cells -> PoolCtx::pool]

vars == <<live, parent, child, sibling, ref, work, root, cells, poolStack, unused, next, pool>>
tree == <<live, parent, child, sibling, ref>>
stack == <<root, cells, poolStack, unused, next, pool>>

Slots == {"child", "sibling"} \X Pools

\* What a walk along the pointers of link meets from head on until it is at
\* Null, or has seen so many places that there must be a circle.
Walk(head, link, most) ==
    LET nth[k \in Nat] == IF k = 0 THEN head
                          ELSE IF nth[k - 1] = Null THEN Null ELSE link[nth[k - 1]]
        length == Min({k \in 0 .. most : nth[k] = Null} \cup {most})
    IN [k \in 1 .. length |-> nth[k - 1]]

\* The list of cells that starts at a head.
ListFrom(head) == Walk(head, next, Cardinality(Cells) + 1)

\* ScriptThread::init: a pool of the thread's own, its ThreadContext's root and
\* the first pool of the stack.
Init == \E p \in Pools :
        LET c == CHOOSE d \in Cells : TRUE IN
          /\ live = {p}
          /\ parent = [q \in Pools |-> Null]
          /\ child = [q \in Pools |-> Null]
          /\ sibling = [q \in Pools |-> Null]
          /\ ref = [q \in Pools |-> Null]
          /\ work = <<>>
          /\ root = p
          /\ cells = {c}
          /\ poolStack = c
          /\ unused = Null
          /\ next = [d \in Cells |-> Null]
          /\ pool = [d \in Cells |-> IF d = c THEN p ELSE Null]
-----------------------------------------------------------------------------
(* The pool tree *)

\* host_pool_create_unmanaged.
Create(p) == /\ work = <<>>
             /\ p \notin live
             /\ live' = live \cup {p}
             /\ UNCHANGED <<parent, child, sibling, ref, work, stack>>

\* Mutant: a child's ref is its parent, not the pointer to it.
MakeChildRefsParent(p, above) ==
    LET first == child[above]
    IN /\ work = <<>>
       /\ p \notin live
       /\ above \in live
       /\ live' = live \cup {p}
       /\ parent' = [parent EXCEPT ![p] = above]
       /\ sibling' = [sibling EXCEPT ![p] = first]
       /\ child' = [child EXCEPT ![above] = p]
       /\ ref' = [ref EXCEPT ![p] = above]
       /\ UNCHANGED <<work, stack>>

\* Pool::make_child: the new pool becomes the head of the list.  Line 623 gives
\* the former head the address of the sibling field of the parent (this).
MakeChild(p, above) ==
    LET first == child[above]
    IN /\ work = <<>>
       /\ p \notin live
       /\ above \in live
       /\ live' = live \cup {p}
       /\ parent' = [parent EXCEPT ![p] = above]
       /\ sibling' = [sibling EXCEPT ![p] = first]
       /\ child' = [child EXCEPT ![above] = p]
       /\ ref' = [q \in Pools |-> IF q = p THEN <<"child", above>>
                                  ELSE IF q = first THEN <<"sibling", above>>
                                  ELSE ref[q]]
       /\ UNCHANGED <<work, stack>>

\* Bound: once the root pool has been cleared the ThreadContext and its cells are in
\* memory that will be handed out again; what is read through them is not modelled.
Kept == cells # {}

\* ThreadContext::top, the parent host_pool_create takes when it gets none.
Top == pool[poolStack]

CreateDefault(p) == Kept /\ MakeChild(p, Top)

\* The pools the thread's stack holds, which a guest does not destroy.
InUse == {root} \cup {pool[c] : c \in ToSet(ListFrom(poolStack))}

\* p or a pool above p.
AtOrAbove(p) == ToSet(Walk(p, parent, Cardinality(Pools) + 1))

Newest(p) == parent[p] # Null => child[parent[p]] = p

\* host_pool_destroy and host_pool_clear: the first call of do_destroy (of clear).
Destroy(p) == /\ work = <<>>
              /\ p \in live
              /\ \A q \in InUse : p \notin AtOrAbove(q)
              /\ AnyOrder \/ Newest(p)
              /\ work' = << [pool |-> p, keep |-> FALSE] >>
              /\ UNCHANGED <<tree, stack>>

Clear(p) == /\ work = <<>>
            /\ p \in live
            /\ \A q \in InUse \ {p} : p \notin AtOrAbove(q)
            /\ work' = << [pool |-> p, keep |-> TRUE] >>
            /\ UNCHANGED <<tree, stack>>

\* while (child != nullptr) child->do_destroy().
DestroyChild == /\ work # <<>>
                /\ child[Last(work).pool] # Null
                /\ work' = Append(work, [pool |-> child[Last(work).pool], keep |-> FALSE])
                /\ UNCHANGED <<tree, stack>>

\* Mutant: the pointer to the pool is left as it is.
UnlinkForgotten ==
    LET p == Last(work).pool
    IN /\ work # <<>>
       /\ ~Last(work).keep
       /\ child[p] = Null
       /\ live' = live \ {p}
       /\ parent' = [parent EXCEPT ![p] = Null]
       /\ sibling' = [sibling EXCEPT ![p] = Null]
       /\ ref' = [ref EXCEPT ![p] = Null]
       /\ work' = Front(work)
       /\ UNCHANGED <<child, stack>>

\* Mutant: the pool goes before its children do.
UnlinkEarly ==
    LET p == Last(work).pool
    IN /\ work # <<>>
       /\ ~Last(work).keep
       /\ live' = live \ {p}
       /\ parent' = [parent EXCEPT ![p] = Null]
       /\ work' = Front(work)
       /\ UNCHANGED <<child, sibling, ref, stack>>

\* Mutant: the next sibling keeps its old ref.
UnlinkKeepsRef ==
    LET p == Last(work).pool
        slot == ref[p]
        at(field) == IF parent[p] # Null /\ slot[1] = field THEN slot[2] ELSE Null
    IN /\ work # <<>>
       /\ ~Last(work).keep
       /\ child[p] = Null
       /\ child' = [q \in Pools |-> IF q = at("child") THEN sibling[p] ELSE child[q]]
       /\ sibling' = [q \in Pools |-> IF q = p THEN Null
                                      ELSE IF q = at("sibling") THEN sibling[p]
                                      ELSE sibling[q]]
       /\ ref' = [ref EXCEPT ![p] = Null]
       /\ live' = live \ {p}
       /\ parent' = [parent EXCEPT ![p] = Null]
       /\ work' = Front(work)
       /\ UNCHANGED stack

\* The end of do_destroy: what ref points to and the next sibling's ref skip the
\* pool, whose nodes go back to the allocator (a dead pool's fields are Null).
Unlink ==
    LET p == Last(work).pool
        slot == ref[p]
        after == IF parent[p] # Null THEN sibling[p] ELSE Null
        at(field) == IF parent[p] # Null /\ slot[1] = field THEN slot[2] ELSE Null
    IN /\ work # <<>>
       /\ ~Last(work).keep
       /\ child[p] = Null
       /\ child' = [q \in Pools |-> IF q = at("child") THEN after ELSE child[q]]
       /\ sibling' = [q \in Pools |-> IF q = p THEN Null
                                      ELSE IF q = at("sibling") THEN after
                                      ELSE sibling[q]]
       /\ ref' = [q \in Pools |-> IF q = p THEN Null ELSE IF q = after THEN slot ELSE ref[q]]
       /\ live' = live \ {p}
       /\ parent' = [parent EXCEPT ![p] = Null]
       /\ work' = Front(work)
       /\ UNCHANGED stack

\* The end of clear: the pool stays, but all that it has handed out goes back to it.
\* The root pool's are the ThreadContext and the cells, whose pointers stay as they are.
Cleared == /\ work # <<>>
           /\ Last(work).keep
           /\ child[Last(work).pool] = Null
           /\ work' = Front(work)
           /\ cells' = IF Last(work).pool = root THEN {} ELSE cells
           /\ UNCHANGED <<tree, root, poolStack, unused, next, pool>>
-----------------------------------------------------------------------------
(* The stack of current pools *)

\* ThreadContext::push onto a cell popped before ...
PushReused(p) == /\ work = <<>>
                 /\ Kept
                 /\ p \in live
                 /\ unused # Null
                 /\ unused' = next[unused]
                 /\ pool' = [pool EXCEPT ![unused] = p]
                 /\ next' = [next EXCEPT ![unused] = poolStack]
                 /\ poolStack' = unused
                 /\ UNCHANGED <<tree, work, root, cells>>

\* ... or onto one that the root pool allocates.
\* Which of the other places it gets makes no difference.
PushNew(p) ==
    LET fresh == Cells \ cells
        cell == CHOOSE c \in fresh : TRUE
    IN /\ work = <<>>
       /\ Kept
       /\ p \in live
       /\ unused = Null
       /\ fresh # {}
       /\ cells' = cells \cup {cell}
       /\ pool' = [pool EXCEPT ![cell] = p]
       /\ next' = [next EXCEPT ![cell] = poolStack]
       /\ poolStack' = cell
       /\ UNCHANGED <<tree, work, root, unused>>

\* Mutant: the cells popped before are forgotten.
PopForgetsUnused == /\ work = <<>>
                    /\ Kept
                    /\ next[poolStack] # Null
                    /\ poolStack' = next[poolStack]
                    /\ next' = [next EXCEPT ![poolStack] = Null]
                    /\ unused' = poolStack
                    /\ UNCHANGED <<tree, work, root, cells, pool>>

\* ThreadContext::pop.  A guest pops only what it has pushed: popping the root
\* would make top read through a null pointer.
Pop == /\ work = <<>>
       /\ Kept
       /\ next[poolStack] # Null
       /\ poolStack' = next[poolStack]
       /\ next' = [next EXCEPT ![poolStack] = unused]
       /\ unused' = poolStack
       /\ UNCHANGED <<tree, work, root, cells, pool>>
-----------------------------------------------------------------------------
Destroying == DestroyChild \/ Unlink \/ Cleared

Next == \/ \E p \in Pools :
             \/ Create(p) \/ CreateDefault(p) \/ Destroy(p) \/ Clear(p) \/ PushReused(p)
             \/ PushNew(p)
             \/ \E above \in Pools : MakeChild(p, above)
        \/ Pop
        \/ Destroying

Spec == Init /\ [][Next]_vars

\* The calls under way go on.
FairSpec == Spec /\ WF_vars(Destroying)
-----------------------------------------------------------------------------
(* Properties *)

TypeOK == /\ live \subseteq Pools
          /\ parent \in [Pools -> Pools \cup {Null}]
          /\ child \in [Pools -> Pools \cup {Null}]
          /\ sibling \in [Pools -> Pools \cup {Null}]
          /\ ref \in [Pools -> Slots \cup {Null}]
          /\ work \in Seq([pool : Pools, keep : BOOLEAN])
          /\ root \in Pools
          /\ cells \subseteq Cells
          /\ poolStack \in Cells
          /\ unused \in Cells \cup {Null}
          /\ next \in [Cells -> Cells \cup {Null}]
          /\ pool \in [Cells -> Pools \cup {Null}]

\* The pools that a walk from p's child through the siblings meets.
ChildList(p) == Walk(child[p], sibling, Cardinality(Pools) + 1)

\* The list of a pool's children has each of its living children, once, and
\* nothing else, also while do_destroy works on it: what line 588 removes from
\* "the parents child list" is the pool and no other.
ChildListExact ==
    \A p \in live : /\ IsInjective(ChildList(p))
                    /\ ToSet(ChildList(p)) = {q \in live : parent[q] = p}

Forest == INSTANCE PoolForest

\* Pools come and go as in the abstract forest: no pool before its descendants.
ImplementsForest == Forest!Spec

\* A call of do_destroy or clear ends.
DestroyEnds == work # <<>> ~> work = <<>>

\* Until the root pool is cleared, the cells of the stack and those popped before are
\* all the cells it has handed out and no others, none of them on both lists: push
\* never takes a cell that is on the stack, and allocates only when every cell is;
\* the last pool of the stack is the root.
CellsPartition ==
    LET s == ListFrom(poolStack)
        u == ListFrom(unused)
    IN /\ TypeOK
       /\ Kept => /\ IsInjective(s \o u)
                  /\ ToSet(s \o u) = cells
                  /\ pool[Last(s)] = root
=============================================================================
