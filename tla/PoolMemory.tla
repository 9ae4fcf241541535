----------------------------- MODULE PoolMemory -----------------------------
(***************************************************************************)
(* The memory of one pool (struct Pool, SPWasmScriptAllocator.cc): the     *)
(* ring of nodes that palloc cuts pieces from, and the list of large       *)
(* buffers that the guest freed and alloc hands out again.                 *)
(*                                                                         *)
(* Sizes are counted in units of the 16 byte alignment.  The ring is the   *)
(* sequence of its nodes from active along next; the node that holds the   *)
(* pool itself (self) is at address 0.  Addresses grow with every node the *)
(* allocator gives, so that no two nodes share one.                        *)
(***************************************************************************)
EXTENDS Integers, SequencesExt, FiniteSetsExt

CONSTANTS Requests,   \* the sizes the guest asks for
          Boundary,   \* BOUNDARY_SIZE
          Header,     \* SIZEOF_MEMNODE_T
          PoolSize,   \* SIZEOF_POOL_T
          RecordSize, \* sizeof(MemAddr)
          Threshold,  \* BlockThreshold
          Extras,     \* by how much a node of the allocator may be too large
          MaxUsed,    \* bound: the pieces the guest has at a time
          Space       \* bound: what the allocator has for this pool

ASSUME PoolMemoryAssumption == /\ Requests \subseteq Nat \ {0}
                               /\ Boundary \in Nat \ {0}
                               /\ Header \in Nat \ {0}
                               /\ PoolSize \in Nat
                               /\ Header + PoolSize < 2 * Boundary
                               /\ RecordSize \in Nat \ {0}
                               /\ Threshold \in Nat
                               /\ Extras \subseteq Nat
                               /\ MaxUsed \in Nat
                               /\ Space \in Nat
                               /\ 2 * Boundary <= Space

VARIABLES ring,      \* the nodes: start, first_avail, endp and free_index
          fresh,     \* where the next node of the allocator begins
          used,      \* the pieces the guest has: address and size it knows
          buffered,  \* Pool::buffered
          spare      \* the length of Pool::free_buffered

vars == <<ring, fresh, used, buffered, spare>>

Self == [start |-> 0, avail |-> Header + PoolSize, endp |-> 2 * Boundary, index |-> 0]

Init == /\ ring = <<Self>>
        /\ fresh = 2 * Boundary
        /\ used = {}
        /\ buffered = <<>>
        /\ spare = 0
-----------------------------------------------------------------------------
(* Pool::palloc *)

FreeSpace(n) == n.endp - n.avail

\* The node the allocator makes for a request, or has from an earlier one.
NewNode(size, extra) ==
    LET pages == (size + Header + Boundary - 1) \div Boundary
        units == Max({2 * Boundary, pages * Boundary}) + extra
    IN [start |-> fresh, avail |-> fresh + Header, endp |-> fresh + units, index |-> 0]

\* Mutant: the node that stops being active stays where it is.
Unordered(n, rest) == <<n>> \o rest

\* The node n that was active until now takes its place among the others:
\* next to the active one if none there has more free, else behind those.
Ordered(n, rest) ==
    IF rest = <<>> \/ n.index >= rest[1].index
    THEN <<n>> \o rest
    ELSE LET stop == Min({k \in 2 .. Len(rest) : n.index >= rest[k].index}
                         \cup {Len(rest) + 1})
         IN InsertAt(rest, stop, n)

\* The node becomes the active one, and the free_index of the former is set.
Activate(node, size, rest) ==
    LET old == [ring[1] EXCEPT !.index = FreeSpace(ring[1]) \div Boundary]
    IN << [node EXCEPT !.avail = @ + size, !.index = 0] >> \o Ordered(old, rest)

\* From the active node, from the next one, or from a new one.
InActive(size) == size <= FreeSpace(ring[1])

\* Mutant: only the active node is tried before a new one is taken.
NeverNext(size) == size > FreeSpace(ring[1]) /\ Len(ring) = 0

InNext(size) == ~InActive(size) /\ Len(ring) > 1 /\ size <= FreeSpace(ring[2])
InNew(size, extra) == /\ ~InActive(size)
                      /\ ~InNext(size)
                      /\ NewNode(size, extra).endp <= Space

Succeeds(size, extra) == InActive(size) \/ InNext(size) \/ InNew(size, extra)

RingAfter(size, extra) ==
    CASE InActive(size) -> [ring EXCEPT ![1].avail = @ + size]
      [] InNext(size)   -> Activate(ring[2], size, SubSeq(ring, 3, Len(ring)))
      [] InNew(size, extra) -> Activate(NewNode(size, extra), size, Tail(ring))

FreshAfter(size, extra) ==
    IF InNew(size, extra) THEN NewNode(size, extra).endp ELSE fresh

\* The address palloc returns: the active node's end of the used part.
Address(size, extra) == RingAfter(size, extra)[1].avail - size

Palloc(size, extra) == /\ Succeeds(size, extra)
                       /\ ring' = RingAfter(size, extra)
                       /\ fresh' = FreshAfter(size, extra)
-----------------------------------------------------------------------------
(* Pool::alloc and Pool::free *)

\* The first buffer that is large enough, unless it or one before it is more
\* than twice as large.
Reusable(size) ==
    {k \in DOMAIN buffered : /\ buffered[k].size \in size .. 2 * size
                             /\ \A j \in 1 .. k - 1 : buffered[j].size < size}

\* host_pool_alloc, palloc and calloc; only the first of them tells the guest
\* the size of the buffer it gets.
AllocNew(size, extra) ==
    /\ size < Threshold \/ Reusable(size) = {}
    /\ Cardinality(used) < MaxUsed
    /\ Palloc(size, extra)
    /\ used' = used \cup {[addr |-> Address(size, extra), size |-> size]}
    /\ UNCHANGED <<buffered, spare>>

AllocBuffered(size, told) ==
    /\ size >= Threshold
    /\ Cardinality(used) < MaxUsed
    /\ \E k \in Reusable(size) :
         /\ used' = used \cup {[addr |-> buffered[k].addr,
                                size |-> IF told THEN buffered[k].size ELSE size]}
         /\ buffered' = RemoveAt(buffered, k)
         /\ spare' = spare + 1
    /\ UNCHANGED <<ring, fresh>>

\* Small pieces stay where they are until the pool is cleared.
FreeSmall(piece) == /\ piece \in used
                    /\ piece.size < Threshold
                    /\ used' = used \ {piece}
                    /\ UNCHANGED <<ring, fresh, buffered, spare>>

\* Mutant: a spare record is taken without a look whether there is one.
FreeBufferUnchecked(piece, extra) ==
    /\ piece \in used
    /\ piece.size >= Threshold
    /\ used' = used \ {piece}
    /\ spare' = spare - 1
    /\ buffered' = IF buffered = <<>> THEN <<piece>> ELSE buffered
    /\ UNCHANGED <<ring, fresh>>

\* free_buf links the record of the buffer into an empty list only: both line
\* 442 and line 451 store cPtr, the record that is already there (or none).
FreeBuffer(piece, extra) ==
    /\ piece \in used
    /\ piece.size >= Threshold
    /\ used' = used \ {piece}
    /\ IF spare > 0
       THEN /\ spare' = spare - 1
            /\ UNCHANGED <<ring, fresh>>
       ELSE /\ Palloc(RecordSize, extra)
            /\ UNCHANGED spare
    /\ buffered' = IF buffered = <<>> THEN <<piece>> ELSE buffered

\* Mutant: only the node of the pool is kept, the freed buffers are not dropped.
ClearKeepsBuffers == /\ Len(ring) > 1
                     /\ ring' = <<[Self EXCEPT !.index = (CHOOSE n \in ToSet(ring) : n.start = 0).index]>>
                     /\ used' = {}
                     /\ UNCHANGED <<fresh, buffered, spare>>

\* Pool::clear, after the children: self is the only node again, its free_index
\* left as it was.
Clear == /\ ring' = <<[Self EXCEPT !.index = (CHOOSE n \in ToSet(ring) : n.start = 0).index]>>
         /\ used' = {}
         /\ buffered' = <<>>
         /\ spare' = 0
         /\ UNCHANGED fresh
-----------------------------------------------------------------------------
Next == \/ \E size \in Requests, extra \in Extras : AllocNew(size, extra)
        \/ \E size \in Requests, told \in BOOLEAN : AllocBuffered(size, told)
        \/ \E piece \in used : FreeSmall(piece)
        \/ \E piece \in used, extra \in Extras : FreeBuffer(piece, extra)
        \/ Clear

Spec == Init /\ [][Next]_vars
-----------------------------------------------------------------------------
(* Properties *)

Nodes == [start : 0..Space, avail : 0..Space, endp : 0..Space, index : 0..Space]
Pieces == [addr : 0..Space, size : 1..Space]

\* Past the active node the ring goes from more free to less, and free_index is
\* the number of whole pages a node has free: palloc looks at one node only
\* because that is the one with the most.
TypeOK == /\ ring \in Seq(Nodes) /\ ring # <<>>
          /\ \A k \in 2..Len(ring) : /\ ring[k].index = FreeSpace(ring[k]) \div Boundary
                                      /\ k < Len(ring) => ring[k].index >= ring[k + 1].index
          /\ fresh \in 0..Space
          /\ used \subseteq Pieces
          /\ buffered \in Seq(Pieces)
          /\ spare \in Nat

\* A new node is taken only when no node of the pool has a page more free than
\* the request: no pool grows while it has the room (palloc, line 490).
NoRoomMissed ==
    [][fresh' # fresh =>
         LET size == ring'[1].avail - ring'[1].start - Header
         IN \A k \in DOMAIN ring :
              FreeSpace(ring[k]) < size \/ FreeSpace(ring[k]) \div Boundary <= size \div Boundary]_vars

Bytes(piece) == piece.addr .. piece.addr + piece.size - 1

\* The pieces the guest has and the buffers it freed share no byte, and each
\* lies in the used part of one node of the pool.
PiecesDisjoint ==
    LET pieces == used \cup ToSet(buffered)
    IN /\ \A p, q \in pieces : p # q => Bytes(p) \cap Bytes(q) = {}
       /\ \A p \in pieces : \E n \in ToSet(ring) :
            n.start + Header <= p.addr /\ p.addr + p.size <= n.avail
       /\ used \cap ToSet(buffered) = {}
=============================================================================
