--------------------------- MODULE ScriptAllocator ---------------------------
(***************************************************************************)
(* The node allocator of the script runtime (struct Allocator,             *)
(* src/stappler/src/SPWasmScriptAllocator.cc): free lists by size class in *)
(* front of a bump pointer, shared by the host functions that the script   *)
(* threads call.  The Allocator object lives inside the linear memory it   *)
(* manages; growing the memory copies it into a new block.  A call goes on *)
(* with the Allocator (this) of the block that was current when it began.  *)
(*                                                                         *)
(* Sizes are counted in units of BOUNDARY_SIZE bytes.  A MemNode is its    *)
(* place and size; its index is its units minus one.  pc is                *)
(*   idle     outside the allocator                                        *)
(*   seek     in alloc, about to choose where to look                      *)
(*   bucket   about to lock and search the buckets                         *)
(*   lower    holds the lock, about to write the lower value of last       *)
(*   sink     about to lock and search the sink, bucket 0                  *)
(*   bump     about to compare origin with the size of the memory          *)
(*   grow     about to call Thread::GrowMemory                             *)
(*   place    about to construct the node at origin                        *)
(*   advance  about to move origin past the node                           *)
(*   raise    in free, past the lock, about to write last                  *)
(*   astray   has taken a word behind the buckets for a node               *)
(***************************************************************************)
EXTENDS Integers, SequencesExt, FiniteSetsExt

CONSTANTS Threads,
          Requests,      \* the sizes asked for, in units, rounded up by alloc
          MaxIndex,      \* MAX_INDEX: the number of buckets
          Base,          \* the unit after the allocator object
          InitUnits,     \* the size of the memory when it is created
          LimitUnits,    \* limits.max, in units
          UnitsPerPage,  \* WABT_PAGE_SIZE / BOUNDARY_SIZE
          Word,          \* 2^32 / BOUNDARY_SIZE: addresses are uint32_t
          MaxChain,      \* bound: the nodes freed by one call
          None           \* no thread

ASSUME AllocatorAssumption == /\ Requests \subseteq 2 .. Word - 1
                              /\ MaxIndex \in Nat \ {0, 1}
                              /\ 2 * MaxIndex <= Word
                              /\ Base \in Nat
                              /\ InitUnits \in Base..LimitUnits
                              /\ LimitUnits \in Nat
                              /\ Word \in Nat
                              /\ LimitUnits < Word
                              /\ MaxChain \in Nat
                              /\ UnitsPerPage \in Nat \ {0}
                              /\ None \notin Threads

VARIABLES blocks,   \* the blocks the memory has been in: the Allocator in each
          memUnits, \* the memory's size
          pc,
          request,  \* [Threads -> units of the node asked for]
          self,     \* [Threads -> the block that "this" is in]
          data,     \* [Threads -> the block MemCtx::data points to]
          size,     \* [Threads -> MemCtx::size]
          top,      \* [Threads -> max_index, what will be written to last]
          holder,   \* the thread that has the runtime's mutex, or None
          held      \* [Threads -> the nodes the thread's pools have]

vars == <<blocks, memUnits, pc, request, self, data, size, top, holder, held>>
call == <<request, self, data, size>>

Buckets == 0 .. MaxIndex - 1
Current == Len(blocks)
Index(n) == n.units - 1

Init == /\ blocks = << [last |-> 0, origin |-> Base,
                        buf |-> [b \in Buckets |-> <<>>]] >>
        /\ memUnits = InitUnits
        /\ pc = [t \in Threads |-> "idle"]
        /\ request = [t \in Threads |-> 0]
        /\ self = [t \in Threads |-> 0]
        /\ data = [t \in Threads |-> 0]
        /\ size = [t \in Threads |-> 0]
        /\ top = [t \in Threads |-> 0]
        /\ holder = None
        /\ held = [t \in Threads |-> {}]

Goto(t, point) == pc' = [pc EXCEPT ![t] = point]

\* The call is over; the locals of a finished call are forgotten.
Finish(t) == /\ Goto(t, "idle")
             /\ request' = [request EXCEPT ![t] = 0]
             /\ self' = [self EXCEPT ![t] = 0]
             /\ data' = [data EXCEPT ![t] = 0]
             /\ size' = [size EXCEPT ![t] = 0]
             /\ top' = [top EXCEPT ![t] = 0]

Units(n) == n.start .. n.start + n.units - 1

Free(a) == UNION {ToSet(a.buf[b]) : b \in Buckets}
Taken == UNION {held[t] : t \in Threads}

\* Bound: once two nodes overlap their owners overwrite each other's headers,
\* and the model follows the program no further.
Intact == \A t, u \in Threads : \A m \in held[t], n \in held[u] :
            (t # u \/ m # n) => Units(m) \cap Units(n) = {}
-----------------------------------------------------------------------------
(* Allocator::alloc *)

\* The MemCtx of the call caches the block, its size and the allocator in it.
Request(t, r) ==
    /\ pc[t] = "idle"
    /\ Intact
    /\ Goto(t, "seek")
    /\ request' = [request EXCEPT ![t] = r]
    /\ self' = [self EXCEPT ![t] = Current]
    /\ data' = [data EXCEPT ![t] = Current]
    /\ size' = [size EXCEPT ![t] = memUnits]
    /\ UNCHANGED <<blocks, memUnits, top, holder, held>>

\* last has gone below zero: the uint32_t is larger than any index.
Wrapped(a) == a.last >= MaxIndex

\* last and the sink are read without the lock.
Seek(t) ==
    LET a == blocks[self[t]]
    IN /\ pc[t] = "seek"
       /\ Goto(t, IF request[t] - 1 <= a.last \/ Wrapped(a) THEN "bucket"
                  ELSE IF a.buf[0] # <<>> THEN "sink" ELSE "bump")
       /\ UNCHANGED <<blocks, memUnits, call, top, holder, held>>

\* Mutant: the search starts one bucket too low.
LooseCandidate(a, index) ==
    LET fit == {b \in Buckets : index - 1 <= b /\ b <= a.last /\ a.buf[b] # <<>>}
    IN IF fit = {} THEN MaxIndex ELSE Min(fit)

\* The first non-empty bucket from index on, but none past last; the search
\* stops at index itself even when that lies past last.
Candidate(a, index) ==
    LET fit == {b \in Buckets : index <= b /\ (b <= a.last \/ b = index)
                                /\ a.buf[b] # <<>>}
    IN IF fit = {} THEN MaxIndex ELSE Min(fit)

\* Mutant: the walk does not stop where max_index reaches 0.
LoweredTooFar(a, buf, bucket) ==
    LET stops == {k \in 1 .. bucket + 1 : k = bucket + 1 \/ buf[bucket - k] # <<>>}
    IN (a.last - Min(stops)) % Word

\* The do-while of line 294: at least one step down, to a non-empty bucket or
\* until max_index, which goes down with it, is 0.  Only a last that was lower
\* than the bucket makes max_index wrap and the walk leave the buckets.
Lowered(a, buf, bucket) ==
    LET stops == {k \in 1 .. bucket + 1 : \/ k = bucket + 1 \/ k = a.last
                                          \/ buf[bucket - k] # <<>>}
    IN (a.last - Min(stops)) % Word

EmptiesBucket(t) ==
    LET a == blocks[self[t]]
        b == Candidate(a, request[t] - 1)
        buf == [a.buf EXCEPT ![b] = Tail(@)]
    IN /\ pc[t] = "bucket"
       /\ holder = None
       /\ b \in Buckets
       /\ buf[b] = <<>> /\ b >= a.last
       /\ holder' = t
       /\ top' = [top EXCEPT ![t] = Lowered(a, buf, b)]
       /\ blocks' = [blocks EXCEPT ![self[t]].buf = buf]
       /\ held' = [held EXCEPT ![t] = @ \cup {Head(a.buf[b])}]
       /\ Goto(t, "lower")
       /\ UNCHANGED <<memUnits, call>>

\* The lock keeps other calls off the lists, but not free's write to last.
LowerLast(t) ==
    /\ pc[t] = "lower"
    /\ blocks' = [blocks EXCEPT ![self[t]].last = top[t]]
    /\ holder' = None
    /\ Finish(t)
    /\ UNCHANGED <<memUnits, held>>

\* Mutant: the node found is not unlinked from its list.
KeepsNodeListed(t) ==
    LET a == blocks[self[t]]
        b == Candidate(a, request[t] - 1)
    IN /\ pc[t] = "bucket"
       /\ holder = None
       /\ b \in Buckets
       /\ Tail(a.buf[b]) # <<>> \/ b < a.last
       /\ held' = [held EXCEPT ![t] = @ \cup {Head(a.buf[b])}]
       /\ Finish(t)
       /\ UNCHANGED <<blocks, memUnits, holder>>

TakeFromBucket(t) ==
    LET a == blocks[self[t]]
        b == Candidate(a, request[t] - 1)
    IN /\ pc[t] = "bucket"
       /\ holder = None
       /\ b \in Buckets
       /\ Tail(a.buf[b]) # <<>> \/ b < a.last
       /\ blocks' = [blocks EXCEPT ![self[t]].buf[b] = Tail(@)]
       /\ held' = [held EXCEPT ![t] = @ \cup {Head(a.buf[b])}]
       /\ Finish(t)
       /\ UNCHANGED <<memUnits, holder>>

\* The walk is behind the array: it goes on as far as a wrapped last allows, and
\* for a size without a bucket it begins there.
LeavesBuckets(a, index) == /\ Candidate(a, index) \notin Buckets
                           /\ Wrapped(a) \/ index >= MaxIndex

\* The first word there that is not null is taken for a node, of whatever size it
\* says, and written through.
\* Bound: what this overwrites is unknown, and the model stops (see Next).
TakeAstray(t) ==
    /\ pc[t] = "bucket"
    /\ holder = None
    /\ LeavesBuckets(blocks[self[t]], request[t] - 1)
    /\ \E units \in 1 .. LimitUnits :
          held' = [held EXCEPT ![t] = @ \cup {[start |-> Word, units |-> units]}]
    /\ Goto(t, "astray")
    /\ UNCHANGED <<blocks, memUnits, call, top, holder>>

\* Another call took the node first.
FindsNoBucket(t) ==
    /\ pc[t] = "bucket"
    /\ holder = None
    /\ Candidate(blocks[self[t]], request[t] - 1) \notin Buckets
    /\ ~Wrapped(blocks[self[t]])
    /\ Goto(t, "bump")
    /\ UNCHANGED <<blocks, memUnits, call, top, holder, held>>

\* The first node of the sink that is large enough.
InSink(a, index) == {k \in DOMAIN a.buf[0] : Index(a.buf[0][k]) >= index}

\* Mutant: the head of the sink, not the link to the node, is overwritten.
CutsSink(t) ==
    LET a == blocks[self[t]]
        k == Min(InSink(a, request[t] - 1))
    IN /\ pc[t] = "sink"
       /\ holder = None
       /\ InSink(a, request[t] - 1) # {}
       /\ blocks' = [blocks EXCEPT ![self[t]].buf[0] = SubSeq(@, k + 1, Len(@))]
       /\ held' = [held EXCEPT ![t] = @ \cup {a.buf[0][k]}]
       /\ Finish(t)
       /\ UNCHANGED <<memUnits, holder>>

TakeFromSink(t) ==
    LET a == blocks[self[t]]
        k == Min(InSink(a, request[t] - 1))
    IN /\ pc[t] = "sink"
       /\ holder = None
       /\ InSink(a, request[t] - 1) # {}
       /\ blocks' = [blocks EXCEPT ![self[t]].buf[0] = RemoveAt(@, k)]
       /\ held' = [held EXCEPT ![t] = @ \cup {a.buf[0][k]}]
       /\ Finish(t)
       /\ UNCHANGED <<memUnits, holder>>

FindsNoSink(t) ==
    /\ pc[t] = "sink"
    /\ holder = None
    /\ InSink(blocks[self[t]], request[t] - 1) = {}
    /\ Goto(t, "bump")
    /\ UNCHANGED <<blocks, memUnits, call, top, holder, held>>

\* origin + size > mem.size, in uint32_t.
Bump(t) ==
    /\ pc[t] = "bump"
    /\ Goto(t, IF (blocks[self[t]].origin + request[t]) % Word > size[t]
               THEN "grow" ELSE "place")
    /\ UNCHANGED <<blocks, memUnits, call, top, holder, held>>

\* Mutant: the number of pages is rounded down.
PagesRoundedDown(units) == units \div UnitsPerPage

PagesFor(units) == units \div UnitsPerPage + 1

\* Thread::GrowMemory, outside the lock: a new block, with a copy of all that
\* the old one held.  The call goes on in the freed block, which nobody has
\* overwritten yet.
Grow(t) ==
    LET units == memUnits + PagesFor(request[t]) * UnitsPerPage
    IN /\ pc[t] = "grow"
       /\ units <= LimitUnits
       /\ memUnits' = units
       /\ blocks' = Append(blocks, blocks[Current])
       /\ data' = [data EXCEPT ![t] = Current + 1]
       /\ size' = [size EXCEPT ![t] = units]
       /\ Goto(t, "place")
       /\ UNCHANGED <<request, self, top, holder, held>>

\* alloc returns null: the memory has reached its limit.
GrowFails(t) ==
    /\ pc[t] = "grow"
    /\ memUnits + PagesFor(request[t]) * UnitsPerPage > LimitUnits
    /\ Finish(t)
    /\ UNCHANGED <<blocks, memUnits, holder, held>>

\* The address returned is relative to the current block: a node constructed in
\* another one is nowhere in the memory (Word).
Place(t) ==
    LET start == IF data[t] = Current THEN blocks[self[t]].origin ELSE Word
    IN /\ pc[t] = "place"
       /\ held' = [held EXCEPT ![t] = @ \cup {[start |-> start, units |-> request[t]]}]
       /\ Goto(t, "advance")
       /\ UNCHANGED <<blocks, memUnits, call, top, holder>>

\* Mutant: origin ends up one unit short.
AdvanceShort(t) ==
    /\ pc[t] = "advance"
    /\ blocks' = [blocks EXCEPT ![self[t]].origin = (@ + request[t] - 1) % Word]
    /\ Finish(t)
    /\ UNCHANGED <<memUnits, holder, held>>

Advance(t) ==
    /\ pc[t] = "advance"
    /\ blocks' = [blocks EXCEPT ![self[t]].origin = (@ + request[t]) % Word]
    /\ Finish(t)
    /\ UNCHANGED <<memUnits, holder, held>>
-----------------------------------------------------------------------------
(* Allocator::free *)

Bucket(n) == IF Index(n) < MaxIndex THEN Index(n) ELSE 0

\* The lists when the nodes of chain have gone, one by one, to the front of their
\* buckets.
Pushed(buf, chain) ==
    LET lists[k \in 0 .. Len(chain)] ==
            IF k = 0 THEN buf
            ELSE [lists[k - 1] EXCEPT ![Bucket(chain[k])] = <<chain[k]>> \o @]
    IN lists[Len(chain)]

\* Mutant: max_index is overwritten, not raised.
RaisedBlindly(a, chain) == Bucket(Last(chain))

\* max_index follows the highest bucket that was empty before.
Raised(a, chain) ==
    Max({a.last} \cup {Bucket(n) : n \in {m \in ToSet(chain) : a.buf[Bucket(m)] = <<>>}})

\* The pool of thread t frees a chain of its nodes: under the lock up to the
\* unlock of line 384, after which last is still to be written.
FreeNodes(t, chain) ==
    LET a == blocks[Current]
    IN /\ pc[t] = "idle"
       /\ Intact
       /\ holder = None
       /\ held' = [held EXCEPT ![t] = @ \ ToSet(chain)]
       /\ blocks' = [blocks EXCEPT ![Current].buf = Pushed(@, chain)]
       /\ top' = [top EXCEPT ![t] = Raised(a, chain)]
       /\ self' = [self EXCEPT ![t] = Current]
       /\ Goto(t, "raise")
       /\ UNCHANGED <<memUnits, request, data, size, holder>>

RaiseLast(t) ==
    /\ pc[t] = "raise"
    /\ blocks' = [blocks EXCEPT ![self[t]].last = top[t]]
    /\ Finish(t)
    /\ UNCHANGED <<memUnits, holder, held>>

Chains(t) == UNION {SetToSeqs(s) : s \in {x \in SUBSET held[t] :
                                          Cardinality(x) \in 1..MaxChain}}
-----------------------------------------------------------------------------
Step(t) == \/ \E r \in Requests : Request(t, r)
           \/ Seek(t)
           \/ EmptiesBucket(t) \/ LowerLast(t) \/ TakeFromBucket(t) \/ FindsNoBucket(t)
           \/ TakeFromSink(t) \/ FindsNoSink(t)
           \/ Bump(t) \/ Grow(t) \/ GrowFails(t) \/ Place(t) \/ Advance(t)
           \/ \E chain \in Chains(t) : FreeNodes(t, chain)
           \/ RaiseLast(t)

\* Some call has taken a word behind the buckets for a node.
Astray == \E t \in Threads : pc[t] = "astray"

\* Bound: nothing is said of what happens once a call is astray.
Next == ~Astray /\ \E t \in Threads : Step(t) \/ TakeAstray(t)

Spec == Init /\ [][Next]_vars
-----------------------------------------------------------------------------
(* Properties *)

Points == {"idle", "seek", "bucket", "lower", "sink", "bump", "grow", "place",
           "advance", "raise", "astray"}

Nodes == [start : Nat, units : Nat \ {0}]

\* Every variable has its type; last names a bucket, and no call goes astray.
TypeOK == /\ \A k \in DOMAIN blocks :
               /\ blocks[k].last \in Buckets
               /\ blocks[k].origin \in 0 .. Word - 1
               /\ \A b \in Buckets : ToSet(blocks[k].buf[b]) \subseteq Nodes
          /\ memUnits \in InitUnits..LimitUnits
          /\ pc \in [Threads -> Points \ {"astray"}]
          /\ request \in [Threads -> Requests \cup {0}]
          /\ self \in [Threads -> 0..Current]
          /\ data \in [Threads -> 0..Current]
          /\ size \in [Threads -> 0..LimitUnits]
          /\ top \in [Threads -> Buckets]
          /\ holder \in Threads \cup {None}
          /\ \A t \in Threads : held[t] \subseteq Nodes

Idle == \A t \in Threads : pc[t] = "idle"

\* Until the memory moves, between calls the nodes held and the nodes free tile
\* it from the allocator up to origin: nothing overlaps and nothing is lost. At any
\* time a node in the block that is the memory lies inside it: a growth is large
\* enough for the node it was made for.
NodesTile ==
    LET a == blocks[Current]
        nodes == Taken \cup Free(a)
    IN /\ Idle /\ Current = 1
          => /\ \A m, n \in nodes : m # n => Units(m) \cap Units(n) = {}
             /\ UNION {Units(n) : n \in nodes} = Base .. a.origin - 1
       /\ \A n \in Taken : n.start + n.units <= memUnits

\* Between calls last is what line 139 says of it: the largest used index into
\* the buckets (0 when only the sink or nothing is used).
LastIsHighest ==
    LET a == blocks[Current]
    IN Idle => a.last = Max({0} \cup {b \in Buckets : a.buf[b] # <<>>})

\* Until the memory moves or a call goes astray, no node is on two lists, twice on
\* one, or on a list while a pool has it: the mutex makes the searches and pushes
\* of concurrent calls atomic, however stale the last they go by, and even after
\* last has wrapped as long as the walks it misleads still end at a bucket.
FreeListsExact ==
    LET a == blocks[Current]
    IN Current = 1 /\ ~Astray
          => /\ \A b \in Buckets : IsInjective(a.buf[b])
             /\ \A b, c \in Buckets : b # c => ToSet(a.buf[b]) \cap ToSet(a.buf[c]) = {}
             /\ Free(a) \cap Taken = {}

\* The node "malloc a new one" (line 330) returns is new: no two nodes that
\* pools have share a unit. False of the code after a growth, and with two
\* threads: see the README.
NodesDisjoint == Intact

\* A call that ends with a node from a list, or with a new one, has one of the
\* size asked for, whatever other calls did between the unlocked reads and the
\* search. What a walk behind the buckets returns (TakeAstray) has any size.
NodeFits ==
    [][~Astray' => \A t \in Threads : \A n \in held'[t] \ held[t] : n.units >= request[t]]_vars

Heap == INSTANCE NodeHeap WITH Limit <- LimitUnits, held <- Taken

\* Until the memory moves the allocator hands out nodes as an atomic heap does.
ImplementsHeap == Heap!Init /\ [][Current' = 1 => Heap!Next \/ UNCHANGED Taken]_vars
=============================================================================
