----------------------- MODULE ScriptAllocatorProofs -----------------------
(***************************************************************************)
(* Proofs about ScriptAllocator, for any requests and any sizes of the     *)
(* memory.  With any number of threads: until a walk leaves the buckets,   *)
(* what alloc returns is large enough, and until the memory moves a node   *)
(* is on one list or has a pool, while other calls change the lists        *)
(* between a call's reads of last and its search.  With one thread: no     *)
(* walk leaves the buckets, the nodes tile the memory, last is right       *)
(* between calls, and alloc and free are those of the atomic heap.         *)
(***************************************************************************)
EXTENDS ScriptAllocator, ProofLemmas, FiniteSetTheorems

-----------------------------------------------------------------------------
(* The lists *)

\* What list b may hold: a bucket only the nodes of its own size, the sink those
\* that have no bucket.
Sized(b) == {n \in Nodes : Bucket(n) = b}

Lists == {f \in [Buckets -> Seq(Nodes)] : \A b \in Buckets : f[b] \in Seq(Sized(b))}

AllocatorType == [last : Nat, origin : Nat, buf : Lists]

\* free puts a node where it belongs.
LEMMA PushedOne ==
  ASSUME NEW f \in Lists, NEW n \in Nodes
  PROVE  [f EXCEPT ![Bucket(n)] = <<n>> \o @] \in Lists
<1> DEFINE b == Bucket(n)
<1>1. b \in Buckets /\ n \in Sized(b)
  BY AllocatorAssumption DEF Bucket, Buckets, Sized, Index, Nodes
<1>2. f \in [Buckets -> Seq(Nodes)] /\ \A c \in Buckets : f[c] \in Seq(Sized(c))
  BY DEF Lists
<1> HIDE DEF b
<1>3. <<n>> \o f[b] \in Seq(Sized(b)) /\ <<n>> \o f[b] \in Seq(Nodes)
  <2>1. <<n>> \in Seq(Sized(b)) /\ f[b] \in Seq(Sized(b))
    BY <1>1, <1>2
  <2>2. <<n>> \in Seq(Nodes) /\ f[b] \in Seq(Nodes)
    BY <1>1, <1>2
  <2> QED
    BY <2>1, <2>2, ConcatProperties
<1>4. [f EXCEPT ![b] = <<n>> \o @] \in Lists
  BY <1>1, <1>2, <1>3 DEF Lists
<1> QED
  BY <1>4 DEF b

\* The loop of free, one node after the other, however long the chain is: G has what
\* the lists can be after each node.
LEMMA PushedIn ==
  ASSUME NEW buf, NEW chain, Len(chain) \in Nat, NEW G, buf \in G[0],
         \A k \in 1 .. Len(chain) : \A f \in G[k - 1] :
            [f EXCEPT ![Bucket(chain[k])] = <<chain[k]>> \o @] \in G[k]
  PROVE  Pushed(buf, chain) \in G[Len(chain)]
<1> DEFINE N == Len(chain)
           Entry(f, k) == IF k = 0 THEN buf
                         ELSE [f[k - 1] EXCEPT ![Bucket(chain[k])] = <<chain[k]>> \o @]
           Computes(f, K) == f = [k \in 0 .. K |-> Entry(f, k)]
           lists == CHOOSE f : Computes(f, N)
<1>1. N \in Nat
  OBVIOUS
<1>2. \A K \in Nat : \E f : Computes(f, K)
  <2> DEFINE S == {K \in Nat : ~ \E f : Computes(f, K)}
  <2> SUFFICES ASSUME S # {} PROVE FALSE
    OBVIOUS
  <2>1. PICK m \in S : \A n \in S : m <= n
    <3> HIDE DEF Computes
    <3> QED BY LeastNatural
  <2>2. m # 0
    <3>1. Computes([k \in 0 .. 0 |-> buf], 0)
      OBVIOUS
    <3> QED
      BY <3>1
  <2>3. PICK f : Computes(f, m - 1)
    <3> HIDE DEF Computes
    <3>1. m - 1 \in Nat /\ ~(m <= m - 1)
      BY <2>2
    <3> QED
      BY <2>1, <3>1
  <2> DEFINE g == [k \in 0 .. m |-> IF k = m THEN Entry(f, m) ELSE f[k]]
  <2>4. \A k \in 0 .. m : g[k] = Entry(g, k)
    <3>1. \A k \in 0 .. m - 1 : g[k] = f[k]
      BY <2>2, SMTT(30)
    <3>2. \A k \in 0 .. m : k # 0 => k - 1 \in 0 .. m - 1
      OBVIOUS
    <3>3. \A k \in 0 .. m - 1 : f[k] = Entry(f, k)
      BY <2>3
    <3>4. g[m] = Entry(f, m) /\ m \in Nat
      BY SMTT(30)
    <3> HIDE DEF g
    <3>5. ASSUME NEW k \in 0 .. m
          PROVE  Entry(g, k) = Entry(f, k)
      <4>1. k # 0 => g[k - 1] = f[k - 1]
        BY <3>1, <3>2
      <4> QED
        BY <4>1
    <3> HIDE DEF Entry
    <3>6. \A k \in 0 .. m : k = m \/ k \in 0 .. m - 1
      BY <3>4
    <3> QED
      BY <3>1, <3>3, <3>4, <3>5, <3>6
  <2>5. Computes(g, m)
    BY <2>4
  <2> QED
    BY <2>5
<1>3. Computes(lists, N)
  BY <1>1, <1>2
<1> HIDE DEF lists
<1>4. \A k \in 0 .. N : lists[k] \in G[k]
  <2> DEFINE S == {k \in 0 .. N : lists[k] \notin G[k]}
  <2> SUFFICES ASSUME S # {} PROVE FALSE
    OBVIOUS
  <2>1. PICK m \in S : \A n \in S : m <= n
    <3>1. S \subseteq Nat
      BY <1>1
    <3> QED
      BY <3>1, LeastNatural
  <2>2. lists[m] = Entry(lists, m)
    BY <1>3
  <2>3. m # 0
    BY <2>2
  <2>4. m - 1 \in 0 .. N /\ ~(m <= m - 1) /\ m \in 1 .. N
    BY <2>3
  <2>5. lists[m - 1] \in G[m - 1]
    BY <2>1, <2>4
  <2> QED
    BY <2>2, <2>3, <2>4, <2>5
<1>5. Pushed(buf, chain) = lists[N]
  BY DEF Pushed, lists
<1> QED
  BY <1>1, <1>4, <1>5

\* It keeps every node of the chain in a list for its size.
LEMMA PushedLists ==
  ASSUME NEW buf \in Lists, NEW chain \in Seq(Nodes)
  PROVE  Pushed(buf, chain) \in Lists
<1> DEFINE G == [k \in 0 .. Len(chain) |-> Lists]
<1>1. Len(chain) \in Nat /\ \A k \in 1 .. Len(chain) : chain[k] \in Nodes
  BY ElementOfSeq, LenProperties
<1>2. buf \in G[0] /\ G[Len(chain)] = Lists
  BY <1>1
<1>3. ASSUME NEW k \in 1 .. Len(chain), NEW f \in G[k - 1]
      PROVE  [f EXCEPT ![Bucket(chain[k])] = <<chain[k]>> \o @] \in G[k]
  <2>1. k \in 0 .. Len(chain) /\ k - 1 \in 0 .. Len(chain)
    BY <1>1
  <2> QED
    BY <1>1, <2>1, PushedOne
<1> HIDE DEF G
<1>4. Pushed(buf, chain) \in G[Len(chain)]
  BY <1>1, <1>2, <1>3, PushedIn
<1> QED
  BY <1>2, <1>4
-----------------------------------------------------------------------------
(* The searches of alloc *)

\* A bucket that the walk from index on ends at is not empty and holds nodes that are
\* large enough, whatever last was when the walk began.
LEMMA CandidateFits ==
  ASSUME NEW a \in AllocatorType, NEW r \in Requests,
         NEW b, b = Candidate(a, r - 1), b \in Buckets
  PROVE  /\ a.buf[b] # <<>>
         /\ b # 0
         /\ \A n \in Sized(b) : n.units >= r
<1> DEFINE fit == {c \in Buckets : r - 1 <= c /\ (c <= a.last \/ c = r - 1) /\ a.buf[c] # <<>>}
<1>1. fit \subseteq Nat
  BY AllocatorAssumption DEF Buckets
<1>2. fit # {}
  BY AllocatorAssumption DEF Candidate, Buckets
<1>3. b = Min(fit)
  BY <1>2 DEF Candidate
<1>4. b \in fit
  BY <1>1, <1>2, <1>3, MinOfNaturals
<1>5. r >= 2 /\ r \in Int
  BY AllocatorAssumption
<1>6. b # 0 /\ b >= r - 1 /\ b \in Nat
  BY <1>1, <1>4, <1>5
<1>7. \A n \in Sized(b) : n \in Nodes /\ Index(n) = b
  BY <1>6 DEF Sized, Bucket
<1> QED
  BY <1>4, <1>5, <1>6, <1>7 DEF Index, Nodes

\* The walk through the sink ends at a node that is large enough.
LEMMA SinkFits ==
  ASSUME NEW a \in AllocatorType, NEW r \in Requests,
         InSink(a, r - 1) # {}, NEW k, k = Min(InSink(a, r - 1))
  PROVE  /\ k \in 1 .. Len(a.buf[0])
         /\ a.buf[0] \in Seq(Sized(0))
         /\ a.buf[0][k] \in Nodes
         /\ a.buf[0][k].units >= r
<1>1. a.buf[0] \in Seq(Sized(0)) /\ a.buf[0] \in Seq(Nodes)
  BY AllocatorAssumption DEF AllocatorType, Lists, Buckets
<1>2. InSink(a, r - 1) \subseteq 1 .. Len(a.buf[0]) /\ Len(a.buf[0]) \in Nat
  BY <1>1, LenProperties DEF InSink
<1>3. InSink(a, r - 1) \subseteq Nat
  BY <1>2
<1>4. k \in InSink(a, r - 1)
  BY <1>3, MinOfNaturals
<1>5. k \in 1 .. Len(a.buf[0]) /\ Index(a.buf[0][k]) >= r - 1
  BY <1>2, <1>4 DEF InSink
<1>6. a.buf[0][k] \in Nodes
  BY <1>1, <1>5, ElementOfSeq
<1>7. r \in Int
  BY AllocatorAssumption
<1> QED
  BY <1>1, <1>5, <1>6, <1>7, SMTT(30) DEF Index, Nodes

\* What the do-while of line 294 leaves for last is a natural number.
LEMMA LoweredType ==
  ASSUME NEW a \in AllocatorType, NEW buf, NEW b \in Buckets
  PROVE  Lowered(a, buf, b) \in Nat
<1> DEFINE stops == {k \in 1 .. b + 1 : k = b + 1 \/ k = a.last \/ buf[b - k] # <<>>}
<1>1. stops \subseteq Nat /\ b + 1 \in stops
  BY AllocatorAssumption DEF Buckets
<1>2. Min(stops) \in Nat
  BY <1>1, MinOfNaturals
<1>3. a.last \in Nat /\ Word \in Nat \ {0}
  BY AllocatorAssumption DEF AllocatorType
<1> HIDE DEF stops
<1>4. (a.last - Min(stops)) % Word \in Nat
  BY <1>2, <1>3
<1> QED
  BY <1>4 DEF Lowered, stops

\* So is what free leaves for it.
LEMMA RaisedType ==
  ASSUME NEW a \in AllocatorType, NEW chain \in Seq(Nodes)
  PROVE  Raised(a, chain) \in Nat
<1> DEFINE S == {a.last} \cup {Bucket(n) : n \in {m \in ToSet(chain) : a.buf[Bucket(m)] = <<>>}}
<1>1. a.last \in Nat /\ MaxIndex \in Nat
  BY AllocatorAssumption DEF AllocatorType
<1>2. \A m \in ToSet(chain) : m \in Nodes
  BY ElementOfSeq, LenProperties DEF ToSet
<1>3. \A m \in Nodes : Bucket(m) \in 0 .. MaxIndex - 1
  BY AllocatorAssumption DEF Bucket, Index, Nodes
<1>4. \A n \in S : n \in Nat /\ n <= a.last + MaxIndex
  BY <1>1, <1>2, <1>3
<1>5. S \subseteq Nat /\ S # {} /\ a.last + MaxIndex \in Nat
  BY <1>1, <1>4
<1> HIDE DEF S
<1>6. Max(S) \in S
  BY <1>4, <1>5, MaxOfNaturals
<1> QED
  BY <1>5, <1>6 DEF Raised, S
-----------------------------------------------------------------------------
(* The invariant *)

\* Each block has an allocator whose lists hold what belongs there.
BlocksInv == blocks \in Seq(AllocatorType) /\ blocks # <<>>

\* Each call is in one of the blocks, and in alloc it has a request.
CallsInv ==
    /\ pc \in [Threads -> Points]
    /\ request \in [Threads -> Nat]
    /\ self \in [Threads -> Nat]
    /\ top \in [Threads -> Nat]
    /\ held \in [Threads -> SUBSET Nodes]
    /\ \A t \in Threads :
          /\ pc[t] # "idle" => self[t] \in 1 .. Len(blocks)
          /\ pc[t] \notin {"idle", "raise"} => request[t] \in Requests

ListsInv == BlocksInv /\ CallsInv

\* A new Allocator has nothing in its lists.
LEMMA ListsInit == Init => ListsInv
<1> SUFFICES ASSUME Init PROVE ListsInv
  OBVIOUS
<1> DEFINE empty == [b \in Buckets |-> <<>>]
           a == [last |-> 0, origin |-> Base, buf |-> empty]
<1>1. empty \in Lists
  <2>1. \A b \in Buckets : <<>> \in Seq(Sized(b)) /\ <<>> \in Seq(Nodes)
    BY EmptySeq
  <2>2. empty \in [Buckets -> Seq(Nodes)]
    BY <2>1
  <2>3. \A b \in Buckets : empty[b] \in Seq(Sized(b))
    BY <2>1
  <2> QED
    BY <2>2, <2>3 DEF Lists
<1>2. a \in AllocatorType
  <2> HIDE DEF empty
  <2> QED BY <1>1, AllocatorAssumption DEF AllocatorType
<1> HIDE DEF a
<1>3. blocks = <<a>>
  BY DEF Init, a
<1>4. BlocksInv
  BY <1>2, <1>3 DEF BlocksInv
<1>5. CallsInv
  BY DEF Init, CallsInv, Points
<1> QED
  BY <1>4, <1>5 DEF ListsInv

\* What a step does to one block, whichever its thread is in.
LEMMA BlockChanged ==
  ASSUME BlocksInv, NEW k \in 1 .. Len(blocks), NEW a \in AllocatorType,
         blocks' = [blocks EXCEPT ![k] = a]
  PROVE  BlocksInv' /\ Len(blocks') = Len(blocks)
BY ExceptSeq DEF BlocksInv

\* The nodes that this step gives to a pool are as large as its thread has asked for.
NewFit == \A u \in Threads : \A n \in held'[u] \ held[u] : n.units >= request[u]

\* The steps of a call that change no list: what a thread reads, or finds not to be there.
Looks(t) == \/ \E r \in Requests : Request(t, r)
            \/ Seek(t) \/ FindsNoBucket(t) \/ FindsNoSink(t) \/ Bump(t) \/ GrowFails(t)

\* Looking keeps the lists in order and hands out nothing.
LEMMA LooksSafely ==
  ASSUME ListsInv, NEW t \in Threads, Looks(t)
  PROVE  ListsInv' /\ NewFit
<1> USE DEF ListsInv, BlocksInv, CallsInv, NewFit, Goto, Finish, call, Points
<1>0. Len(blocks) \in 1 .. Len(blocks) /\ Requests \subseteq Nat
  BY AllocatorAssumption, EmptySeq
<1>1. ASSUME NEW r \in Requests, Request(t, r)
      PROVE  ListsInv' /\ NewFit
  BY <1>0, <1>1 DEF Request, Current
<1>2. CASE Seek(t)
  BY <1>2 DEF Seek
<1>3. CASE FindsNoBucket(t)
  BY <1>3 DEF FindsNoBucket
<1>4. CASE FindsNoSink(t)
  BY <1>4 DEF FindsNoSink
<1>5. CASE Bump(t)
  BY <1>5 DEF Bump
<1>6. CASE GrowFails(t)
  BY <1>6 DEF GrowFails
<1> QED
  BY <1>1, <1>2, <1>3, <1>4, <1>5, <1>6 DEF Looks

\* A call that ends with a node n, taken out of its block.
LEMMA TakesSafely ==
  ASSUME ListsInv, NEW t \in Threads, NEW a \in AllocatorType, NEW n \in Nodes,
         pc[t] # "idle", n.units >= request[t],
         blocks' = [blocks EXCEPT ![self[t]] = a],
         held' = [held EXCEPT ![t] = @ \cup {n}],
         pc' \in [Threads -> Points], request' \in [Threads -> Nat],
         self' \in [Threads -> Nat], top' \in [Threads -> Nat],
         \A u \in Threads : u # t => /\ pc'[u] = pc[u] /\ self'[u] = self[u]
                                     /\ request'[u] = request[u],
         pc'[t] # "idle" => self'[t] = self[t] /\ request'[t] = request[t]
                            /\ pc[t] # "raise"
  PROVE  ListsInv' /\ NewFit
<1>1. BlocksInv' /\ Len(blocks') = Len(blocks)
  BY BlockChanged DEF ListsInv, CallsInv
<1>2. NewFit
  BY DEF NewFit, ListsInv, CallsInv
<1>3. held' \in [Threads -> SUBSET Nodes]
  BY DEF ListsInv, CallsInv
<1>4. ASSUME NEW u \in Threads
      PROVE  /\ pc'[u] # "idle" => self'[u] \in 1 .. Len(blocks')
             /\ pc'[u] \notin {"idle", "raise"} => request'[u] \in Requests
  <2>1. CASE u = t
    BY <1>1, <2>1 DEF ListsInv, CallsInv
  <2>2. CASE u # t
    BY <1>1, <2>2 DEF ListsInv, CallsInv
  <2> QED
    BY <2>1, <2>2
<1>5. CallsInv'
  BY <1>3, <1>4 DEF CallsInv
<1> QED
  BY <1>1, <1>2, <1>5 DEF ListsInv

\* The same when the call ends with it.
LEMMA EndSafely ==
  ASSUME ListsInv, NEW t \in Threads, NEW a \in AllocatorType, NEW n \in Nodes,
         pc[t] # "idle", n.units >= request[t],
         blocks' = [blocks EXCEPT ![self[t]] = a],
         held' = [held EXCEPT ![t] = @ \cup {n}],
         Finish(t)
  PROVE  ListsInv' /\ NewFit
<1>1. /\ pc' \in [Threads -> Points] /\ request' \in [Threads -> Nat]
      /\ self' \in [Threads -> Nat] /\ top' \in [Threads -> Nat]
      /\ \A u \in Threads : u # t => /\ pc'[u] = pc[u] /\ self'[u] = self[u]
                                     /\ request'[u] = request[u]
      /\ pc'[t] = "idle"
  BY DEF Finish, Goto, ListsInv, CallsInv, Points
<1> QED
  BY <1>1, TakesSafely

\* A list without one of its elements.
LEMMA RemovedType ==
  ASSUME NEW S, NEW s \in Seq(S), NEW k \in 1 .. Len(s)
  PROVE  RemoveAt(s, k) \in Seq(S)
<1>1. Len(s) \in Nat /\ \A i \in 1 .. Len(s) : s[i] \in S
  BY LenProperties, ElementOfSeq
<1>2. \A i \in 1 .. k - 1 : s[i] \in S
  BY <1>1
<1>3. \A i \in k + 1 .. Len(s) : s[i] \in S
  BY <1>1
<1>4. SubSeq(s, 1, k - 1) \in Seq(S)
  BY <1>1, <1>2, SubSeqProperties
<1>5. SubSeq(s, k + 1, Len(s)) \in Seq(S)
  BY <1>1, <1>3, SubSeqProperties
<1> QED
  BY <1>4, <1>5, ConcatProperties DEF RemoveAt

\* The steps of a call that take a node out of a list.
Takes(t) == EmptiesBucket(t) \/ TakeFromBucket(t) \/ TakeFromSink(t)

\* Every node that alloc finds in a list is large enough, and the lists stay sorted.
LEMMA FindsFit ==
  ASSUME ListsInv, NEW t \in Threads, Takes(t)
  PROVE  ListsInv' /\ NewFit
<1> DEFINE a == blocks[self[t]]
           r == request[t]
           b == Candidate(a, r - 1)
<1>1. /\ pc[t] \in {"bucket", "sink"} /\ t \in DOMAIN held
      /\ \A u \in Threads : held[u] \subseteq Nodes
  BY DEF Takes, EmptiesBucket, TakeFromBucket, TakeFromSink, ListsInv, CallsInv
<1>2. a \in AllocatorType /\ r \in Requests /\ self[t] \in DOMAIN blocks
  BY <1>1, ElementOfSeq, LenProperties DEF ListsInv, CallsInv, BlocksInv
<1> HIDE DEF a, r
<1>3. a.buf \in [Buckets -> Seq(Nodes)] /\ a.last \in Nat /\ a.origin \in Nat
      /\ \A c \in Buckets : a.buf[c] \in Seq(Sized(c))
  BY <1>2 DEF AllocatorType, Lists
<1>4. ASSUME NEW c \in Buckets, NEW s \in Seq(Sized(c))
      PROVE  [a EXCEPT !.buf = [a.buf EXCEPT ![c] = s]] \in AllocatorType
  <2>1. s \in Seq(Nodes)
    BY <1>4, SeqMonotonic DEF Sized
  <2>2. [a.buf EXCEPT ![c] = s] \in Lists
    BY <1>3, <1>4, <2>1 DEF Lists
  <2> QED
    BY <1>2, <2>2 DEF AllocatorType
<1>5. ASSUME b \in Buckets
      PROVE  /\ Head(a.buf[b]) \in Nodes
             /\ Head(a.buf[b]).units >= r
             /\ Tail(a.buf[b]) \in Seq(Sized(b))
             /\ [a EXCEPT !.buf = [a.buf EXCEPT ![b] = Tail(a.buf[b])]] \in AllocatorType
  <2>1. a.buf[b] # <<>> /\ \A n \in Sized(b) : n.units >= r
    BY <1>2, <1>5, CandidateFits
  <2>2. Head(a.buf[b]) \in Sized(b) /\ Tail(a.buf[b]) \in Seq(Sized(b))
    BY <1>3, <1>5, <2>1, HeadTailProperties
  <2> QED
    BY <1>4, <1>5, <2>1, <2>2 DEF Sized
<1>6. CASE EmptiesBucket(t)
  <2> DEFINE c == [a EXCEPT !.buf = [a.buf EXCEPT ![b] = Tail(a.buf[b])]]
  <2>1. b \in Buckets /\ c \in AllocatorType
    BY <1>5, <1>6 DEF EmptiesBucket, a, r
  <2>2. blocks' = [blocks EXCEPT ![self[t]] = c]
    BY <1>6 DEF EmptiesBucket, a, r
  <2>3. held' = [held EXCEPT ![t] = @ \cup {Head(a.buf[b])}]
    BY <1>6 DEF EmptiesBucket, a, r
  <2>4. top' \in [Threads -> Nat]
    <3>1. top' = [top EXCEPT ![t] = Lowered(a, [a.buf EXCEPT ![b] = Tail(@)], b)]
      BY <1>6 DEF EmptiesBucket, a, r
    <3>2. Lowered(a, [a.buf EXCEPT ![b] = Tail(@)], b) \in Nat
      BY <1>2, <2>1, LoweredType
    <3> QED
      BY <3>1, <3>2 DEF ListsInv, CallsInv
  <2>5. /\ pc' = [pc EXCEPT ![t] = "lower"]
        /\ UNCHANGED <<request, self>>
    BY <1>6 DEF EmptiesBucket, Goto, call
  <2> HIDE DEF b, c
  <2>6. Head(a.buf[b]) \in Nodes /\ Head(a.buf[b]).units >= request[t]
    BY <1>5, <2>1 DEF r
  <2>7. pc \in [Threads -> Points] /\ pc' \in [Threads -> Points]
    BY <2>5 DEF ListsInv, CallsInv, Points
  <2> QED
    BY <1>1, <2>1, <2>2, <2>3, <2>4, <2>5, <2>6, <2>7, TakesSafely DEF ListsInv, CallsInv
<1>7. CASE TakeFromBucket(t)
  <2> DEFINE c == [a EXCEPT !.buf = [a.buf EXCEPT ![b] = Tail(a.buf[b])]]
  <2>1. b \in Buckets /\ c \in AllocatorType
    BY <1>5, <1>7 DEF TakeFromBucket, a, r
  <2>2. blocks' = [blocks EXCEPT ![self[t]] = c]
    BY <1>7 DEF TakeFromBucket, a, r
  <2>3. held' = [held EXCEPT ![t] = @ \cup {Head(a.buf[b])}]
    BY <1>7 DEF TakeFromBucket, a, r
  <2>4. Finish(t)
    BY <1>7 DEF TakeFromBucket
  <2> HIDE DEF b, c
  <2>5. Head(a.buf[b]) \in Nodes /\ Head(a.buf[b]).units >= request[t]
    BY <1>5, <2>1 DEF r
  <2> QED
    BY <1>1, <2>1, <2>2, <2>3, <2>4, <2>5, EndSafely
<1>8. CASE TakeFromSink(t)
  <2> DEFINE k == Min(InSink(a, r - 1))
             rest == RemoveAt(a.buf[0], k)
             c == [a EXCEPT !.buf = [a.buf EXCEPT ![0] = rest]]
  <2>1. /\ k \in 1 .. Len(a.buf[0])
        /\ a.buf[0] \in Seq(Sized(0))
        /\ a.buf[0][k] \in Nodes
        /\ a.buf[0][k].units >= r
    BY <1>2, <1>8, SinkFits DEF TakeFromSink, a, r
  <2>2. blocks' = [blocks EXCEPT ![self[t]] = c]
    BY <1>8 DEF TakeFromSink, a, r
  <2>3. held' = [held EXCEPT ![t] = @ \cup {a.buf[0][k]}]
    BY <1>8 DEF TakeFromSink, a, r
  <2>4. Finish(t)
    BY <1>8 DEF TakeFromSink
  <2> HIDE DEF k
  <2>5. rest \in Seq(Sized(0))
    BY <2>1, LenProperties, RemovedType
  <2>6. 0 \in Buckets
    BY AllocatorAssumption DEF Buckets
  <2> HIDE DEF rest
  <2>7. c \in AllocatorType
    BY <1>4, <2>5, <2>6
  <2> HIDE DEF c
  <2>8. a.buf[0][k].units >= request[t]
    BY <2>1 DEF r
  <2> QED
    BY <1>1, <2>1, <2>2, <2>3, <2>4, <2>7, <2>8, EndSafely
<1> QED
  BY <1>6, <1>7, <1>8 DEF Takes

\* A call that ends without a node, having changed its block or not.
LEMMA DoneSafely ==
  ASSUME ListsInv, NEW t \in Threads, NEW a \in AllocatorType, pc[t] # "idle",
         blocks' = [blocks EXCEPT ![self[t]] = a], UNCHANGED held, Finish(t)
  PROVE  ListsInv' /\ NewFit
<1>1. BlocksInv' /\ Len(blocks') = Len(blocks)
  BY BlockChanged DEF ListsInv, CallsInv
<1>2. NewFit
  BY DEF NewFit
<1>3. CallsInv'
  BY <1>1 DEF Finish, Goto, ListsInv, CallsInv, Points
<1> QED
  BY <1>1, <1>2, <1>3 DEF ListsInv

\* Writing last or origin, with or without the lock, leaves the lists as they are.
LEMMA WritesSafely ==
  ASSUME ListsInv, NEW t \in Threads, LowerLast(t) \/ RaiseLast(t) \/ Advance(t)
  PROVE  ListsInv' /\ NewFit
<1> DEFINE a == blocks[self[t]]
<1>1. pc[t] # "idle" /\ Finish(t) /\ UNCHANGED held
  BY DEF LowerLast, RaiseLast, Advance
<1>2. a \in AllocatorType
  BY <1>1, ElementOfSeq DEF ListsInv, CallsInv, BlocksInv
<1>3. top[t] \in Nat /\ request[t] \in Nat /\ Word \in Nat \ {0} /\ a.origin \in Nat
  BY <1>2, AllocatorAssumption DEF ListsInv, CallsInv, AllocatorType
<1>4. CASE LowerLast(t) \/ RaiseLast(t)
  <2>1. blocks' = [blocks EXCEPT ![self[t]] = [a EXCEPT !.last = top[t]]]
    BY <1>4 DEF LowerLast, RaiseLast
  <2>2. [a EXCEPT !.last = top[t]] \in AllocatorType
    BY <1>2, <1>3 DEF AllocatorType
  <2> QED
    BY <1>1, <2>1, <2>2, DoneSafely
<1>5. CASE Advance(t)
  <2> DEFINE o == (a.origin + request[t]) % Word
  <2>1. o \in Nat
    BY <1>3
  <2>2. blocks' = [blocks EXCEPT ![self[t]] = [a EXCEPT !.origin = o]]
    BY <1>5 DEF Advance
  <2> HIDE DEF o
  <2>3. [a EXCEPT !.origin = o] \in AllocatorType
    BY <1>2, <2>1 DEF AllocatorType
  <2> QED
    BY <1>1, <2>2, <2>3, DoneSafely
<1> QED
  BY <1>4, <1>5

\* A growth copies the lists; the new node has the size of the request.
LEMMA MakesSafely ==
  ASSUME ListsInv, NEW t \in Threads, Grow(t) \/ Place(t)
  PROVE  ListsInv' /\ NewFit
<1>1. CASE Grow(t)
  <2>1. blocks[Current] \in AllocatorType /\ Len(blocks) \in Nat
    BY ElementOfSeq, EmptySeq DEF ListsInv, BlocksInv, Current
  <2>2. blocks' = Append(blocks, blocks[Current])
    BY <1>1 DEF Grow
  <2>3. BlocksInv' /\ Len(blocks') = Len(blocks) + 1
    BY <2>1, <2>2 DEF ListsInv, BlocksInv
  <2>4. CallsInv'
    BY <1>1, <2>1, <2>3 DEF Grow, Goto, ListsInv, CallsInv, Points
  <2> QED
    BY <1>1, <2>3, <2>4 DEF Grow, NewFit, ListsInv
<1>2. CASE Place(t)
  <2> DEFINE n == [start |-> IF data[t] = Current THEN blocks[self[t]].origin ELSE Word,
                   units |-> request[t]]
  <2>1. blocks[self[t]] \in AllocatorType
    BY <1>2, ElementOfSeq DEF Place, ListsInv, CallsInv, BlocksInv
  <2>2. request[t] \in Nat \ {0}
    <3>1. pc[t] = "place"
      BY <1>2 DEF Place
    <3>2. request[t] \in Requests
      BY <3>1 DEF ListsInv, CallsInv
    <3>3. ASSUME NEW r \in Requests
          PROVE  r \in Nat \ {0}
      <4>1. r \in 2 .. Word - 1 /\ Word \in Nat
        BY AllocatorAssumption
      <4> QED
        BY <4>1
    <3> QED
      BY <3>2, <3>3
  <2>3. n \in Nodes /\ n.units = request[t]
    BY <2>1, <2>2, AllocatorAssumption DEF AllocatorType, Nodes
  <2>4. held' = [held EXCEPT ![t] = @ \cup {n}]
    BY <1>2 DEF Place
  <2> HIDE DEF n
  <2>5. NewFit
    BY <2>2, <2>3, <2>4 DEF NewFit, ListsInv, CallsInv
  <2>6. ListsInv'
    BY <1>2, <2>3, <2>4 DEF Place, Goto, call, ListsInv, BlocksInv, CallsInv, Points
  <2> QED
    BY <2>5, <2>6
<1> QED
  BY <1>1, <1>2

\* free puts its chain where it belongs.
LEMMA FreesSafely ==
  ASSUME ListsInv, NEW t \in Threads, NEW chain \in Chains(t), FreeNodes(t, chain)
  PROVE  ListsInv' /\ NewFit
<1> DEFINE a == blocks[Current]
           c == [a EXCEPT !.buf = Pushed(a.buf, chain)]
<1>1. a \in AllocatorType /\ Current \in 1 .. Len(blocks)
  BY ElementOfSeq, EmptySeq DEF ListsInv, BlocksInv, Current
<1>2. chain \in Seq(Nodes)
  <2>1. PICK x \in SUBSET held[t] : Cardinality(x) \in 1 .. MaxChain /\ chain \in SetToSeqs(x)
    BY DEF Chains
  <2>2. Cardinality(x) \in Nat
    BY <2>1, AllocatorAssumption
  <2>3. chain \in [1 .. Cardinality(x) -> x] /\ x \subseteq Nodes
    BY <2>1 DEF SetToSeqs, ListsInv, CallsInv
  <2> QED
    BY <2>2, <2>3
<1>3. a.buf \in Lists
  BY <1>1 DEF AllocatorType
<1>4. c \in AllocatorType
  <2>1. Pushed(a.buf, chain) \in Lists
    BY <1>2, <1>3, PushedLists
  <2> QED
    BY <1>1, <2>1 DEF AllocatorType
<1>5. blocks' = [blocks EXCEPT ![Current] = c]
  BY DEF FreeNodes
<1>6. BlocksInv' /\ Len(blocks') = Len(blocks)
  BY <1>1, <1>4, <1>5, BlockChanged DEF ListsInv
<1>7. Raised(a, chain) \in Nat
  BY <1>1, <1>2, RaisedType
<1>8. top' = [top EXCEPT ![t] = Raised(a, chain)]
  BY DEF FreeNodes
<1>9. CallsInv'
  <2> HIDE DEF a
  <2>1. top' \in [Threads -> Nat]
    BY <1>7, <1>8 DEF ListsInv, CallsInv
  <2> QED
    BY <1>1, <1>6, <2>1 DEF FreeNodes, Goto, ListsInv, CallsInv, Points
<1>10. NewFit
  BY DEF FreeNodes, NewFit, ListsInv, CallsInv
<1> QED
  BY <1>6, <1>9, <1>10 DEF ListsInv
-----------------------------------------------------------------------------
\* What the code does as long as every walk ends at a bucket or at the end of them.
Steps == \E t \in Threads : Step(t)

\* With such a step the invariant is kept, and the step gives only what fits.
LEMMA ListsStep == ListsInv /\ [Steps]_vars => ListsInv' /\ NewFit
<1> SUFFICES ASSUME ListsInv, [Steps]_vars
             PROVE  ListsInv' /\ NewFit
  OBVIOUS
<1>1. ASSUME NEW t \in Threads, Looks(t)
      PROVE  ListsInv' /\ NewFit
  BY <1>1, LooksSafely
<1>2. ASSUME NEW t \in Threads, Takes(t)
      PROVE  ListsInv' /\ NewFit
  BY <1>2, FindsFit
<1>3. ASSUME NEW t \in Threads, LowerLast(t) \/ RaiseLast(t) \/ Advance(t)
      PROVE  ListsInv' /\ NewFit
  BY <1>3, WritesSafely
<1>4. ASSUME NEW t \in Threads, Grow(t) \/ Place(t)
      PROVE  ListsInv' /\ NewFit
  BY <1>4, MakesSafely
<1>5. ASSUME NEW t \in Threads, NEW chain \in Chains(t), FreeNodes(t, chain)
      PROVE  ListsInv' /\ NewFit
  BY <1>5, FreesSafely
<1>6. CASE UNCHANGED vars
  BY <1>6 DEF vars, call, ListsInv, BlocksInv, CallsInv, NewFit
<1> QED
  BY <1>1, <1>2, <1>3, <1>4, <1>5, <1>6 DEF Steps, Step, Looks, Takes

\* A walk that leaves the buckets takes something that is on no list.
LEMMA AstrayStep ==
  ASSUME ListsInv, NEW t \in Threads, TakeAstray(t)
  PROVE  ListsInv' /\ Astray'
<1>1. PICK units \in 1 .. LimitUnits :
         held' = [held EXCEPT ![t] = @ \cup {[start |-> Word, units |-> units]}]
  BY DEF TakeAstray
<1>2. [start |-> Word, units |-> units] \in Nodes
  <2>1. Word \in Nat /\ LimitUnits \in Nat
    BY AllocatorAssumption
  <2> QED
    BY <2>1 DEF Nodes
<1>3. held' \in [Threads -> SUBSET Nodes]
  BY <1>1, <1>2 DEF ListsInv, CallsInv
<1>4. /\ UNCHANGED <<blocks, request, self, top>>
      /\ pc[t] = "bucket" /\ pc' = [pc EXCEPT ![t] = "astray"]
  BY DEF TakeAstray, Goto, call
<1>5. pc' \in [Threads -> Points] /\ pc'[t] = "astray"
  BY <1>4 DEF ListsInv, CallsInv, Points
<1>6. CallsInv'
  BY <1>3, <1>4, <1>5 DEF ListsInv, CallsInv
<1> QED
  BY <1>4, <1>5, <1>6 DEF ListsInv, BlocksInv, Astray

\* So the invariant is inductive, and every step gives only what fits unless a call goes
\* astray with it.
LEMMA NextStep == ListsInv /\ [Next]_vars => ListsInv' /\ (~Astray' => NewFit)
<1> SUFFICES ASSUME ListsInv, [Next]_vars
             PROVE  ListsInv' /\ (~Astray' => NewFit)
  OBVIOUS
<1>1. CASE [Steps]_vars
  BY <1>1, ListsStep
<1>2. ASSUME NEW t \in Threads, TakeAstray(t)
      PROVE  ListsInv' /\ Astray'
  BY <1>2, AstrayStep
<1> QED
  BY <1>1, <1>2 DEF Next, Steps

LEMMA ListsKept == Spec => []ListsInv
BY ListsInit, NextStep, PTL DEF Spec

\* Until a walk leaves the buckets, in every list of every block the memory has been in
\* there are only nodes of the size the list is for (free, lines 360 to 384, and the
\* searches of alloc, lines 281 to 323).
THEOREM ListsSorted == Spec => [](~Astray => ListsInv)
BY ListsKept, PTL

\* alloc returns nodes of at least the size asked for (lines 274 to 354), whatever the
\* other threads do between its unlocked read of last, its search and its end, unless
\* the walk of line 283 leaves the buckets.
THEOREM AllocFits == Spec => NodeFits
<1>1. ListsInv /\ [Next]_vars => [~Astray' => \A t \in Threads : \A n \in held'[t] \ held[t] :
                                                n.units >= request[t]]_vars
  BY NextStep DEF NewFit
<1> QED
  BY <1>1, ListsKept, PTL DEF Spec, NodeFits
-----------------------------------------------------------------------------
(* What the calls do to the lists as a whole *)

\* The nodes on the lists, and that each is on one of them, once.
On(f) == UNION {ToSet(f[b]) : b \in Buckets}

Exact(f) == f \in Lists /\ \A b \in Buckets : IsInjective(f[b])

\* Where a node on the lists is.
LEMMA OnList ==
  ASSUME NEW f \in Lists, NEW b \in Buckets
  PROVE  /\ f[b] \in Seq(Nodes) /\ f[b] \in Seq(Sized(b))
         /\ \A n \in ToSet(f[b]) : n \in Nodes /\ Bucket(n) = b /\ n \in On(f)
         /\ On(f) \subseteq Nodes
         /\ \A n \in On(f) : Bucket(n) \in Buckets /\ n \in ToSet(f[Bucket(n)])
<1>1. ASSUME NEW c \in Buckets
      PROVE  /\ f[c] \in Seq(Sized(c)) /\ f[c] \in Seq(Nodes)
             /\ \A n \in ToSet(f[c]) : n \in Nodes /\ Bucket(n) = c
  <2>1. f[c] \in Seq(Sized(c)) /\ f[c] \in Seq(Nodes)
    BY DEF Lists
  <2>2. \A n \in ToSet(f[c]) : n \in Sized(c)
    BY <2>1, ElementOfSeq, LenProperties DEF ToSet
  <2> QED
    BY <2>1, <2>2 DEF Sized
<1> QED
  BY <1>1 DEF On

\* A list that loses a node.
LEMMA NodeTaken ==
  ASSUME NEW f \in Lists, NEW b \in Buckets, NEW s \in Seq(Sized(b)), NEW n,
         ToSet(f[b]) = ToSet(s) \cup {n},
         IsInjective(f[b]) => IsInjective(s) /\ n \notin ToSet(s)
  PROVE  /\ On(f) = On([f EXCEPT ![b] = s]) \cup {n} /\ n \in Nodes
         /\ Exact(f) => Exact([f EXCEPT ![b] = s]) /\ n \notin On([f EXCEPT ![b] = s])
<1> DEFINE g == [f EXCEPT ![b] = s]
<1>1. f \in [Buckets -> Seq(Nodes)]
  BY DEF Lists
<1>2. s \in Seq(Nodes)
  BY SeqMonotonic DEF Sized
<1>3. g \in [Buckets -> Seq(Nodes)] /\ g[b] = s /\ \A c \in Buckets : c # b => g[c] = f[c]
  BY <1>1, <1>2
<1> HIDE DEF g
<1>4. n \in ToSet(f[b]) /\ n \in On(f) /\ n \in Nodes /\ Bucket(n) = b
  BY OnList
<1>5. On(f) = On(g) \cup {n}
  <2>1. \A m : m \in On(f) <=> \E c \in Buckets : m \in ToSet(f[c])
    BY DEF On
  <2>2. \A m : m \in On(g) <=> \E c \in Buckets : m \in ToSet(g[c])
    BY DEF On
  <2> QED
    BY <1>3, <1>4, <2>1, <2>2
<1>6. ASSUME Exact(f) PROVE Exact(g) /\ n \notin On(g)
  <2>1. \A c \in Buckets : g[c] \in Seq(Sized(c)) /\ IsInjective(g[c])
    BY <1>3, <1>6 DEF Lists, Exact
  <2>2. Exact(g)
    BY <1>3, <2>1 DEF Exact, Lists
  <2>3. n \notin ToSet(g[b])
    BY <1>3, <1>6 DEF Exact
  <2> QED
    BY <1>4, <2>2, <2>3, OnList DEF Exact
<1> QED
  BY <1>4, <1>5, <1>6 DEF g

\* A node that free puts on a list.
LEMMA NodePushed ==
  ASSUME NEW f \in Lists, NEW n \in Nodes
  PROVE  /\ [f EXCEPT ![Bucket(n)] = <<n>> \o @] \in Lists
         /\ On([f EXCEPT ![Bucket(n)] = <<n>> \o @]) = On(f) \cup {n}
         /\ \A b \in Buckets : [f EXCEPT ![Bucket(n)] = <<n>> \o @][b] # <<>>
                                 <=> (f[b] # <<>> \/ b = Bucket(n))
         /\ Exact(f) /\ n \notin On(f) => Exact([f EXCEPT ![Bucket(n)] = <<n>> \o @])
<1> DEFINE k == Bucket(n)
           l == <<n>> \o f[k]
           g == [f EXCEPT ![k] = l]
<1>1. k \in Buckets
  BY AllocatorAssumption DEF Bucket, Buckets, Index, Nodes
<1>2. f \in [Buckets -> Seq(Nodes)]
  BY DEF Lists
<1>3. g \in Lists
  BY PushedOne
<1> HIDE DEF k
<1>4. f[k] \in Seq(Nodes)
  BY <1>1, <1>2
<1>5. /\ ToSet(l) = {n} \cup ToSet(f[k]) /\ l # <<>>
      /\ IsInjective(f[k]) /\ n \notin ToSet(f[k]) => IsInjective(l)
  BY <1>4, MoreOfList
<1> HIDE DEF l
<1>6. g[k] = l /\ \A c \in Buckets : c # k => g[c] = f[c]
  BY <1>1, <1>2
<1> HIDE DEF g
<1>7. ASSUME Exact(f), n \notin On(f) PROVE Exact(g)
  <2>1. n \notin ToSet(f[k])
    BY <1>1, <1>7 DEF On
  <2> QED
    BY <1>1, <1>3, <1>5, <1>6, <1>7, <2>1 DEF Exact
<1>8. On(g) = On(f) \cup {n}
  <2>1. \A m : m \in On(f) <=> \E c \in Buckets : m \in ToSet(f[c])
    BY DEF On
  <2>2. \A m : m \in On(g) <=> \E c \in Buckets : m \in ToSet(g[c])
    BY DEF On
  <2> QED
    BY <1>1, <1>5, <1>6, <2>1, <2>2
<1>9. \A b \in Buckets : g[b] # <<>> <=> (f[b] # <<>> \/ b = k)
  BY <1>5, <1>6
<1> QED
  BY <1>3, <1>7, <1>8, <1>9 DEF g, l, k

\* All the nodes of a chain.
LEMMA ChainPushed ==
  ASSUME NEW f \in Lists, NEW chain \in Seq(Nodes), IsInjective(chain)
  PROVE  /\ Exact(f) /\ ToSet(chain) \cap On(f) = {} => Exact(Pushed(f, chain))
         /\ On(Pushed(f, chain)) = On(f) \cup ToSet(chain)
         /\ \A b \in Buckets : Pushed(f, chain)[b] # <<>>
                                 <=> (f[b] # <<>> \/ \E n \in ToSet(chain) : Bucket(n) = b)
<1> DEFINE N == Len(chain)
           Before(k) == {chain[j] : j \in 1 .. k}
           Done(g, k) == /\ Exact(f) /\ ToSet(chain) \cap On(f) = {} => Exact(g)
                         /\ On(g) = On(f) \cup Before(k)
                         /\ \A b \in Buckets : g[b] # <<>>
                              <=> (f[b] # <<>> \/ \E n \in Before(k) : Bucket(n) = b)
           G == [k \in 0 .. N |-> {g \in Lists : Done(g, k)}]
<1>1. N \in Nat /\ DOMAIN chain = 1 .. N /\ \A k \in 1 .. N : chain[k] \in Nodes
  BY ElementOfSeq, LenProperties
<1>2. f \in G[0]
  <2>1. Before(0) = {} /\ 0 \in 0 .. N
    BY <1>1
  <2>2. Done(f, 0)
    BY <2>1
  <2> HIDE DEF Done
  <2> QED
    BY <2>1, <2>2
<1>3. ASSUME NEW k \in 1 .. N, NEW g \in G[k - 1]
      PROVE  [g EXCEPT ![Bucket(chain[k])] = <<chain[k]>> \o @] \in G[k]
  <2> DEFINE h == [g EXCEPT ![Bucket(chain[k])] = <<chain[k]>> \o @]
  <2>1. /\ k \in 0 .. N /\ k - 1 \in 0 .. N /\ chain[k] \in Nodes
        /\ k \in Nat /\ 1 .. k = 1 .. (k - 1) \cup {k}
    BY <1>1
  <2>2. Done(g, k - 1) /\ g \in Lists
    <3> HIDE DEF Done
    <3> QED
      BY <2>1
  <2>3. chain[k] \notin Before(k - 1)
    BY <1>1, <2>1 DEF IsInjective
  <2>4. ToSet(chain) \cap On(f) = {} => chain[k] \notin On(g)
    BY <1>1, <2>2, <2>3 DEF ToSet
  <2>5. /\ h \in Lists /\ On(h) = On(g) \cup {chain[k]}
        /\ \A b \in Buckets : h[b] # <<>> <=> (g[b] # <<>> \/ b = Bucket(chain[k]))
        /\ Exact(g) /\ chain[k] \notin On(g) => Exact(h)
    BY <2>1, <2>2, NodePushed
  <2> HIDE DEF h
  <2>6. Before(k) = Before(k - 1) \cup {chain[k]}
    BY <2>1
  <2> HIDE DEF Before
  <2>7. Done(h, k) /\ h \in Lists
    BY <2>2, <2>4, <2>5, <2>6
  <2> HIDE DEF Done
  <2>8. h \in G[k]
    BY <2>1, <2>7
  <2> QED
    BY <2>8 DEF h
<1> HIDE DEF Done, Before
<1>4. G[N] = {g \in Lists : Done(g, N)}
  BY <1>1
<1> HIDE DEF G
<1>5. Pushed(f, chain) \in G[N]
  BY <1>1, <1>2, <1>3, PushedIn
<1>6. Done(Pushed(f, chain), N)
  BY <1>4, <1>5
<1>7. Before(N) = ToSet(chain)
  BY <1>1 DEF Before, ToSet
<1> QED
  BY <1>6, <1>7 DEF Done
-----------------------------------------------------------------------------
(* The steps, in terms of the nodes that are on lists *)

\* What a step of t leaves alone of the others' calls.
OthersStay(t) ==
    \A u \in Threads \ {t} :
        /\ pc'[u] = pc[u] /\ request'[u] = request[u] /\ self'[u] = self[u]
        /\ data'[u] = data[u] /\ size'[u] = size[u] /\ top'[u] = top[u]
        /\ held'[u] = held[u]

\* A call of alloc that finds a node takes it off its list.
LEMMA NodeFound ==
  ASSUME ListsInv, NEW t \in Threads, Takes(t)
  PROVE  \E n, f :
            /\ n \in Nodes
            /\ On(blocks[self[t]].buf) = On(f) \cup {n}
            /\ Exact(blocks[self[t]].buf) => Exact(f) /\ n \notin On(f)
            /\ blocks' = [blocks EXCEPT ![self[t]].buf = f]
            /\ held' = [held EXCEPT ![t] = @ \cup {n}]
<1> DEFINE a == blocks[self[t]]
           r == request[t]
           b == Candidate(a, r - 1)
           k == Min(InSink(a, r - 1))
<1>1. pc[t] \in {"bucket", "sink"}
  BY DEF Takes, EmptiesBucket, TakeFromBucket, TakeFromSink
<1>2. a \in AllocatorType /\ r \in Requests /\ self[t] \in DOMAIN blocks
  BY <1>1, ElementOfSeq, LenProperties DEF ListsInv, CallsInv, BlocksInv
<1>3. CASE EmptiesBucket(t) \/ TakeFromBucket(t)
  <2> DEFINE l == a.buf[b]
  <2>1. /\ b \in Buckets
        /\ blocks' = [blocks EXCEPT ![self[t]].buf = [a.buf EXCEPT ![b] = Tail(l)]]
        /\ held' = [held EXCEPT ![t] = @ \cup {Head(l)}]
    BY <1>2, <1>3 DEF EmptiesBucket, TakeFromBucket
  <2> HIDE DEF b
  <2>2. a.buf[b] # <<>>
    BY <1>2, <2>1, CandidateFits DEF b
  <2>3. a.buf \in Lists
    BY <1>2 DEF AllocatorType
  <2>4. l \in Seq(Sized(b))
    BY <2>1, <2>3, OnList
  <2> HIDE DEF a
  <2>5. /\ ToSet(l) = ToSet(Tail(l)) \cup {Head(l)}
        /\ IsInjective(l) => IsInjective(Tail(l)) /\ Head(l) \notin ToSet(Tail(l))
    BY <2>2, <2>4, TailOfList
  <2>6. Tail(l) \in Seq(Sized(b))
    BY <2>2, <2>4, HeadTailProperties
  <2>7. /\ On(a.buf) = On([a.buf EXCEPT ![b] = Tail(l)]) \cup {Head(l)} /\ Head(l) \in Nodes
        /\ Exact(a.buf) => /\ Exact([a.buf EXCEPT ![b] = Tail(l)])
                           /\ Head(l) \notin On([a.buf EXCEPT ![b] = Tail(l)])
    <3> DEFINE rest == Tail(l)
               n == Head(l)
    <3> HIDE DEF rest, n
    <3>1. /\ rest \in Seq(Sized(b)) /\ ToSet(a.buf[b]) = ToSet(rest) \cup {n}
          /\ IsInjective(a.buf[b]) => IsInjective(rest) /\ n \notin ToSet(rest)
      BY <2>5, <2>6 DEF rest, n
    <3>2. /\ On(a.buf) = On([a.buf EXCEPT ![b] = rest]) \cup {n} /\ n \in Nodes
          /\ Exact(a.buf) => /\ Exact([a.buf EXCEPT ![b] = rest])
                             /\ n \notin On([a.buf EXCEPT ![b] = rest])
      BY <2>1, <2>3, <3>1, NodeTaken
    <3> QED
      BY <3>2 DEF rest, n
  <2> QED
    BY <2>1, <2>7 DEF a
<1>4. CASE TakeFromSink(t)
  <2> DEFINE l == a.buf[0]
             rest == RemoveAt(l, k)
  <2>1. /\ blocks' = [blocks EXCEPT ![self[t]].buf = [a.buf EXCEPT ![0] = rest]]
        /\ held' = [held EXCEPT ![t] = @ \cup {l[k]}]
        /\ InSink(a, r - 1) # {}
    BY <1>2, <1>4 DEF TakeFromSink
  <2>2. k \in 1 .. Len(l) /\ l \in Seq(Sized(0))
    BY <1>2, <2>1, SinkFits
  <2>3. 0 \in Buckets
    BY AllocatorAssumption DEF Buckets
  <2>4. a.buf \in Lists
    BY <1>2 DEF AllocatorType
  <2> HIDE DEF a, k
  <2>5. rest \in Seq(Sized(0))
    BY <2>2, RemovedType
  <2>6. /\ ToSet(l) = ToSet(rest) \cup {l[k]}
        /\ IsInjective(l) => IsInjective(rest) /\ l[k] \notin ToSet(rest)
    BY <2>2, RestOfList
  <2>7. /\ On(a.buf) = On([a.buf EXCEPT ![0] = rest]) \cup {l[k]} /\ l[k] \in Nodes
        /\ Exact(a.buf) => /\ Exact([a.buf EXCEPT ![0] = rest])
                           /\ l[k] \notin On([a.buf EXCEPT ![0] = rest])
    <3> HIDE DEF rest
    <3> QED
      BY <2>3, <2>4, <2>5, <2>6, NodeTaken
  <2> QED
    BY <2>1, <2>7 DEF a
<1> QED
  BY <1>3, <1>4 DEF Takes

\* The nodes of a chain are the thread's, each once.
LEMMA ChainOf ==
  ASSUME ListsInv, NEW t \in Threads, NEW chain \in Chains(t)
  PROVE  chain \in Seq(Nodes) /\ IsInjective(chain) /\ ToSet(chain) \subseteq held[t]
<1>1. PICK x \in SUBSET held[t] : Cardinality(x) \in 1 .. MaxChain /\ chain \in SetToSeqs(x)
  BY DEF Chains
<1>2. Cardinality(x) \in Nat
  BY <1>1, AllocatorAssumption
<1>3. chain \in [1 .. Cardinality(x) -> x] /\ x \subseteq Nodes /\ x \subseteq held[t]
  BY <1>1 DEF SetToSeqs, ListsInv, CallsInv
<1>4. \A i, j \in 1 .. Cardinality(x) : i # j => chain[i] # chain[j]
  BY <1>1 DEF SetToSeqs
<1> QED
  BY <1>2, <1>3, <1>4 DEF IsInjective, ToSet

\* free puts its chain on the lists, and no other thread had a node of it.
LEMMA NodesFreed ==
  ASSUME ListsInv, NEW t \in Threads, NEW chain \in Chains(t), FreeNodes(t, chain)
  PROVE  \E f :
            /\ On(f) = On(blocks[Current].buf) \cup ToSet(chain)
            /\ Exact(blocks[Current].buf) /\ On(blocks[Current].buf) \cap Taken = {} => Exact(f)
            /\ \A b \in Buckets : f[b] # <<>> <=> \/ blocks[Current].buf[b] # <<>>
                                                  \/ \E n \in ToSet(chain) : Bucket(n) = b
            /\ blocks' = [blocks EXCEPT ![Current].buf = f]
            /\ held' = [held EXCEPT ![t] = @ \ ToSet(chain)]
            /\ Taken' = Taken \ ToSet(chain)
<1> DEFINE a == blocks[Current]
           f == Pushed(a.buf, chain)
<1>1. chain \in Seq(Nodes) /\ IsInjective(chain) /\ ToSet(chain) \subseteq held[t]
  BY ChainOf
<1>2. a \in AllocatorType /\ Current \in DOMAIN blocks
  BY ElementOfSeq, EmptySeq, LenProperties DEF ListsInv, BlocksInv, Current
<1>3. blocks' = [blocks EXCEPT ![Current].buf = f] /\ held' = [held EXCEPT ![t] = @ \ ToSet(chain)]
  BY <1>2 DEF FreeNodes
<1>4. On(a.buf) \cap Taken = {} => ToSet(chain) \cap On(a.buf) = {}
  BY <1>1 DEF Taken
<1>5. /\ Exact(a.buf) /\ ToSet(chain) \cap On(a.buf) = {} => Exact(f)
      /\ On(f) = On(a.buf) \cup ToSet(chain)
      /\ \A b \in Buckets :
            f[b] # <<>> <=> (a.buf[b] # <<>> \/ \E n \in ToSet(chain) : Bucket(n) = b)
  <2>1. a.buf \in Lists
    BY <1>2 DEF AllocatorType
  <2> QED
    BY <1>1, <2>1, ChainPushed
<1>6. ASSUME NEW u \in Threads, u # t, NEW n \in held[u] PROVE n \notin held[t]
  <2>1. n \in Nodes
    BY DEF ListsInv, CallsInv
  <2>2. n.start \in Units(n)
    BY <2>1 DEF Nodes, Units
  <2>3. n \in held[t] => Units(n) \cap Units(n) = {}
    BY <1>6 DEF FreeNodes, Intact
  <2> QED
    BY <2>2, <2>3
<1>7. held \in [Threads -> SUBSET Nodes]
  BY DEF ListsInv, CallsInv
<1> HIDE DEF f, a
<1>8. Taken' = Taken \ ToSet(chain)
  BY <1>1, <1>3, <1>6, <1>7 DEF Taken
<1> QED
  BY <1>3, <1>4, <1>5, <1>8 DEF a
-----------------------------------------------------------------------------
(* The lists while the memory is where it was created, for any number of   *)
(* threads                                                                 *)

End(n) == n.start + n.units

InAlloc(t) == pc[t] \notin {"idle", "raise"}

\* The threads that have found origin low enough and will move it.
Pending == {t \in Threads : pc[t] \in {"place", "advance"}}

\* What the thread has constructed at origin, which is still to be moved past it.
NotYet(t) == IF pc[t] = "advance" THEN request[t] ELSE 0

\* No request is larger than R, and should all threads at once find that the memory
\* has the room for their nodes, and one more after them, then origin does not wrap.
Roomy(R) == /\ IsFiniteSet(Threads)
            /\ \A r \in Requests : r <= R
            /\ InitUnits + R * Cardinality(Threads) + R < Word

ContextType == /\ data \in [Threads -> Nat]
               /\ size \in [Threads -> Nat]
               /\ memUnits \in Nat

\* Every call is in the first block.
AtFirst == /\ memUnits = InitUnits
           /\ \A t \in Threads : /\ pc[t] # "idle" => self[t] = 1
                                 /\ InAlloc(t) => data[t] = 1 /\ size[t] = InitUnits

\* A thread that finds the room is one of those that move origin by R at the most.
Room(R) == blocks[1].origin + R * Cardinality(Pending) <= InitUnits + R * Cardinality(Threads)

\* origin has been moved past all nodes, but for those that their threads will still
\* move it past.
Below == /\ \A n \in On(blocks[1].buf) : End(n) <= blocks[1].origin
         /\ \A t \in Threads : \A n \in held[t] : End(n) <= blocks[1].origin + NotYet(t)

\* Every node is on one list, once, or has a pool.
Once == /\ Exact(blocks[1].buf)
        /\ On(blocks[1].buf) \cap Taken = {}

FirstInv(R) == Current = 1 => AtFirst /\ Room(R) /\ Below /\ Once

\* What MemCtx holds of the memory stays of its type.
LEMMA ContextStep ==
  ASSUME ListsInv, ContextType, [Steps]_vars
  PROVE  ContextType'
<1>1. Current \in Nat
  BY LenProperties DEF Current, ListsInv, BlocksInv
<1>2. ASSUME NEW t \in Threads, Grow(t)
      PROVE  ContextType'
  <2>1. request[t] \in Nat
    BY DEF ListsInv, CallsInv
  <2>2. PagesFor(request[t]) * UnitsPerPage \in Nat
    <3>1. PagesFor(request[t]) \in Nat
      BY <2>1, AllocatorAssumption DEF PagesFor
    <3> QED
      BY <3>1, AllocatorAssumption
  <2> QED
    BY <1>1, <1>2, <2>2 DEF Grow, ContextType
<1>3. ASSUME NEW t \in Threads, Finish(t), memUnits' = memUnits
      PROVE  ContextType'
  BY <1>3 DEF Finish, ContextType
<1>4. ASSUME NEW t \in Threads, UNCHANGED <<data, size, memUnits>>
      PROVE  ContextType'
  BY <1>4 DEF ContextType
<1>5. ASSUME NEW t \in Threads, NEW r \in Requests, Request(t, r)
      PROVE  ContextType'
  BY <1>1, <1>5 DEF Request, ContextType
<1>6. ASSUME NEW t \in Threads, LowerLast(t) \/ TakeFromBucket(t) \/ TakeFromSink(t)
                                \/ GrowFails(t) \/ Advance(t) \/ RaiseLast(t)
      PROVE  ContextType'
  BY <1>3, <1>6 DEF LowerLast, TakeFromBucket, TakeFromSink, GrowFails, Advance, RaiseLast
<1>7. ASSUME NEW t \in Threads, Seek(t) \/ EmptiesBucket(t) \/ FindsNoBucket(t) \/ FindsNoSink(t)
                                \/ Bump(t) \/ Place(t)
      PROVE  ContextType'
  BY <1>4, <1>7 DEF Seek, EmptiesBucket, FindsNoBucket, FindsNoSink, Bump, Place, call
<1>8. ASSUME NEW t \in Threads, NEW chain, FreeNodes(t, chain)
      PROVE  ContextType'
  BY <1>4, <1>8 DEF FreeNodes
<1>9. CASE UNCHANGED vars
  BY <1>9 DEF vars, ContextType
<1> QED
  BY <1>2, <1>5, <1>6, <1>7, <1>8, <1>9 DEF Steps, Step

\* Writing an allocator makes no new block.
LEMMA NoNewBlock ==
  ASSUME ListsInv, NEW k, NEW a, blocks' = [blocks EXCEPT ![k] = a]
  PROVE  Current' = Current /\ DOMAIN blocks' = DOMAIN blocks
<1>1. blocks \in Seq(AllocatorType) /\ Len(blocks) \in Nat \ {0} /\ DOMAIN blocks = 1 .. Len(blocks)
  BY EmptySeq, LenProperties DEF ListsInv, BlocksInv
<1>2. blocks' \in [1 .. Len(blocks) -> {blocks'[i] : i \in 1 .. Len(blocks)}]
  BY <1>1
<1>3. Len(blocks') \in Nat /\ DOMAIN blocks' = 1 .. Len(blocks')
  BY <1>1, <1>2, SeqDef, LenProperties
<1>4. 1 .. Len(blocks') = 1 .. Len(blocks)
  BY <1>1, <1>2, <1>3
<1>5. Len(blocks') = Len(blocks)
  BY <1>1, <1>3, <1>4
<1> QED
  BY <1>1, <1>3, <1>5 DEF Current

\* While the memory has not moved, no step has been a growth.
LEMMA FirstStays ==
  ASSUME ListsInv, Steps, Current' = 1
  PROVE  /\ Current = 1
         /\ \A t \in Threads : ~Grow(t)
<1>1. blocks \in Seq(AllocatorType) /\ Len(blocks) \in Nat \ {0}
  BY EmptySeq, LenProperties DEF ListsInv, BlocksInv
<1>2. ASSUME NEW t \in Threads, Grow(t) PROVE FALSE
  <2>1. blocks[Current] \in AllocatorType
    BY <1>1, ElementOfSeq DEF Current
  <2>2. Len(blocks') = Len(blocks) + 1
    BY <1>1, <1>2, <2>1, AppendProperties DEF Grow
  <2> DEFINE n == Len(blocks)
  <2>3. n \in Nat \ {0} /\ 1 = n + 1
    BY <1>1, <2>2 DEF Current
  <2> HIDE DEF n
  <2> QED
    BY <2>3
<1>3. ASSUME NEW k, NEW a, blocks' = [blocks EXCEPT ![k] = a]
      PROVE  Len(blocks') = Len(blocks)
  BY <1>3, NoNewBlock DEF Current
<1>4. Len(blocks') = Len(blocks)
  <2>1. ASSUME NEW t \in Threads, UNCHANGED blocks PROVE Len(blocks') = Len(blocks)
    BY <2>1
  <2>2. ASSUME NEW t \in Threads, EmptiesBucket(t) \/ TakeFromBucket(t) \/ TakeFromSink(t)
        PROVE  Len(blocks') = Len(blocks)
    BY <1>3, <2>2 DEF EmptiesBucket, TakeFromBucket, TakeFromSink
  <2>3. ASSUME NEW t \in Threads, LowerLast(t) \/ Advance(t) \/ RaiseLast(t)
        PROVE  Len(blocks') = Len(blocks)
    BY <1>3, <2>3 DEF LowerLast, Advance, RaiseLast
  <2>4. ASSUME NEW t \in Threads, NEW chain, FreeNodes(t, chain)
        PROVE  Len(blocks') = Len(blocks)
    BY <1>3, <2>4 DEF FreeNodes
  <2> QED
    BY <1>2, <2>1, <2>2, <2>3, <2>4 DEF Steps, Step, Request, Seek, FindsNoBucket, FindsNoSink, Bump,
       GrowFails, Place
<1> QED
  BY <1>2, <1>4 DEF Current

\* While the memory has not moved every call goes on in the first block.
LEMMA AtFirstKept ==
  ASSUME ListsInv, ContextType, AtFirst, Steps, Current = 1, Current' = 1
  PROVE  AtFirst'
<1> USE DEF ListsInv, CallsInv, ContextType, AtFirst, InAlloc, Goto
<1>1. ASSUME NEW t \in Threads, NEW r \in Requests, Request(t, r)
      PROVE  AtFirst'
  BY <1>1 DEF Request
<1>2. ASSUME NEW t \in Threads, NEW x, Goto(t, x), pc[t] # "idle",
             x = "raise" => pc[t] = "raise", pc[t] = "raise" => x \in {"idle", "raise"},
             UNCHANGED <<memUnits, request, self, data, size>>
      PROVE  AtFirst'
  BY <1>2
<1>3. ASSUME NEW t \in Threads, Finish(t), UNCHANGED memUnits
      PROVE  AtFirst'
  BY <1>3 DEF Finish
<1>4. ASSUME NEW t \in Threads, NEW chain, FreeNodes(t, chain)
      PROVE  AtFirst'
  BY <1>4 DEF FreeNodes
<1>5. ASSUME NEW t \in Threads, Seek(t) \/ EmptiesBucket(t) \/ FindsNoBucket(t) \/ FindsNoSink(t)
                                \/ Bump(t) \/ Place(t)
      PROVE  AtFirst'
  BY <1>2, <1>5 DEF Seek, EmptiesBucket, FindsNoBucket, FindsNoSink, Bump, Place, call
<1>6. ASSUME NEW t \in Threads, LowerLast(t) \/ TakeFromBucket(t) \/ TakeFromSink(t)
                                \/ GrowFails(t) \/ Advance(t) \/ RaiseLast(t)
      PROVE  AtFirst'
  BY <1>3, <1>6 DEF LowerLast, TakeFromBucket, TakeFromSink, GrowFails, Advance, RaiseLast
<1> QED
  BY <1>1, <1>4, <1>5, <1>6, FirstStays DEF Steps, Step

\* The number of threads that are to move origin.
LEMMA PendingCount ==
  ASSUME IsFiniteSet(Threads)
  PROVE  /\ IsFiniteSet(Pending) /\ Cardinality(Pending) \in Nat
         /\ Cardinality(Pending) <= Cardinality(Threads) /\ Cardinality(Threads) \in Nat
         /\ \A t \in Pending : /\ Cardinality(Pending \ {t}) = Cardinality(Pending) - 1
                               /\ Cardinality(Pending) >= 1
<1>1. Pending \subseteq Threads
  BY DEF Pending
<1>2. IsFiniteSet(Pending) /\ Cardinality(Pending) <= Cardinality(Threads)
  BY <1>1, FS_Subset
<1>3. Cardinality(Pending) \in Nat /\ Cardinality(Threads) \in Nat
  BY <1>2, FS_CardinalityType
<1>4. ASSUME NEW t \in Pending
      PROVE  /\ Cardinality(Pending \ {t}) = Cardinality(Pending) - 1
             /\ Cardinality(Pending) >= 1
  <2>1. Cardinality(Pending \ {t}) = Cardinality(Pending) - 1 /\ IsFiniteSet(Pending \ {t})
    BY <1>2, FS_RemoveElement
  <2>2. Cardinality(Pending \ {t}) \in Nat
    BY <2>1, FS_CardinalityType
  <2> QED
    BY <1>3, <2>1, <2>2
<1> QED
  BY <1>2, <1>3, <1>4

\* The products that Room compares.
LEMMA Products ==
  ASSUME NEW R \in Nat, NEW m \in Nat, NEW n \in Nat
  PROVE  /\ R * m \in Nat
         /\ m <= n => R * m <= R * n
         /\ m >= 1 => R * (m - 1) = R * m - R /\ R * m >= R
<1>1. \A p, q \in Nat : p * q \in Nat /\ p * (q + 1) = p * q + p
  OBVIOUS
<1>2. \A p, q, r \in Nat : p * (q + r) = p * q + p * r
  OBVIOUS
<1>3. CASE m <= n
  <2>1. n - m \in Nat /\ n = m + (n - m)
    BY <1>3
  <2>2. R * n = R * m + R * (n - m) /\ R * (n - m) \in Nat /\ R * m \in Nat /\ R * n \in Nat
    BY <1>1, <1>2, <2>1
  <2>3. R * m <= R * n
    BY <2>2
  <2>4. CASE m >= 1
    <3>1. m - 1 \in Nat /\ m = (m - 1) + 1
      BY <2>4
    <3>2. R * m = R * (m - 1) + R /\ R * (m - 1) \in Nat
      BY <1>1, <3>1
    <3> QED
      BY <2>2, <2>3, <3>2
  <2> QED
    BY <2>2, <2>3, <2>4
<1>4. CASE ~(m <= n)
  <2>1. m - 1 \in Nat /\ m = (m - 1) + 1
    BY <1>4
  <2>2. R * m = R * (m - 1) + R /\ R * (m - 1) \in Nat /\ R * m \in Nat
    BY <1>1, <2>1
  <2> QED
    BY <1>4, <2>2
<1> QED
  BY <1>3, <1>4

\* There is room for the thread's node, and no address wraps.
LEMMA OriginBounds ==
  ASSUME NEW R \in Nat, Roomy(R), ListsInv, Current = 1, Room(R), NEW t \in Threads, InAlloc(t),
         AtFirst
  PROVE  /\ self[t] = 1
         /\ blocks[1].origin \in Nat /\ request[t] \in Nat /\ request[t] <= R
         /\ (blocks[1].origin + request[t]) % Word = blocks[1].origin + request[t]
<1> DEFINE c == Cardinality(Pending)
           N == Cardinality(Threads)
           o == blocks[1].origin
           r == request[t]
<1>1. self[t] = 1
  BY DEF AtFirst, InAlloc
<1>2. o \in Nat
  <2>1. blocks[1] \in AllocatorType
    BY ElementOfSeq DEF ListsInv, BlocksInv, Current
  <2> QED
    BY <2>1 DEF AllocatorType
<1>3. r \in Nat /\ r <= R
  <2>1. pc[t] \notin {"idle", "raise"}
    BY DEF InAlloc
  <2>2. r \in Requests
    BY <2>1 DEF ListsInv, CallsInv
  <2>3. r <= R
    BY <2>2 DEF Roomy
  <2> HIDE DEF r
  <2>4. r \in 2 .. Word - 1
    BY <2>2, AllocatorAssumption
  <2>5. r \in Nat
    BY <2>4, AllocatorAssumption
  <2> QED
    BY <2>3, <2>5
<1>4. c \in Nat /\ N \in Nat
  BY PendingCount DEF Roomy
<1>5. R * c \in Nat /\ R * N \in Nat
  BY <1>4, Products
<1>6. o + R * c <= InitUnits + R * N /\ InitUnits + R * N + R < Word
  BY DEF Room, Roomy
<1>7. InitUnits \in Int /\ Word \in Nat
  BY AllocatorAssumption
<1> HIDE DEF c, N, o, r
<1>8. o + r < Word /\ o + r \in Nat
  <2> DEFINE x == R * c
             y == R * N
  <2>1. x \in Nat /\ y \in Nat /\ o + x <= InitUnits + y /\ InitUnits + y + R < Word
    BY <1>5, <1>6
  <2> HIDE DEF x, y
  <2> QED
    BY <1>2, <1>3, <1>7, <2>1
<1>9. (o + r) % Word = o + r
  BY <1>7, <1>8
<1> QED
  BY <1>1, <1>2, <1>3, <1>9 DEF o, r

\* The counter goes with the threads.
LEMMA PendingAfter ==
  ASSUME ListsInv, NEW t \in Threads, NEW x, Goto(t, x)
  PROVE  Pending' = IF x \in {"place", "advance"} THEN Pending \cup {t} ELSE Pending \ {t}
BY DEF Pending, Goto, ListsInv, CallsInv

\* A thread that is about to place its node has room for it, and so have all others.
LEMMA RoomKept ==
  ASSUME NEW R \in Nat, Roomy(R), ListsInv, ContextType, AtFirst, Room(R), Steps,
         Current = 1, Current' = 1
  PROVE  Room(R)'
<1> DEFINE c == Cardinality(Pending)
           N == Cardinality(Threads)
           o == blocks[1].origin
<1>1. blocks \in Seq(AllocatorType) /\ 1 \in DOMAIN blocks /\ o \in Nat
  <2>1. blocks[1] \in AllocatorType
    BY ElementOfSeq DEF ListsInv, BlocksInv, Current
  <2> QED
    BY <2>1, LenProperties DEF ListsInv, BlocksInv, Current, AllocatorType
<1>2. IsFiniteSet(Pending) /\ c \in Nat /\ c <= N /\ N \in Nat
  BY PendingCount DEF Roomy
<1>3. InitUnits \in Int /\ R * c \in Nat /\ R * N \in Nat
  BY <1>2, Products, AllocatorAssumption
<1>4. o + R * c <= InitUnits + R * N
  BY DEF Room
<1>5. ASSUME NEW t \in Threads, NEW x, Goto(t, x), x \notin {"place", "advance"},
             blocks'[1].origin = o
      PROVE  Room(R)'
  <2> DEFINE d == Cardinality(Pending')
  <2>1. Pending' = Pending \ {t}
    BY <1>5, PendingAfter
  <2>2. d \in Nat /\ d <= c
    <3>1. Pending' \subseteq Pending
      BY <2>1
    <3>2. IsFiniteSet(Pending') /\ d <= c
      BY <1>2, <3>1, FS_Subset
    <3> QED
      BY <3>2, FS_CardinalityType
  <2>3. R * d <= R * c /\ R * d \in Nat
    BY <1>2, <2>2, Products
  <2>4. o + R * d <= InitUnits + R * N
    <3> DEFINE x1 == R * d
               y1 == R * c
               z1 == R * N
    <3>1. x1 <= y1 /\ x1 \in Nat /\ y1 \in Nat /\ z1 \in Nat /\ o + y1 <= InitUnits + z1
      BY <1>3, <1>4, <2>3
    <3> HIDE DEF x1, y1, z1
    <3>2. o + x1 <= InitUnits + z1
      BY <1>1, <1>3, <3>1
    <3> QED
      BY <3>2 DEF x1, z1
  <2> QED
    BY <1>5, <2>4 DEF Room
<1>6. ASSUME NEW t \in Threads, Bump(t)
      PROVE  Room(R)'
  <2> DEFINE d == Cardinality(Pending')
  <2>1. /\ pc[t] = "bump" /\ UNCHANGED blocks
        /\ Goto(t, IF (blocks[self[t]].origin + request[t]) % Word > size[t]
                   THEN "grow" ELSE "place")
    BY <1>6 DEF Bump
  <2>2. InAlloc(t)
    BY <2>1 DEF InAlloc
  <2>3. self[t] = 1 /\ size[t] = InitUnits /\ request[t] \in Nat
        /\ (o + request[t]) % Word = o + request[t]
    BY <2>2, OriginBounds DEF AtFirst
  <2>4. CASE o + request[t] > InitUnits
    <3>1. Goto(t, "grow")
      BY <2>1, <2>3, <2>4
    <3> QED
      BY <1>5, <2>1, <3>1
  <2>5. CASE ~(o + request[t] > InitUnits)
    <3>1. Goto(t, "place")
      BY <2>1, <2>3, <2>5
    <3>2. Pending' \subseteq Threads
      BY DEF Pending
    <3>3. d \in Nat /\ d <= N
      <4>1. IsFiniteSet(Pending') /\ d <= N
        BY <3>2, FS_Subset DEF Roomy
      <4> QED
        BY <4>1, FS_CardinalityType
    <3>4. R * d <= R * N /\ R * d \in Nat
      BY <1>2, <3>3, Products
    <3>5. o <= InitUnits
      BY <1>1, <1>3, <2>3, <2>5
    <3>6. o + R * d <= InitUnits + R * N
      <4> DEFINE x1 == R * d
                 z1 == R * N
      <4>1. x1 <= z1 /\ x1 \in Nat /\ z1 \in Nat
        BY <1>3, <3>4
      <4> HIDE DEF x1, z1
      <4>2. o + x1 <= InitUnits + z1
        BY <1>1, <1>3, <3>5, <4>1
      <4> QED
        BY <4>2 DEF x1, z1
    <3> QED
      BY <2>1, <3>6 DEF Room
  <2> QED
    BY <2>4, <2>5
<1>7. ASSUME NEW t \in Threads, Place(t)
      PROVE  Room(R)'
  <2>1. pc[t] = "place" /\ Goto(t, "advance") /\ UNCHANGED blocks
    BY <1>7 DEF Place
  <2>2. Pending' = Pending
    BY <2>1, PendingAfter DEF Pending
  <2> QED
    BY <2>1, <2>2 DEF Room
<1>8. ASSUME NEW t \in Threads, Advance(t)
      PROVE  Room(R)'
  <2> DEFINE d == Cardinality(Pending')
  <2>1. /\ pc[t] = "advance" /\ Goto(t, "idle")
        /\ blocks' = [blocks EXCEPT ![self[t]].origin = (@ + request[t]) % Word]
    BY <1>8 DEF Advance, Finish
  <2>2. InAlloc(t)
    BY <2>1 DEF InAlloc
  <2>3. self[t] = 1 /\ request[t] \in Nat /\ request[t] <= R
        /\ (o + request[t]) % Word = o + request[t]
    BY <2>2, OriginBounds
  <2>4. blocks'[1].origin = o + request[t]
    <3>1. blocks[1] \in AllocatorType
      BY <1>1, ElementOfSeq, LenProperties
    <3> QED
      BY <1>1, <2>1, <2>3, <3>1 DEF AllocatorType
  <2>5. Pending' = Pending \ {t} /\ t \in Pending
    BY <2>1, PendingAfter DEF Pending
  <2>6. d = c - 1 /\ c >= 1
    BY <2>5, PendingCount DEF Roomy
  <2>7. R * d = R * c - R /\ R * c >= R
    BY <1>2, <2>6, Products
  <2>8. (o + request[t]) + R * d <= InitUnits + R * N
    <3> DEFINE x1 == R * d
               y1 == R * c
               z1 == R * N
    <3>1. x1 = y1 - R /\ y1 \in Nat /\ z1 \in Nat /\ o + y1 <= InitUnits + z1
      BY <1>3, <1>4, <2>7
    <3> HIDE DEF x1, y1, z1
    <3>2. (o + request[t]) + x1 <= InitUnits + z1
      BY <1>1, <1>3, <2>3, <3>1
    <3> QED
      BY <3>2 DEF x1, z1
  <2> QED
    BY <2>4, <2>8 DEF Room
<1>9. ASSUME NEW t \in Threads,
             \/ \E r \in Requests : Request(t, r)
             \/ Seek(t) \/ FindsNoBucket(t) \/ FindsNoSink(t) \/ GrowFails(t)
      PROVE  Room(R)'
  <2>1. UNCHANGED blocks /\ \E x : Goto(t, x) /\ x \notin {"place", "advance"}
    BY <1>9 DEF Request, Seek, FindsNoBucket, FindsNoSink, GrowFails, Finish
  <2> QED
    BY <1>5, <2>1
<1>10. ASSUME NEW t \in Threads, NEW chain, \/ Takes(t) \/ LowerLast(t) \/ RaiseLast(t)
                                            \/ FreeNodes(t, chain)
       PROVE  Room(R)'
  <2>1. \E x : Goto(t, x) /\ x \notin {"place", "advance"}
    <3>1. CASE EmptiesBucket(t)
      BY <3>1 DEF EmptiesBucket
    <3>2. CASE TakeFromBucket(t) \/ TakeFromSink(t) \/ LowerLast(t) \/ RaiseLast(t)
      <4>1. Goto(t, "idle")
        BY <3>2 DEF TakeFromBucket, TakeFromSink, LowerLast, RaiseLast, Finish
      <4> QED
        BY <4>1
    <3>3. CASE FreeNodes(t, chain)
      BY <3>3 DEF FreeNodes
    <3> QED
      BY <1>10, <3>1, <3>2, <3>3 DEF Takes
  <2>2. blocks'[1].origin = o
    <3>1. blocks[1] \in AllocatorType
      BY <1>1, ElementOfSeq, LenProperties
    <3>2. \E k, f : \/ blocks' = [blocks EXCEPT ![k].buf = f]
                    \/ blocks' = [blocks EXCEPT ![k].last = f]
      BY <1>10 DEF Takes, EmptiesBucket, TakeFromBucket, TakeFromSink, LowerLast, RaiseLast,
                   FreeNodes
    <3> QED
      BY <1>1, <3>1, <3>2, ZenonT(30) DEF AllocatorType
  <2> QED
    BY <1>5, <2>1, <2>2
<1> QED
  BY <1>6, <1>7, <1>8, <1>9, <1>10, FirstStays DEF Steps, Step, Takes

\* What a call has placed beyond origin is its own.
LEMMA NotYetAfter ==
  ASSUME ListsInv, NEW t \in Threads, NEW u \in Threads
  PROVE  /\ NotYet(u) \in Nat
         /\ \A x : Goto(t, x) /\ x # "advance" => NotYet(t)' = 0
         /\ pc[t] # "advance" => NotYet(t) = 0
         /\ OthersStay(t) /\ u # t => NotYet(u)' = NotYet(u)
BY DEF NotYet, Goto, OthersStay, ListsInv, CallsInv

\* A step of one thread leaves the calls of the others as they are.
LEMMA OthersKept ==
  ASSUME ListsInv, ContextType, NEW t \in Threads,
         \/ \E r \in Requests : Request(t, r)
         \/ Seek(t) \/ FindsNoBucket(t) \/ FindsNoSink(t) \/ Bump(t) \/ GrowFails(t)
         \/ Takes(t) \/ LowerLast(t) \/ RaiseLast(t) \/ Advance(t) \/ Grow(t) \/ Place(t)
         \/ \E chain : FreeNodes(t, chain)
  PROVE  OthersStay(t)
<1> USE DEF ListsInv, CallsInv, ContextType, OthersStay, Goto
<1>1. ASSUME NEW r \in Requests, Request(t, r) PROVE OthersStay(t)
  BY <1>1 DEF Request
<1>2. ASSUME Finish(t), \E n : held' = [held EXCEPT ![t] = n] \/ held' = held PROVE OthersStay(t)
  BY <1>2 DEF Finish
<1>3. CASE Seek(t) \/ FindsNoBucket(t) \/ FindsNoSink(t) \/ Bump(t)
  BY <1>3 DEF Seek, FindsNoBucket, FindsNoSink, Bump, call
<1>4. CASE GrowFails(t) \/ LowerLast(t) \/ RaiseLast(t) \/ Advance(t) \/ TakeFromBucket(t)
           \/ TakeFromSink(t)
  BY <1>2, <1>4 DEF GrowFails, LowerLast, RaiseLast, Advance, TakeFromBucket, TakeFromSink
<1>5. CASE EmptiesBucket(t)
  BY <1>5 DEF EmptiesBucket, call
<1>6. CASE Grow(t)
  BY <1>6 DEF Grow
<1>7. CASE Place(t)
  BY <1>7 DEF Place, call
<1>8. ASSUME NEW chain, FreeNodes(t, chain) PROVE OthersStay(t)
  BY <1>8 DEF FreeNodes
<1> QED
  BY <1>1, <1>3, <1>4, <1>5, <1>6, <1>7, <1>8 DEF Takes

\* The steps that move no node.
Rests(t) == Looks(t) \/ LowerLast(t) \/ RaiseLast(t) \/ Advance(t)

\* They leave the lists of all blocks, and what the pools have, as they are.
LEMMA ListsRest ==
  ASSUME ListsInv, NEW t \in Threads, Rests(t)
  PROVE  /\ UNCHANGED held
         /\ DOMAIN blocks' = DOMAIN blocks
         /\ \A k \in DOMAIN blocks : blocks'[k].buf = blocks[k].buf
         /\ Advance(t) \/ \A k \in DOMAIN blocks : blocks'[k].origin = blocks[k].origin
<1>1. \A k \in DOMAIN blocks : blocks[k] \in AllocatorType
  BY ElementOfSeq, LenProperties DEF ListsInv, BlocksInv
<1>2. CASE Looks(t)
  BY <1>2 DEF Looks, Request, Seek, FindsNoBucket, FindsNoSink, Bump, GrowFails
<1>3. CASE LowerLast(t) \/ RaiseLast(t)
  <2>1. UNCHANGED held /\ blocks' = [blocks EXCEPT ![self[t]].last = top[t]]
    BY <1>3 DEF LowerLast, RaiseLast
  <2> QED
    BY <1>1, <2>1 DEF AllocatorType
<1>4. CASE Advance(t)
  <2>1. UNCHANGED held /\ blocks' = [blocks EXCEPT ![self[t]].origin = (@ + request[t]) % Word]
    BY <1>4 DEF Advance
  <2> QED
    BY <1>1, <1>4, <2>1 DEF AllocatorType
<1> QED
  BY <1>2, <1>3, <1>4 DEF Rests

\* The steps that move one do not write origin.
LEMMA OriginRests ==
  ASSUME ListsInv, NEW k, k \in DOMAIN blocks, NEW f, blocks' = [blocks EXCEPT ![k].buf = f]
  PROVE  /\ blocks'[k].origin = blocks[k].origin
         /\ blocks'[k].last = blocks[k].last
         /\ blocks'[k].buf = f
<1>1. blocks[k] \in AllocatorType
  BY ElementOfSeq, LenProperties DEF ListsInv, BlocksInv
<1> QED
  BY <1>1 DEF AllocatorType

\* The node that Place constructs in the first block.
LEMMA NodePlaced ==
  ASSUME ListsInv, AtFirst, NEW t \in Threads, Place(t), Current = 1
  PROVE  /\ UNCHANGED blocks
         /\ held' = [held EXCEPT ![t] = @ \cup {[start |-> blocks[1].origin, units |-> request[t]]}]
         /\ pc[t] = "place" /\ Goto(t, "advance") /\ request' = request
         /\ request[t] \in Requests /\ request[t] \in Nat \ {0} /\ blocks[1].origin \in Nat
<1>1. pc[t] = "place" /\ InAlloc(t)
  BY DEF Place, InAlloc
<1>2. data[t] = Current /\ self[t] = 1
  BY <1>1 DEF AtFirst
<1>3. request[t] \in Requests
  BY <1>1 DEF ListsInv, CallsInv
<1>4. request[t] \in Nat \ {0}
  <2>1. request[t] \in 2 .. Word - 1
    BY <1>3, AllocatorAssumption
  <2> QED
    BY <2>1, AllocatorAssumption
<1>5. blocks[1].origin \in Nat
  <2>1. blocks[1] \in AllocatorType
    BY ElementOfSeq DEF ListsInv, BlocksInv, Current
  <2> QED
    BY <2>1 DEF AllocatorType
<1> QED
  BY <1>1, <1>2, <1>3, <1>4, <1>5 DEF Place, call

\* Where a call that has found a node goes on.
LEMMA TakesEnds ==
  ASSUME NEW t \in Threads, Takes(t)
  PROVE  Goto(t, "lower") \/ Goto(t, "idle")
<1>1. CASE EmptiesBucket(t)
  BY <1>1 DEF EmptiesBucket
<1>2. CASE TakeFromBucket(t) \/ TakeFromSink(t)
  BY <1>2 DEF TakeFromBucket, TakeFromSink, Finish
<1> QED
  BY <1>1, <1>2 DEF Takes

\* origin is moved past every node.
LEMMA BelowKept ==
  ASSUME NEW R \in Nat, Roomy(R), ListsInv, ContextType, AtFirst, Room(R), Below, Once, Steps,
         Current = 1, Current' = 1
  PROVE  Below'
<1> DEFINE o == blocks[1].origin
<1>1. o \in Nat /\ 1 \in DOMAIN blocks
  <2>1. blocks[1] \in AllocatorType
    BY ElementOfSeq DEF ListsInv, BlocksInv, Current
  <2> QED
    BY <2>1, LenProperties DEF ListsInv, BlocksInv, Current, AllocatorType
<1>2. held \in [Threads -> SUBSET Nodes] /\ \A n \in Nodes : End(n) \in Nat
  BY DEF ListsInv, CallsInv, End, Nodes
<1>3. \A n \in On(blocks[1].buf) : n \in Nodes /\ End(n) <= o
  <2>1. blocks[1].buf \in Lists /\ 0 \in Buckets
    BY AllocatorAssumption DEF Once, Exact, Buckets
  <2> QED
    BY <2>1, OnList DEF Below
<1>4. \A u \in Threads : \A n \in held[u] :
         n \in Nodes /\ End(n) <= o + NotYet(u) /\ NotYet(u) \in Nat
  BY <1>2, NotYetAfter DEF Below
<1>5. ASSUME NEW t \in Threads, Rests(t)
      PROVE  Below'
  <2>1. UNCHANGED held /\ blocks'[1].buf = blocks[1].buf
    BY <1>1, <1>5, ListsRest
  <2>2. OthersStay(t)
    BY <1>5, OthersKept DEF Rests, Looks
  <2>3. NotYet(t)' = 0
    <3>1. \E x : Goto(t, x) /\ x # "advance"
      <4>1. CASE Looks(t)
        BY <4>1 DEF Looks, Request, Seek, FindsNoBucket, FindsNoSink, Bump, GrowFails, Finish
      <4>2. CASE LowerLast(t) \/ RaiseLast(t) \/ Advance(t)
        BY <4>2 DEF LowerLast, RaiseLast, Advance, Finish
      <4> QED
        BY <1>5, <4>1, <4>2 DEF Rests
    <3> QED
      BY <3>1, NotYetAfter
  <2>4. blocks'[1].origin = o + NotYet(t)
    <3>1. CASE Advance(t)
      <4>1. /\ pc[t] = "advance"
            /\ blocks' = [blocks EXCEPT ![self[t]].origin = (@ + request[t]) % Word]
        BY <3>1 DEF Advance
      <4>2. self[t] = 1 /\ (o + request[t]) % Word = o + request[t]
        BY <4>1, OriginBounds DEF InAlloc
      <4>3. blocks[1] \in AllocatorType
        BY ElementOfSeq DEF ListsInv, BlocksInv, Current
      <4> QED
        BY <1>1, <4>1, <4>2, <4>3 DEF NotYet, AllocatorType
    <3>2. CASE ~Advance(t)
      <4>1. blocks'[1].origin = o
        BY <1>1, <1>5, <3>2, ListsRest
      <4>2. pc[t] # "advance"
        BY <1>5, <3>2 DEF Rests, Looks, Request, Seek, FindsNoBucket, FindsNoSink, Bump, GrowFails,
                          LowerLast, RaiseLast
      <4>3. NotYet(t) = 0
        BY <4>2 DEF NotYet
      <4> QED
        BY <1>1, <4>1, <4>3
    <3> QED
      BY <3>1, <3>2
  <2>5. NotYet(t) \in Nat
    BY NotYetAfter
  <2>6. \A u \in Threads : u # t => NotYet(u)' = NotYet(u)
    BY <2>2, NotYetAfter
  <2>7. ASSUME NEW n \in On(blocks[1].buf) PROVE End(n) <= blocks'[1].origin
    <3>1. End(n) \in Nat /\ End(n) <= o
      BY <1>2, <1>3
    <3> QED
      BY <1>1, <2>4, <2>5, <3>1
  <2>8. ASSUME NEW u \in Threads, NEW n \in held[u] PROVE End(n) <= blocks'[1].origin + NotYet(u)'
    <3>1. End(n) \in Nat /\ End(n) <= o + NotYet(u) /\ NotYet(u) \in Nat
      BY <1>2, <1>4
    <3> HIDE DEF o
    <3>2. CASE u = t
      BY <1>1, <2>3, <2>4, <2>5, <3>1, <3>2
    <3>3. CASE u # t
      BY <1>1, <2>4, <2>5, <2>6, <3>1, <3>3
    <3> QED
      BY <3>2, <3>3
  <2>9. held' = held
    BY <2>1
  <2> QED
    BY <2>1, <2>7, <2>8, <2>9 DEF Below, End
<1>6. ASSUME NEW t \in Threads, NEW f, NEW x, Goto(t, x), x # "advance", pc[t] # "advance",
             OthersStay(t), blocks' = [blocks EXCEPT ![1].buf = f],
             On(f) \subseteq On(blocks[1].buf) \cup held[t],
             held'[t] \subseteq held[t] \cup On(blocks[1].buf)
      PROVE  Below'
  <2>1. blocks'[1].origin = o /\ blocks'[1].buf = f
    <3>1. blocks' = [blocks EXCEPT ![1].buf = f]
      BY <1>6
    <3> QED
      BY <1>1, <3>1, OriginRests
  <2>2. NotYet(t) = 0 /\ NotYet(t)' = 0 /\ \A u \in Threads : u # t => NotYet(u)' = NotYet(u)
    BY <1>6, NotYetAfter
  <2>3. \A n \in On(blocks[1].buf) \cup held[t] : End(n) <= o
    BY <1>1, <1>3, <1>4, <2>2
  <2>4. \A u \in Threads : u # t => held'[u] = held[u]
    BY <1>6 DEF OthersStay
  <2>5. \A u \in Threads : \A n \in held'[u] : End(n) <= o + NotYet(u)'
    <3> SUFFICES ASSUME NEW u \in Threads, NEW n \in held'[u] PROVE End(n) <= o + NotYet(u)'
      OBVIOUS
    <3>1. CASE u = t
      <4>1. End(n) <= o /\ o + 0 = o
        BY <1>1, <1>6, <2>3, <3>1
      <4> QED
        BY <2>2, <3>1, <4>1
    <3>2. CASE u # t
      BY <1>4, <2>2, <2>4, <3>2
    <3> QED
      BY <3>1, <3>2
  <2> QED
    BY <1>6, <2>1, <2>3, <2>5 DEF Below, End
<1>7. ASSUME NEW t \in Threads, Takes(t)
      PROVE  Below'
  <2>1. pc[t] \in {"bucket", "sink"}
    BY <1>7 DEF Takes, EmptiesBucket, TakeFromBucket, TakeFromSink
  <2>2. self[t] = 1
    BY <2>1 DEF AtFirst
  <2>4. PICK n, f :
            /\ n \in Nodes
            /\ On(blocks[1].buf) = On(f) \cup {n}
            /\ blocks' = [blocks EXCEPT ![1].buf = f]
            /\ held' = [held EXCEPT ![t] = @ \cup {n}]
    BY <1>7, <2>2, NodeFound, ZenonT(30)
  <2>5. OthersStay(t)
    BY <1>7, OthersKept
  <2>6. PICK x : Goto(t, x) /\ x # "advance"
    BY <1>7, TakesEnds
  <2>7. held'[t] \subseteq held[t] \cup On(blocks[1].buf)
    BY <1>2, <2>4
  <2> QED
    BY <1>6, <2>1, <2>4, <2>5, <2>6, <2>7
<1>8. ASSUME NEW t \in Threads, NEW chain \in Chains(t), FreeNodes(t, chain)
      PROVE  Below'
  <2>1. pc[t] = "idle" /\ Goto(t, "raise")
    BY <1>8 DEF FreeNodes
  <2>2. ToSet(chain) \subseteq held[t]
    BY ChainOf
  <2>3. PICK f : /\ On(f) = On(blocks[1].buf) \cup ToSet(chain)
                 /\ blocks' = [blocks EXCEPT ![1].buf = f]
                 /\ held' = [held EXCEPT ![t] = @ \ ToSet(chain)]
    BY <1>8, NodesFreed
  <2>4. OthersStay(t)
    BY <1>8, OthersKept
  <2>5. held'[t] \subseteq held[t] \cup On(blocks[1].buf)
    BY <1>2, <2>3
  <2>6. On(f) \subseteq On(blocks[1].buf) \cup held[t]
    BY <2>2, <2>3
  <2> QED
    BY <1>6, <2>1, <2>3, <2>4, <2>5, <2>6
<1>9. ASSUME NEW t \in Threads, Place(t)
      PROVE  Below'
  <2> DEFINE n == [start |-> o, units |-> request[t]]
  <2>1. /\ UNCHANGED blocks /\ pc[t] = "place" /\ Goto(t, "advance") /\ request' = request
        /\ held' = [held EXCEPT ![t] = @ \cup {n}] /\ request[t] \in Nat
    BY <1>9, NodePlaced
  <2>2. NotYet(t)' = request[t] /\ NotYet(t) = 0
    BY <2>1 DEF NotYet, Goto, ListsInv, CallsInv
  <2>3. \A u \in Threads : u # t => NotYet(u)' = NotYet(u) /\ held'[u] = held[u]
    BY <1>9, OthersKept, NotYetAfter DEF OthersStay
  <2>4. End(n) = o + request[t]
    BY DEF End
  <2>5. ASSUME NEW u \in Threads, NEW m \in held'[u] PROVE End(m) <= o + NotYet(u)'
    <3>1. CASE u = t
      <4>1. m = n \/ m \in held[t]
        BY <1>2, <2>1, <2>5, <3>1
      <4>2. CASE m = n
        BY <1>1, <2>1, <2>2, <2>4, <3>1, <4>2
      <4>3. CASE m \in held[t]
        <5>1. End(m) <= o + 0 /\ End(m) \in Nat
          BY <1>2, <1>4, <2>2, <4>3
        <5> QED
          BY <1>1, <2>1, <2>2, <3>1, <5>1
      <4> QED
        BY <4>1, <4>2, <4>3
    <3>2. CASE u # t
      BY <1>4, <2>3, <2>5, <3>2
    <3> QED
      BY <3>1, <3>2
  <2> QED
    BY <2>1, <2>5, <1>3 DEF Below, End
<1> QED
  BY <1>5, <1>7, <1>8, <1>9, FirstStays DEF Steps, Step, Rests, Looks, Takes

\* No node gets on a second list, or stays on one that a pool has it from.
LEMMA OnceKept ==
  ASSUME NEW R \in Nat, Roomy(R), ListsInv, AtFirst, Below, Once, Steps,
         Current = 1, Current' = 1
  PROVE  Once'
<1> DEFINE buf == blocks[1].buf
<1>1. 1 \in DOMAIN blocks /\ held \in [Threads -> SUBSET Nodes]
  BY LenProperties DEF ListsInv, BlocksInv, CallsInv, Current
<1>2. Exact(buf) /\ On(buf) \cap Taken = {}
  BY DEF Once
<1>3. ASSUME NEW t \in Threads, Rests(t)
      PROVE  Once'
  <2>1. UNCHANGED held /\ blocks'[1].buf = buf
    BY <1>1, <1>3, ListsRest
  <2> QED
    BY <1>2, <2>1 DEF Once, Taken
<1>4. ASSUME NEW t \in Threads, Takes(t)
      PROVE  Once'
  <2>1. self[t] = 1
    BY <1>4 DEF Takes, EmptiesBucket, TakeFromBucket, TakeFromSink, AtFirst
  <2>2. PICK n, f :
            /\ n \in Nodes
            /\ On(buf) = On(f) \cup {n} /\ Exact(f) /\ n \notin On(f)
            /\ blocks' = [blocks EXCEPT ![1].buf = f]
            /\ held' = [held EXCEPT ![t] = @ \cup {n}]
    BY <1>2, <1>4, <2>1, NodeFound
  <2>3. blocks'[1].buf = f
    BY <1>1, <2>2, OriginRests
  <2>4. Taken' = Taken \cup {n}
    BY <1>1, <2>2 DEF Taken
  <2>5. On(f) \cap (Taken \cup {n}) = {}
    BY <1>2, <2>2
  <2> QED
    BY <2>2, <2>3, <2>4, <2>5 DEF Once
<1>5. ASSUME NEW t \in Threads, NEW chain \in Chains(t), FreeNodes(t, chain)
      PROVE  Once'
  <2>1. PICK f : /\ Exact(f) /\ On(f) = On(buf) \cup ToSet(chain)
                 /\ blocks' = [blocks EXCEPT ![1].buf = f]
                 /\ Taken' = Taken \ ToSet(chain)
    BY <1>2, <1>5, NodesFreed
  <2>2. blocks'[1].buf = f
    BY <1>1, <2>1, OriginRests
  <2>3. On(f) \cap (Taken \ ToSet(chain)) = {}
    BY <1>2, <2>1
  <2> QED
    BY <2>1, <2>2, <2>3 DEF Once
<1>6. ASSUME NEW t \in Threads, Place(t)
      PROVE  Once'
  <2> DEFINE n == [start |-> blocks[1].origin, units |-> request[t]]
  <2>1. /\ UNCHANGED blocks /\ held' = [held EXCEPT ![t] = @ \cup {n}]
        /\ request[t] \in Nat \ {0} /\ blocks[1].origin \in Nat
    BY <1>6, NodePlaced
  <2>2. ~(End(n) <= blocks[1].origin)
    BY <2>1 DEF End
  <2>3. n \notin On(buf)
    BY <2>2 DEF Below
  <2> HIDE DEF n
  <2>4. Taken' = Taken \cup {n}
    BY <1>1, <2>1 DEF Taken
  <2>5. On(buf) \cap (Taken \cup {n}) = {}
    BY <1>2, <2>3
  <2> QED
    BY <1>2, <2>1, <2>4, <2>5 DEF Once
<1> QED
  BY <1>3, <1>4, <1>5, <1>6, FirstStays DEF Steps, Step, Rests, Looks, Takes

\* The invariant of the first block holds of a new memory.
LEMMA FirstInit ==
  ASSUME NEW R \in Nat, Roomy(R), Init
  PROVE  ContextType /\ FirstInv(R)
<1> DEFINE empty == [b \in Buckets |-> <<>>]
           a == [last |-> 0, origin |-> Base, buf |-> empty]
<1>1. blocks = <<a>> /\ blocks[1] = a
  BY DEF Init
<1>2. ContextType /\ AtFirst
  BY AllocatorAssumption DEF Init, ContextType, AtFirst, InAlloc
<1>3. Room(R)
  <2>1. Pending = {}
    BY DEF Init, Pending
  <2>2. Cardinality(Pending) = 0
    BY <2>1, FS_EmptySet
  <2>3. Cardinality(Threads) \in Nat
    BY FS_CardinalityType DEF Roomy
  <2>4. R * 0 = 0 /\ R * Cardinality(Threads) \in Nat
    BY <2>3, Products
  <2>5. blocks[1].origin = Base
    BY <1>1
  <2>6. Base <= InitUnits /\ Base \in Nat /\ InitUnits \in Nat
    BY AllocatorAssumption
  <2> DEFINE y == R * Cardinality(Threads)
  <2>7. y \in Nat
    BY <2>4
  <2> HIDE DEF y
  <2>8. Base + 0 <= InitUnits + y
    BY <2>6, <2>7
  <2> QED
    BY <2>2, <2>4, <2>5, <2>8 DEF Room, y
<1>4. On(empty) = {}
  BY DEF On, ToSet
<1>5. Exact(empty)
  <2>1. ListsInv
    BY ListsInit
  <2>2. blocks[1] \in AllocatorType
    BY <1>1, <2>1, ElementOfSeq DEF ListsInv, BlocksInv
  <2>3. empty \in Lists
    BY <1>1, <2>2 DEF AllocatorType
  <2> QED
    BY <2>3 DEF Exact, IsInjective
<1> HIDE DEF empty
<1>6. Once
  BY <1>1, <1>4, <1>5 DEF Once
<1>7. Below
  BY <1>1, <1>4 DEF Init, Below
<1> QED
  BY <1>2, <1>3, <1>6, <1>7 DEF FirstInv

\* It is inductive, with what is known of the lists.
LEMMA FirstStep ==
  ASSUME NEW R \in Nat, Roomy(R), ListsInv, ContextType, FirstInv(R), [Steps]_vars
  PROVE  ContextType' /\ FirstInv(R)'
<1>1. ContextType'
  BY ContextStep
<1>2. CASE Steps
  <2> SUFFICES ASSUME Current' = 1 PROVE (AtFirst /\ Room(R) /\ Below /\ Once)'
    BY <1>1 DEF FirstInv
  <2>1. Current = 1
    BY <1>2, FirstStays
  <2>2. AtFirst /\ Room(R) /\ Below /\ Once
    BY <2>1 DEF FirstInv
  <2> QED
    BY <1>2, <2>1, <2>2, AtFirstKept, RoomKept, BelowKept, OnceKept
<1>3. CASE UNCHANGED vars
  BY <1>1, <1>3
  DEF vars, call, FirstInv, Current, AtFirst, InAlloc, Room, Pending, Below, NotYet, Once,
      Taken, On, End
<1> QED
  BY <1>2, <1>3

\* And it gives the property.
LEMMA FirstExact ==
  ASSUME ListsInv, NEW R, ~Astray => FirstInv(R)
  PROVE  FreeListsExact
<1> SUFFICES ASSUME Current = 1, ~Astray
             PROVE  LET a == blocks[Current]
                    IN /\ \A b \in Buckets : IsInjective(a.buf[b])
                       /\ \A b, c \in Buckets :
                            b # c => ToSet(a.buf[b]) \cap ToSet(a.buf[c]) = {}
                       /\ Free(a) \cap Taken = {}
  BY DEF FreeListsExact
<1>1. Exact(blocks[1].buf) /\ On(blocks[1].buf) \cap Taken = {}
  BY DEF FirstInv, Once
<1>2. Free(blocks[1]) = On(blocks[1].buf)
  BY DEF Free, On
<1>3. ASSUME NEW b \in Buckets, NEW c \in Buckets, b # c
      PROVE  ToSet(blocks[1].buf[b]) \cap ToSet(blocks[1].buf[c]) = {}
  BY <1>1, <1>3, OnList DEF Exact
<1> QED
  BY <1>1, <1>2, <1>3 DEF Exact

\* Until the memory moves or a walk leaves the buckets each node is on one list, once, or
\* a pool has it (lines 274 to 384), for any number of threads, as long as the nodes they
\* may take at once do not take origin past 2^32.
THEOREM FreeListsKept ==
  ASSUME NEW R \in Nat, Roomy(R)
  PROVE  Spec => []FreeListsExact
<1> DEFINE J == ListsInv /\ ContextType /\ (~Astray => FirstInv(R))
<1>1. Init => J
  BY ListsInit, FirstInit
<1>2. J /\ [Next]_vars => J'
  <2> SUFFICES ASSUME J, [Next]_vars PROVE J'
    OBVIOUS
  <2>1. ListsInv'
    BY NextStep
  <2>2. CASE UNCHANGED vars
    <3>1. Astray' = Astray
      BY <2>2 DEF vars, Astray
    <3>2. ContextType'
      BY <2>2, ContextStep
    <3>3. FirstInv(R) => FirstInv(R)'
      BY <2>2, FirstStep
    <3> QED
      BY <2>1, <3>1, <3>2, <3>3
  <2>3. CASE ~Astray /\ Steps
    BY <2>1, <2>3, ContextStep, FirstStep
  <2>4. ASSUME NEW t \in Threads, TakeAstray(t)
        PROVE  J'
    <3>1. Astray'
      BY <2>4, AstrayStep
    <3>2. ContextType'
      BY <2>4 DEF TakeAstray, ContextType, call
    <3> QED
      BY <2>1, <3>1, <3>2
  <2> HIDE DEF J
  <2> QED
    BY <2>2, <2>3, <2>4 DEF Next, Steps
<1>3. J => FreeListsExact
  BY FirstExact
<1> HIDE DEF J
<1> QED
  BY <1>1, <1>2, <1>3, PTL DEF Spec
-----------------------------------------------------------------------------
(* One thread, wherever the memory is *)

\* There is one thread, and an address is not too small for what it asks for.
Alone(t) == /\ Threads = {t}
            /\ \A r \in Requests : LimitUnits + r < Word

\* A call is in the block that is the memory until it grows; every node lies in the
\* memory, and there is room for the one it is about to construct.
SpaceInv(t) ==
    /\ memUnits \in InitUnits .. LimitUnits
    /\ \A k \in DOMAIN blocks : blocks[k].origin <= memUnits
    /\ holder \in {t, None}
    /\ ~InAlloc(t) => request[t] = 0 /\ data[t] = 0 /\ size[t] = 0
    /\ pc[t] = "idle" => self[t] = 0
    /\ InAlloc(t) => data[t] = Current /\ size[t] = memUnits
    /\ pc[t] \notin {"idle", "place", "advance"} => self[t] = Current
    /\ pc[t] \in {"place", "advance"} => blocks[self[t]].origin + request[t] <= memUnits
    /\ \A n \in On(blocks[Current].buf) \cup held[t] : End(n) <= memUnits

\* What all the steps need to know.
LEMMA AloneFacts ==
  ASSUME NEW t, Alone(t), ListsInv, SpaceInv(t)
  PROVE  /\ t \in Threads /\ Current \in DOMAIN blocks /\ Current \in Nat
         /\ \A k \in DOMAIN blocks : /\ blocks[k] \in AllocatorType /\ blocks[k].origin \in Nat
                                     /\ blocks[k].buf \in Lists
         /\ pc[t] # "idle" => self[t] \in DOMAIN blocks
         /\ InAlloc(t) => /\ request[t] \in Requests /\ request[t] \in Nat \ {0, 1}
                          /\ LimitUnits + request[t] < Word
         /\ memUnits \in Nat /\ memUnits <= LimitUnits /\ LimitUnits \in Nat /\ Word \in Nat
         /\ DOMAIN held = Threads /\ Taken = held[t] /\ held[t] \subseteq Nodes
<1>1. t \in Threads /\ Threads = {t}
  BY DEF Alone
<1>2. blocks \in Seq(AllocatorType) /\ blocks # <<>> /\ DOMAIN blocks = 1 .. Len(blocks)
      /\ Len(blocks) \in Nat \ {0}
  BY EmptySeq, LenProperties DEF ListsInv, BlocksInv
<1>3. \A k \in DOMAIN blocks : /\ blocks[k] \in AllocatorType /\ blocks[k].origin \in Nat
                               /\ blocks[k].buf \in Lists
  <2>1. \A k \in DOMAIN blocks : blocks[k] \in AllocatorType
    BY <1>2, ElementOfSeq
  <2>2. \A a \in AllocatorType : a.origin \in Nat /\ a.buf \in Lists
    BY DEF AllocatorType
  <2> QED
    BY <2>1, <2>2
<1>4. ASSUME InAlloc(t)
      PROVE  /\ request[t] \in Requests /\ request[t] \in Nat \ {0, 1}
             /\ LimitUnits + request[t] < Word
  <2>1. request[t] \in Requests
    BY <1>1, <1>4 DEF InAlloc, ListsInv, CallsInv
  <2>2. request[t] \in 2 .. Word - 1
    BY <2>1, AllocatorAssumption
  <2>3. request[t] \in Nat \ {0, 1}
    BY <2>2, AllocatorAssumption
  <2> QED
    BY <2>1, <2>3 DEF Alone
<1>5. memUnits \in Nat /\ memUnits <= LimitUnits /\ LimitUnits \in Nat /\ Word \in Nat
  <2>1. InitUnits \in Nat /\ LimitUnits \in Nat /\ Word \in Nat
    BY AllocatorAssumption
  <2> QED
    BY <2>1 DEF SpaceInv
<1>6. pc[t] # "idle" => self[t] \in DOMAIN blocks
  BY <1>1, <1>2 DEF ListsInv, CallsInv
<1>7. held \in [Threads -> SUBSET Nodes]
  BY DEF ListsInv, CallsInv
<1> QED
  BY <1>1, <1>2, <1>3, <1>4, <1>5, <1>6, <1>7 DEF Current, Taken

\* A new memory has room for its Allocator.
LEMMA SpaceInit ==
  ASSUME NEW t, Alone(t), Init
  PROVE  SpaceInv(t)
<1> DEFINE empty == [b \in Buckets |-> <<>>]
           a == [last |-> 0, origin |-> Base, buf |-> empty]
<1>1. blocks = <<a>> /\ blocks[1] = a /\ DOMAIN blocks = {1} /\ Current = 1
  BY DEF Init, Current
<1>2. On(empty) = {}
  BY DEF On, ToSet
<1> HIDE DEF empty
<1>3. /\ t \in Threads /\ pc[t] = "idle" /\ held[t] = {}
      /\ request[t] = 0 /\ data[t] = 0 /\ size[t] = 0
      /\ self[t] = 0 /\ holder = None /\ memUnits = InitUnits
  BY DEF Init, Alone
<1>4. InitUnits \in InitUnits .. LimitUnits /\ Base <= InitUnits
  BY AllocatorAssumption
<1> QED
  BY <1>1, <1>2, <1>3, <1>4 DEF SpaceInv, InAlloc

\* Every step keeps the nodes, and the one that is about to be placed, in the memory.
LEMMA SpaceStep ==
  ASSUME NEW t, Alone(t), ListsInv, ContextType, SpaceInv(t), [Steps]_vars
  PROVE  SpaceInv(t)'
<1>1. /\ t \in Threads /\ Current \in DOMAIN blocks /\ Current \in Nat
      /\ \A k \in DOMAIN blocks : /\ blocks[k] \in AllocatorType /\ blocks[k].origin \in Nat
                                  /\ blocks[k].buf \in Lists
      /\ pc[t] # "idle" => self[t] \in DOMAIN blocks
      /\ InAlloc(t) => /\ request[t] \in Requests /\ request[t] \in Nat \ {0, 1}
                       /\ LimitUnits + request[t] < Word
      /\ memUnits \in Nat /\ memUnits <= LimitUnits /\ LimitUnits \in Nat /\ Word \in Nat
      /\ DOMAIN held = Threads /\ Taken = held[t] /\ held[t] \subseteq Nodes
  BY AloneFacts
<1>2. /\ pc \in [Threads -> Points] /\ request \in [Threads -> Nat] /\ self \in [Threads -> Nat]
      /\ data \in [Threads -> Nat] /\ size \in [Threads -> Nat]
  BY DEF ListsInv, CallsInv, ContextType
<1>3. ASSUME Finish(t)
      PROVE  pc'[t] = "idle" /\ request'[t] = 0 /\ data'[t] = 0 /\ size'[t] = 0 /\ self'[t] = 0
  BY <1>1, <1>2, <1>3 DEF Finish, Goto
<1>4. ASSUME UNCHANGED <<blocks, memUnits, holder, held>>, Finish(t)
      PROVE  SpaceInv(t)'
  BY <1>3, <1>4 DEF SpaceInv, InAlloc, Current, On, End
<1>5. ASSUME UNCHANGED <<blocks, memUnits, request, self, data, size, holder, held>>, InAlloc(t),
             NEW x, Goto(t, x), x \in {"bucket", "sink", "bump", "grow"},
             pc[t] \notin {"place", "advance"}
      PROVE  SpaceInv(t)'
  <2>1. pc'[t] = x
    BY <1>1, <1>2, <1>5 DEF Goto
  <2> QED
    BY <1>5, <2>1 DEF SpaceInv, InAlloc, Current, On, End
<1>6. ASSUME NEW r \in Requests, Request(t, r)
      PROVE  SpaceInv(t)'
  <2>1. /\ pc'[t] = "seek" /\ self'[t] = Current /\ data'[t] = Current /\ size'[t] = memUnits
        /\ UNCHANGED <<blocks, memUnits, holder, held>>
    BY <1>1, <1>2, <1>6 DEF Request, Goto
  <2> QED
    BY <2>1 DEF SpaceInv, InAlloc, Current, On, End
<1>7. CASE Seek(t) \/ FindsNoBucket(t) \/ FindsNoSink(t)
  BY <1>5, <1>7 DEF Seek, FindsNoBucket, FindsNoSink, call, InAlloc
<1>8. CASE Bump(t)
  <2> DEFINE o == blocks[self[t]].origin
  <2>1. /\ pc[t] = "bump" /\ InAlloc(t) /\ self[t] = Current /\ size[t] = memUnits /\ o <= memUnits
        /\ UNCHANGED <<blocks, memUnits, request, self, data, size, holder, held>>
        /\ Goto(t, IF (o + request[t]) % Word > size[t] THEN "grow" ELSE "place")
    BY <1>1, <1>8 DEF Bump, call, InAlloc, SpaceInv
  <2>2. (o + request[t]) % Word = o + request[t] /\ o \in Nat
    <3>1. o \in Nat /\ request[t] \in Nat /\ o + request[t] < Word
      BY <1>1, <2>1
    <3> HIDE DEF o
    <3> QED
      BY <1>1, <3>1
  <2>3. CASE o + request[t] > memUnits
    BY <1>5, <2>1, <2>2, <2>3
  <2>4. CASE ~(o + request[t] > memUnits)
    <3>1. pc'[t] = "place"
      BY <1>1, <1>2, <2>1, <2>2, <2>4 DEF Goto
    <3>2. o + request[t] <= memUnits
      BY <1>1, <2>1, <2>2, <2>4
    <3> QED
      BY <2>1, <3>1, <3>2 DEF SpaceInv, InAlloc, Current, On, End
  <2> QED
    BY <2>3, <2>4
<1>9. CASE GrowFails(t)
  BY <1>4, <1>9 DEF GrowFails
<1>10. CASE Takes(t)
  <2>1. pc[t] \in {"bucket", "sink"} /\ InAlloc(t) /\ self[t] = Current
    BY <1>10 DEF Takes, EmptiesBucket, TakeFromBucket, TakeFromSink, InAlloc, SpaceInv
  <2>2. PICK n, f :
            /\ n \in Nodes
            /\ On(blocks[Current].buf) = On(f) \cup {n}
            /\ blocks' = [blocks EXCEPT ![Current].buf = f]
            /\ held' = [held EXCEPT ![t] = @ \cup {n}]
    BY <1>1, <1>10, <2>1, NodeFound
  <2>3. /\ Current' = Current /\ DOMAIN blocks' = DOMAIN blocks
        /\ \A k \in DOMAIN blocks : blocks'[k].origin = blocks[k].origin
        /\ blocks'[Current].buf = f /\ held'[t] = held[t] \cup {n}
    <3>1. Current' = Current /\ DOMAIN blocks' = DOMAIN blocks
      BY <2>2, NoNewBlock
    <3>2. \A k \in DOMAIN blocks : blocks'[k].origin = blocks[k].origin
      BY <1>1, <2>2 DEF AllocatorType
    <3>3. blocks'[Current].buf = f
      BY <1>1, <2>2, OriginRests
    <3> QED
      BY <1>1, <2>2, <3>1, <3>2, <3>3
  <2>4. \A m \in On(f) \cup held'[t] : End(m) <= memUnits
    BY <2>2, <2>3 DEF SpaceInv
  <2>5. memUnits' = memUnits /\ holder' \in {t, None}
    BY <1>10 DEF Takes, EmptiesBucket, TakeFromBucket, TakeFromSink, SpaceInv
  <2>6. CASE EmptiesBucket(t)
    <3>1. pc'[t] = "lower" /\ UNCHANGED <<request, self, data, size>>
      BY <1>1, <1>2, <2>6 DEF EmptiesBucket, Goto, call
    <3> QED
      BY <2>1, <2>3, <2>4, <2>5, <3>1 DEF SpaceInv, InAlloc, End
  <2>7. CASE TakeFromBucket(t) \/ TakeFromSink(t)
    <3>1. pc'[t] = "idle" /\ request'[t] = 0 /\ data'[t] = 0 /\ size'[t] = 0 /\ self'[t] = 0
      BY <1>3, <2>7 DEF TakeFromBucket, TakeFromSink
    <3> QED
      BY <2>3, <2>4, <2>5, <3>1 DEF SpaceInv, InAlloc, End
  <2> QED
    BY <1>10, <2>6, <2>7 DEF Takes
<1>11. CASE LowerLast(t) \/ RaiseLast(t) \/ Advance(t)
  <2>1. UNCHANGED memUnits /\ Finish(t) /\ holder' \in {t, None} /\ pc[t] # "idle"
    BY <1>11 DEF LowerLast, RaiseLast, Advance, SpaceInv
  <2>2. /\ UNCHANGED held /\ DOMAIN blocks' = DOMAIN blocks
        /\ \A k \in DOMAIN blocks : blocks'[k].buf = blocks[k].buf
    BY <1>1, <1>11, ListsRest DEF Rests
  <2>3. Current' = Current
    <3>1. \E a : blocks' = [blocks EXCEPT ![self[t]] = a]
      BY <1>11 DEF LowerLast, RaiseLast, Advance
    <3> QED
      BY <3>1, NoNewBlock
  <2>4. \A k \in DOMAIN blocks : blocks'[k].origin <= memUnits
    <3>1. CASE LowerLast(t) \/ RaiseLast(t)
      <4>1. ~Advance(t)
        BY <3>1 DEF LowerLast, RaiseLast, Advance
      <4>2. \A k \in DOMAIN blocks : blocks'[k].origin = blocks[k].origin
        BY <1>1, <3>1, <4>1, ListsRest DEF Rests
      <4> QED
        BY <4>2 DEF SpaceInv
    <3>2. CASE Advance(t)
      <4> DEFINE o == blocks[self[t]].origin
                 p == (o + request[t]) % Word
      <4>1. /\ pc[t] = "advance" /\ InAlloc(t) /\ self[t] \in DOMAIN blocks
            /\ blocks' = [blocks EXCEPT ![self[t]].origin = p]
            /\ o + request[t] <= memUnits
        BY <1>1, <3>2 DEF Advance, InAlloc, SpaceInv
      <4>2. p = o + request[t]
        <5>1. o \in Nat /\ request[t] \in Nat /\ o + request[t] < Word
          <6>1. o \in Nat
            BY <1>1, <4>1
          <6> HIDE DEF o, p
          <6> QED
            BY <1>1, <4>1, <6>1
        <5> HIDE DEF o
        <5> QED
          BY <1>1, <5>1
      <4> HIDE DEF p
      <4>3. \A k \in DOMAIN blocks :
               blocks'[k].origin = IF k = self[t] THEN p ELSE blocks[k].origin
        BY <1>1, <4>1 DEF AllocatorType
      <4>4. p <= memUnits
        BY <4>1, <4>2
      <4> QED
        BY <4>3, <4>4 DEF SpaceInv
    <3> QED
      BY <1>11, <3>1, <3>2
  <2>5. pc'[t] = "idle" /\ request'[t] = 0 /\ data'[t] = 0 /\ size'[t] = 0 /\ self'[t] = 0
    BY <1>3, <2>1
  <2>6. \A n \in On(blocks'[Current].buf) \cup held'[t] : End(n) <= memUnits
    BY <1>1, <2>2 DEF SpaceInv
  <2> QED
    BY <2>1, <2>2, <2>3, <2>4, <2>5, <2>6 DEF SpaceInv, InAlloc, End
<1>12. CASE Grow(t)
  <2> DEFINE units == memUnits + PagesFor(request[t]) * UnitsPerPage
  <2>1. /\ pc[t] = "grow" /\ InAlloc(t) /\ self[t] = Current
        /\ units <= LimitUnits /\ memUnits' = units
        /\ blocks' = Append(blocks, blocks[Current])
        /\ data'[t] = Current + 1 /\ size'[t] = units /\ pc'[t] = "place"
        /\ UNCHANGED <<request, self, holder, held>>
    BY <1>1, <1>2, <1>12 DEF Grow, Goto, InAlloc, SpaceInv
  <2>2. /\ Current' = Current + 1 /\ DOMAIN blocks' = 1 .. Current + 1
        /\ \A k \in 1 .. Current : blocks'[k] = blocks[k]
        /\ blocks'[Current + 1] = blocks[Current] /\ DOMAIN blocks = 1 .. Current
    BY <1>1, <2>1, AppendProperties, LenProperties DEF Current, ListsInv, BlocksInv
  <2>3. \A k \in DOMAIN blocks' : \E j \in DOMAIN blocks : blocks'[k] = blocks[j]
    BY <1>1, <2>2
  <2>4. units \in Nat /\ memUnits + request[t] <= units
    <3> DEFINE q == request[t] \div UnitsPerPage
    <3>1. request[t] \in Nat /\ UnitsPerPage \in Nat \ {0}
      BY <1>1, <2>1, AllocatorAssumption
    <3>2. PagesFor(request[t]) = q + 1
      BY DEF PagesFor
    <3>3. q \in Nat /\ request[t] < (q + 1) * UnitsPerPage
      BY <3>1
    <3>4. (q + 1) * UnitsPerPage \in Nat
      BY <3>1, <3>3
    <3> DEFINE p == (q + 1) * UnitsPerPage
    <3>5. units = memUnits + p
      BY <3>2
    <3> HIDE DEF p, q, units
    <3> QED
      BY <1>1, <3>1, <3>3, <3>4, <3>5 DEF p
  <2> HIDE DEF units
  <2>5. memUnits' \in InitUnits .. LimitUnits /\ memUnits <= memUnits'
    <3>1. InitUnits <= memUnits /\ InitUnits \in Int
      BY AllocatorAssumption DEF SpaceInv
    <3> QED
      BY <1>1, <2>1, <2>4, <3>1
  <2>6. \A k \in DOMAIN blocks' : blocks'[k].origin <= memUnits'
    <3> SUFFICES ASSUME NEW k \in DOMAIN blocks' PROVE blocks'[k].origin <= memUnits'
      OBVIOUS
    <3>1. PICK j \in DOMAIN blocks : blocks'[k] = blocks[j]
      BY <2>3
    <3>2. blocks[j].origin <= memUnits /\ blocks[j].origin \in Nat
      BY <1>1 DEF SpaceInv
    <3> QED
      BY <1>1, <2>1, <2>4, <2>5, <3>1, <3>2
  <2>7. \A n \in On(blocks'[Current + 1].buf) \cup held'[t] : End(n) <= memUnits'
    <3> SUFFICES ASSUME NEW n \in On(blocks[Current].buf) \cup held[t] PROVE End(n) <= memUnits'
      BY <2>1, <2>2
    <3>1. End(n) <= memUnits
      BY DEF SpaceInv
    <3>2. n \in Nodes
      <4>1. blocks[Current].buf \in Lists /\ 0 \in Buckets
        BY <1>1, AllocatorAssumption DEF Buckets
      <4> QED
        BY <1>1, <4>1, OnList
    <3>3. End(n) \in Nat
      BY <3>2 DEF End, Nodes
    <3> QED
      BY <1>1, <2>1, <2>4, <2>5, <3>1, <3>3
  <2>8. blocks'[self'[t]].origin + request'[t] <= memUnits'
    <3>1. blocks'[self'[t]] = blocks[Current] /\ request'[t] = request[t]
      BY <1>1, <2>1, <2>2
    <3> DEFINE o == blocks[Current].origin
               r == request[t]
    <3>2. o <= memUnits /\ o \in Nat /\ r \in Nat /\ memUnits \in Nat
      BY <1>1, <2>1 DEF SpaceInv
    <3>3. memUnits' \in Nat /\ memUnits + r <= memUnits'
      BY <2>1, <2>4
    <3>4. blocks'[self'[t]].origin + request'[t] = o + r
      BY <3>1
    <3> HIDE DEF o, r
    <3>5. o + r <= memUnits'
      BY <3>2, <3>3
    <3> QED
      BY <3>4, <3>5
  <2> QED
    BY <2>1, <2>2, <2>5, <2>6, <2>7, <2>8 DEF SpaceInv, InAlloc, End
<1>13. CASE Place(t)
  <2> DEFINE n == [start |-> blocks[self[t]].origin, units |-> request[t]]
  <2>1. /\ pc[t] = "place" /\ InAlloc(t) /\ data[t] = Current
        /\ pc'[t] = "advance" /\ UNCHANGED <<blocks, memUnits, request, self, data, size, holder>>
    BY <1>1, <1>2, <1>13 DEF Place, call, Goto, InAlloc, SpaceInv
  <2>2. held'[t] = held[t] \cup {n}
    BY <1>1, <1>13, <2>1 DEF Place
  <2>3. End(n) <= memUnits
    BY <2>1 DEF SpaceInv, End
  <2> HIDE DEF n
  <2> QED
    BY <2>1, <2>2, <2>3 DEF SpaceInv, InAlloc, Current, On, End
<1>14. ASSUME NEW chain \in Chains(t), FreeNodes(t, chain)
       PROVE  SpaceInv(t)'
  <2>1. PICK f : /\ On(f) = On(blocks[Current].buf) \cup ToSet(chain)
                 /\ blocks' = [blocks EXCEPT ![Current].buf = f]
                 /\ held' = [held EXCEPT ![t] = @ \ ToSet(chain)]
    BY <1>1, <1>14, NodesFreed
  <2>2. ToSet(chain) \subseteq held[t]
    BY <1>1, ChainOf
  <2>3. /\ Current' = Current /\ DOMAIN blocks' = DOMAIN blocks
        /\ \A k \in DOMAIN blocks : blocks'[k].origin = blocks[k].origin
        /\ blocks'[Current].buf = f /\ held'[t] = held[t] \ ToSet(chain)
    <3>1. Current' = Current /\ DOMAIN blocks' = DOMAIN blocks
      BY <2>1, NoNewBlock
    <3>2. \A k \in DOMAIN blocks : blocks'[k].origin = blocks[k].origin
      BY <1>1, <2>1 DEF AllocatorType
    <3>3. blocks'[Current].buf = f
      BY <1>1, <2>1, OriginRests
    <3> QED
      BY <1>1, <2>1, <3>1, <3>2, <3>3
  <2>4. \A m \in On(f) \cup held'[t] : End(m) <= memUnits
    BY <2>1, <2>2, <2>3 DEF SpaceInv
  <2>5. /\ pc[t] = "idle" /\ pc'[t] = "raise" /\ self'[t] = Current
        /\ UNCHANGED <<memUnits, request, data, size, holder>>
    BY <1>1, <1>2, <1>14 DEF FreeNodes, Goto
  <2> QED
    BY <2>3, <2>4, <2>5 DEF SpaceInv, InAlloc, End
<1>15. CASE UNCHANGED vars
  BY <1>15 DEF vars, SpaceInv, InAlloc, Current, On, End
<1> QED
  <2>1. Threads = {t}
    BY DEF Alone
  <2> QED
    BY <1>6, <1>7, <1>8, <1>9, <1>10, <1>11, <1>12, <1>13, <1>14, <1>15, <2>1 DEF Steps, Step, Takes

\* What last ought to be.
Highest(f) == Max({0} \cup {b \in Buckets : f[b] # <<>>})

\* It names a bucket in use, or the sink, and none in use is above it.
LEMMA HighestIs ==
  ASSUME NEW f
  PROVE  /\ Highest(f) \in Buckets
         /\ Highest(f) = 0 \/ f[Highest(f)] # <<>>
         /\ \A b \in Buckets : f[b] # <<>> => b <= Highest(f)
<1> DEFINE S == {0} \cup {b \in Buckets : f[b] # <<>>}
<1>1. MaxIndex \in Nat \ {0, 1} /\ Buckets = 0 .. MaxIndex - 1
  BY AllocatorAssumption DEF Buckets
<1>2. S \subseteq Nat /\ S # {} /\ \A n \in S : n <= MaxIndex
  BY <1>1
<1>3. Max(S) \in S /\ \A n \in S : n <= Max(S)
  <2> HIDE DEF S
  <2> QED
    BY <1>1, <1>2, MaxOfNaturals
<1> QED
  BY <1>1, <1>3 DEF Highest

\* And it is the only such index.
LEMMA HighestHas ==
  ASSUME NEW f, NEW h \in Buckets, h = 0 \/ f[h] # <<>>,
         \A b \in Buckets : f[b] # <<>> => b <= h
  PROVE  Highest(f) = h
<1>1. \A b \in Buckets : b \in Nat
  BY AllocatorAssumption DEF Buckets
<1>2. /\ Highest(f) \in Buckets
      /\ Highest(f) = 0 \/ f[Highest(f)] # <<>>
      /\ \A b \in Buckets : f[b] # <<>> => b <= Highest(f)
  BY HighestIs
<1>3. Highest(f) <= h
  BY <1>1, <1>2
<1>4. h <= Highest(f)
  BY <1>1, <1>2
<1> QED
  BY <1>1, <1>2, <1>3, <1>4

\* Between calls, and before its lists change, last is the highest bucket in use; a
\* call that has changed them knows which one it is.
LastInv(t) ==
    LET a == blocks[Current]
    IN /\ \A k \in DOMAIN blocks : blocks[k].last \in Buckets
       /\ top[t] \in Buckets
       /\ (IF pc[t] \in {"lower", "raise"} THEN top[t] ELSE a.last) = Highest(a.buf)

\* The walk down from an emptied bucket, the highest in use, to the next below it.
LEMMA LoweredLast ==
  ASSUME NEW a \in AllocatorType, NEW b \in Buckets \ {0}, a.last = Highest(a.buf), b < Word,
         a.buf[b] # <<>>, b >= a.last,
         NEW f \in Lists, \A c \in Buckets \ {b} : f[c] = a.buf[c], f[b] = <<>>
  PROVE  Lowered(a, f, b) = Highest(f)
<1> DEFINE stops == {k \in 1 .. b + 1 : k = b + 1 \/ k = b \/ f[b - k] # <<>>}
           m == Min(stops)
<1>1. /\ \A c \in Buckets : c \in Nat
      /\ \A c \in Buckets : \A d \in 0 .. c : d \in Buckets
      /\ Word \in Nat
  BY AllocatorAssumption DEF Buckets
<1>2. b \in Nat \ {0} /\ a.last = b /\ \A c \in Buckets : a.buf[c] # <<>> => c <= b
  <2>1. Highest(a.buf) \in Buckets /\ \A c \in Buckets : a.buf[c] # <<>> => c <= Highest(a.buf)
    BY HighestIs
  <2>2. b <= a.last
    BY <2>1
  <2> QED
    BY <1>1, <2>1, <2>2
<1>3. stops \subseteq Nat /\ b \in stops
  BY <1>2
<1>4. m \in stops /\ \A k \in stops : m <= k
  <2> HIDE DEF stops
  <2> QED
    BY <1>3, MinOfNaturals
<1>5. m \in 1 .. b
  BY <1>2, <1>3, <1>4
<1>6. b - m \in Buckets
  BY <1>1, <1>2, <1>5
<1>7. b - m = 0 \/ f[b - m] # <<>>
  BY <1>2, <1>4, <1>5
<1>8. ASSUME NEW c \in Buckets, f[c] # <<>> PROVE c <= b - m
  <2>1. c # b /\ a.buf[c] # <<>>
    BY <1>8
  <2>2. c \in Nat /\ c <= b
    BY <1>1, <1>2, <2>1
  <2>3. b - c \in 1 .. b + 1 /\ b - (b - c) = c
    BY <1>2, <2>1, <2>2
  <2>4. b - c \in stops
    BY <1>8, <2>3
  <2>5. m <= b - c
    BY <1>4, <2>4
  <2> QED
    BY <1>2, <1>5, <2>2, <2>5
<1>9. Highest(f) = b - m
  BY <1>6, <1>7, <1>8, HighestHas
<1>10. Lowered(a, f, b) = (b - m) % Word
  BY <1>2 DEF Lowered
<1> HIDE DEF m
<1> QED
  BY <1>1, <1>2, <1>5, <1>9, <1>10

\* What free makes of last, when it goes by the right one.
LEMMA RaisedLast ==
  ASSUME NEW a \in AllocatorType, NEW chain \in Seq(Nodes), a.last = Highest(a.buf), NEW f,
         \A b \in Buckets : f[b] # <<>> <=> \/ a.buf[b] # <<>>
                                            \/ \E n \in ToSet(chain) : Bucket(n) = b
  PROVE  Raised(a, chain) = Highest(f) /\ Raised(a, chain) \in Buckets
<1> DEFINE T == {Bucket(n) : n \in {m \in ToSet(chain) : a.buf[Bucket(m)] = <<>>}}
           S == {a.last} \cup T
<1>1. MaxIndex \in Nat \ {0, 1} /\ Buckets = 0 .. MaxIndex - 1
  BY AllocatorAssumption DEF Buckets
<1>2. \A m \in ToSet(chain) : Bucket(m) \in Buckets
  <2>1. \A m \in ToSet(chain) : m \in Nodes
    BY ElementOfSeq, LenProperties DEF ToSet
  <2>2. \A m \in Nodes : Bucket(m) \in Buckets
    BY AllocatorAssumption DEF Bucket, Buckets, Index, Nodes
  <2> QED
    BY <2>1, <2>2
<1>3. /\ a.last \in Buckets
      /\ a.last = 0 \/ a.buf[a.last] # <<>>
      /\ \A b \in Buckets : a.buf[b] # <<>> => b <= a.last
  BY HighestIs
<1>4. S \subseteq Buckets /\ S # {}
  BY <1>2, <1>3
<1>5. Max(S) \in S /\ \A n \in S : n <= Max(S)
  <2> HIDE DEF S
  <2>1. S \subseteq Nat /\ \A n \in S : n <= MaxIndex
    BY <1>1, <1>4
  <2> QED
    BY <1>1, <1>4, <2>1, MaxOfNaturals
<1> DEFINE h == Max(S)
<1>6. h \in Buckets
  BY <1>4, <1>5
<1>7. h = 0 \/ f[h] # <<>>
  <2>1. CASE h = a.last
    BY <1>3, <2>1
  <2>2. CASE h \in T
    <3>1. PICK n \in ToSet(chain) : h = Bucket(n)
      BY <2>2
    <3> QED
      BY <1>6, <3>1
  <2> QED
    BY <1>5, <2>1, <2>2
<1>8. ASSUME NEW b \in Buckets, f[b] # <<>> PROVE b <= h
  <2>1. CASE a.buf[b] # <<>>
    <3>1. b <= a.last /\ a.last <= h
      BY <1>3, <1>5, <2>1
    <3> QED
      BY <1>1, <1>3, <1>6, <3>1
  <2>2. CASE a.buf[b] = <<>>
    <3>1. PICK n \in ToSet(chain) : Bucket(n) = b
      BY <1>8, <2>2
    <3>2. b \in T
      BY <2>2, <3>1
    <3> QED
      BY <1>5, <3>2
  <2> QED
    BY <2>1, <2>2
<1> HIDE DEF h
<1>9. Highest(f) = h
  BY <1>6, <1>7, <1>8, HighestHas
<1> QED
  BY <1>6, <1>9 DEF Raised, h

\* In a new Allocator nothing is in use.
LEMMA LastInit ==
  ASSUME NEW t, Alone(t), Init
  PROVE  LastInv(t)
<1> DEFINE empty == [b \in Buckets |-> <<>>]
           a == [last |-> 0, origin |-> Base, buf |-> empty]
<1>1. blocks = <<a>> /\ blocks[1] = a /\ DOMAIN blocks = {1} /\ Current = 1
  BY DEF Init, Current
<1>2. 0 \in Buckets /\ \A b \in Buckets : empty[b] = <<>>
  BY AllocatorAssumption DEF Buckets
<1> HIDE DEF empty
<1>3. Highest(empty) = 0
  BY <1>2, HighestHas
<1>4. t \in Threads /\ pc[t] = "idle" /\ top[t] = 0
  BY DEF Init, Alone
<1> QED
  BY <1>1, <1>2, <1>3, <1>4 DEF LastInv

\* A bucket that a node was found in is one of those below the end of the memory.
LEMMA BucketInWord ==
  ASSUME NEW t, Alone(t), ListsInv, SpaceInv(t), NEW b \in Buckets \ {0},
         blocks[Current].buf[b] # <<>>
  PROVE  b < Word
<1> DEFINE f == blocks[Current].buf
           n == Head(f[b])
<1>1. f \in Lists /\ memUnits < Word /\ memUnits \in Nat /\ Word \in Nat
  <2>1. /\ f \in Lists /\ memUnits <= LimitUnits
        /\ memUnits \in Nat /\ LimitUnits \in Nat /\ Word \in Nat
    BY AloneFacts
  <2> QED
    BY <2>1, AllocatorAssumption
<1> HIDE DEF f
<1>2. f[b] \in Seq(Nodes) /\ f[b] # <<>>
  BY <1>1, OnList DEF f
<1>3. n \in ToSet(f[b])
  BY <1>2, TailOfList
<1>4. n \in Nodes /\ Bucket(n) = b /\ n \in On(f)
  BY <1>1, <1>3, OnList
<1>5. End(n) <= memUnits
  BY <1>4 DEF SpaceInv, f
<1> HIDE DEF n
<1>6. n.start \in Nat /\ n.units \in Nat \ {0} /\ n.units - 1 = b
  BY <1>4 DEF Nodes, Bucket, Index
<1> QED
  BY <1>1, <1>5, <1>6 DEF End

\* A call of alloc that empties the highest bucket in use knows the next one; one that
\* empties no bucket, or another, leaves last right.
LEMMA TakesLast ==
  ASSUME NEW t, Alone(t), ListsInv, ContextType, SpaceInv(t), LastInv(t), Takes(t)
  PROVE  LastInv(t)'
<1> DEFINE a == blocks[Current]
           r == request[t]
           b == Candidate(a, r - 1)
           k == Min(InSink(a, r - 1))
<1>1. /\ t \in Threads /\ Current \in DOMAIN blocks
      /\ a \in AllocatorType /\ a.buf \in Lists
      /\ \A j \in DOMAIN blocks : blocks[j] \in AllocatorType
  BY AloneFacts
<1>2. pc[t] \in {"bucket", "sink"} /\ InAlloc(t) /\ self[t] = Current
  BY DEF Takes, EmptiesBucket, TakeFromBucket, TakeFromSink, InAlloc, SpaceInv
<1>3. r \in Requests /\ a.last = Highest(a.buf) /\ a.last \in Buckets
  BY <1>1, <1>2, AloneFacts DEF LastInv
<1>4. /\ Highest(a.buf) \in Buckets
      /\ Highest(a.buf) = 0 \/ a.buf[Highest(a.buf)] # <<>>
      /\ \A c \in Buckets : a.buf[c] # <<>> => c <= Highest(a.buf)
      /\ \A c \in Buckets : c \in Nat
  BY HighestIs, AllocatorAssumption DEF Buckets
<1>5. pc \in [Threads -> Points] /\ top \in [Threads -> Nat]
  BY DEF ListsInv, CallsInv
<1>6. ASSUME NEW c \in Buckets, NEW s \in Seq(Sized(c)),
             blocks' = [blocks EXCEPT ![Current].buf = [a.buf EXCEPT ![c] = s]]
      PROVE  /\ Current' = Current /\ DOMAIN blocks' = DOMAIN blocks
             /\ \A j \in DOMAIN blocks : blocks'[j].last = blocks[j].last
             /\ blocks'[Current].buf = [a.buf EXCEPT ![c] = s]
             /\ [a.buf EXCEPT ![c] = s] \in Lists
  <2> DEFINE f == [a.buf EXCEPT ![c] = s]
  <2>1. Current' = Current /\ DOMAIN blocks' = DOMAIN blocks
    BY <1>6, NoNewBlock
  <2>2. \A j \in DOMAIN blocks : blocks'[j].last = blocks[j].last
    BY <1>1, <1>6 DEF AllocatorType
  <2>3. blocks'[Current].buf = f
    BY <1>1, <1>6, OriginRests
  <2>4. f \in Lists
    <3>1. s \in Seq(Nodes)
      BY DEF Sized
    <3> QED
      BY <1>1, <3>1 DEF Lists
  <2> QED
    BY <2>1, <2>2, <2>3, <2>4
<1>7. ASSUME Finish(t)
      PROVE  pc'[t] = "idle" /\ top'[t] = 0 /\ 0 \in Buckets
  BY <1>1, <1>5, <1>7, AllocatorAssumption DEF Finish, Goto, Buckets
<1>8. CASE EmptiesBucket(t) \/ TakeFromBucket(t)
  <2> DEFINE s == Tail(a.buf[b])
             f == [a.buf EXCEPT ![b] = s]
  <2>1. /\ b \in Buckets /\ blocks' = [blocks EXCEPT ![Current].buf = f]
        /\ EmptiesBucket(t) => /\ f[b] = <<>> /\ b >= a.last
                               /\ top' = [top EXCEPT ![t] = Lowered(a, f, b)] /\ Goto(t, "lower")
        /\ ~EmptiesBucket(t) => (s # <<>> \/ b < a.last) /\ Finish(t)
    BY <1>1, <1>2, <1>8 DEF EmptiesBucket, TakeFromBucket
  <2> HIDE DEF b
  <2>2. b # 0 /\ a.buf[b] # <<>>
    BY <1>1, <1>3, <2>1, CandidateFits DEF b
  <2>3. s \in Seq(Sized(b))
    BY <1>1, <2>1, <2>2, HeadTailProperties DEF Lists
  <2> HIDE DEF s
  <2>4. /\ Current' = Current /\ DOMAIN blocks' = DOMAIN blocks
        /\ \A j \in DOMAIN blocks : blocks'[j].last = blocks[j].last
        /\ blocks'[Current].buf = f /\ f \in Lists
        /\ f[b] = s /\ \A d \in Buckets \ {b} : f[d] = a.buf[d]
    <3>1. f[b] = s /\ \A d \in Buckets \ {b} : f[d] = a.buf[d]
      BY <1>1, <2>1 DEF Lists
    <3> QED
      BY <1>6, <2>1, <2>3, <3>1
  <2> HIDE DEF f
  <2>5. CASE EmptiesBucket(t)
    <3>1. b < Word
      BY <2>1, <2>2, BucketInWord
    <3>2. Lowered(a, f, b) = Highest(f)
      BY <1>1, <1>3, <2>1, <2>2, <2>4, <2>5, <3>1, LoweredLast
    <3>3. top'[t] = Highest(f) /\ pc'[t] = "lower" /\ Highest(f) \in Buckets
      BY <1>1, <1>5, <2>1, <2>5, <3>2, HighestIs DEF Goto
    <3> QED
      BY <2>4, <3>3 DEF LastInv
  <2>6. CASE ~EmptiesBucket(t)
    <3>1. a.last = 0 \/ f[a.last] # <<>>
      <4>1. CASE s # <<>>
        BY <1>3, <1>4, <2>4, <4>1
      <4>2. CASE b < a.last
        <5>1. b # a.last
          BY <1>3, <1>4, <2>1, <4>2
        <5> QED
          BY <1>3, <1>4, <2>4, <5>1
      <4> QED
        BY <2>1, <2>6, <4>1, <4>2
    <3>2. \A c \in Buckets : f[c] # <<>> => c <= a.last
      BY <1>3, <1>4, <2>2, <2>4
    <3>3. Highest(f) = a.last
      BY <1>3, <3>1, <3>2, HighestHas
    <3> QED
      BY <1>1, <1>3, <1>7, <2>1, <2>4, <2>6, <3>3 DEF LastInv
  <2> QED
    BY <2>5, <2>6
<1>9. CASE TakeFromSink(t)
  <2> DEFINE s == RemoveAt(a.buf[0], k)
             f == [a.buf EXCEPT ![0] = s]
  <2>1. /\ InSink(a, r - 1) # {} /\ blocks' = [blocks EXCEPT ![Current].buf = f] /\ Finish(t)
        /\ 0 \in Buckets
    BY <1>1, <1>2, <1>9, AllocatorAssumption DEF TakeFromSink, Buckets
  <2> HIDE DEF k
  <2>2. k \in 1 .. Len(a.buf[0]) /\ a.buf[0] \in Seq(Sized(0))
    BY <1>1, <1>3, <2>1, SinkFits DEF k
  <2>3. s \in Seq(Sized(0))
    BY <2>2, RemovedType
  <2> HIDE DEF s
  <2>4. /\ Current' = Current /\ DOMAIN blocks' = DOMAIN blocks
        /\ \A j \in DOMAIN blocks : blocks'[j].last = blocks[j].last
        /\ blocks'[Current].buf = f /\ f \in Lists
        /\ f[0] = s /\ \A d \in Buckets \ {0} : f[d] = a.buf[d]
    <3>1. f[0] = s /\ \A d \in Buckets \ {0} : f[d] = a.buf[d]
      BY <1>1, <2>1 DEF Lists
    <3> QED
      BY <1>6, <2>1, <2>3, <3>1
  <2> HIDE DEF f
  <2>5. \A c \in Buckets : f[c] # <<>> => c <= a.last
    <3>1. 0 <= a.last
      BY <1>3, <1>4
    <3> QED
      BY <1>3, <1>4, <2>4, <3>1
  <2>6. a.last = 0 \/ f[a.last] # <<>>
    BY <1>3, <1>4, <2>4
  <2>7. Highest(f) = a.last
    BY <1>3, <2>5, <2>6, HighestHas
  <2> QED
    BY <1>1, <1>3, <1>7, <2>1, <2>4, <2>7 DEF LastInv
<1> QED
  BY <1>8, <1>9 DEF Takes

\* Every step keeps last right, or has its thread know what it will be.
LEMMA LastStep ==
  ASSUME NEW t, Alone(t), ListsInv, ContextType, SpaceInv(t), LastInv(t), [Steps]_vars
  PROVE  LastInv(t)'
<1> DEFINE a == blocks[Current]
<1>1. /\ t \in Threads /\ Current \in DOMAIN blocks /\ Current \in Nat
      /\ a \in AllocatorType /\ a.buf \in Lists
      /\ \A j \in DOMAIN blocks : blocks[j] \in AllocatorType
      /\ pc[t] # "idle" => self[t] \in DOMAIN blocks
  BY AloneFacts
<1>2. pc \in [Threads -> Points] /\ top \in [Threads -> Nat] /\ 0 \in Buckets
  BY AllocatorAssumption DEF ListsInv, CallsInv, Buckets
<1>3. \A j \in DOMAIN blocks : blocks[j].last \in Buckets
  BY DEF LastInv
<1>4. ASSUME NEW x, x \notin {"lower", "raise"}, pc'[t] = x, top'[t] \in {top[t], 0},
             pc[t] \notin {"lower", "raise"}, UNCHANGED blocks
      PROVE  LastInv(t)'
  BY <1>2, <1>4 DEF LastInv, Current
<1>5. CASE Looks(t)
  <2>1. CASE \E r \in Requests : Request(t, r)
    BY <1>1, <1>2, <1>4, <2>1 DEF Request, Goto
  <2>2. CASE Seek(t) \/ FindsNoBucket(t) \/ FindsNoSink(t) \/ Bump(t)
    BY <1>1, <1>2, <1>4, <2>2 DEF Seek, FindsNoBucket, FindsNoSink, Bump, Goto
  <2>3. CASE GrowFails(t)
    BY <1>1, <1>2, <1>4, <2>3 DEF GrowFails, Finish, Goto
  <2> QED
    BY <1>5, <2>1, <2>2, <2>3 DEF Looks
<1>6. CASE Takes(t)
  BY <1>6, TakesLast
<1>7. CASE LowerLast(t) \/ RaiseLast(t)
  <2>1. /\ pc[t] \in {"lower", "raise"} /\ self[t] = Current
        /\ blocks' = [blocks EXCEPT ![self[t]].last = top[t]] /\ Finish(t)
    BY <1>7 DEF LowerLast, RaiseLast, SpaceInv
  <2>2. top[t] = Highest(a.buf) /\ top[t] \in Buckets
    BY <2>1 DEF LastInv
  <2>3. Current' = Current /\ DOMAIN blocks' = DOMAIN blocks
    BY <2>1, NoNewBlock
  <2>4. /\ \A j \in DOMAIN blocks : blocks'[j].last = IF j = Current THEN top[t] ELSE blocks[j].last
        /\ blocks'[Current].buf = a.buf
    BY <1>1, <2>1 DEF AllocatorType
  <2>5. pc'[t] = "idle" /\ top'[t] = 0
    BY <1>1, <1>2, <2>1 DEF Finish, Goto
  <2> QED
    BY <1>1, <1>2, <1>3, <2>2, <2>3, <2>4, <2>5 DEF LastInv
<1>8. CASE Advance(t)
  <2>1. /\ pc[t] = "advance" /\ self[t] \in DOMAIN blocks
        /\ blocks' = [blocks EXCEPT ![self[t]].origin = (@ + request[t]) % Word] /\ Finish(t)
    BY <1>1, <1>8 DEF Advance
  <2>2. Current' = Current /\ DOMAIN blocks' = DOMAIN blocks
    BY <2>1, NoNewBlock
  <2>3. \A j \in DOMAIN blocks : blocks'[j].last = blocks[j].last /\ blocks'[j].buf = blocks[j].buf
    BY <1>1, <2>1 DEF AllocatorType
  <2>4. pc'[t] = "idle" /\ top'[t] = 0
    BY <1>1, <1>2, <2>1 DEF Finish, Goto
  <2> QED
    BY <1>1, <1>2, <1>3, <2>1, <2>2, <2>3, <2>4 DEF LastInv
<1>9. CASE Grow(t)
  <2>1. /\ pc[t] = "grow" /\ blocks' = Append(blocks, a) /\ pc'[t] = "place" /\ top' = top
    BY <1>1, <1>2, <1>9 DEF Grow, Goto
  <2>2. /\ Current' = Current + 1 /\ DOMAIN blocks' = 1 .. Current + 1
        /\ \A j \in 1 .. Current : blocks'[j] = blocks[j]
        /\ blocks'[Current + 1] = a /\ DOMAIN blocks = 1 .. Current
    BY <1>1, <2>1, AppendProperties, LenProperties DEF Current, ListsInv, BlocksInv
  <2>3. \A j \in DOMAIN blocks' : blocks'[j].last \in Buckets
    BY <1>1, <1>3, <2>2
  <2> QED
    BY <2>1, <2>2, <2>3 DEF LastInv
<1>10. CASE Place(t)
  BY <1>1, <1>2, <1>4, <1>10 DEF Place, Goto
<1>11. ASSUME NEW chain \in Chains(t), FreeNodes(t, chain) PROVE LastInv(t)'
  <2>1. PICK f : /\ \A b \in Buckets : f[b] # <<>> <=> \/ a.buf[b] # <<>>
                                                       \/ \E n \in ToSet(chain) : Bucket(n) = b
                 /\ blocks' = [blocks EXCEPT ![Current].buf = f]
    BY <1>1, <1>11, NodesFreed
  <2>2. /\ pc[t] = "idle" /\ pc'[t] = "raise" /\ top'[t] = Raised(a, chain)
    BY <1>1, <1>2, <1>11 DEF FreeNodes, Goto
  <2>3. a.last = Highest(a.buf)
    BY <2>2 DEF LastInv
  <2>4. Raised(a, chain) = Highest(f) /\ Raised(a, chain) \in Buckets
    <3>1. chain \in Seq(Nodes)
      BY <1>1, ChainOf
    <3> QED
      BY <1>1, <2>1, <2>3, <3>1, RaisedLast
  <2>5. Current' = Current /\ DOMAIN blocks' = DOMAIN blocks
    BY <2>1, NoNewBlock
  <2>6. blocks'[Current].buf = f /\ \A j \in DOMAIN blocks : blocks'[j].last = blocks[j].last
    <3>1. blocks'[Current].buf = f
      BY <1>1, <2>1, OriginRests
    <3> QED
      BY <1>1, <2>1, <3>1 DEF AllocatorType
  <2> QED
    BY <1>3, <2>2, <2>4, <2>5, <2>6 DEF LastInv
<1>12. CASE UNCHANGED vars
  BY <1>12 DEF vars, LastInv, Current
<1> QED
  <2>1. Threads = {t}
    BY DEF Alone
  <2> QED
    BY <1>5, <1>6, <1>7, <1>8, <1>9, <1>10, <1>11, <1>12, <2>1 DEF Steps, Step, Takes, Looks

\* A call that is about to search has seen that last is not below what it looks for.
SearchInv(t) == /\ pc[t] # "astray"
                /\ pc[t] = "bucket" => request[t] - 1 <= blocks[Current].last

\* It has, when there is nobody else to change last, and last has not wrapped.
LEMMA SearchStep ==
  ASSUME NEW t, Alone(t), ListsInv, SpaceInv(t), LastInv(t), SearchInv(t), [Steps]_vars
  PROVE  SearchInv(t)'
<1>1. t \in Threads /\ Threads = {t} /\ Current \in DOMAIN blocks
  BY AloneFacts DEF Alone
<1>2. pc \in [Threads -> Points]
  BY DEF ListsInv, CallsInv
<1>3. CASE UNCHANGED vars
  BY <1>3 DEF vars, call, SearchInv, Current
<1>4. CASE Seek(t)
  <2>1. self[t] = Current /\ UNCHANGED <<blocks, request>> /\ Current' = Current
    BY <1>4 DEF Seek, SpaceInv, call, Current
  <2>2. blocks[Current].last \in Buckets
    BY <1>1 DEF LastInv
  <2>3. ~Wrapped(blocks[Current])
    BY <2>2, AllocatorAssumption DEF Wrapped, Buckets
  <2>4. pc'[t] \in {"bucket", "sink", "bump"}
        /\ (pc'[t] = "bucket" => request[t] - 1 <= blocks[Current].last)
    BY <1>1, <1>2, <1>4, <2>1, <2>3 DEF Seek, Goto
  <2> QED
    BY <2>1, <2>4 DEF SearchInv
<1>5. ASSUME ~Seek(t), Steps
      PROVE  pc'[t] \notin {"astray", "bucket"}
  <2>1. Step(t)
    BY <1>1, <1>5 DEF Steps
  <2>2. \E point \in {"idle", "seek", "lower", "bump", "grow", "place", "advance", "raise"} :
           pc' = [pc EXCEPT ![t] = point]
    BY <1>5, <2>1
    DEF Step, Request, EmptiesBucket, LowerLast, TakeFromBucket, FindsNoBucket,
        TakeFromSink, FindsNoSink, Bump, Grow, GrowFails, Place, Advance, FreeNodes,
        RaiseLast, Finish, Goto
  <2> QED
    BY <1>1, <1>2, <2>2
<1> QED
  BY <1>3, <1>4, <1>5 DEF SearchInv

\* So its walk ends within the buckets.
LEMMA NoneAstray ==
  ASSUME NEW t, Alone(t), ListsInv, SpaceInv(t), LastInv(t), SearchInv(t), [Next]_vars
  PROVE  [Steps]_vars
<1> SUFFICES ASSUME TakeAstray(t) PROVE FALSE
  BY DEF Next, Steps, Alone
<1> DEFINE a == blocks[Current]
<1>1. /\ pc[t] = "bucket" /\ self[t] = Current /\ LeavesBuckets(a, request[t] - 1)
      /\ request[t] - 1 <= a.last
  BY DEF TakeAstray, SpaceInv, SearchInv
<1>2. a.last \in Buckets
  BY AloneFacts DEF LastInv
<1>3. request[t] \in Nat
  BY <1>1, AloneFacts DEF InAlloc
<1> HIDE DEF a
<1>4. ~Wrapped(a) /\ ~(request[t] - 1 >= MaxIndex)
  BY <1>1, <1>2, <1>3, AllocatorAssumption DEF Wrapped, Buckets
<1> QED
  BY <1>1, <1>4 DEF LeavesBuckets

\* Every variable has its type, and last is right between calls.
LEMMA AloneType ==
  ASSUME NEW t, Alone(t), ListsInv, ContextType, SpaceInv(t), LastInv(t), SearchInv(t)
  PROVE  TypeOK /\ LastIsHighest
<1>1. /\ t \in Threads /\ Current \in DOMAIN blocks /\ Current \in Nat
      /\ \A k \in DOMAIN blocks : blocks[k].origin \in Nat /\ blocks[k].buf \in Lists
      /\ memUnits \in Nat /\ memUnits <= LimitUnits /\ LimitUnits \in Nat /\ Word \in Nat
      /\ Threads = {t}
  BY AloneFacts DEF Alone
<1>2. /\ pc \in [Threads -> Points] /\ request \in [Threads -> Nat] /\ self \in [Threads -> Nat]
      /\ top \in [Threads -> Nat] /\ held \in [Threads -> SUBSET Nodes]
      /\ data \in [Threads -> Nat] /\ size \in [Threads -> Nat]
      /\ pc[t] # "idle" => self[t] \in 1 .. Current
      /\ InAlloc(t) => request[t] \in Requests
  BY <1>1 DEF ListsInv, CallsInv, ContextType, Current, InAlloc
<1>3. request[t] \in Requests \cup {0}
  BY <1>2 DEF SpaceInv
<1>4. self[t] \in 0 .. Current /\ data[t] \in 0 .. Current
  BY <1>1, <1>2 DEF SpaceInv
<1>5. size[t] \in 0 .. LimitUnits
  BY <1>1, <1>2 DEF SpaceInv
<1>6. /\ request \in [Threads -> Requests \cup {0}] /\ self \in [Threads -> 0 .. Current]
      /\ data \in [Threads -> 0 .. Current] /\ size \in [Threads -> 0 .. LimitUnits]
      /\ top \in [Threads -> Buckets]
  <2>1. top[t] \in Buckets
    BY DEF LastInv
  <2> QED
    BY <1>1, <1>2, <1>3, <1>4, <1>5, <2>1
<1>7. \A k \in DOMAIN blocks : blocks[k].origin \in 0 .. Word - 1
  <2>1. LimitUnits < Word /\ \A k \in DOMAIN blocks : blocks[k].origin <= memUnits
    BY AllocatorAssumption DEF SpaceInv
  <2> QED
    BY <1>1, <2>1
<1>8. \A k \in DOMAIN blocks : \A b \in Buckets : ToSet(blocks[k].buf[b]) \subseteq Nodes
  BY <1>1, OnList
<1>9. pc \in [Threads -> Points \ {"astray"}]
  BY <1>1, <1>2 DEF SearchInv
<1>10. TypeOK
  BY <1>1, <1>2, <1>6, <1>7, <1>8, <1>9 DEF TypeOK, LastInv, SpaceInv
<1>11. LastIsHighest
  BY <1>1 DEF LastIsHighest, Idle, LastInv, Highest
<1> QED
  BY <1>10, <1>11

\* The nodes are next to each other, from the allocator up to end.
Tiled(nodes, end) == /\ \A m, n \in nodes : m # n => Units(m) \cap Units(n) = {}
                     /\ UNION {Units(n) : n \in nodes} = Base .. end - 1

\* Until the memory moves, the nodes held and the nodes free are so up to origin, or
\* to where it is about to be.
TileInv(t) ==
    LET a == blocks[1]
    IN Current = 1 => /\ Base <= a.origin
                      /\ Tiled(held[t] \cup On(a.buf), a.origin + NotYet(t))

\* A new memory has no nodes.
LEMMA TileInit ==
  ASSUME NEW t, Alone(t), Init
  PROVE  TileInv(t)
<1> DEFINE empty == [b \in Buckets |-> <<>>]
           a == [last |-> 0, origin |-> Base, buf |-> empty]
<1>1. blocks[1] = a
  BY DEF Init
<1>2. On(empty) = {}
  BY DEF On, ToSet
<1> HIDE DEF empty
<1>3. held[t] = {} /\ pc[t] = "idle" /\ Base \in Nat
  BY AllocatorAssumption DEF Init, Alone
<1>4. Base .. Base - 1 = {}
  BY <1>3
<1> QED
  BY <1>1, <1>2, <1>3, <1>4 DEF TileInv, Tiled, NotYet

\* One more node at the end.
LEMMA TiledMore ==
  ASSUME NEW nodes, NEW o \in Nat, Base <= o, Tiled(nodes, o), NEW r \in Nat
  PROVE  /\ Tiled(nodes \cup {[start |-> o, units |-> r]}, o + r)
         /\ \A m \in nodes : Units(m) \cap Units([start |-> o, units |-> r]) = {}
<1> DEFINE n == [start |-> o, units |-> r]
<1>1. Units(n) = o .. o + r - 1 /\ Base \in Nat
  BY AllocatorAssumption DEF Units
<1> HIDE DEF n
<1>2. ASSUME NEW m \in nodes PROVE Units(m) \cap Units(n) = {}
  <2>1. Units(m) \subseteq Base .. o - 1
    BY DEF Tiled
  <2>2. (Base .. o - 1) \cap (o .. o + r - 1) = {}
    BY <1>1
  <2> QED
    BY <1>1, <2>1, <2>2
<1>3. UNION {Units(m) : m \in nodes \cup {n}} = (UNION {Units(m) : m \in nodes}) \cup Units(n)
  <2> DEFINE more == nodes \cup {n}
             U == UNION {Units(m) : m \in nodes}
             V == UNION {Units(m) : m \in more}
  <2>1. \A m \in more : Units(m) \subseteq U \cup Units(n)
    OBVIOUS
  <2>2. \A m \in more : Units(m) \subseteq V
    OBVIOUS
  <2>3. V \subseteq U \cup Units(n)
    BY <2>1
  <2>4. U \subseteq V /\ Units(n) \subseteq V
    BY <2>2
  <2> HIDE DEF U, V
  <2>5. V = U \cup Units(n)
    BY <2>3, <2>4
  <2> QED
    BY <2>5 DEF U, V
<1>4. (Base .. o - 1) \cup (o .. o + r - 1) = Base .. o + r - 1
  BY <1>1
<1>5. UNION {Units(m) : m \in nodes \cup {n}} = Base .. o + r - 1
  BY <1>1, <1>3, <1>4 DEF Tiled
<1>6. \A m, k \in nodes \cup {n} : m # k => Units(m) \cap Units(k) = {}
  BY <1>2 DEF Tiled
<1>7. Tiled(nodes \cup {n}, o + r)
  BY <1>5, <1>6 DEF Tiled
<1> QED
  BY <1>2, <1>7 DEF n

\* Taking a node off a list, and freeing a chain, moves no node in the memory; Place
\* adds one at origin, and Advance moves origin past it.
LEMMA TileStep ==
  ASSUME NEW t, Alone(t), ListsInv, ContextType, SpaceInv(t), TileInv(t), [Steps]_vars
  PROVE  TileInv(t)'
<1> SUFFICES ASSUME Current' = 1 PROVE TileInv(t)'
  BY DEF TileInv
<1> DEFINE a == blocks[1]
           nodes == held[t] \cup On(a.buf)
           end == a.origin + NotYet(t)
<1>1. CASE UNCHANGED vars
  BY <1>1 DEF vars, TileInv, Current, Tiled, On, NotYet
<1>2. CASE Steps
  <2>1. Current = 1 /\ ~Grow(t)
    <3>1. t \in Threads
      BY AloneFacts
    <3> QED
      BY <1>2, <3>1, FirstStays
  <2>2. /\ t \in Threads /\ DOMAIN held = Threads /\ 1 \in DOMAIN blocks /\ a.origin \in Nat
        /\ pc[t] # "idle" => self[t] \in DOMAIN blocks
        /\ InAlloc(t) => /\ request[t] \in Nat \ {0, 1} /\ LimitUnits + request[t] < Word
        /\ memUnits \in Nat /\ memUnits <= LimitUnits /\ LimitUnits \in Nat /\ Word \in Nat
        /\ Threads = {t}
    BY <2>1, AloneFacts DEF Alone
  <2>3. Base <= a.origin /\ Tiled(nodes, end)
    BY <2>1 DEF TileInv
  <2>4. NotYet(t) \in Nat /\ \A x : Goto(t, x) /\ x # "advance" => NotYet(t)' = 0
    BY <2>2, NotYetAfter
  <2>5. DOMAIN blocks = {1}
    BY <2>1, LenProperties DEF Current, ListsInv, BlocksInv
  <2>6. ASSUME NEW f, blocks' = [blocks EXCEPT ![1].buf = f], held'[t] \cup On(f) = nodes,
               pc[t] # "advance", \E x : Goto(t, x) /\ x # "advance"
        PROVE  TileInv(t)'
    <3>1. blocks'[1].origin = a.origin /\ blocks'[1].buf = f
      BY <2>2, <2>6, OriginRests
    <3>2. NotYet(t) = 0 /\ NotYet(t)' = 0
      BY <2>4, <2>6 DEF NotYet
    <3>3. nodes' = nodes /\ end' = end
      BY <2>6, <3>1, <3>2 DEF On
    <3> HIDE DEF nodes, end
    <3>4. Base <= blocks'[1].origin /\ Tiled(nodes', end')
      BY <2>3, <3>1, <3>3
    <3> QED
      BY <3>4 DEF TileInv, Tiled, nodes, end
  <2>7. CASE Looks(t) \/ LowerLast(t) \/ RaiseLast(t)
    <3>1. UNCHANGED held /\ a'.buf = a.buf /\ a'.origin = a.origin
      <4>1. ~Advance(t)
        BY <2>7 DEF Looks, Request, Seek, FindsNoBucket, FindsNoSink, Bump, GrowFails, LowerLast,
                    RaiseLast, Advance
      <4> QED
        BY <2>2, <2>7, <4>1, ListsRest DEF Rests
    <3>2. pc[t] # "advance" /\ \E x : Goto(t, x) /\ x # "advance"
      BY <2>7 DEF Looks, Request, Seek, FindsNoBucket, FindsNoSink, Bump, GrowFails, LowerLast,
                  RaiseLast, Finish
    <3>3. NotYet(t) = 0 /\ NotYet(t)' = 0
      BY <2>4, <3>2 DEF NotYet
    <3>4. nodes' = nodes /\ end' = end
      BY <3>1, <3>3 DEF On
    <3> HIDE DEF nodes, end
    <3>5. Base <= blocks'[1].origin /\ Tiled(nodes', end')
      BY <2>3, <3>1, <3>4
    <3> QED
      BY <3>5 DEF TileInv, Tiled, nodes, end
  <2>8. CASE Takes(t)
    <3>1. pc[t] \in {"bucket", "sink"} /\ self[t] = 1
      BY <2>1, <2>8 DEF Takes, EmptiesBucket, TakeFromBucket, TakeFromSink, SpaceInv
    <3>2. PICK n, f : /\ n \in Nodes
                      /\ On(blocks[self[t]].buf) = On(f) \cup {n}
                      /\ blocks' = [blocks EXCEPT ![self[t]].buf = f]
                      /\ held' = [held EXCEPT ![t] = @ \cup {n}]
      BY <2>2, <2>8, NodeFound
    <3>3. held'[t] \cup On(f) = nodes
      BY <2>2, <3>1, <3>2
    <3>4. \E x : Goto(t, x) /\ x # "advance"
      BY <2>2, <2>8, TakesEnds
    <3> QED
      BY <2>6, <3>1, <3>2, <3>3, <3>4
  <2>9. ASSUME NEW chain \in Chains(t), FreeNodes(t, chain) PROVE TileInv(t)'
    <3>1. PICK f : /\ On(f) = On(a.buf) \cup ToSet(chain)
                   /\ blocks' = [blocks EXCEPT ![1].buf = f]
                   /\ held' = [held EXCEPT ![t] = @ \ ToSet(chain)]
      BY <2>1, <2>2, <2>9, NodesFreed
    <3>2. ToSet(chain) \subseteq held[t]
      BY <2>2, ChainOf
    <3>3. held'[t] \cup On(f) = nodes
      BY <2>2, <3>1, <3>2
    <3>4. pc[t] # "advance" /\ \E x : Goto(t, x) /\ x # "advance"
      BY <2>9 DEF FreeNodes
    <3> QED
      BY <2>6, <3>1, <3>3, <3>4
  <2>10. CASE Place(t)
    <3> DEFINE n == [start |-> a.origin, units |-> request[t]]
    <3>1. /\ pc[t] = "place" /\ InAlloc(t) /\ self[t] = 1 /\ data[t] = Current
          /\ Goto(t, "advance") /\ UNCHANGED <<blocks, request>>
      BY <2>2, <2>5, <2>10 DEF Place, call, InAlloc, SpaceInv
    <3>2. held' = [held EXCEPT ![t] = @ \cup {n}]
      BY <2>10, <3>1 DEF Place
    <3>3. NotYet(t) = 0 /\ NotYet(t)' = request[t]
      BY <2>2, <3>1 DEF NotYet, Goto, ListsInv, CallsInv
    <3>4. Tiled(nodes \cup {n}, a.origin + request[t])
      <4>1. end = a.origin /\ request[t] \in Nat
        BY <2>2, <3>1, <3>3
      <4> HIDE DEF nodes, end
      <4>2. Tiled(nodes, a.origin)
        BY <2>3, <4>1
      <4> QED
        BY <2>2, <2>3, <4>1, <4>2, TiledMore
    <3>5. nodes' = nodes \cup {n} /\ end' = a.origin + request[t]
      BY <2>2, <3>1, <3>2, <3>3 DEF On
    <3> HIDE DEF nodes, end, n
    <3>6. Base <= blocks'[1].origin /\ Tiled(nodes', end')
      BY <2>3, <3>1, <3>4, <3>5
    <3> QED
      BY <3>6 DEF TileInv, Tiled, nodes, end
  <2>11. CASE Advance(t)
    <3> DEFINE o == a.origin
               r == request[t]
    <3>1. /\ pc[t] = "advance" /\ InAlloc(t) /\ self[t] = 1
          /\ blocks' = [blocks EXCEPT ![1].origin = (o + r) % Word] /\ Goto(t, "idle")
          /\ held' = held
      BY <2>2, <2>5, <2>11 DEF Advance, Finish, InAlloc
    <3>2. a'.buf = a.buf /\ a'.origin = (o + r) % Word
      BY <2>2, <3>1, <2>5
    <3>3. o + r <= memUnits
      BY <3>1 DEF SpaceInv
    <3>4. NotYet(t) = r /\ NotYet(t)' = 0
      BY <2>4, <3>1 DEF NotYet
    <3>5. o \in Nat /\ r \in Nat /\ LimitUnits < Word
      BY <2>2, <3>1, AllocatorAssumption
    <3>6. (o + r) % Word = o + r /\ Base <= o + r /\ o + r \in Nat
      <4>1. Base <= o /\ Base \in Nat
        BY <2>3, AllocatorAssumption
      <4> HIDE DEF o, r
      <4> QED
        BY <2>2, <3>3, <3>5, <4>1
    <3>7. nodes' = nodes /\ end' = end
      BY <3>1, <3>2, <3>4, <3>6 DEF On
    <3> HIDE DEF nodes, end
    <3>8. Base <= blocks'[1].origin /\ Tiled(nodes', end')
      BY <2>3, <3>2, <3>6, <3>7
    <3> QED
      BY <3>8 DEF TileInv, Tiled, nodes, end
  <2> QED
    BY <1>2, <2>1, <2>2, <2>7, <2>8, <2>9, <2>10, <2>11 DEF Steps, Step, Takes, Looks
<1> QED
  BY <1>1, <1>2

\* With the nodes tiling the memory, what alloc and free do is what the heap does.
LEMMA TileHeap ==
  ASSUME NEW t, Alone(t), ListsInv, ContextType, SpaceInv(t), TileInv(t), [Steps]_vars,
         Current' = 1
  PROVE  Heap!Next \/ UNCHANGED Taken
<1> DEFINE a == blocks[1]
           nodes == held[t] \cup On(a.buf)
           end == a.origin + NotYet(t)
<1> SUFFICES ASSUME Steps PROVE Heap!Next \/ UNCHANGED Taken
  BY DEF vars, Taken
<1>1. /\ t \in Threads /\ Threads = {t} /\ Current = 1 /\ ~Grow(t)
  BY AloneFacts, FirstStays DEF Alone
<1>2. /\ Base <= a.origin /\ Tiled(nodes, end) /\ Base \in Nat
  BY <1>1, AllocatorAssumption DEF TileInv
<1>3. /\ DOMAIN held = Threads /\ 1 \in DOMAIN blocks /\ a.origin \in Nat /\ a.buf \in Lists
      /\ memUnits \in Nat /\ memUnits <= LimitUnits /\ LimitUnits \in Nat
      /\ Taken = held[t] /\ held[t] \subseteq Nodes
      /\ InAlloc(t) => request[t] \in Requests
  BY <1>1, AloneFacts
<1>4. NewFit /\ (Taken)' = held'[t]
  BY <1>1, ListsStep DEF Taken
<1>5. ASSUME NEW n \in Nodes, held'[t] = held[t] \cup {n}, n.start >= Base, End(n) <= LimitUnits,
             \A m \in held[t] : m # n => Units(m) \cap Units(n) = {}, request[t] \in Requests
      PROVE  Heap!Next \/ UNCHANGED Taken
  <2>1. CASE n \in held[t]
    BY <1>3, <1>4, <1>5, <2>1
  <2>2. CASE n \notin held[t]
    <3>1. n.units >= request[t]
      BY <1>1, <1>4, <1>5, <2>2 DEF NewFit
    <3>2. n \in Heap!Nodes
      <4>1. /\ n = [start |-> n.start, units |-> n.units] /\ n.start \in Nat
            /\ n.units \in Nat \ {0} /\ n.start + n.units <= LimitUnits
        BY <1>5 DEF Nodes, End
      <4>2. n.start \in Base .. LimitUnits - 1 /\ n.units \in 1 .. LimitUnits
        BY <1>2, <1>3, <1>5, <4>1
      <4> QED
        BY <4>1, <4>2 DEF Heap!Nodes
    <3>3. \A m \in Taken : Heap!Units(m) \cap Heap!Units(n) = {}
      BY <1>3, <1>5, <2>2 DEF Heap!Units, Units
    <3>4. Heap!Alloc(request[t])
      BY <1>3, <1>4, <1>5, <3>1, <3>2, <3>3 DEF Heap!Alloc, End
    <3> QED
      BY <1>5, <3>4 DEF Heap!Next
  <2> QED
    BY <2>1, <2>2
<1>6. CASE Rests(t)
  BY <1>1, <1>6, ListsRest DEF Taken
<1>7. CASE Takes(t)
  <2>1. pc[t] \in {"bucket", "sink"} /\ self[t] = 1 /\ InAlloc(t)
    BY <1>1, <1>7 DEF Takes, EmptiesBucket, TakeFromBucket, TakeFromSink, SpaceInv, InAlloc
  <2>2. PICK n, f : /\ n \in Nodes
                    /\ On(blocks[self[t]].buf) = On(f) \cup {n}
                    /\ held' = [held EXCEPT ![t] = @ \cup {n}]
    BY <1>1, <1>7, NodeFound
  <2>3. n \in Nodes /\ n \in nodes /\ held'[t] = held[t] \cup {n} /\ n \in On(blocks[1].buf)
    BY <1>1, <1>3, <2>1, <2>2
  <2>4. n.start >= Base
    <3>1. n.start \in Units(n) /\ n.start \in Nat
      BY <2>3 DEF Units, Nodes
    <3>2. Units(n) \subseteq Base .. end - 1
      BY <1>2, <2>3 DEF Tiled
    <3> HIDE DEF end
    <3> QED
      BY <1>2, <3>1, <3>2
  <2>5. End(n) <= LimitUnits
    <3>1. End(n) <= memUnits
      BY <1>1, <2>3 DEF SpaceInv
    <3>2. End(n) \in Nat
      BY <2>3 DEF End, Nodes
    <3> QED
      BY <1>3, <3>1, <3>2
  <2>6. \A m \in held[t] : m # n => Units(m) \cap Units(n) = {}
    BY <1>2, <2>3 DEF Tiled
  <2> QED
    BY <1>3, <1>5, <2>1, <2>3, <2>4, <2>5, <2>6
<1>8. CASE Place(t)
  <2> DEFINE n == [start |-> a.origin, units |-> request[t]]
  <2>1. /\ pc[t] = "place" /\ InAlloc(t) /\ self[t] = 1 /\ data[t] = Current
    BY <1>1, <1>8, AloneFacts, LenProperties
    DEF Place, InAlloc, SpaceInv, Current, ListsInv, BlocksInv
  <2>2. held'[t] = held[t] \cup {n}
    BY <1>1, <1>3, <1>8, <2>1 DEF Place
  <2>3. request[t] \in Nat \ {0} /\ n \in Nodes
    BY <1>1, <1>3, <2>1, AloneFacts DEF Nodes
  <2>4. End(n) <= LimitUnits
    <3>1. a.origin + request[t] <= memUnits
      BY <2>1 DEF SpaceInv
    <3> QED
      BY <1>3, <2>3, <3>1 DEF End
  <2>5. \A m \in held[t] : Units(m) \cap Units(n) = {}
    <3>1. end = a.origin
      BY <1>3, <2>1 DEF NotYet
    <3> HIDE DEF nodes, end
    <3>2. Tiled(nodes, a.origin)
      BY <1>2, <3>1
    <3>3. \A m \in nodes : Units(m) \cap Units(n) = {}
      BY <1>2, <1>3, <2>3, <3>2, TiledMore
    <3> QED
      BY <3>3 DEF nodes
  <2>6. n.start >= Base
    BY <1>2, <1>3
  <2> HIDE DEF n
  <2> QED
    BY <1>3, <1>5, <2>1, <2>2, <2>3, <2>4, <2>5, <2>6
<1>9. ASSUME NEW chain \in Chains(t), FreeNodes(t, chain)
      PROVE  Heap!Next \/ UNCHANGED Taken
  <2>1. Taken' = Taken \ ToSet(chain)
    BY <1>1, <1>9, NodesFreed
  <2>2. ToSet(chain) \subseteq Taken
    BY <1>1, <1>3, ChainOf
  <2>3. CASE ToSet(chain) = {}
    BY <2>1, <2>3
  <2>4. CASE ToSet(chain) # {}
    <3>1. Heap!Free
      BY <2>1, <2>2, <2>4 DEF Heap!Free
    <3> QED
      BY <3>1 DEF Heap!Next
  <2> QED
    BY <2>3, <2>4
<1> QED
  BY <1>1, <1>6, <1>7, <1>8, <1>9 DEF Steps, Step, Takes, Looks, Rests
-----------------------------------------------------------------------------
\* All that is known of the allocator when one thread uses it.
AloneInv(t) == /\ ListsInv /\ ContextType
               /\ SpaceInv(t) /\ LastInv(t) /\ SearchInv(t) /\ TileInv(t)

\* Then every step is one of those the lemmas are about.
LEMMA AloneSteps ==
  ASSUME NEW t, Alone(t), AloneInv(t), [Next]_vars
  PROVE  [Steps]_vars
BY NoneAstray DEF AloneInv

\* It holds in every state.
LEMMA AloneKept ==
  ASSUME NEW t, Alone(t)
  PROVE  Spec => []AloneInv(t)
<1>1. Init => AloneInv(t)
  <2>1. Init => ContextType
    BY AllocatorAssumption DEF Init, ContextType
  <2> QED
    <3>1. Init => SearchInv(t)
      BY DEF Init, SearchInv, Alone
    <3> QED
      BY <2>1, <3>1, ListsInit, SpaceInit, LastInit, TileInit DEF AloneInv
<1>2. AloneInv(t) /\ [Next]_vars => AloneInv(t)'
  BY AloneSteps, ListsStep, ContextStep, SpaceStep, LastStep, SearchStep, TileStep DEF AloneInv
<1> QED
  BY <1>1, <1>2, PTL DEF Spec

\* Every variable has its type: last names a bucket, origin does not wrap, and no walk
\* leaves the buckets.
THEOREM TypeCorrect ==
  ASSUME NEW t, Alone(t)
  PROVE  Spec => []TypeOK
<1>1. AloneInv(t) => TypeOK
  BY AloneType DEF AloneInv
<1> QED
  BY <1>1, AloneKept, PTL

\* Between calls last is the largest used index, as line 139 says.
THEOREM LastKept ==
  ASSUME NEW t, Alone(t)
  PROVE  Spec => []LastIsHighest
<1>1. AloneInv(t) => LastIsHighest
  BY AloneType DEF AloneInv
<1> QED
  BY <1>1, AloneKept, PTL

\* Until the memory moves, between calls the nodes held and those free tile it up to
\* origin, and at any time every node lies in the memory, however it has grown.
THEOREM NodesTiled ==
  ASSUME NEW t, Alone(t)
  PROVE  Spec => []NodesTile
<1>1. AloneInv(t) => NodesTile
  <2> SUFFICES ASSUME AloneInv(t) PROVE NodesTile
    OBVIOUS
  <2>1. t \in Threads /\ Taken = held[t] /\ \A k \in DOMAIN blocks : blocks[k].origin \in Nat
    BY AloneFacts DEF AloneInv
  <2>2. Free(blocks[Current]) = On(blocks[Current].buf)
    BY DEF Free, On
  <2>3. \A n \in Taken : n.start + n.units <= memUnits
    BY <2>1 DEF AloneInv, SpaceInv, End
  <2>4. ASSUME Idle, Current = 1
        PROVE  Tiled(Taken \cup Free(blocks[Current]), blocks[Current].origin)
    <3>1. Tiled(held[t] \cup On(blocks[1].buf), blocks[1].origin + NotYet(t))
      BY <2>4 DEF AloneInv, TileInv
    <3>2. NotYet(t) = 0 /\ blocks[1].origin \in Nat
      <4>1. 1 \in DOMAIN blocks
        BY <2>4, AloneFacts DEF AloneInv
      <4> QED
        BY <2>1, <2>4, <4>1 DEF NotYet, Idle
    <3> QED
      BY <2>1, <2>2, <2>4, <3>1, <3>2
  <2> QED
    BY <2>3, <2>4 DEF NodesTile, Tiled
<1> QED
  BY <1>1, AloneKept, PTL

\* Until the memory moves, the allocator hands out nodes as the atomic heap does.
THEOREM HeapImplemented ==
  ASSUME NEW t, Alone(t)
  PROVE  Spec => ImplementsHeap
<1>1. Init => Heap!Init
  BY DEF Init, Taken, Heap!Init
<1>2. AloneInv(t) /\ [Next]_vars => [Current' = 1 => Heap!Next \/ UNCHANGED Taken]_vars
  BY AloneSteps, TileHeap DEF AloneInv
<1> QED
  BY <1>1, <1>2, AloneKept, PTL DEF Spec, ImplementsHeap
=============================================================================
