-------------------------- MODULE PoolMemoryProofs --------------------------
(***************************************************************************)
(* Proofs about PoolMemory, for any sizes of requests, nodes and headers:  *)
(* however allocations, frees and clears follow on each other, no two      *)
(* pieces of a pool share a byte, and no pool grows while it has the room. *)
(***************************************************************************)
EXTENDS PoolMemory, ProofLemmas

Node == [start : Nat, avail : Nat, endp : Nat, index : Nat]
Piece == [addr : Nat, size : Nat \ {0}]

\* A node's header lies before what palloc has given away of it.
Fits(n, limit) == /\ n.start + Header <= n.avail
                  /\ n.avail <= n.endp
                  /\ n.endp <= limit
                  /\ n.index <= Space

Apart(m, n) == m.endp <= n.start \/ n.endp <= m.start
AllApart(nodes) == \A j, k \in 1 .. Len(nodes) : j # k => Apart(nodes[j], nodes[k])

\* The nodes behind the active one: each knows its free pages, most first.
Counted(n) == n.index = FreeSpace(n) \div Boundary
Descending(nodes) ==
    \A k \in 1 .. Len(nodes) : /\ Counted(nodes[k])
                               /\ k < Len(nodes) => nodes[k].index >= nodes[k + 1].index
Sorted(nodes) ==
    \A k \in 2 .. Len(nodes) : /\ Counted(nodes[k])
                               /\ k < Len(nodes) => nodes[k].index >= nodes[k + 1].index

\* What is always so of the ring and of the place where the next node begins.
RingOK(nodes, limit) == /\ nodes \in Seq(Node) /\ nodes # <<>>
                        /\ \A j \in 1 .. Len(nodes) : Fits(nodes[j], limit)
                        /\ AllApart(nodes)
                        /\ \E j \in 1 .. Len(nodes) : nodes[j].start = 0
                        /\ Sorted(nodes)
                        /\ limit \in Nat /\ 2 * Boundary <= limit /\ limit <= Space

\* A piece lies in the used part of a node.
Within(p, n) == n.start + Header <= p.addr /\ p.addr + p.size <= n.avail
Held(p, nodes) == \E j \in 1 .. Len(nodes) : Within(p, nodes[j])
Disjoint(p, q) == p.addr + p.size <= q.addr \/ q.addr + q.size <= p.addr

PiecesOK == /\ used \subseteq Piece
            /\ buffered \in Seq(Piece) /\ Len(buffered) <= 1
            /\ spare \in Nat
            /\ \A p \in used \cup ToSet(buffered) : Held(p, ring)
            /\ \A p, q \in used \cup ToSet(buffered) : p # q => Disjoint(p, q)
            /\ used \cap ToSet(buffered) = {}

Inv == RingOK(ring, fresh) /\ PiecesOK
-----------------------------------------------------------------------------
(* What Ordered and Activate do to the ring *)

\* The numbers a node consists of.
LEMMA NodeFields ==
  ASSUME NEW n \in Node
  PROVE  n.start \in Nat /\ n.avail \in Nat /\ n.endp \in Nat /\ n.index \in Nat
BY DEF Node

LEMMA NodesOfSeq ==
  ASSUME NEW s \in Seq(Node)
  PROVE  /\ Len(s) \in Nat
         /\ \A j \in 1 .. Len(s) :
              /\ s[j] \in Node
              /\ s[j].start \in Nat /\ s[j].avail \in Nat /\ s[j].endp \in Nat /\ s[j].index \in Nat
<1>1. Len(s) \in Nat
  BY LenProperties
<1>2. \A j \in 1 .. Len(s) : s[j] \in Node
  BY ElementOfSeq
<1> QED
  BY <1>1, <1>2, NodeFields

\* Ordered puts n at some place p, behind those that have more free.
LEMMA OrderedShape ==
  ASSUME NEW n \in Node, NEW rest \in Seq(Node)
  PROVE  \E p \in 1 .. Len(rest) + 1 :
           /\ Ordered(n, rest) \in Seq(Node)
           /\ Len(Ordered(n, rest)) = Len(rest) + 1
           /\ \A j \in 1 .. Len(rest) + 1 :
                Ordered(n, rest)[j] = IF j < p THEN rest[j] ELSE IF j = p THEN n ELSE rest[j - 1]
           /\ \A j \in 1 .. p - 1 : rest[j].index >= n.index
           /\ p <= Len(rest) => n.index >= rest[p].index
<1>0. /\ Len(rest) \in Nat
      /\ \A j \in 1 .. Len(rest) : rest[j] \in Node /\ rest[j].index \in Nat
      /\ n.index \in Nat
  BY NodesOfSeq, NodeFields
<1>1. CASE rest = <<>> \/ n.index >= rest[1].index
  <2>1. Ordered(n, rest) = <<n>> \o rest
    BY <1>1 DEF Ordered
  <2>2. /\ <<n>> \o rest \in Seq(Node) /\ Len(<<n>> \o rest) = Len(rest) + 1
        /\ (<<n>> \o rest)[1] = n
        /\ \A j \in 2 .. Len(rest) + 1 : (<<n>> \o rest)[j] = rest[j - 1]
    BY Prepended
  <2>3. \A j \in 1 .. Len(rest) + 1 :
          Ordered(n, rest)[j] = IF j < 1 THEN rest[j] ELSE IF j = 1 THEN n ELSE rest[j - 1]
    BY <1>0, <2>1, <2>2
  <2>4. 1 <= Len(rest) => n.index >= rest[1].index
    BY <1>1, EmptySeq
  <2> WITNESS 1 \in 1 .. Len(rest) + 1
  <2> QED
    BY <1>0, <2>1, <2>2, <2>3, <2>4
<1>2. CASE ~(rest = <<>> \/ n.index >= rest[1].index)
  <2> DEFINE S == {k \in 2 .. Len(rest) : n.index >= rest[k].index} \cup {Len(rest) + 1}
             p == Min(S)
  <2>1. Len(rest) >= 1
    BY <1>2, <1>0, EmptySeq
  <2>2. S \subseteq Nat /\ S # {}
    BY <1>0
  <2>3. p \in S /\ \A k \in S : p <= k
    <3> HIDE DEF S
    <3> QED BY <2>2, MinOfNaturals
  <2>4. p \in 2 .. Len(rest) + 1
    <3> HIDE DEF p
    <3> QED BY <1>0, <2>1, <2>3
  <2>5. p <= Len(rest) => n.index >= rest[p].index
    <3> HIDE DEF p
    <3> QED BY <1>0, <2>3
  <2>6. \A j \in 1 .. p - 1 : rest[j].index >= n.index
    <3> HIDE DEF p
    <3> TAKE j \in 1 .. p - 1
    <3>1. CASE j = 1
      BY <1>0, <1>2, <2>1, <3>1
    <3>2. CASE j # 1
      <4>1. j \in 2 .. Len(rest) /\ j < p
        BY <1>0, <2>4, <3>2
      <4>2. j \notin S
        BY <1>0, <2>3, <2>4, <4>1
      <4> QED
        BY <1>0, <4>1, <4>2
    <3> QED
      BY <3>1, <3>2
  <2>7. Ordered(n, rest) = InsertAt(rest, p, n)
    BY <1>2 DEF Ordered
  <2> HIDE DEF p
  <2>8. p \in 1 .. Len(rest) + 1
    BY <2>4, <1>0
  <2>9. /\ InsertAt(rest, p, n) \in Seq(Node)
        /\ Len(InsertAt(rest, p, n)) = Len(rest) + 1
        /\ \A j \in 1 .. Len(rest) + 1 :
             InsertAt(rest, p, n)[j] = IF j < p THEN rest[j] ELSE IF j = p THEN n ELSE rest[j - 1]
    BY <2>8, Inserted
  <2> QED
    BY <2>5, <2>6, <2>7, <2>8, <2>9
<1> QED
  BY <1>1, <1>2

\* So the order, the distance and the membership of the nodes are kept.
LEMMA OrderedKeeps ==
  ASSUME NEW n \in Node, NEW rest \in Seq(Node),
         Counted(n), Descending(rest), AllApart(rest),
         \A j \in 1 .. Len(rest) : Apart(n, rest[j])
  PROVE  /\ Ordered(n, rest) \in Seq(Node)
         /\ Descending(Ordered(n, rest))
         /\ AllApart(Ordered(n, rest))
         /\ \A j \in 1 .. Len(Ordered(n, rest)) :
              \/ Ordered(n, rest)[j] = n
              \/ \E k \in 1 .. Len(rest) : Ordered(n, rest)[j] = rest[k]
         /\ \E j \in 1 .. Len(Ordered(n, rest)) : Ordered(n, rest)[j] = n
         /\ \A k \in 1 .. Len(rest) : \E j \in 1 .. Len(Ordered(n, rest)) : Ordered(n, rest)[j] = rest[k]
<1> DEFINE o == Ordered(n, rest)
<1>0. Len(rest) \in Nat /\ \A j \in 1 .. Len(rest) : rest[j].index \in Nat
  BY NodesOfSeq
<1>1. PICK p \in 1 .. Len(rest) + 1 :
           /\ o \in Seq(Node)
           /\ Len(o) = Len(rest) + 1
           /\ \A j \in 1 .. Len(rest) + 1 :
                o[j] = IF j < p THEN rest[j] ELSE IF j = p THEN n ELSE rest[j - 1]
           /\ \A j \in 1 .. p - 1 : rest[j].index >= n.index
           /\ p <= Len(rest) => n.index >= rest[p].index
  BY OrderedShape
<1> HIDE DEF o
<1> DEFINE src(j) == IF j < p THEN j ELSE j - 1
<1>2. \A j \in 1 .. Len(o) : j # p => src(j) \in 1 .. Len(rest) /\ o[j] = rest[src(j)]
  BY <1>0, <1>1
<1>3. \A j, k \in 1 .. Len(o) : j # p /\ k # p /\ j # k => src(j) # src(k)
  BY <1>0, <1>1
<1>4. o[p] = n /\ p \in 1 .. Len(o)
  BY <1>0, <1>1
<1>5. \A j, k : Apart(j, k) => Apart(k, j)
  BY DEF Apart
<1>6. AllApart(o)
  <2> HIDE DEF src
  <2> SUFFICES ASSUME NEW j \in 1 .. Len(o), NEW k \in 1 .. Len(o), j # k
               PROVE  Apart(o[j], o[k])
    BY DEF AllApart
  <2>1. CASE j = p
    BY <1>2, <1>4, <2>1
  <2>2. CASE k = p
    BY <1>2, <1>4, <1>5, <2>2
  <2>3. CASE j # p /\ k # p
    BY <1>2, <1>3, <2>3 DEF AllApart
  <2> QED
    BY <2>1, <2>2, <2>3
<1>7. Descending(o)
  <2> SUFFICES ASSUME NEW k \in 1 .. Len(o)
               PROVE  Counted(o[k]) /\ (k < Len(o) => o[k].index >= o[k + 1].index)
    BY DEF Descending
  <2>1. Counted(o[k])
    BY <1>2, <1>4 DEF Descending
  <2>2. ASSUME k < Len(o) PROVE o[k].index >= o[k + 1].index
    <3>1. k \in Nat /\ 1 <= k /\ k <= Len(rest) /\ k + 1 \in 1 .. Len(rest) + 1
      BY <1>0, <1>1, <2>2
    <3>2. CASE k + 1 < p
      BY <1>0, <1>1, <3>1, <3>2, SMTT(30) DEF Descending
    <3>3. CASE k + 1 = p
      BY <1>0, <1>1, <3>1, <3>3
    <3>4. CASE k = p
      BY <1>0, <1>1, <3>1, <3>4
    <3>5. CASE k > p
      <4>1. /\ o[k] = rest[k - 1] /\ o[k + 1] = rest[k] /\ k - 1 \in 1 .. Len(rest)
            /\ k - 1 < Len(rest) /\ (k - 1) + 1 = k
        BY <1>0, <1>1, <3>1, <3>5
      <4>2. rest[k - 1].index >= rest[(k - 1) + 1].index
        BY <4>1 DEF Descending
      <4> QED
        BY <4>1, <4>2
    <3> QED
      BY <1>0, <1>1, <3>1, <3>2, <3>3, <3>4, <3>5
  <2> QED
    BY <2>1, <2>2
<1>8. \A k \in 1 .. Len(rest) : \E j \in 1 .. Len(o) : o[j] = rest[k]
  <2> TAKE k \in 1 .. Len(rest)
  <2>1. CASE k < p
    BY <1>0, <1>1, <2>1
  <2>2. CASE k >= p
    <3>1. k + 1 \in 1 .. Len(o) /\ o[k + 1] = rest[k]
      BY <1>0, <1>1, <2>2
    <3> QED
      BY <3>1
  <2> QED
    BY <1>0, <1>1, <2>1, <2>2
<1>9. \A j \in 1 .. Len(o) : o[j] = n \/ \E k \in 1 .. Len(rest) : o[j] = rest[k]
  <2> HIDE DEF src
  <2> QED BY <1>2, <1>4
<1>10. o \in Seq(Node) /\ \E j \in 1 .. Len(o) : o[j] = n
  BY <1>1, <1>4
<1> QED
  BY <1>6, <1>7, <1>8, <1>9, <1>10 DEF o

\* Whole pages: no more than what they are counted of, and in step with it.
LEMMA WholePages ==
  ASSUME NEW m \in Nat, NEW b \in Nat \ {0}
  PROVE  /\ m \div b \in Nat /\ m \div b <= m
         /\ (m \div b) * b <= m /\ m < (m \div b) * b + b
OBVIOUS

LEMMA PagesMonotone ==
  ASSUME NEW m \in Nat, NEW n \in Nat, NEW b \in Nat \ {0}, m <= n
  PROVE  m \div b <= n \div b
<1> DEFINE q == m \div b
           r == n \div b
<1>1. q \in Nat /\ r \in Nat /\ q * b <= m /\ n < r * b + b
  BY WholePages
<1> HIDE DEF q, r
<1>2. q * b < (r + 1) * b
  BY <1>1
<1>3. q < r + 1
  BY <1>1, <1>2
<1> QED
  BY <1>1, <1>3 DEF q, r

\* The node that is made active heads a ring as well kept as before, in which
\* every piece still has its node.
LEMMA ActivateKeeps ==
  ASSUME RingOK(ring, fresh),
         NEW node \in Node, NEW size \in Nat, NEW rest \in Seq(Node), NEW limit \in Nat,
         fresh <= limit, limit <= Space, Fits(node, limit), node.avail + size <= node.endp,
         Descending(rest), AllApart(rest), Apart(node, ring[1]),
         \A j \in 1 .. Len(rest) : Apart(ring[1], rest[j]) /\ Apart(node, rest[j]),
         \A j \in 1 .. Len(rest) : \E k \in 1 .. Len(ring) : rest[j] = ring[k],
         \A k \in 2 .. Len(ring) : ring[k] = node \/ \E j \in 1 .. Len(rest) : ring[k] = rest[j]
  PROVE  /\ RingOK(Activate(node, size, rest), limit)
         /\ Activate(node, size, rest)[1].start = node.start
         /\ Activate(node, size, rest)[1].avail = node.avail + size
         /\ \A p \in Piece : Held(p, ring) => Held(p, Activate(node, size, rest))
<1> USE PoolMemoryAssumption
<1> DEFINE old == [ring[1] EXCEPT !.index = FreeSpace(ring[1]) \div Boundary]
           a == [node EXCEPT !.avail = @ + size, !.index = 0]
           o == Ordered(old, rest)
           r == Activate(node, size, rest)
<1>0. /\ ring \in Seq(Node) /\ Len(ring) \in Nat /\ 1 \in 1 .. Len(ring)
      /\ ring[1] \in Node /\ Fits(ring[1], fresh)
      /\ fresh \in Nat /\ Space \in Nat
  <2>1. ring \in Seq(Node) /\ ring # <<>> /\ fresh \in Nat
    BY DEF RingOK
  <2>2. Len(ring) \in Nat \ {0}
    BY <2>1, EmptySeq
  <2>3. 1 \in 1 .. Len(ring)
    BY <2>2
  <2>4. Fits(ring[1], fresh)
    BY <2>3 DEF RingOK
  <2> QED
    BY <2>1, <2>2, <2>3, <2>4, NodesOfSeq
<1>1. /\ a \in Node /\ a.start = node.start /\ a.avail = node.avail + size
      /\ a.endp = node.endp /\ a.index = 0
  <2>1. node.avail + size \in Nat
    BY NodeFields
  <2> QED
    BY <2>1 DEF Node
<1>2. Fits(a, limit)
  <2>1. node.avail \in Nat /\ node.start \in Nat /\ node.endp \in Nat
    BY NodeFields
  <2> HIDE DEF a
  <2> QED BY <1>0, <1>1, <2>1 DEF Fits
<1>3. /\ old \in Node /\ old.start = ring[1].start /\ old.avail = ring[1].avail
      /\ old.endp = ring[1].endp /\ old.index = FreeSpace(ring[1]) \div Boundary
      /\ old.index <= Space
  <2>1. ring[1].start \in Nat /\ ring[1].avail \in Nat /\ ring[1].endp \in Nat
    BY <1>0, NodeFields
  <2>2. FreeSpace(ring[1]) \in Nat /\ FreeSpace(ring[1]) <= ring[1].endp /\ ring[1].endp <= Space
    BY <1>0, <2>1 DEF FreeSpace, Fits
  <2>3. /\ FreeSpace(ring[1]) \div Boundary \in Nat
        /\ FreeSpace(ring[1]) \div Boundary <= FreeSpace(ring[1])
    BY <2>2, WholePages
  <2>4. FreeSpace(ring[1]) \div Boundary <= Space
    BY <1>0, <2>1, <2>2, <2>3
  <2> QED
    BY <1>0, <2>3, <2>4 DEF Node
<1> HIDE DEF a, old
<1>4. Counted(old)
  BY <1>3 DEF Counted, FreeSpace
<1>5. Fits(old, limit)
  <2>1. old.endp \in Nat /\ old.endp <= fresh
    BY <1>0, <1>3, NodeFields DEF Fits
  <2>2. old.endp <= limit
    BY <1>0, <2>1
  <2> QED
    BY <1>0, <1>3, <2>2 DEF Fits
<1>6. Apart(a, old) /\ \A j \in 1 .. Len(rest) : Apart(old, rest[j]) /\ Apart(a, rest[j])
  BY <1>1, <1>3 DEF Apart
<1>7. /\ o \in Seq(Node)
      /\ Descending(o)
      /\ AllApart(o)
      /\ \A j \in 1 .. Len(o) : o[j] = old \/ \E k \in 1 .. Len(rest) : o[j] = rest[k]
      /\ \E j \in 1 .. Len(o) : o[j] = old
      /\ \A k \in 1 .. Len(rest) : \E j \in 1 .. Len(o) : o[j] = rest[k]
  BY <1>3, <1>4, <1>6, OrderedKeeps, SMTT(30)
<1> HIDE DEF o
<1>8. r = <<a>> \o o
  BY DEF r, a, o, old, Activate
<1>9. /\ r \in Seq(Node) /\ Len(r) = Len(o) + 1 /\ r[1] = a
      /\ \A j \in 2 .. Len(o) + 1 : r[j] = o[j - 1]
  BY <1>1, <1>7, <1>8, Prepended
<1>10. Len(o) \in Nat /\ Len(r) \in Nat
  BY <1>7, <1>9, LenProperties
<1> HIDE DEF r
<1>11. \A j \in 1 .. Len(o) : j + 1 \in 1 .. Len(r) /\ r[j + 1] = o[j]
  <2> TAKE j \in 1 .. Len(o)
  <2>1. j + 1 \in 2 .. Len(o) + 1 /\ (j + 1) - 1 = j /\ j + 1 \in 1 .. Len(r)
    BY <1>9, <1>10
  <2>2. r[j + 1] = o[(j + 1) - 1]
    BY <1>9, <2>1
  <2> QED
    BY <2>1, <2>2
<1>12. \A j \in 2 .. Len(r) : j - 1 \in 1 .. Len(o) /\ r[j] = o[j - 1]
  BY <1>9, <1>10, SMTT(30)
<1>13. 1 \in 1 .. Len(r)
  BY <1>9, <1>10
\* where the nodes of the old ring are in the new one
<1>14. \A k \in 1 .. Len(ring) :
         \E j \in 1 .. Len(r) : /\ r[j].start = ring[k].start
                                /\ r[j].avail \in Nat /\ r[j].avail >= ring[k].avail
  <2> TAKE k \in 1 .. Len(ring)
  <2>1. CASE k = 1
    <3>1. PICK j \in 1 .. Len(o) : o[j] = old
      BY <1>7
    <3>2. j + 1 \in 1 .. Len(r) /\ r[j + 1] = old
      BY <1>11, <3>1
    <3>3. r[j + 1].start = ring[k].start /\ r[j + 1].avail \in Nat /\ r[j + 1].avail >= ring[k].avail
      BY <1>3, <2>1, <3>2, NodeFields, SMTT(30)
    <3> QED
      BY <3>2, <3>3
  <2>2. CASE k # 1 /\ ring[k] = node
    <3>1. node.avail + size \in Nat /\ node.avail + size >= node.avail
      BY NodeFields
    <3> QED
      BY <1>1, <1>9, <1>13, <2>2, <3>1
  <2>3. CASE k # 1 /\ \E i \in 1 .. Len(rest) : ring[k] = rest[i]
    <3>1. PICK j \in 1 .. Len(o) : o[j] = ring[k]
      BY <1>7, <2>3
    <3>2. j + 1 \in 1 .. Len(r) /\ r[j + 1] = ring[k]
      BY <1>11, <3>1
    <3>3. ring[k].avail \in Nat
      BY <1>0, NodesOfSeq
    <3>4. r[j + 1].start = ring[k].start /\ r[j + 1].avail \in Nat /\ r[j + 1].avail >= ring[k].avail
      BY <3>2, <3>3
    <3> QED
      BY <3>2, <3>4
  <2>4. k # 1 => k \in 2 .. Len(ring)
    BY <1>0
  <2> QED
    BY <2>1, <2>2, <2>3, <2>4
<1>15. \A j \in 1 .. Len(o) : Fits(o[j], limit) /\ Apart(a, o[j]) /\ Apart(o[j], a)
  <2> TAKE j \in 1 .. Len(o)
  <2>1. CASE o[j] = old
    BY <1>5, <1>6, <2>1 DEF Apart
  <2>2. ASSUME NEW k \in 1 .. Len(rest), o[j] = rest[k] PROVE Fits(o[j], limit) /\ Apart(a, o[j]) /\ Apart(o[j], a)
    <3>1. PICK i \in 1 .. Len(ring) : rest[k] = ring[i]
      OBVIOUS
    <3>2. Fits(ring[i], fresh) /\ ring[i].endp \in Nat
      BY <1>0, NodesOfSeq DEF RingOK
    <3>3. Fits(ring[i], limit)
      BY <1>0, <3>2 DEF Fits
    <3> QED
      BY <1>6, <2>2, <3>1, <3>3 DEF Apart
  <2> QED
    BY <1>7, <2>1, <2>2
<1>16. \A j \in 1 .. Len(r) : Fits(r[j], limit)
  <2> TAKE j \in 1 .. Len(r)
  <2>1. j # 1 => j \in 2 .. Len(r)
    BY <1>10
  <2> QED
    BY <1>2, <1>9, <1>12, <1>15, <2>1
<1>17. AllApart(r)
  <2> SUFFICES ASSUME NEW j \in 1 .. Len(r), NEW k \in 1 .. Len(r), j # k
               PROVE  Apart(r[j], r[k])
    BY DEF AllApart
  <2>1. (j # 1 => j \in 2 .. Len(r)) /\ (k # 1 => k \in 2 .. Len(r))
    BY <1>10
  <2>2. CASE j = 1 \/ k = 1
    BY <1>9, <1>12, <1>15, <2>1, <2>2
  <2>3. CASE j # 1 /\ k # 1
    <3>1. j - 1 # k - 1
      BY <1>10
    <3> QED
      BY <1>7, <1>12, <2>1, <2>3, <3>1, ZenonT(30) DEF AllApart
  <2> QED
    BY <2>2, <2>3
<1>18. Sorted(r)
  <2> SUFFICES ASSUME NEW k \in 2 .. Len(r)
               PROVE  Counted(r[k]) /\ (k < Len(r) => r[k].index >= r[k + 1].index)
    BY DEF Sorted
  <2>1. Counted(r[k])
    BY <1>7, <1>12 DEF Descending
  <2>2. ASSUME k < Len(r) PROVE r[k].index >= r[k + 1].index
    <3>1. k - 1 \in 1 .. Len(o) /\ k - 1 < Len(o) /\ k + 1 \in 2 .. Len(r) /\ (k - 1) + 1 = (k + 1) - 1
      BY <1>9, <1>10, <2>2
    <3>2. r[k] = o[k - 1] /\ r[k + 1] = o[(k - 1) + 1]
      BY <1>12, <3>1, SMTT(30)
    <3> QED
      BY <1>7, <3>1, <3>2 DEF Descending
  <2> QED
    BY <2>1, <2>2
<1>19. \E j \in 1 .. Len(r) : r[j].start = 0
  <2>1. PICK k \in 1 .. Len(ring) : ring[k].start = 0
    BY DEF RingOK
  <2> QED
    BY <1>14, <2>1
<1>20. r # <<>>
  BY <1>10, <1>13, EmptySeq
<1>21. 2 * Boundary <= limit
  BY <1>0 DEF RingOK
<1>22. RingOK(r, limit)
  BY <1>9, <1>16, <1>17, <1>18, <1>19, <1>20, <1>21 DEF RingOK
<1>23. ASSUME NEW p \in Piece, Held(p, ring) PROVE Held(p, r)
  <2>1. PICK k \in 1 .. Len(ring) : Within(p, ring[k])
    BY <1>23 DEF Held
  <2>2. PICK j \in 1 .. Len(r) : /\ r[j].start = ring[k].start
                                 /\ r[j].avail \in Nat /\ r[j].avail >= ring[k].avail
    BY <1>14
  <2>3. p.addr \in Nat /\ p.size \in Nat /\ ring[k].avail \in Nat
    BY <1>0, NodesOfSeq DEF Piece
  <2>4. p.addr + p.size <= r[j].avail
    BY <2>1, <2>2, <2>3, SMTT(30) DEF Within
  <2>5. Within(p, r[j])
    BY <2>1, <2>2, <2>4 DEF Within
  <2> QED
    BY <2>5 DEF Held
<1>24. r[1].start = node.start /\ r[1].avail = node.avail + size
  BY <1>1, <1>9
<1> QED
  BY <1>22, <1>23, <1>24 DEF r
-----------------------------------------------------------------------------
(* What palloc does *)

\* A node of the allocator is large enough for the request it is made for.
LEMMA NewNodeFits ==
  ASSUME NEW size \in Nat, NEW extra \in Extras, fresh \in Nat
  PROVE  /\ NewNode(size, extra) \in Node
         /\ NewNode(size, extra).start = fresh
         /\ NewNode(size, extra).avail = fresh + Header
         /\ NewNode(size, extra).index = 0
         /\ NewNode(size, extra).avail + size <= NewNode(size, extra).endp
<1> USE PoolMemoryAssumption
<1> DEFINE asked == size + Header + Boundary - 1
           pages == asked \div Boundary
           S == {2 * Boundary, pages * Boundary}
           units == Max(S)
<1>1. asked \in Nat /\ Boundary \in Nat \ {0} /\ Header \in Nat /\ extra \in Nat
  OBVIOUS
<1>2. pages \in Nat /\ asked < pages * Boundary + Boundary
  <2> HIDE DEF asked
  <2> QED BY <1>1, WholePages
<1>3. pages * Boundary \in Nat /\ size + Header <= pages * Boundary
  <2> HIDE DEF pages
  <2>1. pages * Boundary \in Nat
    BY <1>1, <1>2
  <2> QED BY <1>1, <1>2, <2>1
<1>4. units \in Nat /\ units >= pages * Boundary
  <2> HIDE DEF pages
  <2> DEFINE two == 2 * Boundary
             many == pages * Boundary
  <2>1. two \in Nat /\ many \in Nat
    BY <1>1, <1>3
  <2> HIDE DEF two, many
  <2>2. \E x \in {two, many} : \A y \in {two, many} : x >= y
    BY <2>1
  <2>3. Max({two, many}) \in {two, many} /\ \A y \in {two, many} : Max({two, many}) >= y
    BY <2>2 DEF Max
  <2> QED
    BY <2>1, <2>3 DEF two, many
<1>5. NewNode(size, extra) = [start |-> fresh, avail |-> fresh + Header,
                              endp |-> fresh + (units + extra), index |-> 0]
  <2>1. fresh + units + extra = fresh + (units + extra)
    <3> HIDE DEF units
    <3> QED BY <1>1, <1>4
  <2> QED BY <2>1 DEF NewNode
<1> HIDE DEF units
<1>6. units + extra \in Nat /\ Header + size <= units + extra
  <2> HIDE DEF pages
  <2> QED BY <1>1, <1>3, <1>4
<1>7. fresh + (units + extra) \in Nat /\ fresh + Header \in Nat
      /\ (fresh + Header) + size <= fresh + (units + extra)
  BY <1>1, <1>6
<1> QED
  BY <1>5, <1>7 DEF Node

\* Whichever node the piece comes from, the ring is kept, the piece lies in a
\* node of it, and apart from every piece given away before.
LEMMA PallocKeeps ==
  ASSUME RingOK(ring, fresh), NEW size \in Nat \ {0}, NEW extra \in Extras,
         Palloc(size, extra)
  PROVE  /\ RingOK(ring', fresh')
         /\ [addr |-> Address(size, extra), size |-> size] \in Piece
         /\ Held([addr |-> Address(size, extra), size |-> size], ring')
         /\ \A p \in Piece : Held(p, ring) =>
              /\ Held(p, ring')
              /\ Disjoint(p, [addr |-> Address(size, extra), size |-> size])
              /\ Disjoint([addr |-> Address(size, extra), size |-> size], p)
         /\ fresh' # fresh =>
              /\ ~InActive(size) /\ ~InNext(size)
              /\ ring'[1].avail - ring'[1].start - Header = size
<1> USE PoolMemoryAssumption
<1> DEFINE new == [addr |-> Address(size, extra), size |-> size]
<1>0. /\ ring \in Seq(Node) /\ ring # <<>> /\ Len(ring) \in Nat /\ 1 \in 1 .. Len(ring)
      /\ \A j \in 1 .. Len(ring) : Fits(ring[j], fresh)
      /\ \A j \in 1 .. Len(ring) :
              /\ ring[j] \in Node
              /\ ring[j].start \in Nat /\ ring[j].avail \in Nat /\ ring[j].endp \in Nat /\ ring[j].index \in Nat
      /\ fresh \in Nat /\ Space \in Nat /\ Header \in Nat /\ fresh <= Space
  <2>1. /\ ring \in Seq(Node) /\ ring # <<>> /\ fresh \in Nat /\ fresh <= Space
        /\ \A j \in 1 .. Len(ring) : Fits(ring[j], fresh)
    BY DEF RingOK
  <2>2. Len(ring) \in Nat \ {0}
    BY <2>1, EmptySeq
  <2>3. 1 \in 1 .. Len(ring)
    BY <2>2
  <2> QED
    BY <2>1, <2>2, <2>3, NodesOfSeq
<1>1. ring' = RingAfter(size, extra) /\ fresh' = FreshAfter(size, extra) /\ Succeeds(size, extra)
  BY DEF Palloc
\* it is enough that the new piece is at the end of a node that is apart from the others
<1>2. ASSUME NEW node \in Node,
             ring'[1].start = node.start, ring'[1].avail = node.avail + size,
             node.start + Header <= node.avail, node.avail + size <= node.endp,
             RingOK(ring', fresh'),
             \A p \in Piece : Held(p, ring) => Held(p, ring'),
             \A j \in 1 .. Len(ring) : Apart(node, ring[j])
                \/ (ring[j].start = node.start /\ ring[j].avail = node.avail)
      PROVE  /\ new \in Piece
             /\ Held(new, ring')
             /\ \A p \in Piece : Held(p, ring) => Held(p, ring') /\ Disjoint(p, new) /\ Disjoint(new, p)
  <2>0. node.start \in Nat /\ node.avail \in Nat /\ node.endp \in Nat /\ size \in Nat
    BY NodeFields
  <2>1. new.addr = node.avail /\ new.size = size
    BY <1>1, <1>2, <2>0 DEF Address
  <2>2. new \in Piece
    BY <2>0, <2>1 DEF Piece
  <2> HIDE DEF new
  <2>3. Within(new, ring'[1])
    BY <1>2, <2>0, <2>1 DEF Within
  <2>4. 1 \in 1 .. Len(ring')
    <3>1. ring' \in Seq(Node) /\ ring' # <<>>
      BY <1>2 DEF RingOK
    <3>2. Len(ring') \in Nat \ {0}
      BY <3>1, EmptySeq
    <3> QED
      BY <3>2
  <2>5. Held(new, ring')
    BY <2>3, <2>4 DEF Held
  <2>6. ASSUME NEW p \in Piece, Held(p, ring) PROVE Disjoint(p, new) /\ Disjoint(new, p)
    <3>1. PICK j \in 1 .. Len(ring) : Within(p, ring[j])
      BY <2>6 DEF Held
    <3>2. /\ p.addr \in Nat /\ p.size \in Nat
          /\ ring[j].start \in Nat /\ ring[j].avail \in Nat /\ ring[j].endp \in Nat
          /\ Fits(ring[j], fresh)
      BY <1>0 DEF Piece
    <3>3. CASE ring[j].start = node.start /\ ring[j].avail = node.avail
      BY <2>0, <2>1, <3>1, <3>2, <3>3 DEF Within, Disjoint
    <3>4. CASE Apart(node, ring[j])
      <4>1. CASE node.endp <= ring[j].start
        <5>1. node.avail + size <= p.addr
          BY <1>0, <1>2, <2>0, <3>1, <3>2, <4>1, SMTT(30) DEF Within
        <5> QED
          BY <2>1, <5>1 DEF Disjoint
      <4>2. CASE ring[j].endp <= node.start
        <5>1. p.addr + p.size <= node.avail
          <6>1. /\ p.addr + p.size <= ring[j].avail /\ ring[j].avail <= ring[j].endp
                /\ node.start + Header <= node.avail
            BY <1>2, <3>1, <3>2 DEF Within, Fits
          <6>2. \A a, b, c, d, e, h \in Nat : a <= b /\ b <= c /\ c <= d /\ d + h <= e => a <= e
            OBVIOUS
          <6>3. p.addr + p.size \in Nat /\ Header \in Nat
            BY <1>0, <3>2
          <6> QED
            BY <2>0, <3>2, <4>2, <6>1, <6>2, <6>3, SMTT(30)
        <5> QED
          BY <2>1, <5>1 DEF Disjoint
      <4> QED
        BY <3>4, <4>1, <4>2 DEF Apart
    <3> QED
      BY <1>2, <3>3, <3>4
  <2> QED
    BY <1>2, <2>2, <2>5, <2>6
<1>3. CASE InActive(size)
  <2>1. ring' = [ring EXCEPT ![1].avail = @ + size] /\ fresh' = fresh
    <3>1. ~InNew(size, extra) /\ ~InNext(size)
      BY <1>3 DEF InNew, InNext
    <3>2. fresh' = fresh
      BY <1>1, <3>1 DEF FreshAfter
    <3>3. ring' = [ring EXCEPT ![1].avail = @ + size]
      BY <1>1, <1>3, <3>1, Zenon DEF RingAfter
    <3> QED
      BY <3>2, <3>3
  <2> DEFINE head == [ring[1] EXCEPT !.avail = @ + size]
  <2>2. size \in Nat /\ ring[1].avail + size \in Nat /\ ring[1].avail + size <= ring[1].endp
    BY <1>0, <1>3 DEF InActive, FreeSpace
  <2>3. /\ head \in Node /\ head.start = ring[1].start /\ head.avail = ring[1].avail + size
        /\ head.endp = ring[1].endp /\ head.index = ring[1].index
    BY <1>0, <2>2 DEF Node
  <2>4. ring' = [ring EXCEPT ![1] = head]
    BY <2>1
  <2> HIDE DEF head
  <2>5. /\ ring' \in Seq(Node) /\ Len(ring') = Len(ring)
        /\ \A j \in 1 .. Len(ring) : ring'[j] = IF j = 1 THEN head ELSE ring[j]
    BY <1>0, <2>3, <2>4, ExceptSeq, SMTT(30)
  <2>6. \A j \in 1 .. Len(ring) : /\ ring'[j].start = ring[j].start
                                  /\ ring'[j].endp = ring[j].endp
                                  /\ ring'[j].index = ring[j].index
                                  /\ ring'[j].avail \in Nat /\ ring'[j].avail >= ring[j].avail
                                  /\ ring'[j].avail <= ring[j].endp
    <3> TAKE j \in 1 .. Len(ring)
    <3>1. CASE j = 1
      BY <1>0, <2>2, <2>3, <2>5, <3>1
    <3>2. CASE j # 1
      <4>1. ring'[j] = ring[j]
        BY <2>5, <3>2
      <4>2. ring[j].avail \in Nat /\ ring[j].avail >= ring[j].avail /\ ring[j].avail <= ring[j].endp
        BY <1>0 DEF Fits
      <4> QED
        BY <4>1, <4>2
    <3> QED
      BY <3>1, <3>2
  <2>7. RingOK(ring', fresh')
    <3>1. \A j \in 1 .. Len(ring') : Fits(ring'[j], fresh)
      <4> SUFFICES ASSUME NEW j \in 1 .. Len(ring) PROVE Fits(ring'[j], fresh)
        BY <2>5
      <4>1. Fits(ring[j], fresh) /\ ring[j].start \in Nat /\ ring[j].avail \in Nat /\ ring[j].endp \in Nat
        BY <1>0
      <4>2. /\ ring'[j].start = ring[j].start /\ ring'[j].endp = ring[j].endp
            /\ ring'[j].index = ring[j].index /\ ring'[j].avail \in Nat
            /\ ring'[j].avail >= ring[j].avail /\ ring'[j].avail <= ring[j].endp
        BY <2>6
      <4>3. ring[j].start + Header <= ring'[j].avail
        <5>1. \A a, b, c \in Nat : a <= b /\ b <= c => a <= c
          OBVIOUS
        <5>2. ring[j].start + Header \in Nat /\ ring[j].start + Header <= ring[j].avail
          BY <1>0, <4>1 DEF Fits
        <5> QED
          BY <4>1, <4>2, <5>1, <5>2
      <4> QED
        BY <4>1, <4>2, <4>3 DEF Fits
    <3>2. AllApart(ring')
      BY <2>5, <2>6 DEF RingOK, AllApart, Apart
    <3>3. Sorted(ring')
      <4>1. \A k \in 2 .. Len(ring) : k \in 1 .. Len(ring) /\ k # 1 /\ k \in Nat
        BY <1>0
      <4>2. \A k \in 2 .. Len(ring) : ring'[k] = ring[k]
        BY <2>5, <4>1
      <4>3. \A k \in 2 .. Len(ring) : k < Len(ring) => k + 1 \in 2 .. Len(ring)
        BY <1>0
      <4> QED
        BY <2>5, <4>2, <4>3 DEF RingOK, Sorted
    <3>4. \E j \in 1 .. Len(ring') : ring'[j].start = 0
      BY <2>5, <2>6 DEF RingOK
    <3>5. ring' # <<>>
      BY <1>0, <2>5, EmptySeq
    <3> QED
      BY <2>1, <2>5, <3>1, <3>2, <3>3, <3>4, <3>5 DEF RingOK
  <2>8. \A p \in Piece : Held(p, ring) => Held(p, ring')
    <3> SUFFICES ASSUME NEW p \in Piece, NEW j \in 1 .. Len(ring), Within(p, ring[j])
                 PROVE  Within(p, ring'[j])
      BY <2>5 DEF Held
    <3>1. p.addr \in Nat /\ p.size \in Nat /\ ring[j].avail \in Nat
      BY <1>0 DEF Piece
    <3> QED
      BY <2>6, <3>1 DEF Within
  <2>9. \A j \in 1 .. Len(ring) : Apart(ring[1], ring[j]) \/ j = 1
    BY <1>0 DEF RingOK, AllApart
  <2>10. /\ ring'[1].start = ring[1].start /\ ring'[1].avail = ring[1].avail + size
    BY <1>0, <2>3, <2>5
  <2>11. ring[1].start + Header <= ring[1].avail
    BY <1>0 DEF Fits
  <2>12. /\ new \in Piece /\ Held(new, ring')
         /\ \A p \in Piece : Held(p, ring) => Held(p, ring') /\ Disjoint(p, new) /\ Disjoint(new, p)
    <3> HIDE DEF new
    <3>1. ring[1] \in Node
      BY <1>0
    <3>2. \A j \in 1 .. Len(ring) : Apart(ring[1], ring[j])
                \/ (ring[j].start = ring[1].start /\ ring[j].avail = ring[1].avail)
      BY <2>9
    <3> QED
      BY <1>2, <2>2, <2>7, <2>8, <2>10, <2>11, <3>1, <3>2
  <2> QED
    BY <2>1, <2>7, <2>12
\* the other two make a node active
<1>4. ASSUME ~InActive(size), NEW node \in Node, NEW rest \in Seq(Node), NEW limit \in Nat,
             ring' = Activate(node, size, rest), fresh' = limit,
             fresh <= limit, limit <= Space, Fits(node, limit), node.avail + size <= node.endp,
             Descending(rest), AllApart(rest), Apart(node, ring[1]),
             \A j \in 1 .. Len(rest) : Apart(ring[1], rest[j]) /\ Apart(node, rest[j]),
             \A j \in 1 .. Len(rest) : \E k \in 1 .. Len(ring) : rest[j] = ring[k],
             \A k \in 2 .. Len(ring) : ring[k] = node \/ \E j \in 1 .. Len(rest) : ring[k] = rest[j]
      PROVE  /\ RingOK(ring', fresh') /\ new \in Piece /\ Held(new, ring')
             /\ \A p \in Piece : Held(p, ring) => Held(p, ring') /\ Disjoint(p, new) /\ Disjoint(new, p)
             /\ ring'[1].start = node.start /\ ring'[1].avail = node.avail + size
  <2>1. /\ RingOK(ring', fresh')
        /\ ring'[1].start = node.start
        /\ ring'[1].avail = node.avail + size
        /\ \A p \in Piece : Held(p, ring) => Held(p, ring')
    BY <1>4, ActivateKeeps, SMTT(30)
  <2>2. \A j \in 1 .. Len(ring) : Apart(node, ring[j])
                \/ (ring[j].start = node.start /\ ring[j].avail = node.avail)
    <3> TAKE j \in 1 .. Len(ring)
    <3>1. j = 1 \/ j \in 2 .. Len(ring)
      BY <1>0
    <3> QED
      BY <1>4, <3>1
  <2>3. node.start + Header <= node.avail
    BY <1>4 DEF Fits
  <2> HIDE DEF new
  <2>4. node \in Node
    OBVIOUS
  <2> QED
    BY <1>2, <1>4, <2>1, <2>2, <2>3, <2>4
<1>5. CASE ~InActive(size) /\ InNext(size)
  <2> DEFINE rest == SubSeq(ring, 3, Len(ring))
  <2>0. Len(ring) >= 2 /\ 2 \in 1 .. Len(ring) /\ 1 # 2 /\ size <= FreeSpace(ring[2])
    BY <1>0, <1>5 DEF InNext
  <2>1. ring' = Activate(ring[2], size, rest) /\ fresh' = fresh
    BY <1>1, <1>5 DEF RingAfter, FreshAfter, InNew
  <2>2. rest \in Seq(Node) /\ Len(rest) = Len(ring) - 2 /\ \A j \in 1 .. Len(ring) - 2 : rest[j] = ring[j + 2]
    <3>1. 3 \in Int /\ Len(ring) \in Int /\ \A j \in 3 .. Len(ring) : ring[j] \in Node
      BY <1>0
    <3>2. /\ rest \in Seq(Node)
          /\ Len(rest) = IF 3 <= Len(ring) THEN Len(ring) - 3 + 1 ELSE 0
          /\ \A j \in 1 .. Len(ring) - 3 + 1 : rest[j] = ring[3 + j - 1]
      BY <3>1, SubSeqProperties
    <3>3. \A j \in 1 .. Len(ring) - 2 : j \in 1 .. Len(ring) - 3 + 1 /\ 3 + j - 1 = j + 2
      BY <1>0
    <3>4. \A j \in 1 .. Len(ring) - 2 : rest[j] = ring[j + 2]
      BY <3>2, <3>3
    <3>5. \A n \in Nat : n >= 2 => (IF 3 <= n THEN n - 3 + 1 ELSE 0) = n - 2
      OBVIOUS
    <3>6. Len(rest) = Len(ring) - 2
      BY <1>0, <2>0, <3>2, <3>5
    <3> QED
      BY <3>2, <3>4, <3>6
  <2> HIDE DEF rest
  <2>3. \A j \in 1 .. Len(rest) : /\ j + 2 \in 2 .. Len(ring) /\ j + 2 \in 1 .. Len(ring)
                                  /\ j + 2 # 1 /\ j + 2 # 2 /\ rest[j] = ring[j + 2]
    BY <1>0, <2>0, <2>2
  <2>4. Fits(ring[2], fresh) /\ ring[2] \in Node /\ ring[2].avail + size <= ring[2].endp
    BY <1>0, <2>0 DEF FreeSpace
  <2>5. Descending(rest)
    <3> SUFFICES ASSUME NEW k \in 1 .. Len(rest)
                 PROVE  Counted(rest[k]) /\ (k < Len(rest) => rest[k].index >= rest[k + 1].index)
      BY DEF Descending
    <3>1. Counted(rest[k])
      BY <2>3 DEF RingOK, Sorted
    <3>2. ASSUME k < Len(rest) PROVE rest[k].index >= rest[k + 1].index
      <4>1. k + 1 \in 1 .. Len(rest) /\ (k + 1) + 2 = (k + 2) + 1 /\ k + 2 < Len(ring)
        BY <1>0, <2>0, <2>2, <3>2
      <4>2. ring[k + 2].index >= ring[(k + 2) + 1].index
        BY <2>3, <4>1 DEF RingOK, Sorted
      <4> QED
        BY <2>3, <4>1, <4>2
    <3> QED
      BY <3>1, <3>2
  <2>6. AllApart(rest)
    <3> SUFFICES ASSUME NEW j \in 1 .. Len(rest), NEW k \in 1 .. Len(rest), j # k
                 PROVE  Apart(rest[j], rest[k])
      BY DEF AllApart
    <3>1. j + 2 # k + 2
      OBVIOUS
    <3> QED
      BY <2>3, <3>1 DEF RingOK, AllApart
  <2>7. /\ Apart(ring[2], ring[1])
        /\ \A j \in 1 .. Len(rest) : Apart(ring[1], rest[j]) /\ Apart(ring[2], rest[j])
    BY <1>0, <2>0, <2>3 DEF RingOK, AllApart
  <2>8. \A j \in 1 .. Len(rest) : \E k \in 1 .. Len(ring) : rest[j] = ring[k]
    BY <2>3
  <2>9. \A k \in 2 .. Len(ring) : ring[k] = ring[2] \/ \E j \in 1 .. Len(rest) : ring[k] = rest[j]
    <3> TAKE k \in 2 .. Len(ring)
    <3>1. k # 2 => k - 2 \in 1 .. Len(rest) /\ (k - 2) + 2 = k
      BY <1>0, <2>0, <2>2
    <3>2. k # 2 => ring[k] = rest[k - 2]
      BY <2>3, <3>1
    <3> QED
      BY <3>1, <3>2
  <2> HIDE DEF new
  <2>10. /\ RingOK(ring', fresh') /\ new \in Piece /\ Held(new, ring')
         /\ \A p \in Piece : Held(p, ring) => Held(p, ring') /\ Disjoint(p, new) /\ Disjoint(new, p)
    <3>1. fresh <= fresh /\ fresh \in Nat /\ fresh <= Space
      BY <1>0
    <3> QED
      BY <1>4, <1>5, <2>1, <2>2, <2>4, <2>5, <2>6, <2>7, <2>8, <2>9, <3>1
  <2> QED
    BY <2>1, <2>10 DEF new
<1>6. CASE ~InActive(size) /\ ~InNext(size)
  <2> DEFINE node == NewNode(size, extra)
             rest == Tail(ring)
  <2>0. InNew(size, extra)
    BY <1>1, <1>6 DEF Succeeds
  <2>1. ring' = Activate(node, size, rest) /\ fresh' = node.endp /\ node.endp <= Space
    BY <1>1, <1>6, <2>0 DEF RingAfter, FreshAfter, InNew
  <2>2. /\ node \in Node /\ node.start = fresh /\ node.avail = fresh + Header /\ node.index = 0
        /\ node.avail + size <= node.endp
    BY <1>0, NewNodeFits
  <2> HIDE DEF node
  <2>3. /\ rest \in Seq(Node) /\ Len(rest) = Len(ring) - 1
        /\ \A j \in 1 .. Len(rest) : rest[j] = ring[j + 1]
    BY <1>0, HeadTailProperties
  <2> HIDE DEF rest
  <2>4. \A j \in 1 .. Len(rest) : /\ j + 1 \in 2 .. Len(ring) /\ j + 1 \in 1 .. Len(ring)
                                  /\ j + 1 # 1 /\ rest[j] = ring[j + 1]
    BY <1>0, <2>3
  <2>5. node.endp \in Nat /\ fresh <= node.endp /\ Fits(node, node.endp)
    <3>1. node.endp \in Nat
      BY <2>2, NodeFields
    <3> QED
      BY <1>0, <2>2, <3>1 DEF Fits
  <2>6. Descending(rest)
    <3> SUFFICES ASSUME NEW k \in 1 .. Len(rest)
                 PROVE  Counted(rest[k]) /\ (k < Len(rest) => rest[k].index >= rest[k + 1].index)
      BY DEF Descending
    <3>1. Counted(rest[k])
      BY <2>4 DEF RingOK, Sorted
    <3>2. ASSUME k < Len(rest) PROVE rest[k].index >= rest[k + 1].index
      <4>1. k + 1 \in 1 .. Len(rest) /\ k + 1 < Len(ring)
        BY <1>0, <2>3, <3>2
      <4>2. ring[k + 1].index >= ring[(k + 1) + 1].index
        BY <2>4, <4>1 DEF RingOK, Sorted
      <4> QED
        BY <2>4, <4>1, <4>2
    <3> QED
      BY <3>1, <3>2
  <2>7. AllApart(rest)
    <3> SUFFICES ASSUME NEW j \in 1 .. Len(rest), NEW k \in 1 .. Len(rest), j # k
                 PROVE  Apart(rest[j], rest[k])
      BY DEF AllApart
    <3>1. j + 1 # k + 1
      OBVIOUS
    <3> QED
      BY <2>4, <3>1 DEF RingOK, AllApart
  <2>8. \A k \in 1 .. Len(ring) : Apart(node, ring[k])
    BY <1>0, <2>2 DEF Apart, Fits
  <2>9. /\ Apart(node, ring[1])
        /\ \A j \in 1 .. Len(rest) : Apart(ring[1], rest[j]) /\ Apart(node, rest[j])
    BY <1>0, <2>4, <2>8 DEF RingOK, AllApart
  <2>10. \A j \in 1 .. Len(rest) : \E k \in 1 .. Len(ring) : rest[j] = ring[k]
    BY <2>4
  <2>11. \A k \in 2 .. Len(ring) : ring[k] = node \/ \E j \in 1 .. Len(rest) : ring[k] = rest[j]
    <3> TAKE k \in 2 .. Len(ring)
    <3>1. k - 1 \in 1 .. Len(rest) /\ (k - 1) + 1 = k
      BY <1>0, <2>3
    <3> QED
      BY <2>4, <3>1
  <2> HIDE DEF new
  <2>12. /\ RingOK(ring', fresh') /\ new \in Piece /\ Held(new, ring')
         /\ \A p \in Piece : Held(p, ring) => Held(p, ring') /\ Disjoint(p, new) /\ Disjoint(new, p)
         /\ ring'[1].start = node.start /\ ring'[1].avail = node.avail + size
    BY <1>4, <1>6, <2>1, <2>2, <2>3, <2>5, <2>6, <2>7, <2>9, <2>10, <2>11
  <2>13. ring'[1].avail - ring'[1].start - Header = size
    <3>1. \A f, h, s \in Nat : (f + h) + s - f - h = s
      OBVIOUS
    <3> QED
      BY <1>0, <2>2, <2>12, <3>1
  <2> QED
    BY <1>6, <2>12, <2>13 DEF new
<1> QED
  BY <1>3, <1>5, <1>6
-----------------------------------------------------------------------------
(* The invariant, action by action *)

LEMMA InitInv == Init => Inv
<1> SUFFICES ASSUME Init PROVE Inv
  OBVIOUS
<1> USE PoolMemoryAssumption
<1>1. ring = <<Self>> /\ fresh = 2 * Boundary /\ used = {} /\ buffered = <<>> /\ spare = 0
  BY DEF Init
<1>2. /\ Self \in Node /\ Self.start = 0 /\ Self.avail = Header + PoolSize
      /\ Self.endp = 2 * Boundary /\ Self.index = 0
  BY DEF Self, Node
<1> HIDE DEF Self
<1>3. Fits(Self, fresh)
  BY <1>1, <1>2 DEF Fits
<1>4. ring \in Seq(Node) /\ Len(ring) = 1 /\ ring[1] = Self /\ ring # <<>>
  BY <1>1, <1>2, OneElement, EmptySeq
<1>5. RingOK(ring, fresh)
  <2> HIDE <1>1
  <2>1. fresh \in Nat /\ 2 * Boundary <= fresh /\ fresh <= Space
    BY <1>1
  <2>2. \A j, k \in 1 .. Len(ring) : j = k
    BY <1>4
  <2>3. AllApart(ring)
    BY <2>2 DEF AllApart
  <2>4. Sorted(ring)
    <3>1. \A k \in 2 .. 1 : FALSE
      OBVIOUS
    <3> QED
      BY <1>4, <3>1 DEF Sorted
  <2>5. 1 \in 1 .. Len(ring) /\ \A j \in 1 .. Len(ring) : j = 1
    BY <1>4
  <2> QED
    BY <1>2, <1>3, <1>4, <2>1, <2>3, <2>4, <2>5 DEF RingOK
<1>6. PiecesOK
  <2>1. <<>> \in Seq(Piece) /\ Len(<<>>) = 0 /\ ToSet(<<>>) = {}
    BY EmptySeq DEF ToSet
  <2> QED
    BY <1>1, <2>1 DEF PiecesOK
<1> QED
  BY <1>5, <1>6 DEF Inv

\* The freed buffers are pieces too, and there is at most one.
LEMMA FreedPieces ==
  ASSUME PiecesOK
  PROVE  /\ ToSet(buffered) \subseteq Piece
         /\ \A k \in DOMAIN buffered : buffered[k] \in ToSet(buffered)
         /\ DOMAIN buffered = 1 .. Len(buffered)
<1>1. buffered \in Seq(Piece)
  BY DEF PiecesOK
<1> QED
  BY <1>1, LenProperties, ElementOfSeq DEF ToSet

LEMMA AllocNewKeeps ==
  ASSUME Inv, NEW size \in Requests, NEW extra \in Extras, AllocNew(size, extra)
  PROVE  Inv'
<1> USE PoolMemoryAssumption
<1> DEFINE new == [addr |-> Address(size, extra), size |-> size]
<1>1. RingOK(ring, fresh) /\ PiecesOK /\ size \in Nat \ {0}
  BY DEF Inv
<1>2. /\ RingOK(ring', fresh') /\ new \in Piece /\ Held(new, ring')
      /\ \A p \in Piece : Held(p, ring) =>
            Held(p, ring') /\ Disjoint(p, new) /\ Disjoint(new, p)
  BY <1>1, PallocKeeps DEF AllocNew
<1>3. used' = used \cup {new} /\ buffered' = buffered /\ spare' = spare
  BY DEF AllocNew
<1> HIDE DEF new
<1>4. /\ used \subseteq Piece /\ ToSet(buffered) \subseteq Piece
      /\ \A p \in used \cup ToSet(buffered) : Held(p, ring)
  BY <1>1, FreedPieces DEF PiecesOK
<1>5. new \notin ToSet(buffered)
  <2> SUFFICES ASSUME new \in ToSet(buffered) PROVE FALSE
    OBVIOUS
  <2>1. Disjoint(new, new)
    BY <1>2, <1>4
  <2>2. new.addr \in Nat /\ new.size \in Nat \ {0}
    BY <1>2 DEF Piece
  <2> QED
    BY <2>1, <2>2 DEF Disjoint
<1>6. PiecesOK'
  <2>1. used' \subseteq Piece /\ spare' \in Nat /\ buffered' \in Seq(Piece) /\ Len(buffered') <= 1
    BY <1>1, <1>2, <1>3 DEF PiecesOK
  <2>2. \A p \in used' \cup ToSet(buffered') : Held(p, ring')
    BY <1>2, <1>3, <1>4
  <2>3. \A p, q \in used' \cup ToSet(buffered') : p # q => Disjoint(p, q)
    <3>1. \A p, q \in used \cup ToSet(buffered) : p # q => Disjoint(p, q)
      BY <1>1 DEF PiecesOK
    <3> QED
      BY <1>2, <1>3, <1>4, <3>1
  <2>4. used' \cap ToSet(buffered') = {}
    BY <1>1, <1>3, <1>5 DEF PiecesOK
  <2> QED
    BY <2>1, <2>2, <2>3, <2>4 DEF PiecesOK
<1> QED
  BY <1>2, <1>6 DEF Inv

\* The buffer that alloc hands out is the only one, and what the guest knows of
\* it lies within it.
LEMMA AllocBufferedKeeps ==
  ASSUME Inv, NEW size \in Requests, NEW told \in BOOLEAN, AllocBuffered(size, told)
  PROVE  Inv'
<1> USE PoolMemoryAssumption
<1>1. RingOK(ring, fresh) /\ PiecesOK /\ size \in Nat \ {0}
  BY DEF Inv
<1>2. PICK k \in Reusable(size) :
        /\ used' = used \cup {[addr |-> buffered[k].addr,
                               size |-> IF told THEN buffered[k].size ELSE size]}
        /\ buffered' = RemoveAt(buffered, k)
        /\ spare' = spare + 1
  BY DEF AllocBuffered
<1> DEFINE old == buffered[k]
           new == [addr |-> buffered[k].addr, size |-> IF told THEN buffered[k].size ELSE size]
<1>3. k \in DOMAIN buffered /\ buffered[k].size \in size .. 2 * size
  BY DEF Reusable
<1>4. /\ used \subseteq Piece /\ ToSet(buffered) \subseteq Piece
      /\ old \in ToSet(buffered) /\ old \in Piece
      /\ k \in 1 .. Len(buffered)
  BY <1>1, <1>3, FreedPieces DEF PiecesOK
<1>5. buffered' = <<>>
  BY <1>1, <1>2, <1>4, RemovedOnly DEF PiecesOK
<1>6. old.addr \in Nat /\ old.size \in Nat \ {0} /\ size <= old.size
  BY <1>1, <1>3, <1>4 DEF Piece
<1>7. new \in Piece /\ new.addr = old.addr /\ new.size <= old.size /\ new.size \in Nat \ {0}
  BY <1>1, <1>6 DEF Piece
<1>8. used' = used \cup {new} /\ UNCHANGED <<ring, fresh>>
  BY <1>2 DEF AllocBuffered
<1> HIDE DEF new, old
<1>9. Held(new, ring)
  <2>1. Held(old, ring)
    BY <1>1, <1>4 DEF PiecesOK
  <2>2. PICK j \in 1 .. Len(ring) : Within(old, ring[j])
    BY <2>1 DEF Held
  <2>3. ring[j].avail \in Nat
    BY <1>1, NodesOfSeq DEF RingOK
  <2>4. Within(new, ring[j])
    BY <1>6, <1>7, <2>2, <2>3, SMTT(30) DEF Within
  <2> QED
    BY <2>4 DEF Held
<1>10. \A p \in used : Disjoint(p, new) /\ Disjoint(new, p)
  <2> TAKE p \in used
  <2>1. p # old
    BY <1>1, <1>4 DEF PiecesOK
  <2>2. Disjoint(p, old)
    BY <1>1, <1>4, <2>1 DEF PiecesOK
  <2>3. p.addr \in Nat /\ p.size \in Nat
    BY <1>4 DEF Piece
  <2> QED
    BY <1>6, <1>7, <2>2, <2>3 DEF Disjoint
<1>11. PiecesOK'
  <2>0. <<>> \in Seq(Piece) /\ Len(<<>>) = 0 /\ ToSet(<<>>) = {}
    BY EmptySeq DEF ToSet
  <2>1. used' \subseteq Piece /\ spare' \in Nat /\ buffered' \in Seq(Piece) /\ Len(buffered') <= 1
    BY <1>1, <1>2, <1>4, <1>5, <1>7, <1>8, <2>0 DEF PiecesOK
  <2>2. \A p \in used' \cup ToSet(buffered') : Held(p, ring')
    BY <1>1, <1>5, <1>8, <1>9, <2>0 DEF PiecesOK
  <2>3. \A p, q \in used' \cup ToSet(buffered') : p # q => Disjoint(p, q)
    BY <1>1, <1>5, <1>8, <1>10, <2>0 DEF PiecesOK
  <2>4. used' \cap ToSet(buffered') = {}
    BY <1>5, <2>0
  <2> QED
    BY <2>1, <2>2, <2>3, <2>4 DEF PiecesOK
<1> QED
  BY <1>1, <1>8, <1>11 DEF Inv

LEMMA FreeSmallKeeps ==
  ASSUME Inv, NEW piece \in used, FreeSmall(piece)
  PROVE  Inv'
<1>1. used' \subseteq used /\ UNCHANGED <<ring, fresh, buffered, spare>>
  BY DEF FreeSmall
<1> QED
  BY <1>1 DEF Inv, PiecesOK

\* The freed buffer stays a piece or is lost; where its record comes from does
\* not touch it.
LEMMA FreeBufferKeeps ==
  ASSUME Inv, NEW piece \in used, NEW extra \in Extras, FreeBuffer(piece, extra)
  PROVE  Inv'
<1> USE PoolMemoryAssumption
<1>1. RingOK(ring, fresh) /\ PiecesOK /\ RecordSize \in Nat \ {0}
  BY DEF Inv
<1>2. /\ used' = used \ {piece}
      /\ buffered' = IF buffered = <<>> THEN <<piece>> ELSE buffered
  BY DEF FreeBuffer
<1>3. /\ RingOK(ring', fresh')
      /\ \A p \in Piece : Held(p, ring) => Held(p, ring')
      /\ spare' \in Nat
  <2>1. CASE spare > 0
    BY <1>1, <2>1 DEF FreeBuffer, PiecesOK
  <2>2. CASE ~(spare > 0)
    <3>1. Palloc(RecordSize, extra) /\ spare' = spare
      BY <2>2 DEF FreeBuffer
    <3> QED
      BY <1>1, <3>1, PallocKeeps DEF PiecesOK
  <2> QED
    BY <2>1, <2>2
<1>4. /\ used \subseteq Piece /\ ToSet(buffered) \subseteq Piece /\ buffered \in Seq(Piece)
      /\ Len(buffered) <= 1
      /\ \A p \in used \cup ToSet(buffered) : Held(p, ring)
      /\ \A p, q \in used \cup ToSet(buffered) : p # q => Disjoint(p, q)
      /\ used \cap ToSet(buffered) = {}
  BY <1>1, FreedPieces DEF PiecesOK
<1>5. /\ buffered' \in Seq(Piece) /\ Len(buffered') <= 1
      /\ \/ ToSet(buffered') = ToSet(buffered)
         \/ ToSet(buffered') = {piece}
  <2>1. <<piece>> \in Seq(Piece) /\ Len(<<piece>>) = 1 /\ ToSet(<<piece>>) = {piece}
    BY <1>4, OneElement
  <2> QED
    BY <1>2, <1>4, <2>1
<1>6. PiecesOK'
  <2>1. used' \cup ToSet(buffered') \subseteq used \cup ToSet(buffered) /\ used' \subseteq used
    BY <1>2, <1>5
  <2>2. used' \cap ToSet(buffered') = {}
    BY <1>2, <1>4, <1>5
  <2>3. \A p \in used' \cup ToSet(buffered') : Held(p, ring')
    BY <1>3, <1>4, <2>1
  <2>4. \A p, q \in used' \cup ToSet(buffered') : p # q => Disjoint(p, q)
    BY <1>4, <2>1
  <2> QED
    BY <1>3, <1>4, <1>5, <2>1, <2>2, <2>3, <2>4 DEF PiecesOK
<1> QED
  BY <1>3, <1>6 DEF Inv

\* The pool's own node is in the ring for Clear to find.
LEMMA ClearKeeps ==
  ASSUME Inv, Clear
  PROVE  Inv'
<1> USE PoolMemoryAssumption
<1> DEFINE kept == CHOOSE n \in ToSet(ring) : n.start = 0
           self == [Self EXCEPT !.index = kept.index]
<1>1. RingOK(ring, fresh)
  BY DEF Inv
<1>2. ring \in Seq(Node) /\ fresh \in Nat /\ 2 * Boundary <= fresh /\ fresh <= Space
  BY <1>1 DEF RingOK
<1>3. kept \in ToSet(ring)
  <2>1. \E j \in 1 .. Len(ring) : ring[j].start = 0
    BY <1>1 DEF RingOK
  <2>2. \A j \in 1 .. Len(ring) : ring[j] \in ToSet(ring)
    BY <1>2, LenProperties DEF ToSet
  <2> QED
    BY <2>1, <2>2
<1> HIDE DEF kept
<1>4. kept.index \in Nat /\ kept.index <= Space
  <2>1. PICK j \in 1 .. Len(ring) : kept = ring[j]
    BY <1>2, <1>3, LenProperties DEF ToSet
  <2> QED
    BY <1>1, <1>2, <2>1, NodesOfSeq DEF RingOK, Fits
<1>5. /\ self \in Node /\ self.start = 0 /\ self.avail = Header + PoolSize
      /\ self.endp = 2 * Boundary /\ self.index = kept.index
  BY <1>4 DEF Self, Node
<1>6. ring' = <<self>> /\ fresh' = fresh /\ used' = {} /\ buffered' = <<>> /\ spare' = 0
  BY DEF Clear, kept
<1> HIDE DEF self
<1>7. Fits(self, fresh)
  BY <1>2, <1>4, <1>5 DEF Fits
<1>8. ring' \in Seq(Node) /\ Len(ring') = 1 /\ ring'[1] = self /\ ring' # <<>>
  BY <1>5, <1>6, OneElement, EmptySeq
<1>9. RingOK(ring', fresh')
  <2>1. \A j, k \in 1 .. Len(ring') : j = k
    BY <1>8
  <2>2. AllApart(ring')
    BY <2>1 DEF AllApart
  <2>3. Sorted(ring')
    <3>1. \A k \in 2 .. 1 : FALSE
      OBVIOUS
    <3> QED
      BY <1>8, <3>1 DEF Sorted
  <2>4. 1 \in 1 .. Len(ring') /\ \A j \in 1 .. Len(ring') : j = 1
    BY <1>8
  <2> QED
    BY <1>2, <1>5, <1>6, <1>7, <1>8, <2>2, <2>3, <2>4 DEF RingOK
<1>10. PiecesOK'
  <2>1. <<>> \in Seq(Piece) /\ Len(<<>>) = 0 /\ ToSet(<<>>) = {}
    BY EmptySeq DEF ToSet
  <2> QED
    BY <1>6, <2>1 DEF PiecesOK
<1> QED
  BY <1>9, <1>10 DEF Inv

LEMMA NextInv == Inv /\ [Next]_vars => Inv'
<1> SUFFICES ASSUME Inv, [Next]_vars PROVE Inv'
  OBVIOUS
<1>1. ASSUME NEW size \in Requests, NEW extra \in Extras, AllocNew(size, extra) PROVE Inv'
  BY <1>1, AllocNewKeeps
<1>2. ASSUME NEW size \in Requests, NEW told \in BOOLEAN, AllocBuffered(size, told) PROVE Inv'
  BY <1>2, AllocBufferedKeeps
<1>3. ASSUME NEW piece \in used, FreeSmall(piece) PROVE Inv'
  BY <1>3, FreeSmallKeeps
<1>4. ASSUME NEW piece \in used, NEW extra \in Extras, FreeBuffer(piece, extra) PROVE Inv'
  BY <1>4, FreeBufferKeeps
<1>5. CASE Clear
  BY <1>5, ClearKeeps
<1>6. CASE UNCHANGED vars
  BY <1>6 DEF vars, Inv, PiecesOK
<1> QED
  BY <1>1, <1>2, <1>3, <1>4, <1>5, <1>6 DEF Next

LEMMA Invariance == Spec => []Inv
<1> QED
  BY InitInv, NextInv, PTL DEF Spec
-----------------------------------------------------------------------------
(* What follows from it *)

\* Nodes and pieces stay within the pool's space, and the ring is in order.
THEOREM TypeCorrect == Spec => []TypeOK
<1>1. Inv => TypeOK
  <2> SUFFICES ASSUME Inv PROVE TypeOK
    OBVIOUS
  <2> USE PoolMemoryAssumption
  <2>1. RingOK(ring, fresh) /\ PiecesOK
    BY DEF Inv
  <2>2. ring \in Seq(Node) /\ fresh \in Nat /\ fresh <= Space /\ ring # <<>>
    BY <2>1 DEF RingOK
  <2>3. ASSUME NEW j \in 1 .. Len(ring)
        PROVE  /\ ring[j] \in Nodes
               /\ ring[j].avail \in Nat /\ ring[j].avail <= Space
    <3>1. Fits(ring[j], fresh) /\ ring[j] \in Node
      BY <2>1, <2>2, NodesOfSeq DEF RingOK
    <3>2. /\ ring[j].start \in Nat /\ ring[j].avail \in Nat /\ ring[j].endp \in Nat
          /\ ring[j].index \in Nat
      BY <3>1, NodeFields
    <3>3. /\ ring[j].start + Header <= ring[j].avail /\ ring[j].avail <= ring[j].endp
          /\ ring[j].endp <= fresh /\ ring[j].index <= Space
      BY <3>1 DEF Fits
    <3>4. /\ ring[j].start \in 0 .. Space /\ ring[j].avail \in 0 .. Space
          /\ ring[j].endp \in 0 .. Space /\ ring[j].index \in 0 .. Space
      BY <2>2, <3>2, <3>3
    <3> QED
      BY <3>1, <3>2, <3>4 DEF Node, Nodes
  <2>4. ring \in Seq(Nodes)
    BY <2>2, <2>3, InSeqOf
  <2>5. ASSUME NEW p \in Piece, Held(p, ring) PROVE p \in Pieces
    <3>1. PICK j \in 1 .. Len(ring) : Within(p, ring[j])
      BY <2>5 DEF Held
    <3>2. ring[j].avail \in Nat /\ ring[j].avail <= Space /\ ring[j].start \in Nat
      BY <2>2, <2>3, NodesOfSeq
    <3>3. p.addr \in Nat /\ p.size \in Nat \ {0} /\ p.addr + p.size <= ring[j].avail
      BY <3>1 DEF Piece, Within
    <3>4. p.addr \in 0 .. Space /\ p.size \in 1 .. Space
      BY <3>2, <3>3
    <3> QED
      BY <3>4 DEF Piece, Pieces
  <2>6. used \subseteq Pieces
    BY <2>1, <2>5 DEF PiecesOK
  <2>7. buffered \in Seq(Pieces)
    <3>1. \A j \in 1 .. Len(buffered) : buffered[j] \in Pieces
      BY <2>1, <2>5, FreedPieces DEF PiecesOK
    <3> QED
      BY <2>1, <3>1, InSeqOf DEF PiecesOK
  <2>8. \A k \in 2 .. Len(ring) : /\ ring[k].index = FreeSpace(ring[k]) \div Boundary
                                  /\ k < Len(ring) => ring[k].index >= ring[k + 1].index
    BY <2>1 DEF RingOK, Sorted, Counted
  <2> QED
    BY <2>1, <2>2, <2>4, <2>6, <2>7, <2>8 DEF TypeOK, PiecesOK
<1> QED
  BY <1>1, Invariance, PTL

\* The pieces the guest has and the buffers it freed share no byte, however
\* large the requests, the nodes and the headers are.
THEOREM PiecesStayDisjoint == Spec => []PiecesDisjoint
<1>1. Inv => PiecesDisjoint
  <2> SUFFICES ASSUME Inv PROVE PiecesDisjoint
    OBVIOUS
  <2>1. RingOK(ring, fresh) /\ PiecesOK
    BY DEF Inv
  <2>2. used \cup ToSet(buffered) \subseteq Piece
    BY <2>1, FreedPieces DEF PiecesOK
  <2>3. ASSUME NEW p \in used \cup ToSet(buffered), NEW q \in used \cup ToSet(buffered), p # q
        PROVE  Bytes(p) \cap Bytes(q) = {}
    <3>1. Disjoint(p, q)
      BY <2>1, <2>3 DEF PiecesOK
    <3>2. /\ p.addr \in Nat /\ p.size \in Nat /\ q.addr \in Nat /\ q.size \in Nat
      BY <2>2 DEF Piece
    <3> QED
      BY <3>1, <3>2 DEF Disjoint, Bytes
  <2>4. ASSUME NEW p \in used \cup ToSet(buffered)
        PROVE  \E n \in ToSet(ring) : n.start + Header <= p.addr /\ p.addr + p.size <= n.avail
    <3>1. PICK j \in 1 .. Len(ring) : Within(p, ring[j])
      BY <2>1 DEF PiecesOK, Held
    <3>2. ring[j] \in ToSet(ring)
      BY <2>1, LenProperties DEF RingOK, ToSet
    <3> QED
      BY <3>1, <3>2 DEF Within
  <2> QED
    BY <2>1, <2>3, <2>4 DEF PiecesDisjoint, PiecesOK
<1> QED
  BY <1>1, Invariance, PTL

\* Behind the active node no node has more pages free than the next one.
LEMMA MostFreeFirst ==
  ASSUME NEW nodes \in Seq(Node), Sorted(nodes), NEW k \in 2 .. Len(nodes)
  PROVE  nodes[k].index <= nodes[2].index
<1>0. /\ Len(nodes) \in Nat /\ k \in Nat
      /\ \A j \in 2 .. Len(nodes) : j \in 1 .. Len(nodes) /\ nodes[j].index \in Nat
  BY NodesOfSeq
<1> DEFINE More == {j \in 2 .. Len(nodes) : ~(nodes[j].index <= nodes[2].index)}
<1>1. SUFFICES ASSUME More # {} PROVE FALSE
  BY <1>0
<1>2. PICK j \in More : \A i \in More : j <= i
  <2>1. More \subseteq Nat
    OBVIOUS
  <2> QED
    BY <1>1, <2>1, LeastNatural
<1>3. j # 2 /\ j \in 2 .. Len(nodes) /\ nodes[2].index \in Nat
  BY <1>0
<1>4. j - 1 \in 2 .. Len(nodes) /\ j - 1 < Len(nodes) /\ (j - 1) + 1 = j /\ ~(j <= j - 1)
  BY <1>0, <1>3
<1>5. nodes[j - 1].index <= nodes[2].index
  BY <1>2, <1>4
<1>6. nodes[j - 1].index >= nodes[j].index
  <2>1. nodes[j - 1].index >= nodes[(j - 1) + 1].index
    BY <1>4 DEF Sorted
  <2> QED
    BY <1>4, <2>1
<1>7. nodes[j - 1].index \in Nat /\ nodes[j].index \in Nat
  BY <1>0, <1>3, <1>4
<1> QED
  BY <1>3, <1>5, <1>6, <1>7

\* palloc looks at two nodes only, and yet a new node is taken only if no node
\* has a page more free than the request: the order of the ring is kept by
\* every step, so that the next node stands for all behind it.
THEOREM RoomIsUsed == Spec => NoRoomMissed
<1> USE PoolMemoryAssumption
<1> DEFINE Grown == fresh' # fresh =>
             LET size == ring'[1].avail - ring'[1].start - Header
             IN \A k \in DOMAIN ring :
                  FreeSpace(ring[k]) < size \/ FreeSpace(ring[k]) \div Boundary <= size \div Boundary
<1>1. ASSUME Inv, NEW size \in Nat \ {0}, NEW extra \in Extras, Palloc(size, extra)
      PROVE  Grown
  <2> SUFFICES ASSUME fresh' # fresh, NEW k \in DOMAIN ring
               PROVE  FreeSpace(ring[k]) < size \/ FreeSpace(ring[k]) \div Boundary <= size \div Boundary
    BY <1>1, PallocKeeps DEF Inv
  <2>1. RingOK(ring, fresh) /\ ~InActive(size) /\ ~InNext(size)
    BY <1>1, PallocKeeps DEF Inv
  <2>2. ring \in Seq(Node) /\ Sorted(ring) /\ k \in 1 .. Len(ring) /\ Len(ring) \in Nat
    BY <2>1, LenProperties DEF RingOK
  <2>3. \A j \in 1 .. Len(ring) : FreeSpace(ring[j]) \in Nat
    <3> TAKE j \in 1 .. Len(ring)
    <3>1. ring[j].avail \in Nat /\ ring[j].endp \in Nat /\ ring[j].avail <= ring[j].endp
      BY <2>1, <2>2, NodesOfSeq DEF RingOK, Fits
    <3> QED
      BY <3>1 DEF FreeSpace
  <2>4. CASE k = 1
    BY <2>1, <2>2, <2>3, <2>4 DEF InActive
  <2>5. CASE k # 1
    <3>1. k \in 2 .. Len(ring) /\ 2 \in 2 .. Len(ring) /\ 2 \in 1 .. Len(ring) /\ Len(ring) > 1
      BY <2>2, <2>5
    <3>2. FreeSpace(ring[2]) <= size
      BY <2>1, <2>3, <3>1 DEF InNext
    <3>3. FreeSpace(ring[2]) \div Boundary <= size \div Boundary
      BY <2>3, <3>1, <3>2, PagesMonotone
    <3>4. ring[k].index <= ring[2].index
      BY <2>2, <3>1, MostFreeFirst
    <3>5. /\ ring[k].index = FreeSpace(ring[k]) \div Boundary
          /\ ring[2].index = FreeSpace(ring[2]) \div Boundary
      BY <2>2, <3>1 DEF Sorted, Counted
    <3>6. /\ FreeSpace(ring[k]) \div Boundary \in Nat /\ FreeSpace(ring[2]) \div Boundary \in Nat
          /\ size \div Boundary \in Nat
      BY <2>2, <2>3, <3>1, WholePages
    <3>7. \A a, b, c \in Nat : a <= b /\ b <= c => a <= c
      OBVIOUS
    <3>8. FreeSpace(ring[k]) \div Boundary <= size \div Boundary
      <4>1. FreeSpace(ring[k]) \div Boundary <= FreeSpace(ring[2]) \div Boundary
        BY <3>4, <3>5
      <4> QED
        BY <3>3, <3>6, <3>7, <4>1
    <3> QED
      BY <3>8
  <2> QED
    BY <2>4, <2>5
<1>2. ASSUME Inv, [Next]_vars PROVE Grown
  <2>1. ASSUME NEW size \in Requests, NEW extra \in Extras, AllocNew(size, extra) PROVE Grown
    <3>1. Palloc(size, extra) /\ size \in Nat \ {0}
      BY <2>1 DEF AllocNew
    <3> HIDE DEF Grown
    <3> QED BY <1>1, <1>2, <3>1
  <2>2. ASSUME NEW piece \in used, NEW extra \in Extras, FreeBuffer(piece, extra) PROVE Grown
    <3>1. CASE spare > 0
      BY <2>2, <3>1 DEF FreeBuffer
    <3>2. CASE ~(spare > 0)
      <4>1. Palloc(RecordSize, extra) /\ RecordSize \in Nat \ {0}
        BY <2>2, <3>2 DEF FreeBuffer
      <4> HIDE DEF Grown
      <4> QED BY <1>1, <1>2, <4>1
    <3> QED
      BY <3>1, <3>2
  <2>3. ASSUME fresh' = fresh PROVE Grown
    BY <2>3
  <2>4. ASSUME NEW size \in Requests, NEW told \in BOOLEAN, AllocBuffered(size, told) PROVE fresh' = fresh
    BY <2>4 DEF AllocBuffered
  <2>5. ASSUME NEW piece \in used, FreeSmall(piece) PROVE fresh' = fresh
    BY <2>5 DEF FreeSmall
  <2>6. Clear => fresh' = fresh
    BY DEF Clear
  <2>7. UNCHANGED vars => fresh' = fresh
    BY DEF vars
  <2> HIDE DEF Grown
  <2> QED
    BY <1>2, <2>1, <2>2, <2>3, <2>4, <2>5, <2>6, <2>7 DEF Next
<1>3. Inv /\ [Next]_vars => [Grown]_vars
  <2> HIDE DEF Grown
  <2> QED BY <1>2
<1> QED
  BY <1>3, Invariance, PTL DEF Spec, NoRoomMissed
=============================================================================
