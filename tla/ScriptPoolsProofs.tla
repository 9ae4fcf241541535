------------------------- MODULE ScriptPoolsProofs -------------------------
(***************************************************************************)
(* Proofs about ScriptPools, for any number of pools and of cells: the     *)
(* cells of the stack of pools are never lost or used twice; and, when the *)
(* newest child is destroyed first, the lists of children stay exact, and  *)
(* no pool goes before the pools below it.                                 *)
(***************************************************************************)
EXTENDS ScriptPools, ProofLemmas, FiniteSetTheorems

-----------------------------------------------------------------------------
(* Walks along pointers *)

\* The shape of a walk along pointers no two of which are equal, from a place
\* that none of them points at: it ends, meets nothing twice, and goes from
\* each place to the one its pointer names.
LEMMA WalkShape ==
  ASSUME NEW A, IsFiniteSet(A), Null \notin A, NEW link \in [A -> A \cup {Null}],
         NEW head \in A \cup {Null},
         \A x, y \in A : link[x] = link[y] /\ link[x] # Null => x = y,
         head # Null => \A x \in A : link[x] # head
  PROVE  /\ Walk(head, link, Cardinality(A) + 1) \in Seq(A)
         /\ IsInjective(Walk(head, link, Cardinality(A) + 1))
         /\ head = Null => Walk(head, link, Cardinality(A) + 1) = <<>>
         /\ head # Null =>
              /\ Walk(head, link, Cardinality(A) + 1) # <<>>
              /\ Walk(head, link, Cardinality(A) + 1)[1] = head
              /\ link[Last(Walk(head, link, Cardinality(A) + 1))] = Null
         /\ \A i \in 1 .. Len(Walk(head, link, Cardinality(A) + 1)) - 1 :
              Walk(head, link, Cardinality(A) + 1)[i + 1] = link[Walk(head, link, Cardinality(A) + 1)[i]]
<1> DEFINE B == A \cup {Null}
           most == Cardinality(A) + 1
           eqn(f) == f = [k \in Nat |-> IF k = 0 THEN head
                          ELSE IF f[k - 1] = Null THEN Null ELSE link[f[k - 1]]]
           nth == CHOOSE f : eqn(f)
           length == Min({k \in 0 .. most : nth[k] = Null} \cup {most})
           w == [k \in 1 .. length |-> nth[k - 1]]
<1>1. Walk(head, link, most) = w
  BY DEF Walk
<1>2. eqn(nth)
  <2> DEFINE step == [x \in B |-> IF x = Null THEN Null ELSE link[x]]
  <2>1. step \in [B -> B] /\ head \in B
    OBVIOUS
  <2>2. PICK f \in [Nat -> B] : f[0] = head /\ \A k \in Nat \ {0} : f[k] = step[f[k - 1]]
    <3> HIDE DEF step, B
    <3> QED BY <2>1, Iterates, SMTT(30)
  <2>3. \A k \in Nat : k # 0 => k - 1 \in Nat /\ f[k - 1] \in B
    OBVIOUS
  <2>4. \A k \in Nat : f[k] = IF k = 0 THEN head ELSE IF f[k - 1] = Null THEN Null ELSE link[f[k - 1]]
    BY <2>2, <2>3
  <2>5. eqn(f)
    <3> DEFINE g == [k \in Nat |-> IF k = 0 THEN head ELSE IF f[k - 1] = Null THEN Null ELSE link[f[k - 1]]]
    <3>1. f = [k \in Nat |-> f[k]]
      OBVIOUS
    <3>2. [k \in Nat |-> f[k]] = g
      BY <2>4
    <3> QED BY <3>1, <3>2
  <2> HIDE DEF eqn
  <2> QED BY <2>5
<1> HIDE DEF nth
<1>3. /\ nth[0] = head
      /\ \A k \in Nat : k # 0 => nth[k] = IF nth[k - 1] = Null THEN Null ELSE link[nth[k - 1]]
  BY <1>2
<1> HIDE DEF eqn
<1>4. \A k \in Nat : nth[k] \in B
  <2> DEFINE Bad == {k \in Nat : nth[k] \notin B}
  <2>1. SUFFICES ASSUME Bad # {} PROVE FALSE
    OBVIOUS
  <2>2. PICK k \in Bad : \A j \in Bad : k <= j
    BY <2>1, LeastNatural
  <2>3. k # 0 /\ k \in Nat
    BY <1>3
  <2>4. k - 1 \in Nat /\ ~(k <= k - 1)
    BY <2>3
  <2>5. nth[k - 1] \in B
    BY <2>2, <2>4
  <2> QED
    BY <1>3, <2>3, <2>5
<1>5. ASSUME NEW i \in Nat, NEW j \in Nat, i < j, nth[i] = nth[j] PROVE nth[i] = Null
  <2> DEFINE Bad == {k \in Nat : nth[k] # Null /\ \E m \in Nat : k < m /\ nth[k] = nth[m]}
  <2>1. SUFFICES ASSUME Bad # {} PROVE FALSE
    BY <1>5
  <2>2. PICK k \in Bad : \A n \in Bad : k <= n
    BY <2>1, LeastNatural
  <2>3. PICK m \in Nat : k < m /\ nth[k] = nth[m]
    OBVIOUS
  <2>4. k \in Nat /\ nth[k] # Null /\ m # 0 /\ m - 1 \in Nat
    BY <2>3
  <2>5. nth[m - 1] # Null /\ nth[m] = link[nth[m - 1]] /\ nth[m - 1] \in A
    BY <1>3, <1>4, <2>3, <2>4
  <2>6. k # 0
    BY <1>3, <2>3, <2>4, <2>5
  <2>7. k - 1 \in Nat /\ k - 1 < m - 1 /\ ~(k <= k - 1)
    BY <2>3, <2>4, <2>6
  <2>8. nth[k - 1] # Null /\ nth[k] = link[nth[k - 1]] /\ nth[k - 1] \in A
    BY <1>3, <1>4, <2>4, <2>6, <2>7
  <2>9. nth[k - 1] = nth[m - 1]
    BY <2>3, <2>4, <2>5, <2>8
  <2>10. k - 1 \in Bad
    BY <2>4, <2>7, <2>8, <2>9
  <2> QED
    BY <2>2, <2>7, <2>10
<1>6. Cardinality(A) \in Nat /\ most \in Nat
  BY FS_CardinalityType
<1>7. \E k \in 0 .. most : k < most /\ nth[k] = Null
  <2> DEFINE n == Cardinality(A)
             f == [k \in 0 .. n |-> nth[k]]
  <2>1. n \in Nat /\ most = n + 1
    BY <1>6
  <2> HIDE DEF n
  <2>2. SUFFICES ASSUME \A k \in 0 .. n : nth[k] # Null PROVE FALSE
    BY <2>1
  <2>3. f \in [0 .. n -> A]
    BY <1>4, <2>1, <2>2
  <2>4. IsFiniteSet(0 .. n) /\ Cardinality(0 .. n) = n + 1
    BY <2>1, FS_Interval
  <2>5. Cardinality(A) < Cardinality(0 .. n)
    BY <2>1, <2>4 DEF n
  <2>6. PICK i, j \in 0 .. n : i # j /\ f[i] = f[j]
    <3> DEFINE S == 0 .. n
    <3>1. IsFiniteSet(S) /\ Cardinality(A) < Cardinality(S) /\ f \in [S -> A]
      BY <2>3, <2>4, <2>5
    <3> HIDE DEF f, S
    <3>2. \E x, y \in S : x # y /\ f[x] = f[y]
      BY <3>1, FS_PigeonHole
    <3> QED
      BY <3>2 DEF S
  <2>7. i \in Nat /\ j \in Nat /\ nth[i] = nth[j] /\ (i < j \/ j < i)
    BY <2>1, <2>6
  <2> QED
    BY <1>5, <2>2, <2>7
<1>8. /\ length \in Nat /\ nth[length] = Null /\ \A k \in Nat : k < length => nth[k] # Null
  <2> DEFINE S == {k \in 0 .. most : nth[k] = Null} \cup {most}
  <2>1. S \subseteq Nat /\ S # {}
    BY <1>6
  <2>2. length \in S /\ \A n \in S : length <= n
    <3> HIDE DEF S
    <3>1. Min(S) \in S /\ \A n \in S : Min(S) <= n
      BY <2>1, MinOfNaturals
    <3> QED BY <3>1 DEF S
  <2> HIDE DEF length
  <2>3. length < most /\ length \in Nat
    BY <1>6, <1>7, <2>1, <2>2
  <2>4. nth[length] = Null
    BY <2>2, <2>3, <1>6
  <2>5. \A k \in Nat : k < length => k \in 0 .. most /\ ~(length <= k)
    BY <1>6, <2>3
  <2> HIDE DEF most
  <2> QED BY <2>2, <2>3, <2>4, <2>5
<1> HIDE DEF length
<1>9. \A i \in 1 .. length : i - 1 \in Nat /\ i - 1 < length /\ nth[i - 1] \in A /\ w[i] = nth[i - 1]
  <2> TAKE i \in 1 .. length
  <2>1. i - 1 \in Nat /\ i - 1 < length
    BY <1>8
  <2> QED
    BY <1>4, <1>8, <2>1
<1>10. w \in Seq(A) /\ Len(w) = length /\ DOMAIN w = 1 .. length
  <2>1. w \in [1 .. length -> A] /\ DOMAIN w = 1 .. length
    BY <1>9
  <2> HIDE DEF w
  <2>2. w \in Seq(A)
    BY <1>8, <2>1, SeqDef
  <2>3. DOMAIN w = 1 .. Len(w) /\ Len(w) \in Nat
    BY <2>2, LenProperties
  <2>4. Len(w) = length
    <3>1. \A m, n \in Nat : 1 .. m = 1 .. n => m = n
      <4> SUFFICES ASSUME NEW m \in Nat, NEW n \in Nat, 1 .. m = 1 .. n, m # n PROVE FALSE
        OBVIOUS
      <4>1. CASE m < n
        <5>1. n \in 1 .. n /\ n \notin 1 .. m
          BY <4>1
        <5> QED BY <5>1
      <4>2. CASE n < m
        <5>1. m \in 1 .. m /\ m \notin 1 .. n
          BY <4>2
        <5> QED BY <5>1
      <4> QED BY <4>1, <4>2
    <3> QED BY <1>8, <2>1, <2>3, <3>1
  <2> QED
    BY <2>1, <2>2, <2>4
<1> HIDE DEF w
<1>11. IsInjective(w)
  <2> SUFFICES ASSUME NEW i \in 1 .. length, NEW j \in 1 .. length, w[i] = w[j]
               PROVE  i = j
    BY <1>10 DEF IsInjective
  <2>1. /\ i - 1 \in Nat /\ j - 1 \in Nat /\ nth[i - 1] = nth[j - 1]
        /\ nth[i - 1] # Null /\ nth[j - 1] # Null
    BY <1>8, <1>9
  <2>2. ~(i - 1 < j - 1) /\ ~(j - 1 < i - 1)
    BY <1>5, <2>1
  <2> QED
    BY <1>8, <2>1, <2>2
<1>12. head = Null => w = <<>>
  <2>1. head = Null => length = 0
    BY <1>3, <1>8
  <2> QED
    BY <1>10, <2>1, EmptySeq
<1>13. ASSUME head # Null
       PROVE  w # <<>> /\ w[1] = head /\ link[Last(w)] = Null
  <2>1. length # 0 /\ length \in 1 .. length /\ 1 \in 1 .. length /\ 1 - 1 = 0
    BY <1>3, <1>8, <1>13
  <2>2. w # <<>>
    BY <1>8, <1>10, <2>1, EmptySeq
  <2>3. w[1] = head
    BY <1>3, <1>9, <2>1
  <2>4. w[length] = nth[length - 1] /\ nth[length - 1] \in A
    BY <1>9, <2>1
  <2>5. link[nth[length - 1]] = Null
    BY <1>3, <1>8, <2>1, <2>4
  <2> QED
    BY <1>10, <2>2, <2>3, <2>4, <2>5 DEF Last
<1>14. ASSUME NEW i \in 1 .. length - 1 PROVE w[i + 1] = link[w[i]]
  <2>1. i \in 1 .. length /\ i + 1 \in 1 .. length /\ (i + 1) - 1 = i /\ i \in Nat /\ i # 0
    BY <1>8
  <2>2. w[i] = nth[i - 1] /\ nth[i - 1] \in A /\ w[i + 1] = nth[i]
    BY <1>9, <2>1
  <2> QED
    BY <1>3, <2>1, <2>2
<1> HIDE DEF B, most
<1> QED
  BY <1>1, <1>10, <1>11, <1>12, <1>13, <1>14 DEF most

-----------------------------------------------------------------------------
(* The invariants *)

\* Closed under the pointers of link.
Closed(S, link) == \A x \in S : link[x] # Null => link[x] \in S

\* No pointer of link is at a place twice, and none of them is at the head.
Single(link, A) == \A x, y \in A : link[x] = link[y] /\ link[x] # Null => x = y
Unreached(head, link, A) == \A x \in A : link[x] # head \/ head = Null

Children(p) == {q \in live : parent[q] = p}

\* Every set with the first child that is closed under sibling has all children.
AllListed == \A p \in live : \A S \in SUBSET Pools :
               (child[p] # Null => child[p] \in S) /\ Closed(S, sibling) => Children(p) \subseteq S

TreeInv == /\ \A p \in Pools \ live : parent[p] = Null /\ child[p] = Null /\ sibling[p] = Null
           /\ \A p \in Pools : parent[p] # Null => parent[p] \in live
           /\ \A p \in Pools : child[p] # Null =>
                /\ child[p] \in live /\ parent[child[p]] = p /\ ref[child[p]] = <<"child", p>>
           /\ \A q \in Pools : sibling[q] # Null =>
                /\ sibling[q] \in live /\ parent[q] # Null /\ parent[sibling[q]] = parent[q]
                /\ child[parent[q]] # sibling[q]
           /\ Single(sibling, Pools)
           /\ AllListed

\* The calls under way: each is made for the first child of the pool below it.
CallsInv == /\ \A i \in 1 .. Len(work) : /\ work[i].pool \in live
                                         /\ work[i].keep \/ Newest(work[i].pool)
            /\ \A i \in 1 .. Len(work) - 1 : child[work[i].pool] = work[i + 1].pool

\* The cells of the stack are some that no unused cell points into.
Stacked(S) == /\ poolStack \in S /\ unused \notin S
              /\ Closed(S, next)
              /\ \A c \in Cells : next[c] \in S => c \in S
              /\ \A c \in S : next[c] = Null => pool[c] = root

StackInv == /\ poolStack # unused /\ poolStack \in cells
            /\ unused # Null => unused \in cells
            /\ Single(next, Cells)
            /\ Unreached(poolStack, next, Cells) /\ Unreached(unused, next, Cells)
            /\ \A c \in Cells : next[c] # Null => c \in cells /\ next[c] \in cells
            /\ \A S \in SUBSET Cells :
                 poolStack \in S /\ (unused # Null => unused \in S) /\ Closed(S, next)
                   => cells \subseteq S
            /\ \E S \in SUBSET Cells : Stacked(S)
-----------------------------------------------------------------------------
(* The types *)

Call == [pool : Pools, keep : BOOLEAN]

\* Whatever is pushed, popped, made and destroyed, in whatever order: pointers
\* are Null or lead to a place of their kind.
LEMMA InitType == Init => TypeOK
<1> SUFFICES ASSUME Init PROVE TypeOK
  OBVIOUS
<1> USE PoolsAssumption
<1> DEFINE c == CHOOSE d \in Cells : TRUE
<1>1. PICK p \in Pools :
        /\ live = {p}
        /\ parent = [q \in Pools |-> Null] /\ child = [q \in Pools |-> Null]
        /\ sibling = [q \in Pools |-> Null] /\ ref = [q \in Pools |-> Null]
        /\ work = <<>> /\ root = p /\ cells = {c} /\ poolStack = c /\ unused = Null
        /\ next = [d \in Cells |-> Null]
        /\ pool = [d \in Cells |-> IF d = c THEN p ELSE Null]
  BY DEF Init
<1>2. c \in Cells
  OBVIOUS
<1> HIDE DEF c
<1>3. work \in Seq(Call)
  BY <1>1, EmptySeq
<1>4. /\ parent \in [Pools -> Pools \cup {Null}] /\ child \in [Pools -> Pools \cup {Null}]
      /\ sibling \in [Pools -> Pools \cup {Null}] /\ ref \in [Pools -> Slots \cup {Null}]
  BY <1>1
<1>5. /\ next \in [Cells -> Cells \cup {Null}] /\ pool \in [Cells -> Pools \cup {Null}]
  BY <1>1
<1> QED
  BY <1>1, <1>2, <1>3, <1>4, <1>5 DEF TypeOK, Call

LEMMA LastCall ==
  ASSUME TypeOK, work # <<>>
  PROVE  /\ Last(work) \in Call /\ Last(work).pool \in Pools
         /\ Len(work) \in Nat \ {0} /\ Last(work) = work[Len(work)]
         /\ Front(work) \in Seq(Call) /\ Len(Front(work)) = Len(work) - 1
         /\ \A i \in 1 .. Len(work) - 1 : Front(work)[i] = work[i]
<1>1. work \in Seq(Call)
  BY DEF TypeOK, Call
<1>2. /\ Last(work) \in Call /\ Len(work) \in Nat \ {0} /\ Last(work) = work[Len(work)]
      /\ Front(work) \in Seq(Call) /\ Len(Front(work)) = Len(work) - 1
      /\ \A i \in 1 .. Len(work) - 1 : Front(work)[i] = work[i]
  BY <1>1, FrontOfSeq
<1>3. Last(work).pool \in Pools
  BY <1>2 DEF Call
<1> QED
  BY <1>2, <1>3

LEMMA MakeChildType ==
  ASSUME TypeOK, NEW p \in Pools, NEW above \in Pools, MakeChild(p, above)
  PROVE  TypeOK'
<1> DEFINE first == child[above]
<1>1. /\ live' \subseteq Pools /\ UNCHANGED <<work, root, cells, poolStack, unused, next, pool>>
  BY DEF TypeOK, MakeChild, stack
<1>2. first \in Pools \cup {Null}
  BY DEF TypeOK
<1>3. /\ parent' \in [Pools -> Pools \cup {Null}] /\ sibling' \in [Pools -> Pools \cup {Null}]
      /\ child' \in [Pools -> Pools \cup {Null}]
  BY <1>2 DEF TypeOK, MakeChild
<1>4. ref' \in [Pools -> Slots \cup {Null}]
  <2>1. <<"child", above>> \in Slots /\ <<"sibling", above>> \in Slots
    BY DEF Slots
  <2>2. ref' = [q \in Pools |-> IF q = p THEN <<"child", above>>
                                ELSE IF q = first THEN <<"sibling", above>> ELSE ref[q]]
    BY DEF MakeChild
  <2> HIDE DEF first
  <2> QED
    BY <2>1, <2>2 DEF TypeOK
<1> QED
  BY <1>1, <1>3, <1>4 DEF TypeOK

LEMMA UnlinkType ==
  ASSUME TypeOK, Unlink
  PROVE  TypeOK'
<1> DEFINE p == Last(work).pool
           after == IF parent[p] # Null THEN sibling[p] ELSE Null
           at(field) == IF parent[p] # Null /\ ref[p][1] = field THEN ref[p][2] ELSE Null
           atChild == at("child")
           atSibling == at("sibling")
<1>1. /\ work # <<>> /\ live' = live \ {p}
      /\ child' = [q \in Pools |-> IF q = atChild THEN after ELSE child[q]]
      /\ sibling' = [q \in Pools |-> IF q = p THEN Null
                                     ELSE IF q = atSibling THEN after ELSE sibling[q]]
      /\ ref' = [q \in Pools |-> IF q = p THEN Null ELSE IF q = after THEN ref[p] ELSE ref[q]]
      /\ parent' = [parent EXCEPT ![p] = Null]
      /\ work' = Front(work)
      /\ UNCHANGED <<root, cells, poolStack, unused, next, pool>>
  BY DEF Unlink, stack
<1>2. p \in Pools /\ work' \in Seq(Call)
  BY <1>1, LastCall
<1> HIDE DEF p
<1>3. after \in Pools \cup {Null} /\ ref[p] \in Slots \cup {Null}
  BY <1>2 DEF TypeOK
<1> HIDE DEF after, at, atChild, atSibling
<1>4. /\ parent' \in [Pools -> Pools \cup {Null}] /\ child' \in [Pools -> Pools \cup {Null}]
      /\ sibling' \in [Pools -> Pools \cup {Null}] /\ ref' \in [Pools -> Slots \cup {Null}]
  BY <1>1, <1>2, <1>3 DEF TypeOK
<1> QED
  BY <1>1, <1>2, <1>4 DEF TypeOK, Call

LEMMA PushType ==
  ASSUME TypeOK, NEW p \in Pools, PushReused(p) \/ PushNew(p)
  PROVE  TypeOK'
<1>1. CASE PushReused(p)
  <2>1. unused \in Cells /\ UNCHANGED <<tree, work, root, cells>>
    BY <1>1 DEF PushReused, TypeOK
  <2>2. /\ unused' \in Cells \cup {Null} /\ poolStack' \in Cells
        /\ next' \in [Cells -> Cells \cup {Null}] /\ pool' \in [Cells -> Pools \cup {Null}]
    BY <1>1, <2>1 DEF PushReused, TypeOK
  <2> QED
    BY <2>1, <2>2 DEF TypeOK, tree
<1>2. CASE PushNew(p)
  <2> DEFINE fresh == Cells \ cells
             cell == CHOOSE c \in fresh : TRUE
  <2>1. /\ fresh # {} /\ UNCHANGED <<tree, work, root, unused>> /\ cells' = cells \cup {cell}
        /\ pool' = [pool EXCEPT ![cell] = p] /\ next' = [next EXCEPT ![cell] = poolStack]
        /\ poolStack' = cell
    BY <1>2 DEF PushNew
  <2>2. cell \in Cells
    BY <2>1
  <2> HIDE DEF cell
  <2>3. /\ poolStack' \in Cells /\ cells' \subseteq Cells
        /\ next' \in [Cells -> Cells \cup {Null}] /\ pool' \in [Cells -> Pools \cup {Null}]
    BY <2>1, <2>2 DEF TypeOK
  <2> QED
    BY <2>1, <2>3 DEF TypeOK, tree
<1> QED
  BY <1>1, <1>2

LEMMA PopType ==
  ASSUME TypeOK, Pop
  PROVE  TypeOK'
<1>1. /\ poolStack' \in Cells /\ unused' \in Cells /\ next' \in [Cells -> Cells \cup {Null}]
  BY DEF Pop, TypeOK
<1> QED
  BY <1>1 DEF Pop, TypeOK, tree

LEMMA CallType ==
  ASSUME TypeOK
  PROVE  /\ \A p \in Pools : Create(p) \/ Destroy(p) \/ Clear(p) => TypeOK'
         /\ DestroyChild \/ Cleared => TypeOK'
<1>1. ASSUME NEW p \in Pools, Create(p) PROVE TypeOK'
  BY <1>1 DEF Create, TypeOK, stack
<1>2. ASSUME NEW p \in Pools, Destroy(p) \/ Clear(p) PROVE TypeOK'
  <2>1. PICK b \in BOOLEAN : work' = << [pool |-> p, keep |-> b] >>
    BY <1>2 DEF Destroy, Clear
  <2>2. [pool |-> p, keep |-> b] \in Call
    BY DEF Call
  <2>3. work' \in Seq(Call)
    BY <2>1, <2>2, OneElement
  <2>4. UNCHANGED <<tree, stack>>
    BY <1>2 DEF Destroy, Clear
  <2> QED
    BY <2>3, <2>4 DEF TypeOK, tree, stack, Call
<1>3. ASSUME DestroyChild PROVE TypeOK'
  <2> DEFINE e == [pool |-> child[Last(work).pool], keep |-> FALSE]
  <2>1. work # <<>> /\ child[Last(work).pool] # Null /\ work' = Append(work, e)
        /\ UNCHANGED <<tree, stack>>
    BY <1>3 DEF DestroyChild
  <2>2. e \in Call
    BY <2>1, LastCall DEF TypeOK, Call
  <2> HIDE DEF e
  <2>3. work' \in Seq(Call)
    BY <2>1, <2>2, AppendProperties DEF TypeOK, Call
  <2> QED
    BY <2>1, <2>3 DEF TypeOK, tree, stack, Call
<1>4. ASSUME Cleared PROVE TypeOK'
  <2>1. work' \in Seq(Call)
    BY <1>4, LastCall DEF Cleared
  <2>2. UNCHANGED <<tree, root, poolStack, unused, next, pool>> /\ cells' \in {{}, cells}
    BY <1>4 DEF Cleared
  <2> QED
    BY <2>1, <2>2 DEF TypeOK, tree, Call
<1> QED
  BY <1>1, <1>2, <1>3, <1>4

\* Top is a pool when a child is made of it: CreateDefault needs a living one.
LEMMA NextType == TypeOK /\ [Next]_vars => TypeOK'
<1> SUFFICES ASSUME TypeOK, [Next]_vars PROVE TypeOK'
  OBVIOUS
<1>1. ASSUME NEW p \in Pools, Create(p) \/ Destroy(p) \/ Clear(p) PROVE TypeOK'
  BY <1>1, CallType
<1>2. ASSUME NEW p \in Pools, CreateDefault(p) PROVE TypeOK'
  <2>1. MakeChild(p, Top) /\ Top \in Pools
    BY <1>2 DEF CreateDefault, MakeChild, TypeOK
  <2> QED
    BY <2>1, MakeChildType
<1>3. ASSUME NEW p \in Pools, PushReused(p) \/ PushNew(p) PROVE TypeOK'
  BY <1>3, PushType
<1>4. ASSUME NEW p \in Pools, NEW above \in Pools, MakeChild(p, above) PROVE TypeOK'
  BY <1>4, MakeChildType
<1>5. CASE Pop
  BY <1>5, PopType
<1>6. CASE Destroying
  BY <1>6, CallType, UnlinkType DEF Destroying
<1>7. CASE UNCHANGED vars
  BY <1>7 DEF vars, TypeOK
<1> QED
  BY <1>1, <1>2, <1>3, <1>4, <1>5, <1>6, <1>7 DEF Next

LEMMA TypeInvariance == Spec => []TypeOK
<1> QED
  BY InitType, NextType, PTL DEF Spec
-----------------------------------------------------------------------------
(* The stack of cells *)

\* push and pop move one cell between two lists: what the guest does with the
\* pools has no part in it.
StackNext == \/ \E p \in Pools : PushReused(p) \/ PushNew(p)
             \/ Pop

\* What the invariant says of the state after a step.
StackedNext(S) == /\ poolStack' \in S /\ unused' \notin S
                  /\ Closed(S, next')
                  /\ \A c \in Cells : next'[c] \in S => c \in S
                  /\ \A c \in S : next'[c] = Null => pool'[c] = root'

LEMMA StackInvNext ==
  ASSUME poolStack' # unused', poolStack' \in cells', unused' # Null => unused' \in cells',
         Single(next', Cells),
         Unreached(poolStack', next', Cells), Unreached(unused', next', Cells),
         \A c \in Cells : next'[c] # Null => c \in cells' /\ next'[c] \in cells',
         \A S \in SUBSET Cells :
           poolStack' \in S /\ (unused' # Null => unused' \in S) /\ Closed(S, next')
             => cells' \subseteq S,
         \E S \in SUBSET Cells : StackedNext(S)
  PROVE  StackInv'
BY DEF StackInv, StackedNext, Stacked, Single, Unreached, Closed

LEMMA TreeStepsLeaveStack ==
  ASSUME [Next]_vars, ~StackNext
  PROVE  UNCHANGED <<root, poolStack, unused, next, pool>> /\ cells' \in {{}, cells}
<1> USE DEF stack
<1>1. \A p \in Pools : Create(p) \/ Destroy(p) \/ Clear(p) => UNCHANGED stack
  BY DEF Create, Destroy, Clear
<1>2. \A p, above \in Pools : MakeChild(p, above) => UNCHANGED stack
  BY DEF MakeChild
<1>3. \A p \in Pools : CreateDefault(p) => UNCHANGED stack
  BY DEF CreateDefault, MakeChild
<1>4. Destroying => UNCHANGED <<root, poolStack, unused, next, pool>> /\ cells' \in {{}, cells}
  BY DEF Destroying, DestroyChild, Unlink, Cleared
<1>5. UNCHANGED vars => UNCHANGED stack
  BY DEF vars, stack
<1> QED
  BY <1>1, <1>2, <1>3, <1>4, <1>5 DEF Next, StackNext

LEMMA InitStack == Init => StackInv
<1> SUFFICES ASSUME Init PROVE StackInv
  OBVIOUS
<1> USE PoolsAssumption
<1> DEFINE c == CHOOSE d \in Cells : TRUE
<1>1. PICK p \in Pools :
        /\ root = p /\ cells = {c} /\ poolStack = c /\ unused = Null
        /\ next = [d \in Cells |-> Null]
        /\ pool = [d \in Cells |-> IF d = c THEN p ELSE Null]
  BY DEF Init
<1>2. c \in Cells
  OBVIOUS
<1> HIDE DEF c
<1>3. /\ \A d \in Cells : next[d] = Null /\ pool[d] = IF d = c THEN p ELSE Null
      /\ p # Null /\ c # Null
  BY <1>1, <1>2
<1>4. Stacked({c})
  BY <1>1, <1>2, <1>3 DEF Stacked, Closed
<1>5. /\ poolStack # unused /\ poolStack \in cells
      /\ unused # Null => unused \in cells
      /\ Single(next, Cells)
      /\ Unreached(poolStack, next, Cells) /\ Unreached(unused, next, Cells)
      /\ \A d \in Cells : next[d] # Null => d \in cells /\ next[d] \in cells
  BY <1>1, <1>2, <1>3 DEF Single, Unreached
<1>6. cells = {c} /\ {c} \in SUBSET Cells
  BY <1>1, <1>2
<1>7. \A S \in SUBSET Cells :
        poolStack \in S /\ (unused # Null => unused \in S) /\ Closed(S, next)
          => cells \subseteq S
  BY <1>1, <1>6
<1> QED
  BY <1>4, <1>5, <1>6, <1>7 DEF StackInv

LEMMA PushReusedKeepsStack ==
  ASSUME TypeOK, StackInv, NEW p \in Pools, PushReused(p)
  PROVE  StackInv'
<1> USE PoolsAssumption
<1> DEFINE u == unused
<1>1. /\ u # Null /\ u \in Cells /\ unused' = next[u] /\ poolStack' = u /\ root' = root
      /\ cells' = cells
      /\ pool' = [pool EXCEPT ![u] = p] /\ next' = [next EXCEPT ![u] = poolStack]
      /\ poolStack \in Cells /\ p # Null /\ Null \notin Cells
  BY DEF PushReused, TypeOK
<1> HIDE DEF u
<1>2. /\ next'[u] = poolStack /\ pool'[u] = p
      /\ \A c \in Cells : c # u => next'[c] = next[c] /\ pool'[c] = pool[c]
      /\ \A c \in Cells : next[c] \in Cells \cup {Null}
  BY <1>1 DEF TypeOK
<1>3. /\ poolStack # u /\ poolStack \in cells /\ u \in cells
      /\ Single(next, Cells)
      /\ Unreached(poolStack, next, Cells) /\ Unreached(u, next, Cells)
      /\ \A c \in Cells : next[c] # Null => c \in cells /\ next[c] \in cells
  BY <1>1 DEF StackInv, u
<1>4. \A c \in Cells : next[c] # u /\ next[c] # poolStack
  BY <1>1, <1>3 DEF Unreached
<1>5. PICK S \in SUBSET Cells : Stacked(S)
  BY DEF StackInv
<1>6. /\ poolStack \in S /\ u \notin S /\ Closed(S, next)
      /\ \A c \in Cells : next[c] \in S => c \in S
      /\ \A c \in S : next[c] = Null => pool[c] = root
  BY <1>5 DEF Stacked, u
<1>7. \E T \in SUBSET Cells : StackedNext(T)
  <2> DEFINE T == S \cup {u}
  <2>1. poolStack' \in T /\ unused' \notin T
    BY <1>1, <1>4, <1>6
  <2>2. Closed(T, next')
    BY <1>1, <1>2, <1>6 DEF Closed
  <2>3. \A c \in Cells : next'[c] \in T => c \in T
    BY <1>2, <1>4, <1>6
  <2>4. \A c \in T : next'[c] = Null => pool'[c] = root'
    BY <1>1, <1>2, <1>6
  <2>5. T \in SUBSET Cells
    BY <1>1
  <2> HIDE DEF T
  <2> QED
    BY <2>1, <2>2, <2>3, <2>4, <2>5 DEF StackedNext
<1>8. ASSUME NEW R \in SUBSET Cells, poolStack' \in R, unused' # Null => unused' \in R, Closed(R, next')
      PROVE  cells' \subseteq R
  <2>1. u \in R /\ poolStack \in R
    BY <1>1, <1>2, <1>8 DEF Closed
  <2>2. Closed(R, next)
    BY <1>1, <1>2, <1>8 DEF Closed
  <2>3. cells \subseteq R
    BY <2>1, <2>2 DEF StackInv, u
  <2> QED
    BY <1>1, <2>1, <2>3
<1>9. Single(next', Cells)
  BY <1>1, <1>2, <1>3, <1>4 DEF Single
<1>10. Unreached(poolStack', next', Cells) /\ Unreached(unused', next', Cells)
  BY <1>1, <1>2, <1>3, <1>4 DEF Unreached, Single
<1>11. \A c \in Cells : next'[c] # Null => c \in cells' /\ next'[c] \in cells'
  BY <1>1, <1>2, <1>3
<1>12. poolStack' # unused' /\ poolStack' \in cells' /\ (unused' # Null => unused' \in cells')
  BY <1>1, <1>2, <1>3, <1>4
<1> QED
  BY <1>7, <1>8, <1>9, <1>10, <1>11, <1>12, StackInvNext
LEMMA PushNewKeepsStack ==
  ASSUME TypeOK, StackInv, NEW p \in Pools, PushNew(p)
  PROVE  StackInv'
<1> USE PoolsAssumption
<1> DEFINE fresh == Cells \ cells
           n == CHOOSE c \in fresh : TRUE
<1>1. /\ fresh # {} /\ unused = Null /\ unused' = Null /\ root' = root
      /\ cells' = cells \cup {n}
      /\ pool' = [pool EXCEPT ![n] = p] /\ next' = [next EXCEPT ![n] = poolStack]
      /\ poolStack' = n
      /\ poolStack \in Cells /\ p # Null /\ Null \notin Cells
  BY DEF PushNew, TypeOK
<1>2. n \in Cells /\ n \notin cells
  BY <1>1
<1> HIDE DEF n
<1>3. /\ next'[n] = poolStack /\ pool'[n] = p
      /\ \A c \in Cells : c # n => next'[c] = next[c] /\ pool'[c] = pool[c]
      /\ \A c \in Cells : next[c] \in Cells \cup {Null}
  BY <1>1, <1>2 DEF TypeOK
<1>4. /\ poolStack \in cells
      /\ Single(next, Cells) /\ Unreached(poolStack, next, Cells)
      /\ \A c \in Cells : next[c] # Null => c \in cells /\ next[c] \in cells
  BY DEF StackInv
<1>5. /\ poolStack # n /\ next[n] = Null /\ n # Null /\ poolStack # Null
      /\ \A c \in Cells : next[c] # n /\ next[c] # poolStack
  BY <1>1, <1>2, <1>3, <1>4 DEF Unreached
<1>6. PICK S \in SUBSET Cells : Stacked(S)
  BY DEF StackInv
<1>7. /\ poolStack \in S /\ Closed(S, next)
      /\ \A c \in Cells : next[c] \in S => c \in S
      /\ \A c \in S : next[c] = Null => pool[c] = root
  BY <1>6 DEF Stacked
<1>8. \E T \in SUBSET Cells : StackedNext(T)
  <2> DEFINE T == S \cup {n}
  <2>0. n \notin S \/ next[n] = Null
    BY <1>5
  <2>1. poolStack' \in T /\ unused' \notin T
    BY <1>1, <1>5
  <2>2. Closed(T, next')
    BY <1>1, <1>3, <1>7 DEF Closed
  <2>3. \A c \in Cells : next'[c] \in T => c \in T
    BY <1>3, <1>5, <1>7
  <2>4. \A c \in T : next'[c] = Null => pool'[c] = root'
    BY <1>1, <1>3, <1>5, <1>7
  <2>5. T \in SUBSET Cells
    BY <1>2
  <2> HIDE DEF T
  <2> QED
    BY <2>1, <2>2, <2>3, <2>4, <2>5 DEF StackedNext
<1>9. ASSUME NEW R \in SUBSET Cells, poolStack' \in R, unused' # Null => unused' \in R, Closed(R, next')
      PROVE  cells' \subseteq R
  <2>1. n \in R /\ poolStack \in R
    BY <1>1, <1>3, <1>5, <1>9 DEF Closed
  <2>2. Closed(R, next)
    BY <1>1, <1>3, <1>5, <1>9 DEF Closed
  <2>3. cells \subseteq R
    BY <1>1, <2>1, <2>2 DEF StackInv
  <2> QED
    BY <1>1, <2>1, <2>3
<1>10. Single(next', Cells)
  BY <1>1, <1>3, <1>4, <1>5 DEF Single
<1>11. Unreached(poolStack', next', Cells) /\ Unreached(unused', next', Cells)
  BY <1>1, <1>3, <1>5 DEF Unreached
<1>12. \A c \in Cells : next'[c] # Null => c \in cells' /\ next'[c] \in cells'
  BY <1>1, <1>3, <1>4, <1>5
<1>13. poolStack' # unused' /\ poolStack' \in cells' /\ (unused' # Null => unused' \in cells')
  BY <1>1, <1>3, <1>5
<1> QED
  BY <1>8, <1>9, <1>10, <1>11, <1>12, <1>13, StackInvNext

LEMMA PopKeepsStack ==
  ASSUME TypeOK, StackInv, Pop
  PROVE  StackInv'
<1> USE PoolsAssumption
<1> DEFINE t == poolStack
           n == next[poolStack]
<1>1. /\ n # Null /\ poolStack' = n /\ unused' = t /\ root' = root /\ pool' = pool
      /\ cells' = cells
      /\ next' = [next EXCEPT ![t] = unused]
      /\ t \in Cells /\ n \in Cells /\ t # Null /\ unused \in Cells \cup {Null}
  BY DEF Pop, TypeOK
<1>2. /\ next'[t] = unused
      /\ \A c \in Cells : c # t => next'[c] = next[c]
      /\ \A c \in Cells : next[c] \in Cells \cup {Null}
  BY <1>1 DEF TypeOK
<1>3. /\ t # unused /\ t \in cells /\ (unused # Null => unused \in cells)
      /\ Single(next, Cells)
      /\ Unreached(t, next, Cells) /\ Unreached(unused, next, Cells)
      /\ \A c \in Cells : next[c] # Null => c \in cells /\ next[c] \in cells
  BY DEF StackInv
<1>4. next[t] = n
  OBVIOUS
<1>5. PICK S \in SUBSET Cells : Stacked(S)
  BY DEF StackInv
<1>6. /\ t \in S /\ unused \notin S /\ Closed(S, next)
      /\ \A c \in Cells : next[c] \in S => c \in S
      /\ \A c \in S : next[c] = Null => pool[c] = root
  BY <1>5 DEF Stacked
<1>7. ASSUME NEW R \in SUBSET Cells, poolStack' \in R, unused' # Null => unused' \in R, Closed(R, next')
      PROVE  cells' \subseteq R
  <2>1. n \in R /\ t \in R /\ (unused # Null => unused \in R)
    BY <1>1, <1>2, <1>7 DEF Closed
  <2>2. Closed(R, next)
    BY <1>1, <1>2, <1>4, <1>7, <2>1 DEF Closed
  <2>3. cells \subseteq R
    BY <2>1, <2>2 DEF StackInv
  <2> QED
    BY <1>1, <2>3
<1> HIDE DEF t, n
<1>8. \A c \in Cells : next[c] # t /\ (c # t => next[c] # n) /\ (unused # Null => next[c] # unused)
  BY <1>1, <1>3, <1>4 DEF Unreached, Single
<1>9. n # t
  BY <1>1, <1>4, <1>8
<1>10. \E T \in SUBSET Cells : StackedNext(T)
  <2> DEFINE T == S \ {t}
  <2>1. poolStack' \in T /\ unused' \notin T
    BY <1>1, <1>4, <1>6, <1>9 DEF Closed
  <2>2. Closed(T, next')
    BY <1>2, <1>6, <1>8 DEF Closed
  <2>3. \A c \in Cells : next'[c] \in T => c \in T
    BY <1>2, <1>6
  <2>4. \A c \in T : next'[c] = Null => pool'[c] = root'
    BY <1>1, <1>2, <1>6
  <2> HIDE DEF T
  <2>5. T \in SUBSET Cells
    BY DEF T
  <2> QED
    BY <2>1, <2>2, <2>3, <2>4, <2>5 DEF StackedNext
<1>11. Single(next', Cells)
  BY <1>1, <1>2, <1>3, <1>8 DEF Single
<1>12. Unreached(poolStack', next', Cells) /\ Unreached(unused', next', Cells)
  BY <1>1, <1>2, <1>3, <1>4, <1>8, <1>9 DEF Unreached
<1>13. \A c \in Cells : next'[c] # Null => c \in cells' /\ next'[c] \in cells'
  BY <1>1, <1>2, <1>3
<1>14. poolStack' # unused' /\ poolStack' \in cells' /\ (unused' # Null => unused' \in cells')
  BY <1>1, <1>3, <1>4, <1>9
<1> QED
  BY <1>7, <1>10, <1>11, <1>12, <1>13, <1>14, StackInvNext

LEMMA StackInvariance == Spec => [](TypeOK /\ (Kept => StackInv))
<1>1. Init => TypeOK /\ (Kept => StackInv)
  BY InitType, InitStack
<1>2. TypeOK /\ (Kept => StackInv) /\ [Next]_vars => (TypeOK /\ (Kept => StackInv))'
  <2> SUFFICES ASSUME TypeOK, Kept => StackInv, [Next]_vars PROVE TypeOK' /\ (Kept' => StackInv')
    OBVIOUS
  <2>1. TypeOK'
    BY NextType
  <2>2. CASE StackNext
    <3>1. ASSUME NEW p \in Pools, PushReused(p) PROVE StackInv'
      BY <3>1, PushReusedKeepsStack DEF PushReused
    <3>2. ASSUME NEW p \in Pools, PushNew(p) PROVE StackInv'
      BY <3>2, PushNewKeepsStack DEF PushNew
    <3>3. ASSUME Pop PROVE StackInv'
      BY <3>3, PopKeepsStack DEF Pop
    <3> QED
      BY <2>1, <2>2, <3>1, <3>2, <3>3 DEF StackNext
  <2>3. CASE ~StackNext
    <3> SUFFICES ASSUME Kept' PROVE StackInv'
      BY <2>1
    <3>1. /\ root' = root /\ poolStack' = poolStack /\ unused' = unused /\ next' = next
          /\ pool' = pool /\ cells' = cells
      BY <2>3, TreeStepsLeaveStack DEF Kept
    <3>2. StackInv
      BY <3>1 DEF Kept
    <3>3. \A S : Stacked(S) => StackedNext(S)
      BY <3>1, Zenon DEF Stacked, StackedNext
    <3>4. \E S \in SUBSET Cells : StackedNext(S)
      BY <3>2, <3>3 DEF StackInv
    <3>5. \A S \in SUBSET Cells :
            poolStack' \in S /\ (unused' # Null => unused' \in S) /\ Closed(S, next')
              => cells' \subseteq S
      BY <3>1, <3>2 DEF StackInv
    <3>6. /\ poolStack' # unused' /\ poolStack' \in cells' /\ (unused' # Null => unused' \in cells')
          /\ Single(next', Cells)
          /\ Unreached(poolStack', next', Cells) /\ Unreached(unused', next', Cells)
          /\ \A c \in Cells : next'[c] # Null => c \in cells' /\ next'[c] \in cells'
      BY <3>1, <3>2 DEF StackInv
    <3> QED
      BY <3>4, <3>5, <3>6, StackInvNext
  <2> QED
    BY <2>1, <2>2, <2>3
<1> QED
  BY <1>1, <1>2, PTL DEF Spec

\* A walk stays in every set that has its head and is closed under its pointers,
\* and what it meets is such a set.
LEMMA WalkWithin ==
  ASSUME NEW A, NEW w \in Seq(A), NEW link, NEW S, Null \notin A,
         w # <<>> => w[1] \in S, Closed(S, link),
         \A i \in 1 .. Len(w) - 1 : w[i + 1] = link[w[i]]
  PROVE  ToSet(w) \subseteq S
<1>0. Len(w) \in Nat /\ DOMAIN w = 1 .. Len(w) /\ \A i \in 1 .. Len(w) : w[i] \in A
  BY LenProperties, ElementOfSeq
<1> DEFINE Out == {i \in 1 .. Len(w) : w[i] \notin S}
<1>1. SUFFICES ASSUME Out # {} PROVE FALSE
  BY <1>0 DEF ToSet
<1>2. PICK i \in Out : \A j \in Out : i <= j
  <2>1. Out \subseteq Nat
    BY <1>0
  <2> QED
    BY <1>1, <2>1, LeastNatural
<1>3. i # 1 /\ i \in 1 .. Len(w)
  BY <1>0, <1>2, EmptySeq
<1>4. i - 1 \in 1 .. Len(w) - 1 /\ i - 1 \in 1 .. Len(w) /\ (i - 1) + 1 = i /\ ~(i <= i - 1)
  BY <1>0, <1>3
<1>5. w[i - 1] \in S /\ w[i] = link[w[i - 1]] /\ w[i] \in A
  BY <1>0, <1>2, <1>3, <1>4
<1> QED
  BY <1>2, <1>5 DEF Closed

LEMMA WalkIsClosed ==
  ASSUME NEW A, NEW w \in Seq(A), NEW link, w # <<>> => link[Last(w)] = Null,
         \A i \in 1 .. Len(w) - 1 : w[i + 1] = link[w[i]]
  PROVE  Closed(ToSet(w), link)
<1>0. Len(w) \in Nat /\ DOMAIN w = 1 .. Len(w)
  BY LenProperties
<1> SUFFICES ASSUME NEW i \in 1 .. Len(w), link[w[i]] # Null
             PROVE  link[w[i]] \in ToSet(w)
  BY <1>0 DEF Closed, ToSet
<1>1. w # <<>>
  BY <1>0, EmptySeq
<1>2. i # Len(w)
  BY <1>1 DEF Last
<1>3. i \in 1 .. Len(w) - 1 /\ i + 1 \in 1 .. Len(w)
  <2>1. \A n \in Nat : \A k \in 1 .. n : k # n => k \in 1 .. n - 1 /\ k + 1 \in 1 .. n
    OBVIOUS
  <2> QED
    BY <1>0, <1>2, <2>1
<1> QED
  BY <1>0, <1>3 DEF ToSet

\* Until the root pool is cleared, a cell that push takes is on neither the stack nor,
\* afterwards, among the unused ones, and none is forgotten (push and pop of
\* ThreadContext, lines 638 to 668): for any number of cells and of pools, and in
\* whatever order the guest makes and destroys these.
THEOREM CellsKept == Spec => []CellsPartition
<1>1. TypeOK /\ (Kept => StackInv) => CellsPartition
  <2> SUFFICES ASSUME TypeOK, Kept, StackInv
               PROVE  /\ IsInjective(ListFrom(poolStack) \o ListFrom(unused))
                      /\ ToSet(ListFrom(poolStack) \o ListFrom(unused)) = cells
                      /\ pool[Last(ListFrom(poolStack))] = root
    BY DEF CellsPartition
  <2> USE PoolsAssumption
  <2> DEFINE s == ListFrom(poolStack)
             u == ListFrom(unused)
  <2>1. /\ next \in [Cells -> Cells \cup {Null}] /\ poolStack \in Cells /\ unused \in Cells \cup {Null}
        /\ \A x, y \in Cells : next[x] = next[y] /\ next[x] # Null => x = y
        /\ poolStack # Null => \A x \in Cells : next[x] # poolStack
        /\ unused # Null => \A x \in Cells : next[x] # unused
        /\ Null \notin Cells /\ IsFiniteSet(Cells)
    BY DEF TypeOK, StackInv, Single, Unreached
  <2>2. /\ s \in Seq(Cells) /\ IsInjective(s) /\ s # <<>> /\ s[1] = poolStack /\ next[Last(s)] = Null
        /\ \A i \in 1 .. Len(s) - 1 : s[i + 1] = next[s[i]]
    BY <2>1, WalkShape DEF ListFrom
  <2>3. /\ u \in Seq(Cells) /\ IsInjective(u)
        /\ unused = Null => u = <<>>
        /\ unused # Null => u # <<>> /\ u[1] = unused /\ next[Last(u)] = Null
        /\ \A i \in 1 .. Len(u) - 1 : u[i + 1] = next[u[i]]
    BY <2>1, WalkShape DEF ListFrom
  <2> HIDE DEF s, u
  <2>4. PICK S \in SUBSET Cells : Stacked(S)
    BY DEF StackInv
  <2>5. ToSet(s) \subseteq S
    <3>1. s[1] \in S /\ Closed(S, next)
      BY <2>2, <2>4 DEF Stacked
    <3> QED
      BY <2>1, <2>2, <3>1, WalkWithin
  <2>6. ToSet(u) \subseteq Cells \ S
    <3>1. u # <<>> => u[1] \in Cells \ S
      BY <2>1, <2>3, <2>4 DEF Stacked
    <3>2. Closed(Cells \ S, next)
      BY <2>1, <2>4 DEF Stacked, Closed
    <3> QED
      BY <2>1, <2>3, <3>1, <3>2, WalkWithin
  <2>7. IsInjective(s \o u) /\ ToSet(s \o u) = ToSet(s) \cup ToSet(u)
    <3>1. ToSet(s) \cap ToSet(u) = {}
      BY <2>5, <2>6
    <3> QED
      BY <2>2, <2>3, <3>1, JoinedInjective
  <2>8. cells \subseteq ToSet(s \o u)
    <3> DEFINE R == ToSet(s) \cup ToSet(u)
    <3>1. poolStack \in ToSet(s)
      <4>1. Len(s) \in Nat \ {0} /\ DOMAIN s = 1 .. Len(s)
        BY <2>2, EmptySeq, LenProperties
      <4>2. 1 \in 1 .. Len(s)
        BY <4>1
      <4> QED
        BY <2>2, <4>1, <4>2 DEF ToSet
    <3>2. unused # Null => unused \in ToSet(u)
      <4> SUFFICES ASSUME unused # Null PROVE unused \in ToSet(u)
        OBVIOUS
      <4>1. Len(u) \in Nat \ {0} /\ DOMAIN u = 1 .. Len(u)
        BY <2>3, EmptySeq, LenProperties
      <4>2. 1 \in 1 .. Len(u)
        BY <4>1
      <4> QED
        BY <2>3, <4>1, <4>2 DEF ToSet
    <3>3. Closed(ToSet(s), next) /\ Closed(ToSet(u), next)
      BY <2>2, <2>3, WalkIsClosed
    <3>4. Closed(R, next)
      BY <3>3 DEF Closed
    <3>5. R \in SUBSET Cells
      BY <2>5, <2>6
    <3>6. cells \subseteq R
      <4> HIDE DEF R
      <4>1. poolStack \in R /\ (unused # Null => unused \in R)
        BY <3>1, <3>2 DEF R
      <4> QED BY <3>4, <3>5, <4>1 DEF StackInv
    <3> QED
      BY <2>7, <3>6
  <2>9. Last(s) \in Cells /\ pool[Last(s)] = root
    <3>1. Last(s) \in Cells /\ Last(s) \in ToSet(s)
      <4>1. Len(s) \in Nat \ {0} /\ DOMAIN s = 1 .. Len(s)
        BY <2>2, EmptySeq, LenProperties
      <4>2. Len(s) \in 1 .. Len(s)
        BY <4>1
      <4> QED
        BY <2>2, <4>1, <4>2, ElementOfSeq DEF ToSet, Last
    <3> QED
      BY <2>2, <2>4, <2>5, <3>1 DEF Stacked
  <2>10. ToSet(s \o u) \subseteq cells
    <3>1. poolStack \in cells /\ (unused # Null => unused \in cells) /\ Closed(cells, next)
      BY DEF StackInv, Closed, TypeOK
    <3>2. ToSet(s) \subseteq cells
      BY <2>1, <2>2, <3>1, WalkWithin
    <3>3. ToSet(u) \subseteq cells
      BY <2>1, <2>3, <3>1, WalkWithin
    <3> QED
      BY <2>7, <3>2, <3>3
  <2> QED
    BY <2>7, <2>8, <2>9, <2>10 DEF s, u
<1> QED
  BY <1>1, StackInvariance, PTL
-----------------------------------------------------------------------------
(* The tree, when the newest child is destroyed first *)

\* What the invariant says of the state after a step.
LEMMA TreeInvNext ==
  ASSUME \A p \in Pools \ live' : parent'[p] = Null /\ child'[p] = Null /\ sibling'[p] = Null,
         \A p \in Pools : parent'[p] # Null => parent'[p] \in live',
         \A p \in Pools : child'[p] # Null =>
           /\ child'[p] \in live' /\ parent'[child'[p]] = p /\ ref'[child'[p]] = <<"child", p>>,
         \A q \in Pools : sibling'[q] # Null =>
           /\ sibling'[q] \in live' /\ parent'[q] # Null /\ parent'[sibling'[q]] = parent'[q]
           /\ child'[parent'[q]] # sibling'[q],
         Single(sibling', Pools),
         \A p \in live' : \A S \in SUBSET Pools :
           (child'[p] # Null => child'[p] \in S) /\ Closed(S, sibling')
             => \A q \in live' : parent'[q] = p => q \in S
  PROVE  TreeInv'
BY DEF TreeInv, AllListed, Children, Single, Closed

\* The types of the tree's pointers, for the proofs below.
LEMMA TreeTypes ==
  ASSUME TypeOK
  PROVE  /\ live \subseteq Pools /\ Null \notin Pools
         /\ \A q \in Pools : /\ parent[q] \in Pools \cup {Null} /\ child[q] \in Pools \cup {Null}
                             /\ sibling[q] \in Pools \cup {Null}
         /\ DOMAIN parent = Pools /\ DOMAIN child = Pools /\ DOMAIN sibling = Pools
BY PoolsAssumption DEF TypeOK

LEMMA InitTree == Init => TreeInv /\ CallsInv
<1> SUFFICES ASSUME Init PROVE TreeInv /\ CallsInv
  OBVIOUS
<1> USE PoolsAssumption
<1>1. PICK p \in Pools :
        /\ live = {p} /\ work = <<>>
        /\ parent = [q \in Pools |-> Null] /\ child = [q \in Pools |-> Null]
        /\ sibling = [q \in Pools |-> Null]
  BY DEF Init
<1>2. \A q \in Pools : parent[q] = Null /\ child[q] = Null /\ sibling[q] = Null
  BY <1>1
<1>3. TreeInv
  BY <1>1, <1>2 DEF TreeInv, AllListed, Children, Single, Closed
<1>4. CallsInv
  <2>1. Len(work) = 0
    BY <1>1, EmptySeq
  <2>2. \A i \in 1 .. 0 : FALSE
    OBVIOUS
  <2>3. \A i \in 1 .. 0 - 1 : FALSE
    OBVIOUS
  <2> QED
    BY <2>1, <2>2, <2>3 DEF CallsInv
<1> QED
  BY <1>3, <1>4

LEMMA CreateKeepsTree ==
  ASSUME TypeOK, TreeInv, NEW p \in Pools, Create(p)
  PROVE  TreeInv'
<1>1. /\ live' = live \cup {p} /\ p \notin live /\ parent' = parent /\ child' = child
      /\ sibling' = sibling /\ ref' = ref
  BY DEF Create
<1>2. \A q \in Pools : parent[q] # p
  BY <1>1, TreeTypes DEF TreeInv
<1>3. \A a \in live' : \A S \in SUBSET Pools :
         (child'[a] # Null => child'[a] \in S) /\ Closed(S, sibling')
           => \A q \in live' : parent'[q] = a => q \in S
  <2> SUFFICES ASSUME NEW a \in live', NEW S \in SUBSET Pools, child'[a] # Null => child'[a] \in S,
                      Closed(S, sibling'), NEW q \in live', parent'[q] = a
               PROVE  q \in S
    OBVIOUS
  <2>1. a \in live /\ q \in Pools
    BY <1>1, <1>2, TreeTypes
  <2>2. q \in live
    BY <1>1, <2>1, TreeTypes DEF TreeInv
  <2> QED
    BY <1>1, <2>1, <2>2 DEF TreeInv, AllListed, Children
<1>4. /\ \A q \in Pools \ live' : parent'[q] = Null /\ child'[q] = Null /\ sibling'[q] = Null
      /\ \A q \in Pools : parent'[q] # Null => parent'[q] \in live'
      /\ \A a \in Pools : child'[a] # Null =>
           /\ child'[a] \in live' /\ parent'[child'[a]] = a /\ ref'[child'[a]] = <<"child", a>>
      /\ \A q \in Pools : sibling'[q] # Null =>
           /\ sibling'[q] \in live' /\ parent'[q] # Null /\ parent'[sibling'[q]] = parent'[q]
           /\ child'[parent'[q]] # sibling'[q]
      /\ Single(sibling', Pools)
  BY <1>1 DEF TreeInv
<1> QED
  BY <1>3, <1>4, TreeInvNext

\* The new child goes before those there are, none of which pointed at it.
LEMMA MakeChildKeepsTree ==
  ASSUME TypeOK, TreeInv, NEW p \in Pools, NEW above \in Pools, MakeChild(p, above)
  PROVE  TreeInv'
<1> USE TreeTypes
<1> DEFINE first == child[above]
<1>1. /\ p \notin live /\ above \in live /\ p # above /\ live' = live \cup {p}
      /\ parent' = [parent EXCEPT ![p] = above]
      /\ sibling' = [sibling EXCEPT ![p] = first]
      /\ child' = [child EXCEPT ![above] = p]
      /\ ref' = [q \in Pools |-> IF q = p THEN <<"child", above>>
                                 ELSE IF q = first THEN <<"sibling", above>> ELSE ref[q]]
      /\ above # Null
  BY DEF MakeChild
<1>2. first \in Pools \cup {Null} /\ first = child[above]
  OBVIOUS
<1> HIDE DEF first
<1>3. /\ parent'[p] = above /\ sibling'[p] = first /\ child'[above] = p /\ ref'[p] = <<"child", above>>
      /\ \A q \in Pools : q # p => parent'[q] = parent[q] /\ sibling'[q] = sibling[q]
      /\ \A q \in Pools : q # above => child'[q] = child[q]
      /\ \A q \in Pools : q # p /\ q # first => ref'[q] = ref[q]
  BY <1>1 DEF TypeOK
<1> HIDE <1>2
<1>4. parent[p] = Null /\ child[p] = Null /\ sibling[p] = Null /\ p # Null
  BY <1>1 DEF TreeInv
<1>5. \A q \in Pools : parent[q] # p /\ sibling[q] # p /\ child[q] # p
  BY <1>1, <1>4 DEF TreeInv
<1>6. first # Null => first \in live /\ parent[first] = above
  BY <1>2 DEF TreeInv
<1>7. \A q \in Pools \ live' : parent'[q] = Null /\ child'[q] = Null /\ sibling'[q] = Null
  BY <1>1, <1>3 DEF TreeInv
<1>8. \A q \in Pools : parent'[q] # Null => parent'[q] \in live'
  BY <1>1, <1>3 DEF TreeInv
<1>9. ASSUME NEW a \in Pools, child'[a] # Null
      PROVE  /\ child'[a] \in live' /\ parent'[child'[a]] = a /\ ref'[child'[a]] = <<"child", a>>
  <2>1. CASE a = above
    BY <1>1, <1>3, <2>1
  <2>2. CASE a # above
    <3>1. child'[a] = child[a] /\ child[a] \in live /\ parent[child[a]] = a /\ ref[child[a]] = <<"child", a>>
      BY <1>3, <1>9, <2>2 DEF TreeInv
    <3>2. child[a] \in Pools /\ child[a] # p /\ child[a] # first
      BY <1>1, <1>6, <1>9, <2>2, <3>1
    <3> QED
      BY <1>1, <1>3, <3>1, <3>2
  <2> QED
    BY <2>1, <2>2
<1>10. ASSUME NEW q \in Pools, sibling'[q] # Null
       PROVE  /\ sibling'[q] \in live' /\ parent'[q] # Null /\ parent'[sibling'[q]] = parent'[q]
              /\ child'[parent'[q]] # sibling'[q]
  <2>1. CASE q = p
    <3>1. sibling'[q] = first /\ first # Null /\ first # p /\ first \in Pools
      BY <1>1, <1>3, <1>6, <1>10, <2>1
    <3> QED
      BY <1>1, <1>3, <1>6, <2>1, <3>1
  <2>2. CASE q # p
    <3>1. /\ sibling'[q] = sibling[q] /\ sibling[q] \in live /\ parent[q] # Null
          /\ parent[sibling[q]] = parent[q] /\ child[parent[q]] # sibling[q]
      BY <1>3, <1>10, <2>2 DEF TreeInv
    <3>2. sibling[q] # p /\ sibling[q] \in Pools /\ parent[q] \in Pools
      BY <1>1, <3>1
    <3> QED
      BY <1>1, <1>3, <2>2, <3>1, <3>2
  <2> QED
    BY <2>1, <2>2
<1>11. Single(sibling', Pools)
  <2>1. \A q \in Pools : first # Null => sibling[q] # first
    BY <1>2, <1>6 DEF TreeInv
  <2>2. Single(sibling, Pools)
    BY DEF TreeInv
  <2> QED
    BY <1>3, <2>1, <2>2 DEF Single
<1>12. ASSUME NEW a \in live', NEW S \in SUBSET Pools, child'[a] # Null => child'[a] \in S,
              Closed(S, sibling'), NEW q \in live', parent'[q] = a
       PROVE  q \in S
  <2>0. q \in Pools /\ a \in Pools
    BY <1>1
  <2>1. Closed(S, sibling)
    BY <1>3, <1>4, <1>12 DEF Closed
  <2>2. CASE a = above
    <3>1. p \in S
      BY <1>3, <1>4, <1>12, <2>2
    <3>2. first # Null => first \in S
      BY <1>3, <1>12, <3>1 DEF Closed
    <3>3. q # p => q \in live /\ parent[q] = above
      BY <1>1, <1>3, <1>12, <2>0, <2>2
    <3>4. q # p => q \in S
      BY <1>1, <1>2, <2>1, <3>2, <3>3 DEF TreeInv, AllListed, Children
    <3> QED
      BY <3>1, <3>4
  <2>3. CASE a # above
    <3>1. q # p /\ parent[q] = a /\ q \in live
      BY <1>1, <1>3, <1>12, <2>0, <2>3
    <3>2. a \in live
      BY <1>1, <1>5, <2>0, <3>1
    <3>3. child[a] # Null => child[a] \in S
      BY <1>3, <1>12, <2>0, <2>3
    <3> QED
      BY <2>1, <3>1, <3>2, <3>3 DEF TreeInv, AllListed, Children
  <2> QED
    BY <2>2, <2>3
<1> HIDE DEF first
<1> QED
  BY <1>7, <1>8, <1>9, <1>10, <1>11, <1>12, TreeInvNext

\* The pool do_destroy ends with has no children, and is the first of its
\* parent's: what its ref points to is the head of that list.
LEMMA UnlinkEffect ==
  ASSUME TypeOK, TreeInv, CallsInv, Unlink,
         NEW p, p = Last(work).pool
  PROVE  /\ p \in live /\ p \in Pools /\ p # Null /\ live' = live \ {p}
         /\ child[p] = Null /\ (parent[p] # Null => child[parent[p]] = p)
         /\ \A q \in Pools : parent[q] # p
         /\ sibling[p] # p /\ (sibling[p] # Null => parent[p] # Null)
         /\ \A q \in Pools : parent'[q] = IF q = p THEN Null ELSE parent[q]
         /\ \A q \in Pools : child'[q] = IF q = parent[p] THEN sibling[p] ELSE child[q]
         /\ \A q \in Pools : sibling'[q] = IF q = p THEN Null ELSE sibling[q]
         /\ \A q \in Pools : q # p => ref'[q] = IF q = sibling[p] THEN <<"child", parent[p]>> ELSE ref[q]
<1> USE TreeTypes
<1> DEFINE after == IF parent[p] # Null THEN sibling[p] ELSE Null
           at(field) == IF parent[p] # Null /\ ref[p][1] = field THEN ref[p][2] ELSE Null
           atChild == at("child")
           atSibling == at("sibling")
<1>1. /\ work # <<>> /\ ~Last(work).keep /\ child[p] = Null /\ live' = live \ {p}
      /\ child' = [q \in Pools |-> IF q = atChild THEN after ELSE child[q]]
      /\ sibling' = [q \in Pools |-> IF q = p THEN Null
                                     ELSE IF q = atSibling THEN after ELSE sibling[q]]
      /\ ref' = [q \in Pools |-> IF q = p THEN Null ELSE IF q = after THEN ref[p] ELSE ref[q]]
      /\ parent' = [parent EXCEPT ![p] = Null]
  BY DEF Unlink
<1>2. p \in live /\ Newest(p)
  <2>1. Len(work) \in 1 .. Len(work) /\ Last(work) = work[Len(work)]
    BY <1>1, LastCall
  <2> QED
    BY <1>1, <2>1 DEF CallsInv
<1>3. p \in Pools /\ p # Null
  BY <1>2
<1>4. parent[p] # Null => child[parent[p]] = p /\ parent[p] \in Pools /\ ref[p] = <<"child", parent[p]>>
  <2> SUFFICES ASSUME parent[p] # Null
               PROVE  child[parent[p]] = p /\ parent[p] \in Pools /\ ref[p] = <<"child", parent[p]>>
    OBVIOUS
  <2>1. child[parent[p]] = p /\ parent[p] \in Pools
    BY <1>2, <1>3 DEF Newest
  <2> QED
    BY <1>3, <2>1 DEF TreeInv
<1>5. sibling[p] # Null => parent[p] # Null /\ sibling[p] # p
  BY <1>3, <1>4 DEF TreeInv
<1>6. \A q \in Pools : parent[q] # p
  <2> SUFFICES ASSUME NEW q \in Pools, parent[q] = p PROVE FALSE
    OBVIOUS
  <2>1. q \in live
    BY <1>3 DEF TreeInv
  <2>2. q \in Children(p)
    BY <2>1 DEF Children
  <2>3. {} \in SUBSET Pools /\ Closed({}, sibling)
    BY DEF Closed
  <2>4. Children(p) \subseteq {}
    BY <1>1, <1>2, <2>3 DEF TreeInv, AllListed
  <2> QED
    BY <2>2, <2>4
<1>7. after = sibling[p]
  BY <1>5
<1>8. atChild = parent[p] /\ atSibling = Null
  BY <1>4
<1> HIDE DEF after, at, atChild, atSibling
<1>9. \A q \in Pools : child'[q] = IF q = parent[p] THEN sibling[p] ELSE child[q]
  BY <1>1, <1>7, <1>8
<1>10. \A q \in Pools : sibling'[q] = IF q = p THEN Null ELSE sibling[q]
  BY <1>1, <1>8
<1>11. \A q \in Pools : parent'[q] = IF q = p THEN Null ELSE parent[q]
  BY <1>1, <1>3
<1>12. \A q \in Pools : q # p => ref'[q] = IF q = sibling[p] THEN <<"child", parent[p]>> ELSE ref[q]
  <2>1. \A q \in Pools : q = sibling[p] => parent[p] # Null
    BY <1>5
  <2> QED
    BY <1>1, <1>4, <1>7, <2>1
<1> QED
  BY <1>1, <1>2, <1>3, <1>4, <1>5, <1>6, <1>9, <1>10, <1>11, <1>12

LEMMA UnlinkKeepsTree ==
  ASSUME TypeOK, TreeInv, CallsInv, Unlink
  PROVE  TreeInv'
<1> USE TreeTypes
<1> DEFINE EffectOn(p) ==
         /\ p \in live /\ p \in Pools /\ p # Null /\ live' = live \ {p}
         /\ child[p] = Null /\ (parent[p] # Null => child[parent[p]] = p)
         /\ \A q \in Pools : parent[q] # p
         /\ sibling[p] # p /\ (sibling[p] # Null => parent[p] # Null)
         /\ \A q \in Pools : parent'[q] = IF q = p THEN Null ELSE parent[q]
         /\ \A q \in Pools : child'[q] = IF q = parent[p] THEN sibling[p] ELSE child[q]
         /\ \A q \in Pools : sibling'[q] = IF q = p THEN Null ELSE sibling[q]
         /\ \A q \in Pools : q # p => ref'[q] = IF q = sibling[p] THEN <<"child", parent[p]>> ELSE ref[q]
<1>1. PICK p : EffectOn(p)
  BY UnlinkEffect
<1>2. \A q \in Pools : sibling[q] # Null =>
        /\ sibling[q] \in live /\ parent[q] # Null /\ parent[sibling[q]] = parent[q]
        /\ child[parent[q]] # sibling[q]
  BY DEF TreeInv
<1>3. \A q \in Pools : sibling[q] # p
  BY <1>1, <1>2
<1>4. \A q \in Pools : child[q] # Null =>
        child[q] \in live /\ parent[child[q]] = q /\ ref[child[q]] = <<"child", q>>
  BY DEF TreeInv
<1>5. \A q \in Pools \ live' : parent'[q] = Null /\ child'[q] = Null /\ sibling'[q] = Null
  BY <1>1 DEF TreeInv
<1>6. \A q \in Pools : parent'[q] # Null => parent'[q] \in live'
  BY <1>1 DEF TreeInv
<1>7. ASSUME NEW a \in Pools, child'[a] # Null
      PROVE  /\ child'[a] \in live' /\ parent'[child'[a]] = a /\ ref'[child'[a]] = <<"child", a>>
  <2>1. CASE a = parent[p]
    <3>1. child'[a] = sibling[p] /\ sibling[p] # Null
      BY <1>1, <1>7, <2>1
    <3>2. sibling[p] \in live /\ parent[sibling[p]] = a /\ sibling[p] # p /\ sibling[p] \in Pools
      BY <1>1, <1>2, <2>1, <3>1
    <3> QED
      BY <1>1, <2>1, <3>1, <3>2
  <2>2. CASE a # parent[p]
    <3>1. child'[a] = child[a] /\ child[a] # Null
      BY <1>1, <1>7, <2>2
    <3>2. child[a] \in live /\ child[a] \in Pools /\ parent[child[a]] = a /\ ref[child[a]] = <<"child", a>>
      BY <1>4, <3>1
    <3>3. child[a] # p
      BY <2>2, <3>2
    <3>4. child[a] # sibling[p]
      BY <1>1, <1>2, <2>2, <3>1, <3>2
    <3> QED
      BY <1>1, <3>1, <3>2, <3>3, <3>4
  <2> QED
    BY <2>1, <2>2
<1>8. ASSUME NEW q \in Pools, sibling'[q] # Null
      PROVE  /\ sibling'[q] \in live' /\ parent'[q] # Null /\ parent'[sibling'[q]] = parent'[q]
             /\ child'[parent'[q]] # sibling'[q]
  <2>1. q # p /\ sibling'[q] = sibling[q] /\ sibling[q] # Null
    BY <1>1, <1>8
  <2>2. /\ sibling[q] \in live /\ sibling[q] \in Pools /\ parent[q] # Null /\ parent[q] \in Pools
        /\ parent[sibling[q]] = parent[q] /\ child[parent[q]] # sibling[q] /\ sibling[q] # p
    BY <1>2, <1>3, <2>1
  <2>3. sibling[q] # sibling[p]
    BY <1>1, <2>1 DEF TreeInv, Single
  <2> QED
    BY <1>1, <2>1, <2>2, <2>3
<1>9. Single(sibling', Pools)
  <2>1. Single(sibling, Pools)
    BY DEF TreeInv
  <2> QED
    BY <1>1, <2>1 DEF Single
<1>10. ASSUME NEW a \in live', NEW S \in SUBSET Pools, child'[a] # Null => child'[a] \in S,
              Closed(S, sibling'), NEW q \in live', parent'[q] = a
       PROVE  q \in S
  <2>0. q \in live /\ q \in Pools /\ q # p /\ a \in live /\ a \in Pools /\ a # p /\ parent[q] = a
    BY <1>1, <1>10
  <2>1. CASE a = parent[p]
    <3> DEFINE T == S \cup {p}
    <3>1. sibling[p] # Null => sibling[p] \in S
      BY <1>1, <1>10, <2>0, <2>1
    <3>2. Closed(T, sibling)
      BY <1>1, <1>10, <3>1 DEF Closed
    <3>3. child[a] \in T /\ T \in SUBSET Pools
      BY <1>1, <2>0, <2>1
    <3> HIDE DEF T
    <3>4. q \in T
      BY <2>0, <3>2, <3>3 DEF TreeInv, AllListed, Children
    <3> QED
      BY <2>0, <3>4 DEF T
  <2>2. CASE a # parent[p]
    <3> DEFINE T == S \ {p}
    <3>1. child[a] # p
      BY <1>1, <1>4, <2>0, <2>2
    <3>2. child[a] # Null => child[a] \in T
      BY <1>1, <1>10, <2>0, <2>2, <3>1
    <3>3. Closed(T, sibling)
      BY <1>1, <1>3, <1>10 DEF Closed
    <3>4. T \in SUBSET Pools
      OBVIOUS
    <3> HIDE DEF T
    <3>5. q \in T
      BY <2>0, <3>2, <3>3, <3>4 DEF TreeInv, AllListed, Children
    <3> QED
      BY <3>5 DEF T
  <2> QED
    BY <2>1, <2>2
<1> HIDE DEF EffectOn
<1> QED
  BY <1>5, <1>6, <1>7, <1>8, <1>9, <1>10, TreeInvNext
\* The other steps leave the tree as it is.
LEMMA StillTree ==
  ASSUME TypeOK, TreeInv, UNCHANGED tree
  PROVE  TreeInv'
<1>1. live' = live /\ parent' = parent /\ child' = child /\ sibling' = sibling /\ ref' = ref
  BY DEF tree
<1>2. /\ \A p \in Pools \ live : parent[p] = Null /\ child[p] = Null /\ sibling[p] = Null
      /\ \A p \in Pools : parent[p] # Null => parent[p] \in live
      /\ \A p \in Pools : child[p] # Null =>
           /\ child[p] \in live /\ parent[child[p]] = p /\ ref[child[p]] = <<"child", p>>
      /\ \A q \in Pools : sibling[q] # Null =>
           /\ sibling[q] \in live /\ parent[q] # Null /\ parent[sibling[q]] = parent[q]
           /\ child[parent[q]] # sibling[q]
      /\ Single(sibling, Pools)
  BY DEF TreeInv
<1>3. \A p \in live : \A S \in SUBSET Pools :
        (child[p] # Null => child[p] \in S) /\ Closed(S, sibling) => \A q \in live : parent[q] = p => q \in S
  BY DEF TreeInv, AllListed, Children
<1> QED
  BY <1>1, <1>2, <1>3, TreeInvNext

LEMMA CallsInvNext ==
  ASSUME \A i \in 1 .. Len(work') :
           /\ work'[i].pool \in live'
           /\ work'[i].keep \/ (parent'[work'[i].pool] # Null => child'[parent'[work'[i].pool]] = work'[i].pool),
         \A i \in 1 .. Len(work') - 1 : child'[work'[i].pool] = work'[i + 1].pool
  PROVE  CallsInv'
BY DEF CallsInv, Newest

LEMMA NoCalls ==
  ASSUME work' = <<>>
  PROVE  CallsInv'
<1>1. Len(work') = 0
  BY EmptySeq
<1>2. \A i \in 1 .. 0 : FALSE
  OBVIOUS
<1>3. \A i \in 1 .. 0 - 1 : FALSE
  OBVIOUS
<1> QED
  BY <1>1, <1>2, <1>3, CallsInvNext

LEMMA FirstCall ==
  ASSUME TypeOK, AnyOrder = FALSE, NEW p \in Pools, Destroy(p) \/ Clear(p)
  PROVE  CallsInv'
<1>1. /\ p \in live /\ UNCHANGED tree
      /\ \E b \in BOOLEAN : work' = << [pool |-> p, keep |-> b] >> /\ (b \/ Newest(p))
  BY DEF Destroy, Clear
<1>2. PICK b \in BOOLEAN : work' = << [pool |-> p, keep |-> b] >> /\ (b \/ Newest(p))
  BY <1>1
<1>3. Len(work') = 1 /\ work'[1].pool = p /\ work'[1].keep = b
  BY <1>2, OneElement
<1>4. \A i \in 1 .. 1 : i = 1
  OBVIOUS
<1>5. \A i \in 1 .. 1 - 1 : FALSE
  OBVIOUS
<1>6. live' = live /\ parent' = parent /\ child' = child
  BY <1>1 DEF tree
<1>7. b \/ (parent'[p] # Null => child'[parent'[p]] = p)
  BY <1>2, <1>6 DEF Newest
<1> QED
  BY <1>1, <1>3, <1>4, <1>5, <1>6, <1>7, CallsInvNext

LEMMA DestroyChildKeepsCalls ==
  ASSUME TypeOK, TreeInv, CallsInv, DestroyChild
  PROVE  CallsInv'
<1> USE TreeTypes
<1> DEFINE top == Last(work).pool
           e == [pool |-> child[top], keep |-> FALSE]
           n == Len(work)
<1>1. work # <<>> /\ child[top] # Null /\ work' = Append(work, e)
      /\ live' = live /\ parent' = parent /\ child' = child
  BY DEF DestroyChild, tree
<1>2. /\ top \in Pools /\ n \in Nat \ {0} /\ top = work[n].pool /\ work \in Seq(Call)
  BY <1>1, LastCall DEF TypeOK, Call
<1>3. e \in Call /\ e.pool = child[top] /\ e.keep = FALSE
  BY <1>1, <1>2 DEF Call
<1> HIDE DEF e
<1>4. /\ work' \in Seq(Call) /\ Len(work') = n + 1 /\ work'[n + 1] = e
      /\ \A i \in 1 .. n : work'[i] = work[i]
  BY <1>1, <1>2, <1>3, AppendProperties
<1> HIDE DEF n, top
<1>5. /\ child[top] \in live /\ parent[child[top]] = top
  BY <1>1, <1>2 DEF TreeInv
<1>6. ASSUME NEW i \in 1 .. n + 1
      PROVE  /\ work'[i].pool \in live
             /\ work'[i].keep \/ (parent[work'[i].pool] # Null => child[parent[work'[i].pool]] = work'[i].pool)
  <2>1. CASE i = n + 1
    BY <1>3, <1>4, <1>5, <2>1
  <2>2. CASE i # n + 1
    <3>1. i \in 1 .. n
      BY <1>2, <2>2
    <3> QED
      BY <1>4, <3>1 DEF CallsInv, Newest, n
  <2> QED
    BY <2>1, <2>2
<1>7. ASSUME NEW i \in 1 .. (n + 1) - 1 PROVE child[work'[i].pool] = work'[i + 1].pool
  <2>1. i \in 1 .. n
    BY <1>2
  <2>2. CASE i = n
    BY <1>2, <1>3, <1>4, <2>1, <2>2
  <2>3. CASE i # n
    <3>1. i \in 1 .. n - 1 /\ i + 1 \in 1 .. n
      BY <1>2, <2>1, <2>3
    <3> QED
      BY <1>4, <2>1, <3>1 DEF CallsInv, n
  <2> QED
    BY <2>2, <2>3
<1> QED
  BY <1>1, <1>4, <1>6, <1>7, CallsInvNext

\* The call that ends is the last one, and no other is for its pool.
LEMMA EndOfCall ==
  ASSUME TypeOK, TreeInv, CallsInv, Unlink \/ Cleared
  PROVE  CallsInv'
<1> USE TreeTypes
<1> DEFINE p == Last(work).pool
           n == Len(work)
<1>1. work # <<>> /\ work' = Front(work) /\ child[p] = Null
  BY DEF Unlink, Cleared
<1>2. /\ n \in Nat \ {0} /\ p = work[n].pool
      /\ Len(work') = n - 1 /\ \A i \in 1 .. n - 1 : work'[i] = work[i]
  BY <1>1, LastCall
<1>3. /\ \A i \in 1 .. n : /\ work[i].pool \in live
                           /\ work[i].keep \/ Newest(work[i].pool)
      /\ \A i \in 1 .. n - 1 : child[work[i].pool] = work[i + 1].pool
  BY DEF CallsInv
<1>4. \A i \in 1 .. n - 1 : i \in 1 .. n /\ i + 1 \in 1 .. n
  BY <1>2
<1> HIDE DEF n
<1>5. \A i \in 1 .. n - 1 : work[i].pool # p
  BY <1>1, <1>3, <1>4
<1>6. ASSUME Cleared PROVE CallsInv'
  <2>1. live' = live /\ parent' = parent /\ child' = child
    BY <1>6 DEF Cleared, tree
  <2>2. \A i \in 1 .. (n - 1) - 1 : i \in 1 .. n - 1 /\ i + 1 \in 1 .. n - 1
    BY <1>2
  <2> QED
    BY <1>2, <1>3, <1>4, <2>1, <2>2, CallsInvNext, SMTT(30) DEF Newest
<1>7. ASSUME Unlink PROVE CallsInv'
  <2>1. /\ p \in live /\ p \in Pools /\ live' = live \ {p}
        /\ parent[p] # Null => child[parent[p]] = p
        /\ \A q \in Pools : parent'[q] = IF q = p THEN Null ELSE parent[q]
        /\ \A q \in Pools : child'[q] = IF q = parent[p] THEN sibling[p] ELSE child[q]
    BY <1>7, UnlinkEffect
  <2> HIDE DEF p
  <2>2. ASSUME NEW i \in 1 .. n - 1
        PROVE  /\ work'[i].pool \in live'
               /\ work'[i].keep \/ (parent'[work'[i].pool] # Null => child'[parent'[work'[i].pool]] = work'[i].pool)
    <3> DEFINE q == work[i].pool
    <3>1. q \in live /\ q \in Pools /\ q # p /\ work'[i] = work[i] /\ (work[i].keep \/ Newest(q))
      BY <1>2, <1>3, <1>4, <1>5
    <3> HIDE DEF q
    <3>2. Newest(q) => (parent'[q] # Null => child'[parent'[q]] = q)
      BY <2>1, <3>1 DEF Newest
    <3> QED
      BY <2>1, <3>1, <3>2 DEF q
  <2>3. ASSUME NEW i \in 1 .. (n - 1) - 1 PROVE child'[work'[i].pool] = work'[i + 1].pool
    <3>1. i \in 1 .. n - 1 /\ i + 1 \in 1 .. n - 1 /\ i \in 1 .. n
      BY <1>2
    <3>2. work'[i] = work[i] /\ work'[i + 1] = work[i + 1] /\ work[i].pool \in Pools
      BY <1>2, <1>3, <3>1
    <3>3. child[work[i].pool] = work[i + 1].pool /\ work[i + 1].pool # p
      BY <1>3, <1>5, <3>1
    <3>4. work[i].pool # parent[p]
      BY <2>1, <3>2, <3>3
    <3> QED
      BY <2>1, <3>2, <3>3, <3>4
  <2> QED
    BY <1>2, <2>2, <2>3, CallsInvNext
<1> QED
  BY <1>6, <1>7

LEMMA NextTree ==
  ASSUME AnyOrder = FALSE, TypeOK, TreeInv, CallsInv, [Next]_vars
  PROVE  TreeInv' /\ CallsInv'
<1>1. ASSUME NEW p \in Pools, Create(p) PROVE TreeInv' /\ CallsInv'
  BY <1>1, CreateKeepsTree, NoCalls DEF Create
<1>2. ASSUME NEW p \in Pools, NEW above \in Pools, MakeChild(p, above) PROVE TreeInv' /\ CallsInv'
  BY <1>2, MakeChildKeepsTree, NoCalls DEF MakeChild
<1>3. ASSUME NEW p \in Pools, CreateDefault(p) PROVE TreeInv' /\ CallsInv'
  <2>1. MakeChild(p, Top) /\ Top \in Pools
    BY <1>3, TreeTypes DEF CreateDefault, MakeChild
  <2> QED
    BY <1>2, <2>1
<1>4. ASSUME NEW p \in Pools, Destroy(p) \/ Clear(p) PROVE TreeInv' /\ CallsInv'
  <2>1. UNCHANGED tree
    BY <1>4 DEF Destroy, Clear
  <2> QED
    BY <1>4, <2>1, StillTree, FirstCall
<1>5. ASSUME NEW p \in Pools, PushReused(p) \/ PushNew(p) PROVE TreeInv' /\ CallsInv'
  <2>1. UNCHANGED tree /\ work' = <<>>
    BY <1>5 DEF PushReused, PushNew
  <2> QED
    BY <2>1, StillTree, NoCalls
<1>6. ASSUME Pop PROVE TreeInv' /\ CallsInv'
  <2>1. UNCHANGED tree /\ work' = <<>>
    BY <1>6 DEF Pop
  <2> QED
    BY <2>1, StillTree, NoCalls
<1>7. ASSUME Destroying PROVE TreeInv' /\ CallsInv'
  <2>1. CASE DestroyChild
    <3>1. UNCHANGED tree
      BY <2>1 DEF DestroyChild
    <3> QED
      BY <2>1, <3>1, StillTree, DestroyChildKeepsCalls
  <2>2. CASE Unlink
    BY <2>2, UnlinkKeepsTree, EndOfCall
  <2>3. CASE Cleared
    <3>1. UNCHANGED tree
      BY <2>3 DEF Cleared
    <3> QED
      BY <2>3, <3>1, StillTree, EndOfCall
  <2> QED
    BY <1>7, <2>1, <2>2, <2>3 DEF Destroying
<1>8. ASSUME UNCHANGED vars PROVE TreeInv' /\ CallsInv'
  <2>1. UNCHANGED tree /\ work' = work
    BY <1>8 DEF vars, tree
  <2> QED
    BY <2>1, StillTree, CallsInvNext DEF tree, CallsInv, Newest
<1> QED
  BY <1>1, <1>2, <1>3, <1>4, <1>5, <1>6, <1>7, <1>8 DEF Next

LEMMA TreeInvariance == AnyOrder = FALSE => (Spec => [](TypeOK /\ TreeInv /\ CallsInv))
<1> SUFFICES ASSUME AnyOrder = FALSE PROVE Spec => [](TypeOK /\ TreeInv /\ CallsInv)
  OBVIOUS
<1>1. Init => TypeOK /\ TreeInv /\ CallsInv
  BY InitType, InitTree
<1>2. TypeOK /\ TreeInv /\ CallsInv /\ [Next]_vars
        => (TypeOK /\ TreeInv /\ CallsInv)'
  BY NextType, NextTree
<1> QED
  BY <1>1, <1>2, PTL DEF Spec
-----------------------------------------------------------------------------
(* What follows for the tree *)

\* The list of a pool's children is exact, also in the middle of a destruction:
\* for any number of pools, when the guest destroys the newest child first.
THEOREM ChildListsKept == AnyOrder = FALSE => (Spec => []ChildListExact)
<1> SUFFICES ASSUME AnyOrder = FALSE PROVE Spec => []ChildListExact
  OBVIOUS
<1>1. TypeOK /\ TreeInv => ChildListExact
  <2> SUFFICES ASSUME TypeOK, TreeInv, NEW p \in live
               PROVE  IsInjective(ChildList(p)) /\ ToSet(ChildList(p)) = {q \in live : parent[q] = p}
    BY DEF ChildListExact
  <2> USE PoolsAssumption
  <2> DEFINE w == ChildList(p)
  <2>0. p \in Pools /\ Null \notin Pools
    BY TreeTypes
  <2>1. /\ sibling \in [Pools -> Pools \cup {Null}] /\ child[p] \in Pools \cup {Null}
        /\ \A x, y \in Pools : sibling[x] = sibling[y] /\ sibling[x] # Null => x = y
        /\ child[p] # Null => \A x \in Pools : sibling[x] # child[p]
        /\ IsFiniteSet(Pools)
    BY <2>0 DEF TypeOK, TreeInv, Single
  <2>2. /\ w \in Seq(Pools) /\ IsInjective(w)
        /\ child[p] = Null => w = <<>>
        /\ child[p] # Null => w # <<>> /\ w[1] = child[p] /\ sibling[Last(w)] = Null
        /\ \A i \in 1 .. Len(w) - 1 : w[i + 1] = sibling[w[i]]
    BY <2>0, <2>1, WalkShape DEF ChildList
  <2> HIDE DEF w
  <2>3. ToSet(w) \subseteq Children(p)
    <3>1. w # <<>> => w[1] \in Children(p)
      BY <2>0, <2>2 DEF TreeInv, Children
    <3>2. Closed(Children(p), sibling)
      BY <2>0, TreeTypes DEF Closed, Children, TreeInv
    <3> QED
      BY <2>0, <2>2, <3>1, <3>2, WalkWithin
  <2>4. Children(p) \subseteq ToSet(w)
    <3>1. Closed(ToSet(w), sibling)
      BY <2>2, WalkIsClosed
    <3>2. child[p] # Null => child[p] \in ToSet(w)
      <4> SUFFICES ASSUME child[p] # Null PROVE child[p] \in ToSet(w)
        OBVIOUS
      <4>1. Len(w) \in Nat \ {0} /\ DOMAIN w = 1 .. Len(w)
        BY <2>2, EmptySeq, LenProperties
      <4>2. 1 \in 1 .. Len(w)
        BY <4>1
      <4> QED
        BY <2>2, <4>1, <4>2 DEF ToSet
    <3>3. ToSet(w) \in SUBSET Pools
      BY <2>3, TreeTypes DEF Children
    <3> QED
      BY <3>1, <3>2, <3>3 DEF TreeInv, AllListed
  <2> QED
    BY <2>2, <2>3, <2>4 DEF w, Children
<1>2. Spec => [](TypeOK /\ TreeInv /\ CallsInv)
  BY TreeInvariance
<1> QED
  BY <1>1, <1>2, PTL

\* No pool goes before the pools below it: the recursive destruction with its
\* pointers implements the forest.
THEOREM ForestImplemented == AnyOrder = FALSE => (Spec => ImplementsForest)
<1> SUFFICES ASSUME AnyOrder = FALSE PROVE Spec => ImplementsForest
  OBVIOUS
<1>1. Init => Forest!Init
  BY DEF Init, Forest!Init
<1>2. TypeOK /\ TreeInv /\ CallsInv /\ [Next]_vars => [Forest!Next]_<<live, parent>>
  <2> SUFFICES ASSUME TypeOK, TreeInv, CallsInv, [Next]_vars,
                      ~ UNCHANGED <<live, parent>>
               PROVE  Forest!Next
    OBVIOUS
  <2>1. ASSUME NEW p \in Pools, Create(p) PROVE Forest!Next
    <3>1. p \notin live /\ live' = live \cup {p} /\ parent' = parent
      BY <2>1 DEF Create
    <3>2. parent' = [parent EXCEPT ![p] = Null]
      BY <3>1 DEF TypeOK, TreeInv
    <3>3. Forest!Create(p, Null)
      BY <3>1, <3>2 DEF Forest!Create
    <3> QED
      BY <3>3 DEF Forest!Next
  <2>2. ASSUME NEW p \in Pools, NEW above \in Pools, MakeChild(p, above) PROVE Forest!Next
    <3>1. Forest!Create(p, above)
      BY <2>2 DEF MakeChild, Forest!Create
    <3> QED
      BY <3>1 DEF Forest!Next
  <2>3. ASSUME NEW p \in Pools, CreateDefault(p) PROVE Forest!Next
    <3>1. MakeChild(p, Top) /\ Top \in Pools
      BY <2>3, TreeTypes DEF CreateDefault, MakeChild
    <3> QED
      BY <2>2, <3>1
  <2>4. ASSUME Unlink PROVE Forest!Next
    <3>1. PICK p : p = Last(work).pool
      OBVIOUS
    <3>2. /\ p \in live /\ p \in Pools /\ live' = live \ {p}
          /\ \A q \in Pools : parent[q] # p
      BY <2>4, <3>1, UnlinkEffect
    <3>3. parent' = [parent EXCEPT ![p] = Null]
      BY <2>4, <3>1 DEF Unlink
    <3>4. Forest!Destroy(p)
      BY <3>2, <3>3, TreeTypes DEF Forest!Destroy
    <3> QED
      BY <3>2, <3>4 DEF Forest!Next
  <2>5. ASSUME NEW p \in Pools, Destroy(p) \/ Clear(p) \/ PushReused(p) \/ PushNew(p) PROVE FALSE
    BY <2>5 DEF Destroy, Clear, PushReused, PushNew, tree
  <2>6. ASSUME Pop \/ DestroyChild \/ Cleared PROVE FALSE
    BY <2>6 DEF Pop, DestroyChild, Cleared, tree
  <2>7. ~ UNCHANGED vars
    BY DEF vars
  <2> QED
    BY <2>1, <2>2, <2>3, <2>4, <2>5, <2>6, <2>7 DEF Next, Destroying
<1>3. Spec => [](TypeOK /\ TreeInv /\ CallsInv)
  BY TreeInvariance
<1> QED
  BY <1>1, <1>2, <1>3, PTL DEF Spec, ImplementsForest, Forest!Spec, Forest!vars
=============================================================================
