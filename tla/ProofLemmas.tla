----------------------------- MODULE ProofLemmas -----------------------------
(***************************************************************************)
(* Facts about numbers and sequences that the proofs of several modules    *)
(* rest on: what Min, Max, Front and Last return, and that every set of    *)
(* natural numbers has a least one, from which inductions are made.        *)
(***************************************************************************)
EXTENDS Integers, SequencesExt, FiniteSetsExt, SequenceTheorems, WellFoundedInduction, TLAPS

-----------------------------------------------------------------------------
(* Least and greatest numbers *)

\* Every set of natural numbers has a least one: what induction rests on here.
LEMMA LeastNatural ==
  ASSUME NEW S, S \subseteq Nat, S # {}
  PROVE  \E m \in S : \A n \in S : m <= n
<1> DEFINE Less == OpToRel(<, Nat)
<1>1. IsWellFoundedOn(Less, Nat)
  BY NatLessThanWellFounded
<1>2. \E m \in S : \A n \in S : ~(<<n, m>> \in Less)
  <2> HIDE DEF Less
  <2> QED BY <1>1, WFMin
<1>3. \A m, n \in S : n < m => <<n, m>> \in Less
  BY DEF OpToRel
<1>4. \A m, n \in S : ~(n < m) => m <= n
  OBVIOUS
<1> HIDE DEF Less
<1> QED
  BY <1>2, <1>3, <1>4, Zenon

\* Min, which the searches of alloc are written with, finds it.
LEMMA MinOfNaturals ==
  ASSUME NEW S, S \subseteq Nat, S # {}
  PROVE  Min(S) \in S /\ \A n \in S : Min(S) <= n
BY LeastNatural DEF Min

\* Max finds the greatest of numbers that do not exceed a bound.
LEMMA MaxOfNaturals ==
  ASSUME NEW S, S \subseteq Nat, S # {}, NEW N \in Nat, \A n \in S : n <= N
  PROVE  Max(S) \in S /\ \A n \in S : n <= Max(S)
<1> DEFINE T == {N - n : n \in S}
<1>0. \A n \in S : n \in Nat /\ N - n \in Nat
  OBVIOUS
<1>1. T \subseteq Nat /\ T # {}
  BY <1>0
<1>2. PICK l \in T : \A x \in T : l <= x
  BY <1>1, LeastNatural
<1>3. PICK m \in S : l = N - m
  OBVIOUS
<1>4. \A n \in S : N - m <= N - n
  BY <1>2, <1>3
<1>5. \A n \in S : m >= n
  BY <1>0, <1>4
<1>6. Max(S) \in S /\ \A n \in S : Max(S) >= n
  BY <1>5 DEF Max
<1> QED
  BY <1>6
-----------------------------------------------------------------------------
(* Sequences *)

\* Front leaves out the last element and keeps the others.
LEMMA FrontOfSeq ==
  ASSUME NEW S, NEW s \in Seq(S), s # <<>>
  PROVE  /\ Front(s) \in Seq(S)
         /\ Len(s) \in Nat \ {0}
         /\ Len(Front(s)) = Len(s) - 1
         /\ \A i \in 1 .. Len(s) - 1 : Front(s)[i] = s[i]
         /\ Last(s) = s[Len(s)]
         /\ Last(s) \in S
         /\ Front(s) # <<>> => Last(Front(s)) = s[Len(s) - 1]
<1>1. Len(s) \in Nat \ {0} /\ \A i \in 1 .. Len(s) : s[i] \in S
  BY EmptySeq, ElementOfSeq
<1>2. \A i \in 1 .. Len(s) - 1 : s[i] \in S
  BY <1>1
<1>3. /\ SubSeq(s, 1, Len(s) - 1) \in Seq(S)
      /\ Len(SubSeq(s, 1, Len(s) - 1)) = Len(s) - 1
      /\ \A i \in 1 .. Len(s) - 1 : SubSeq(s, 1, Len(s) - 1)[i] = s[i]
  <2> DEFINE n == Len(s) - 1
  <2>1. n \in Int /\ n >= 0 /\ 1 \in Int /\ \A i \in 1 .. n : s[i] \in S
    BY <1>1, <1>2
  <2> HIDE DEF n
  <2>2. /\ SubSeq(s, 1, n) \in Seq(S)
        /\ Len(SubSeq(s, 1, n)) = IF 1 <= n THEN n - 1 + 1 ELSE 0
        /\ \A i \in 1 .. n - 1 + 1 : SubSeq(s, 1, n)[i] = s[1 + i - 1]
    BY <2>1, SubSeqProperties
  <2>3. Len(SubSeq(s, 1, n)) = n /\ \A i \in 1 .. n : SubSeq(s, 1, n)[i] = s[i]
    BY <2>1, <2>2
  <2> QED
    BY <2>2, <2>3 DEF n
<1>4. Front(s) = SubSeq(s, 1, Len(s) - 1) /\ Last(s) = s[Len(s)]
  BY DEF Front, Last
<1> QED
  BY <1>1, <1>3, <1>4, EmptySeq DEF Last

\* Append adds one that is the last.
LEMMA LastOfAppend ==
  ASSUME NEW S, NEW s \in Seq(S), NEW e \in S
  PROVE  Append(s, e) # <<>> /\ Last(Append(s, e)) = e
BY AppendProperties DEF Last

\* A sequence is one of the set its elements are in.
LEMMA InSeqOf ==
  ASSUME NEW S, NEW T, NEW s \in Seq(S), \A j \in 1 .. Len(s) : s[j] \in T
  PROVE  s \in Seq(T)
<1>1. Len(s) \in Nat /\ s \in [1 .. Len(s) -> S]
  BY LenProperties
<1>2. s \in [1 .. Len(s) -> T]
  BY <1>1
<1> QED
  BY <1>1, <1>2, SeqDef

\* A sequence of one element.
LEMMA OneElement ==
  ASSUME NEW S, NEW e \in S
  PROVE  /\ <<e>> \in Seq(S) /\ Len(<<e>>) = 1 /\ <<e>>[1] = e
         /\ ToSet(<<e>>) = {e}
BY DEF ToSet

\* Putting an element before a sequence moves the others by one.
LEMMA Prepended ==
  ASSUME NEW S, NEW s \in Seq(S), NEW e \in S
  PROVE  /\ <<e>> \o s \in Seq(S)
         /\ Len(<<e>> \o s) = Len(s) + 1
         /\ (<<e>> \o s)[1] = e
         /\ \A j \in 2 .. Len(s) + 1 : (<<e>> \o s)[j] = s[j - 1]
<1>1. <<e>> \in Seq(S) /\ Len(<<e>>) = 1 /\ <<e>>[1] = e /\ Len(s) \in Nat
  BY OneElement, LenProperties
<1> DEFINE one == <<e>>
<1> HIDE DEF one
<1>2. /\ one \o s \in Seq(S)
      /\ Len(one \o s) = Len(one) + Len(s)
      /\ \A i \in 1 .. Len(one) + Len(s) :
           (one \o s)[i] = IF i <= Len(one) THEN one[i] ELSE s[i - Len(one)]
  BY <1>1, ConcatProperties DEF one
<1>3. one \in Seq(S) /\ Len(one) = 1 /\ one[1] = e
  BY <1>1 DEF one
<1>4. /\ one \o s \in Seq(S)
      /\ Len(one \o s) = Len(s) + 1
      /\ (one \o s)[1] = e
      /\ \A j \in 2 .. Len(s) + 1 : (one \o s)[j] = s[j - 1]
  BY <1>1, <1>2, <1>3
<1> QED
  BY <1>4 DEF one

\* InsertAt moves those from the place on by one.
LEMMA Inserted ==
  ASSUME NEW S, NEW s \in Seq(S), NEW e \in S, NEW i \in 1 .. Len(s) + 1
  PROVE  /\ InsertAt(s, i, e) \in Seq(S)
         /\ Len(InsertAt(s, i, e)) = Len(s) + 1
         /\ \A j \in 1 .. Len(s) + 1 :
              InsertAt(s, i, e)[j] = IF j < i THEN s[j] ELSE IF j = i THEN e ELSE s[j - 1]
<1>0. /\ Len(s) \in Nat /\ (\A j \in 1 .. Len(s) : s[j] \in S)
      /\ i \in Nat /\ 1 <= i /\ i <= Len(s) + 1
  BY LenProperties, ElementOfSeq
<1> DEFINE before == SubSeq(s, 1, i - 1)
           after == SubSeq(s, i, Len(s))
           tail == <<e>> \o after
           n == i - 1
<1>1. before \in Seq(S) /\ Len(before) = i - 1 /\ \A j \in 1 .. i - 1 : before[j] = s[j]
  <2>1. n \in Int /\ 1 \in Int /\ n >= 0 /\ \A j \in 1 .. n : s[j] \in S
    BY <1>0
  <2> HIDE DEF n
  <2>2. /\ SubSeq(s, 1, n) \in Seq(S)
        /\ Len(SubSeq(s, 1, n)) = IF 1 <= n THEN n - 1 + 1 ELSE 0
        /\ \A j \in 1 .. n - 1 + 1 : SubSeq(s, 1, n)[j] = s[1 + j - 1]
    BY <2>1, SubSeqProperties
  <2>3. Len(SubSeq(s, 1, n)) = n /\ \A j \in 1 .. n : SubSeq(s, 1, n)[j] = s[j]
    BY <2>1, <2>2
  <2> QED
    BY <2>2, <2>3 DEF n
<1>2. /\ after \in Seq(S) /\ Len(after) = Len(s) - i + 1
      /\ \A j \in 1 .. Len(s) - i + 1 : after[j] = s[i + j - 1]
  <2>1. i \in Int /\ Len(s) \in Int /\ \A j \in i .. Len(s) : s[j] \in S
    BY <1>0
  <2>2. /\ SubSeq(s, i, Len(s)) \in Seq(S)
        /\ Len(SubSeq(s, i, Len(s))) = IF i <= Len(s) THEN Len(s) - i + 1 ELSE 0
        /\ \A j \in 1 .. Len(s) - i + 1 : SubSeq(s, i, Len(s))[j] = s[i + j - 1]
    BY <2>1, SubSeqProperties
  <2> QED
    BY <1>0, <2>2
<1> HIDE DEF before, after
<1>3. /\ tail \in Seq(S) /\ Len(tail) = Len(after) + 1 /\ tail[1] = e
      /\ \A j \in 2 .. Len(after) + 1 : tail[j] = after[j - 1]
  BY <1>2, Prepended
<1>4. \A j \in 2 .. Len(s) - i + 2 : tail[j] = s[i + j - 2]
  BY <1>0, <1>2, <1>3
<1> HIDE DEF tail
<1>5. /\ before \o tail \in Seq(S)
      /\ Len(before \o tail) = Len(before) + Len(tail)
      /\ \A j \in 1 .. Len(before) + Len(tail) :
           (before \o tail)[j] = IF j <= Len(before) THEN before[j] ELSE tail[j - Len(before)]
  BY <1>1, <1>3, ConcatProperties
<1>6. InsertAt(s, i, e) = before \o tail
  <2>1. before \in Seq(S) /\ <<e>> \in Seq(S) /\ after \in Seq(S)
    BY <1>1, <1>2, OneElement
  <2>2. (before \o <<e>>) \o after = before \o (<<e>> \o after)
    BY <2>1, ConcatAssociative
  <2> QED
    BY <2>2 DEF InsertAt, before, tail, after
<1>7. \A j \in 1 .. Len(s) + 1 :
        (before \o tail)[j] = IF j < i THEN s[j] ELSE IF j = i THEN e ELSE s[j - 1]
  <2> TAKE j \in 1 .. Len(s) + 1
  <2>0. /\ (before \o tail)[j] = IF j <= i - 1 THEN before[j] ELSE tail[j - (i - 1)]
        /\ j \in Nat /\ 1 <= j /\ j <= Len(s) + 1
    BY <1>0, <1>1, <1>2, <1>3, <1>5
  <2>1. CASE j < i
    BY <1>0, <1>1, <2>0, <2>1
  <2>2. CASE j = i
    BY <1>0, <1>3, <2>0, <2>2
  <2>3. CASE j > i
    <3>1. j - (i - 1) \in 2 .. Len(s) - i + 2 /\ i + (j - (i - 1)) - 2 = j - 1
      BY <1>0, <2>0, <2>3
    <3>2. tail[j - (i - 1)] = s[j - 1]
      BY <1>4, <3>1
    <3> QED
      BY <1>0, <2>0, <2>3, <3>2
  <2> QED
    BY <1>0, <2>0, <2>1, <2>2, <2>3
<1> QED
  BY <1>0, <1>1, <1>2, <1>3, <1>5, <1>6, <1>7, SMTT(30)

\* RemoveAt of the only element leaves nothing.
LEMMA RemovedOnly ==
  ASSUME NEW S, NEW s \in Seq(S), Len(s) <= 1, NEW i \in 1 .. Len(s)
  PROVE  RemoveAt(s, i) = <<>>
<1>1. Len(s) \in Nat
  BY LenProperties
<1>2. Len(s) = 1 /\ i = 1
  <2>1. \A n \in Nat : n <= 1 => \A k \in 1 .. n : n = 1 /\ k = 1
    OBVIOUS
  <2> QED
    BY <1>1, <2>1, Zenon
<1>3. SubSeq(s, 1, 1 - 1) = <<>> /\ SubSeq(s, 1 + 1, 1) = <<>>
  BY SubSeqEmpty
<1>4. <<>> \o <<>> = <<>>
  BY EmptySeq, ConcatEmptySeq
<1> QED
  BY <1>2, <1>3, <1>4 DEF RemoveAt

\* Two sequences without a common element and without a repetition, joined.
LEMMA JoinedInjective ==
  ASSUME NEW A, NEW s \in Seq(A), NEW t \in Seq(A), IsInjective(s), IsInjective(t),
         ToSet(s) \cap ToSet(t) = {}
  PROVE  /\ IsInjective(s \o t)
         /\ ToSet(s \o t) = ToSet(s) \cup ToSet(t)
<1> DEFINE m == Len(s)
           n == Len(t)
           w == s \o t
<1>1. /\ m \in Nat /\ n \in Nat /\ DOMAIN s = 1 .. m /\ DOMAIN t = 1 .. n
      /\ w \in Seq(A) /\ Len(w) = m + n
      /\ \A i \in 1 .. m + n : w[i] = IF i <= m THEN s[i] ELSE t[i - m]
  BY LenProperties, ConcatProperties
<1>2. DOMAIN w = 1 .. m + n
  <2> HIDE DEF w, m, n
  <2> QED BY <1>1, LenProperties
<1> HIDE DEF w, m, n
<1>3. \A i \in 1 .. m + n :
        /\ i <= m => i \in 1 .. m /\ w[i] = s[i] /\ w[i] \in ToSet(s)
        /\ ~(i <= m) => i - m \in 1 .. n /\ w[i] = t[i - m] /\ w[i] \in ToSet(t)
  <2> TAKE i \in 1 .. m + n
  <2>1. CASE i <= m
    <3>1. i \in 1 .. m
      BY <1>1, <2>1
    <3> QED
      BY <1>1, <2>1, <3>1 DEF ToSet
  <2>2. CASE ~(i <= m)
    <3>1. i - m \in 1 .. n
      BY <1>1, <2>2
    <3> QED
      BY <1>1, <2>2, <3>1 DEF ToSet
  <2> QED
    BY <2>1, <2>2
<1>4. IsInjective(w)
  <2> SUFFICES ASSUME NEW i \in 1 .. m + n, NEW j \in 1 .. m + n, w[i] = w[j] PROVE i = j
    BY <1>2 DEF IsInjective
  <2>1. CASE i <= m /\ j <= m
    BY <1>1, <1>3, <2>1 DEF IsInjective
  <2>2. CASE ~(i <= m) /\ ~(j <= m)
    <3>1. i - m = j - m
      BY <1>1, <1>3, <2>2 DEF IsInjective
    <3> QED
      BY <1>1, <3>1
  <2>3. CASE (i <= m /\ ~(j <= m)) \/ (~(i <= m) /\ j <= m)
    BY <1>3, <2>3
  <2> QED
    BY <2>1, <2>2, <2>3
<1>5. ASSUME NEW x \in ToSet(s) PROVE x \in ToSet(w)
  <2>1. PICK i \in 1 .. m : x = s[i]
    BY <1>1 DEF ToSet
  <2>2. i \in 1 .. m + n /\ i <= m
    BY <1>1
  <2> QED
    BY <1>2, <1>3, <2>1, <2>2 DEF ToSet
<1>6. ASSUME NEW x \in ToSet(t) PROVE x \in ToSet(w)
  <2>1. PICK i \in 1 .. n : x = t[i]
    BY <1>1 DEF ToSet
  <2>2. i + m \in 1 .. m + n /\ ~(i + m <= m) /\ (i + m) - m = i
    BY <1>1
  <2>3. w[i + m] = x
    BY <1>3, <2>1, <2>2
  <2> QED
    BY <1>2, <2>2, <2>3 DEF ToSet
<1>7. ASSUME NEW x \in ToSet(w) PROVE x \in ToSet(s) \cup ToSet(t)
  BY <1>2, <1>3 DEF ToSet
<1> QED
  BY <1>4, <1>5, <1>6, <1>7 DEF w

-----------------------------------------------------------------------------
(* Functions on the natural numbers *)

\* What a step function leads to from a start, for every number of steps.
LEMMA Iterates ==
  ASSUME NEW A, NEW step \in [A -> A], NEW start \in A
  PROVE  \E f \in [Nat -> A] : /\ f[0] = start
                               /\ \A k \in Nat \ {0} : f[k] = step[f[k - 1]]
<1> DEFINE Good(g, n) == /\ g \in [Nat -> A] /\ g[0] = start
                         /\ \A k \in 1 .. n : g[k] = step[g[k - 1]]
<1>1. \A n \in Nat : \E g : Good(g, n)
  <2> DEFINE Bad == {n \in Nat : ~ \E g : Good(g, n)}
  <2>1. SUFFICES ASSUME Bad # {} PROVE FALSE
    OBVIOUS
  <2>2. PICK n \in Bad : \A m \in Bad : n <= m
    <3> HIDE DEF Good
    <3>1. Bad \subseteq Nat
      OBVIOUS
    <3> HIDE DEF Bad
    <3> QED BY <2>1, <3>1, LeastNatural
  <2>3. n # 0
    <3>1. Good([k \in Nat |-> start], 0)
      OBVIOUS
    <3> HIDE DEF Good
    <3> QED BY <3>1
  <2>4. n - 1 \in Nat /\ n \in Nat /\ ~(n <= n - 1)
    BY <2>3
  <2>5. PICK g : Good(g, n - 1)
    <3> HIDE DEF Good
    <3> QED BY <2>2, <2>4
  <2>6. Good([g EXCEPT ![n] = step[g[n - 1]]], n)
    <3> DEFINE h == [g EXCEPT ![n] = step[g[n - 1]]]
    <3>1. g \in [Nat -> A] /\ g[n - 1] \in A /\ step[g[n - 1]] \in A
      BY <2>4, <2>5
    <3>2. h \in [Nat -> A] /\ h[n] = step[g[n - 1]] /\ \A k \in Nat : k # n => h[k] = g[k]
      BY <2>4, <3>1
    <3> HIDE DEF h
    <3>3. h[0] = start
      BY <2>3, <2>5, <3>2
    <3>4. ASSUME NEW k \in 1 .. n PROVE h[k] = step[h[k - 1]]
      <4>1. k - 1 \in Nat /\ k - 1 # n /\ k \in Nat
        BY <2>4
      <4>2. CASE k = n
        BY <3>2, <4>1, <4>2
      <4>3. CASE k # n
        <5>1. k \in 1 .. n - 1
          BY <2>4, <4>3
        <5> QED
          BY <2>5, <3>2, <4>1, <4>3, <5>1
      <4> QED
        BY <4>2, <4>3
    <3> QED
      BY <3>2, <3>3, <3>4 DEF h
  <2> HIDE DEF Good
  <2> QED BY <2>2, <2>6
<1>2. ASSUME NEW n \in Nat, NEW m \in Nat, NEW g, NEW h, Good(g, n), Good(h, m),
             NEW k \in Nat, k <= n, k <= m
      PROVE  g[k] = h[k]
  <2> DEFINE Bad == {i \in Nat : i <= n /\ i <= m /\ g[i] # h[i]}
  <2>1. SUFFICES ASSUME Bad # {} PROVE FALSE
    BY <1>2
  <2>2. Bad \subseteq Nat
    OBVIOUS
  <2>3. PICK i \in Bad : \A j \in Bad : i <= j
    <3> HIDE DEF Bad
    <3> QED BY <2>1, <2>2, LeastNatural
  <2>4. i # 0 /\ i \in Nat /\ i <= n /\ i <= m
    BY <1>2
  <2>5. i - 1 \in Nat /\ i \in 1 .. n /\ i \in 1 .. m /\ i - 1 <= n /\ i - 1 <= m /\ ~(i <= i - 1)
    BY <2>4
  <2>6. g[i - 1] = h[i - 1]
    BY <2>3, <2>5
  <2>7. g[i] = step[g[i - 1]] /\ h[i] = step[h[i - 1]]
    BY <1>2, <2>5
  <2> QED
    BY <2>6, <2>7
<1> DEFINE G(n) == CHOOSE g : Good(g, n)
           f == [n \in Nat |-> G(n)[n]]
<1>3. \A n \in Nat : Good(G(n), n)
  <2> HIDE DEF Good
  <2> QED BY <1>1
<1>4. f \in [Nat -> A] /\ f[0] = start
  <2>1. \A n \in Nat : G(n)[n] \in A
    <3> HIDE DEF G
    <3> QED BY <1>3
  <2>2. G(0)[0] = start
    <3> HIDE DEF G
    <3> QED BY <1>3
  <2> HIDE DEF Good, G
  <2> QED BY <2>1, <2>2
<1>5. ASSUME NEW n \in Nat, n # 0 PROVE f[n] = step[f[n - 1]]
  <2>1. n - 1 \in Nat /\ n \in 1 .. n /\ n - 1 <= n /\ n - 1 <= n - 1
    BY <1>5
  <2>2. Good(G(n), n) /\ Good(G(n - 1), n - 1)
    <3> HIDE DEF Good, G
    <3> QED BY <1>3, <2>1
  <2>3. G(n)[n] = step[G(n)[n - 1]]
    <3> HIDE DEF G
    <3> QED BY <2>1, <2>2
  <2>4. G(n)[n - 1] = G(n - 1)[n - 1]
    <3> HIDE DEF Good, G
    <3> QED BY <1>2, <2>1, <2>2
  <2> HIDE DEF Good, G
  <2> QED BY <2>1, <2>3, <2>4
<1> HIDE DEF f
<1> QED
  BY <1>4, <1>5
-----------------------------------------------------------------------------
(* Lists that lose or get an element *)

\* A list without its first node.
LEMMA TailOfList ==
  ASSUME NEW S, NEW s \in Seq(S), s # <<>>
  PROVE  /\ ToSet(s) = ToSet(Tail(s)) \cup {Head(s)}
         /\ IsInjective(s) => IsInjective(Tail(s)) /\ Head(s) \notin ToSet(Tail(s))
<1>1. /\ Len(s) \in Nat \ {0} /\ DOMAIN s = 1 .. Len(s) /\ Head(s) = s[1]
      /\ Tail(s) \in Seq(S) /\ Len(Tail(s)) = Len(s) - 1
      /\ \A i \in 1 .. Len(s) - 1 : Tail(s)[i] = s[i + 1]
  BY HeadTailProperties, EmptySeq, LenProperties
<1>2. DOMAIN Tail(s) = 1 .. Len(s) - 1
  BY <1>1, LenProperties
<1> DEFINE r == Tail(s)
<1> HIDE DEF r
<1>3. \A i \in 1 .. Len(s) - 1 : i + 1 \in 1 .. Len(s) /\ i + 1 # 1
  BY <1>1
<1>4. IsInjective(s) => \A i, j \in 1 .. Len(s) : s[i] = s[j] => i = j
  BY <1>1 DEF IsInjective
<1>5. ASSUME IsInjective(s) PROVE IsInjective(r)
  <2> SUFFICES ASSUME NEW i \in 1 .. Len(s) - 1, NEW j \in 1 .. Len(s) - 1, r[i] = r[j]
               PROVE  i = j
    BY <1>2 DEF IsInjective, r
  <2>1. s[i + 1] = s[j + 1]
    BY <1>1 DEF r
  <2>2. i + 1 = j + 1
    BY <1>3, <1>4, <1>5, <2>1
  <2> QED
    BY <2>2
<1>6. \A n : n \in ToSet(r) <=> \E i \in 1 .. Len(s) - 1 : n = s[i + 1]
  BY <1>1, <1>2 DEF ToSet, r
<1>7. \A n : n \in ToSet(s) <=> \E i \in 1 .. Len(s) : n = s[i]
  BY <1>1 DEF ToSet
<1>8. \A i \in 1 .. Len(s) : i = 1 \/ (i - 1 \in 1 .. Len(s) - 1 /\ (i - 1) + 1 = i)
  BY <1>1
<1>9. ASSUME NEW n
      PROVE  n \in ToSet(s) <=> n \in ToSet(r) \/ n = s[1]
  <2>1. n \in ToSet(r) \/ n = s[1] => n \in ToSet(s)
    BY <1>1, <1>3, <1>6, <1>7
  <2>2. ASSUME n \in ToSet(s), n # s[1] PROVE n \in ToSet(r)
    <3>1. PICK i \in 1 .. Len(s) : n = s[i]
      BY <1>7, <2>2
    <3>2. i - 1 \in 1 .. Len(s) - 1 /\ (i - 1) + 1 = i
      BY <1>8, <2>2, <3>1
    <3> QED
      BY <1>6, <3>1, <3>2
  <2> QED
    BY <2>1, <2>2
<1>10. ASSUME IsInjective(s) PROVE s[1] \notin ToSet(r)
  <2>1. \A i \in 1 .. Len(s) - 1 : s[i + 1] # s[1]
    <3>1. 1 \in 1 .. Len(s)
      BY <1>1
    <3> QED
      BY <1>3, <1>4, <1>10, <3>1
  <2> QED
    BY <1>6, <2>1
<1> QED
  BY <1>1, <1>5, <1>9, <1>10 DEF r

\* A list without its k-th node.
LEMMA RestOfList ==
  ASSUME NEW S, NEW s \in Seq(S), NEW k \in 1 .. Len(s)
  PROVE  /\ ToSet(s) = ToSet(RemoveAt(s, k)) \cup {s[k]}
         /\ IsInjective(s) => IsInjective(RemoveAt(s, k)) /\ s[k] \notin ToSet(RemoveAt(s, k))
<1> DEFINE m == Len(s)
           r == RemoveAt(s, k)
           before == SubSeq(s, 1, k - 1)
           after == SubSeq(s, k + 1, m)
           At(i) == IF i < k THEN i ELSE i + 1
<1>1. /\ m \in Nat /\ k \in Nat /\ 1 <= k /\ k <= m
      /\ DOMAIN s = 1 .. m /\ \A i \in 1 .. m : s[i] \in S
  BY LenProperties, ElementOfSeq
<1> HIDE DEF m
<1>2. /\ before \in Seq(S) /\ Len(before) = k - 1
      /\ \A i \in 1 .. k - 1 : before[i] = s[i]
  <2>1. \A i \in 1 .. k - 1 : s[i] \in S
    BY <1>1
  <2>2. before \in Seq(S)
    BY <1>1, <2>1, SubSeqProperties
  <2>3. Len(before) = IF 1 <= k - 1 THEN (k - 1) - 1 + 1 ELSE 0
    BY <1>1, <2>1, SubSeqProperties
  <2>4. \A i \in 1 .. (k - 1) - 1 + 1 : before[i] = s[1 + i - 1]
    BY <1>1, <2>1, SubSeqProperties
  <2>5. \A i \in 1 .. k - 1 : i \in 1 .. (k - 1) - 1 + 1 /\ 1 + i - 1 = i
    BY <1>1
  <2> QED
    BY <1>1, <2>2, <2>3, <2>4, <2>5
<1>3. /\ after \in Seq(S) /\ Len(after) = m - k
      /\ \A i \in 1 .. m - k : after[i] = s[k + i]
  <2>1. \A i \in k + 1 .. m : s[i] \in S
    BY <1>1
  <2>2. after \in Seq(S)
    BY <1>1, <2>1, SubSeqProperties
  <2>3. Len(after) = IF k + 1 <= m THEN m - (k + 1) + 1 ELSE 0
    BY <1>1, <2>1, SubSeqProperties
  <2>4. \A i \in 1 .. m - (k + 1) + 1 : after[i] = s[(k + 1) + i - 1]
    BY <1>1, <2>1, SubSeqProperties
  <2>5. \A i \in 1 .. m - k : i \in 1 .. m - (k + 1) + 1 /\ (k + 1) + i - 1 = k + i
    BY <1>1
  <2> QED
    BY <1>1, <2>2, <2>3, <2>4, <2>5
<1>4. r = before \o after
  BY DEF RemoveAt, m
<1> HIDE DEF before, after, r
<1>5. /\ r \in Seq(S) /\ Len(r) = (k - 1) + (m - k)
      /\ \A i \in 1 .. (k - 1) + (m - k) :
            r[i] = IF i <= k - 1 THEN before[i] ELSE after[i - (k - 1)]
  BY <1>2, <1>3, <1>4, ConcatProperties
<1>6. DOMAIN r = 1 .. m - 1
  <2>1. (k - 1) + (m - k) = m - 1
    BY <1>1
  <2> QED
    BY <1>5, <2>1, LenProperties
<1>7. ASSUME NEW i \in 1 .. m - 1
      PROVE  r[i] = s[At(i)] /\ At(i) \in 1 .. m /\ At(i) # k
  <2>1. i \in 1 .. (k - 1) + (m - k)
    BY <1>1
  <2>2. CASE i < k
    <3>1. i \in 1 .. k - 1 /\ i <= k - 1
      BY <1>1, <2>2
    <3> QED
      BY <1>1, <1>2, <1>5, <2>1, <2>2, <3>1
  <2>3. CASE ~(i < k)
    <3>1. i - (k - 1) \in 1 .. m - k /\ ~(i <= k - 1) /\ k + (i - (k - 1)) = i + 1
      BY <1>1, <2>3
    <3> QED
      BY <1>1, <1>3, <1>5, <2>1, <2>3, <3>1
  <2> QED
    BY <2>2, <2>3
<1>8. \A i \in 1 .. m : i # k => \E j \in 1 .. m - 1 : At(j) = i
  <2> SUFFICES ASSUME NEW i \in 1 .. m, i # k PROVE \E j \in 1 .. m - 1 : At(j) = i
    OBVIOUS
  <2>1. CASE i < k
    <3>1. i \in 1 .. m - 1 /\ At(i) = i
      BY <1>1, <2>1
    <3> QED
      BY <3>1
  <2>2. CASE ~(i < k)
    <3>1. i - 1 \in 1 .. m - 1 /\ At(i - 1) = i
      BY <1>1, <2>2
    <3> QED
      BY <3>1
  <2> QED
    BY <2>1, <2>2
<1>9. \A i, j \in 1 .. m - 1 : At(i) = At(j) => i = j
  BY <1>1
<1>10. IsInjective(s) => \A i, j \in 1 .. m : s[i] = s[j] => i = j
  BY <1>1 DEF IsInjective
<1> HIDE DEF At
<1>11. ASSUME IsInjective(s) PROVE IsInjective(r)
  BY <1>6, <1>7, <1>9, <1>10, <1>11 DEF IsInjective
<1>12. \A n : n \in ToSet(r) <=> \E i \in 1 .. m - 1 : n = s[At(i)]
  BY <1>6, <1>7 DEF ToSet
<1>13. \A n : n \in ToSet(s) <=> \E i \in 1 .. m : n = s[i]
  BY <1>1 DEF ToSet
<1>14. k \in 1 .. m
  BY <1>1
<1>15. \A n : n \in ToSet(s) <=> n \in ToSet(r) \/ n = s[k]
  BY <1>7, <1>8, <1>12, <1>13, <1>14
<1>16. ASSUME IsInjective(s) PROVE s[k] \notin ToSet(r)
  BY <1>7, <1>10, <1>12, <1>14, <1>16
<1> QED
  BY <1>11, <1>15, <1>16 DEF r

\* A list with one more node before the others.
LEMMA MoreOfList ==
  ASSUME NEW S, NEW s \in Seq(S), NEW n \in S
  PROVE  /\ ToSet(<<n>> \o s) = {n} \cup ToSet(s)
         /\ IsInjective(s) /\ n \notin ToSet(s) => IsInjective(<<n>> \o s)
         /\ <<n>> \o s # <<>>
<1> DEFINE one == <<n>>
           r == one \o s
           m == Len(s)
<1>1. one \in Seq(S) /\ Len(one) = 1 /\ one[1] = n /\ ToSet(one) = {n} /\ DOMAIN one = 1 .. 1
  BY OneElement, LenProperties
<1>2. /\ m \in Nat /\ DOMAIN s = 1 .. m /\ r \in Seq(S) /\ Len(r) = m + 1 /\ r[1] = n
      /\ \A j \in 2 .. m + 1 : r[j] = s[j - 1]
  BY Prepended, LenProperties
<1>3. DOMAIN r = 1 .. m + 1
  BY <1>2, LenProperties
<1> HIDE DEF one, r, m
<1>4. /\ \A j \in 1 .. m + 1 : j = 1 \/ (j \in 2 .. m + 1 /\ j - 1 \in 1 .. m)
      /\ \A i \in 1 .. m : i + 1 \in 2 .. m + 1 /\ i + 1 \in 1 .. m + 1 /\ (i + 1) - 1 = i
      /\ 1 \in 1 .. m + 1
  BY <1>2
<1>5. \A x : x \in ToSet(r) <=> \E j \in 1 .. m + 1 : x = r[j]
  BY <1>3 DEF ToSet
<1>6. \A x : x \in ToSet(s) <=> \E i \in 1 .. m : x = s[i]
  BY <1>2 DEF ToSet
<1>7. ASSUME NEW x PROVE x \in ToSet(r) <=> x = n \/ x \in ToSet(s)
  <2>1. ASSUME x \in ToSet(r) PROVE x = n \/ x \in ToSet(s)
    <3>1. PICK j \in 1 .. m + 1 : x = r[j]
      BY <1>5, <2>1
    <3> QED
      BY <1>2, <1>4, <1>6, <3>1
  <2>2. n \in ToSet(r)
    BY <1>2, <1>4, <1>5
  <2>3. ASSUME x \in ToSet(s) PROVE x \in ToSet(r)
    <3>1. PICK i \in 1 .. m : x = s[i]
      BY <1>6, <2>3
    <3>2. i + 1 \in 1 .. m + 1 /\ r[i + 1] = x
      BY <1>2, <1>4, <3>1
    <3> QED
      BY <1>5, <3>2
  <2> QED
    BY <2>1, <2>2, <2>3
<1>8. ASSUME IsInjective(s), n \notin ToSet(s) PROVE IsInjective(r)
  <2>1. IsInjective(one)
    BY <1>1 DEF IsInjective
  <2>2. ToSet(one) \cap ToSet(s) = {}
    BY <1>1, <1>8
  <2> QED
    BY <1>1, <1>8, <2>1, <2>2, JoinedInjective DEF r
<1>9. r # <<>>
  BY <1>2, EmptySeq
<1> QED
  BY <1>7, <1>8, <1>9 DEF r, one

\* A function of 1 .. n is a sequence of n elements.
LEMMA FunctionIsSeq ==
  ASSUME NEW S, NEW n \in Nat, NEW t \in [1 .. n -> S]
  PROVE  t \in Seq(S) /\ Len(t) = n
<1>1. t \in Seq(S)
  BY SeqDef
<1>2. Len(t) \in Nat /\ DOMAIN t = 1 .. Len(t)
  BY <1>1, LenProperties
<1>3. \A m \in Nat : 1 .. m = 1 .. n => m = n
  <2> SUFFICES ASSUME NEW m \in Nat, 1 .. m = 1 .. n PROVE m = n
    OBVIOUS
  <2>1. (n >= 1 => n \in 1 .. m) /\ (m >= 1 => m \in 1 .. n)
    OBVIOUS
  <2> QED
    BY <2>1
<1> QED
  BY <1>1, <1>2, <1>3
=============================================================================
