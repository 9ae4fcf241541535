--------------------------- MODULE RuntimeInitProofs ---------------------------
(***************************************************************************)
(* Proofs about Runtime::init: of Linker, on its own and as the part of    *)
(* Loader that binds imports, for environments of any number of modules,   *)
(* entries and fields; and then of loading, for any modules, segments,     *)
(* objects and sizes.                                                      *)
(***************************************************************************)
EXTENDS Loader, ProofLemmas, FiniteSetTheorems

-----------------------------------------------------------------------------
(* Finite sets as sequences *)

\* What a function makes of a finite set is finite and not larger.
LEMMA ImageOfFinite ==
  ASSUME NEW f, IsFiniteSet(DOMAIN f), f = [x \in DOMAIN f |-> f[x]]
  PROVE  /\ IsFiniteSet({f[x] : x \in DOMAIN f})
         /\ Cardinality({f[x] : x \in DOMAIN f}) <= Cardinality(DOMAIN f)
<1> DEFINE S == DOMAIN f
           T == {f[x] : x \in DOMAIN f}
<1>1. f \in Surjection(S, T)
  BY DEF Surjection
<1> QED
  BY <1>1, FS_Surjection

\* SetToSeq puts every element of a finite set in one place.
LEMMA SequenceOfSet ==
  ASSUME NEW S, IsFiniteSet(S)
  PROVE  /\ SetToSeq(S) \in Seq(S)
         /\ Len(SetToSeq(S)) = Cardinality(S)
         /\ ToSet(SetToSeq(S)) = S
         /\ IsInjective(SetToSeq(S))
<1> DEFINE n == Cardinality(S)
<1>1. n \in Nat
  BY FS_CardinalityType
<1>2. ExistsBijection(1 .. n, S)
  BY FS_CardinalityType
<1>3. PICK f : f \in Bijection(1 .. n, S)
  BY <1>2 DEF ExistsBijection
<1>4. f \in [1 .. n -> S] /\ IsInjective(f)
  BY <1>3 DEF Bijection, Injection, IsInjective
<1>5. SetToSeq(S) \in [1 .. n -> S] /\ IsInjective(SetToSeq(S))
  BY <1>4 DEF SetToSeq
<1> DEFINE s == SetToSeq(S)
<1> HIDE DEF s
<1>6. s \in Seq(S) /\ Len(s) = n
  BY <1>1, <1>5, SeqDef, LenProperties DEF s
<1>7. s \in Injection(1 .. n, S)
  BY <1>5 DEF Injection, IsInjective, s
<1>8. Cardinality(1 .. n) = n /\ IsFiniteSet(1 .. n)
  BY <1>1, FS_Interval
<1>9. s \in Surjection(1 .. n, S)
  BY <1>7, <1>8, FS_Injection
<1>10. ToSet(s) = S
  BY <1>5, <1>9 DEF ToSet, Surjection, s
<1> QED
  BY <1>5, <1>6, <1>10 DEF s

-----------------------------------------------------------------------------
(* The order of the loops *)

\* Where the module of an entry is in the order, and its kind.
ModulePlace(o) == CHOOSE n \in DOMAIN Order : Order[n] = o[2]
KindPlace(o) == CHOOSE n \in DOMAIN KindOrder : KindOrder[n] = o[3]

LEMMA KindsAre == Kinds = {"func", "global", "memory", "table"} /\ IsFiniteSet(Kinds)
<1>1. /\ KindOrder \in Seq({"func", "global", "memory", "table"}) /\ Len(KindOrder) = 4
      /\ DOMAIN KindOrder = 1 .. 4
      /\ KindOrder[1] = "func" /\ KindOrder[2] = "global"
      /\ KindOrder[3] = "memory" /\ KindOrder[4] = "table"
  BY DEF KindOrder
<1>2. \A n \in 1 .. 4 : n = 1 \/ n = 2 \/ n = 3 \/ n = 4
  OBVIOUS
<1>3. Kinds = {"func", "global", "memory", "table"}
  BY <1>1, <1>2 DEF Kinds, ToSet
<1>4. IsFiniteSet(Kinds)
  <2> DEFINE f == KindOrder
  <2>1. Kinds = {f[x] : x \in DOMAIN f} /\ IsFiniteSet(DOMAIN f)
    <3>1. IsFiniteSet(1 .. Len(KindOrder))
      BY <1>1, FS_Interval, LenProperties
    <3> QED
      BY <1>1, <3>1 DEF Kinds, ToSet
  <2>2. f = [x \in DOMAIN f |-> f[x]]
    BY <1>1 DEF KindOrder
  <2> HIDE DEF f
  <2> QED
    BY <2>1, <2>2, ImageOfFinite
<1> QED
  BY <1>3, <1>4

\* The entries of an environment that is well-formed.
LEMMA EntriesAre ==
  ASSUME WellFormed(env)
  PROVE  \A o \in Declared :
            /\ o = <<"own", o[2], o[3], o[4]>> /\ o[1] = "own"
            /\ o[2] \in Externals /\ o[3] \in Kinds
            /\ o[4] \in DOMAIN env.index[o[2]][o[3]] /\ o[4] \in Nat
            /\ o \in Objects
            /\ Entry(o).type \in Types
            /\ IsImport(o) => Entry(o).field \in Fields
<1> SUFFICES ASSUME NEW o \in Declared
             PROVE  /\ o = <<"own", o[2], o[3], o[4]>> /\ o[1] = "own"
                    /\ o[2] \in Externals /\ o[3] \in Kinds
                    /\ o[4] \in DOMAIN env.index[o[2]][o[3]] /\ o[4] \in Nat
                    /\ o \in Objects
                    /\ Entry(o).type \in Types
                    /\ IsImport(o) => Entry(o).field \in Fields
  OBVIOUS
<1>1. PICK m \in Externals, k \in Kinds : o \in {<<"own", m, k, i>> : i \in DOMAIN env.index[m][k]}
  BY DEF Declared
<1>2. PICK i \in DOMAIN env.index[m][k] : o = <<"own", m, k, i>>
  BY <1>1
<1>3. env.index[m][k] \in Seq(ToSet(env.index[m][k]))
  BY DEF WellFormed
<1>4. i \in Nat
  BY <1>3, LenProperties
<1>5. o[1] = "own" /\ o[2] = m /\ o[3] = k /\ o[4] = i
  BY <1>2
<1>6. /\ env.index[m][k][i].type \in Types
      /\ env.index[m][k][i].from # Null => env.index[m][k][i].field \in Fields
  BY DEF WellFormed
<1>7. Entry(o) = env.index[m][k][i]
  BY <1>5 DEF Entry
<1>8. o \in Objects
  BY <1>2, <1>4 DEF Objects
<1> QED
  BY <1>2, <1>4, <1>5, <1>6, <1>7, <1>8 DEF IsImport

LEMMA InDeclared ==
  ASSUME NEW m \in Externals, NEW k \in Kinds, NEW i \in DOMAIN env.index[m][k]
  PROVE  <<"own", m, k, i>> \in Declared
<1> DEFINE part == {<<"own", m, k, j>> : j \in DOMAIN env.index[m][k]}
<1>1. <<"own", m, k, i>> \in part
  OBVIOUS
<1>2. part \in {{<<"own", n, l, j>> : j \in DOMAIN env.index[n][l]} : n \in Externals, l \in Kinds}
  OBVIOUS
<1> HIDE DEF part
<1> QED
  BY <1>1, <1>2 DEF Declared

\* There are finitely many.
LEMMA DeclaredFinite ==
  ASSUME WellFormed(env)
  PROVE  IsFiniteSet(Declared) /\ IsFiniteSet(ImportSet)
<1> DEFINE Part(x) == {<<"own", x[1], x[2], i>> : i \in DOMAIN env.index[x[1]][x[2]]}
           f == [x \in Externals \X Kinds |-> Part(x)]
<1>1. Declared = UNION {f[x] : x \in DOMAIN f}
  <2>1. \A m \in Externals, k \in Kinds : f[<<m, k>>] = {<<"own", m, k, i>> : i \in DOMAIN env.index[m][k]}
    OBVIOUS
  <2>2. \A x \in Externals \X Kinds : x = <<x[1], x[2]>> /\ x[1] \in Externals /\ x[2] \in Kinds
    OBVIOUS
  <2>3. DOMAIN f = Externals \X Kinds
    OBVIOUS
  <2> HIDE DEF f
  <2>4. ASSUME NEW o \in Declared PROVE \E x \in DOMAIN f : o \in f[x]
    <3>1. PICK m \in Externals, k \in Kinds : o \in {<<"own", m, k, i>> : i \in DOMAIN env.index[m][k]}
      BY DEF Declared
    <3>2. <<m, k>> \in DOMAIN f /\ o \in f[<<m, k>>]
      BY <2>1, <2>3, <3>1
    <3> QED
      BY <3>2
  <2>5. ASSUME NEW x \in DOMAIN f PROVE f[x] \subseteq Declared
    <3>1. x[1] \in Externals /\ x[2] \in Kinds /\ f[x] = f[<<x[1], x[2]>>]
      BY <2>2, <2>3
    <3>2. f[x] = {<<"own", x[1], x[2], i>> : i \in DOMAIN env.index[x[1]][x[2]]}
      BY <2>1, <3>1
    <3> QED
      BY <3>1, <3>2 DEF Declared
  <2> QED
    BY <2>4, <2>5
<1>2. IsFiniteSet(Externals)
  <2>1. Order = [n \in DOMAIN Order |-> Order[n]] /\ DOMAIN Order = 1 .. Len(Order) /\ Len(Order) \in Nat
    BY OrderAssumption, LenProperties
  <2>2. IsFiniteSet(DOMAIN Order)
    BY <2>1, FS_Interval
  <2>3. IsFiniteSet({Order[n] : n \in DOMAIN Order})
    BY <2>1, <2>2, ImageOfFinite
  <2> QED
    BY <2>3 DEF Externals, ToSet
<1>3. IsFiniteSet(Externals \X Kinds)
  BY <1>2, KindsAre, FS_Product
<1>4. IsFiniteSet({f[x] : x \in DOMAIN f})
  <2>1. f = [x \in DOMAIN f |-> f[x]] /\ DOMAIN f = Externals \X Kinds
    OBVIOUS
  <2>2. IsFiniteSet(DOMAIN f)
    BY <1>3
  <2> HIDE DEF f
  <2> QED
    BY <2>1, <2>2, ImageOfFinite
<1>5. ASSUME NEW m \in Externals, NEW k \in Kinds
      PROVE  IsFiniteSet({<<"own", m, k, i>> : i \in DOMAIN env.index[m][k]})
  <2> DEFINE s == env.index[m][k]
             g == [i \in DOMAIN s |-> <<"own", m, k, i>>]
  <2>1. s \in Seq(ToSet(s))
    BY DEF WellFormed
  <2>2. DOMAIN s = 1 .. Len(s) /\ Len(s) \in Nat
    <3> HIDE DEF s
    <3> QED BY <2>1, LenProperties
  <2>3. IsFiniteSet(DOMAIN g) /\ g = [i \in DOMAIN g |-> g[i]]
    <3> HIDE DEF s
    <3> QED BY <2>2, FS_Interval
  <2>4. IsFiniteSet({g[i] : i \in DOMAIN g})
    <3> HIDE DEF g
    <3> QED BY <2>3, ImageOfFinite
  <2>5. {g[i] : i \in DOMAIN g} = {<<"own", m, k, i>> : i \in DOMAIN s}
    OBVIOUS
  <2> QED
    BY <2>4, <2>5
<1>6. \A x \in Externals \X Kinds : IsFiniteSet(f[x])
  BY <1>5
<1>7. IsFiniteSet(Declared)
  <2>1. \A T \in {f[x] : x \in DOMAIN f} : IsFiniteSet(T)
    BY <1>6
  <2> HIDE DEF f
  <2> QED
    BY <1>1, <1>4, <2>1, FS_UNION
<1>8. ImportSet \subseteq Declared
  BY DEF ImportSet
<1> QED
  BY <1>7, <1>8, FS_Subset

\* Before is a strict order, and of two entries one is before the other.
LEMMA BeforeOrders ==
  ASSUME WellFormed(env)
  PROVE  /\ \A o \in Declared : ~Before(o, o)
         /\ \A o, p, q \in Declared : Before(o, p) /\ Before(p, q) => Before(o, q)
         /\ \A o, p \in Declared : o = p \/ Before(o, p) \/ Before(p, o)
<1>1. \A o \in Declared : /\ ModulePlace(o) \in Nat /\ Order[ModulePlace(o)] = o[2]
                          /\ KindPlace(o) \in Nat /\ KindOrder[KindPlace(o)] = o[3]
                          /\ o[4] \in Nat
  <2> SUFFICES ASSUME NEW o \in Declared
               PROVE  /\ ModulePlace(o) \in Nat /\ Order[ModulePlace(o)] = o[2]
                      /\ KindPlace(o) \in Nat /\ KindOrder[KindPlace(o)] = o[3]
                      /\ o[4] \in Nat
    OBVIOUS
  <2>1. o[2] \in Externals /\ o[3] \in Kinds /\ o[4] \in Nat
    BY EntriesAre
  <2>2. DOMAIN Order \subseteq Nat /\ DOMAIN KindOrder \subseteq Nat
    BY OrderAssumption, LenProperties DEF KindOrder
  <2>3. \E n \in DOMAIN Order : Order[n] = o[2]
    BY <2>1 DEF Externals, ToSet
  <2>4. \E n \in DOMAIN KindOrder : KindOrder[n] = o[3]
    BY <2>1 DEF Kinds, ToSet
  <2>5. ModulePlace(o) \in DOMAIN Order /\ Order[ModulePlace(o)] = o[2]
    BY <2>3 DEF ModulePlace
  <2>6. KindPlace(o) \in DOMAIN KindOrder /\ KindOrder[KindPlace(o)] = o[3]
    BY <2>4 DEF KindPlace
  <2> QED
    BY <2>1, <2>2, <2>5, <2>6
<1>2. \A o, p : Before(o, p) <=>
        \/ ModulePlace(o) < ModulePlace(p)
        \/ ModulePlace(o) = ModulePlace(p) /\ KindPlace(o) < KindPlace(p)
        \/ ModulePlace(o) = ModulePlace(p) /\ KindPlace(o) = KindPlace(p) /\ o[4] < p[4]
  BY DEF Before, ModulePlace, KindPlace
<1>3. \A o, p \in Declared :
        ModulePlace(o) = ModulePlace(p) /\ KindPlace(o) = KindPlace(p) /\ o[4] = p[4] => o = p
  BY <1>1, EntriesAre
<1>4. \A o \in Declared : ~Before(o, o)
  BY <1>1, <1>2
<1>5. \A o, p, q \in Declared : Before(o, p) /\ Before(p, q) => Before(o, q)
  BY <1>1, <1>2
<1>6. \A o, p \in Declared : o = p \/ Before(o, p) \/ Before(p, o)
  BY <1>1, <1>2, <1>3
<1> QED
  BY <1>4, <1>5, <1>6

\* InOrder puts every entry of a set in one place, and none before one that comes first.
LEMMA InOrderSorts ==
  ASSUME WellFormed(env), NEW S, S \subseteq Declared
  PROVE  /\ InOrder(S) \in Seq(S)
         /\ Len(InOrder(S)) = Cardinality(S) /\ Cardinality(S) \in Nat
         /\ ToSet(InOrder(S)) = S
         /\ IsInjective(InOrder(S))
         /\ \A i, j \in 1 .. Cardinality(S) : i < j => Before(InOrder(S)[i], InOrder(S)[j])
<1> DEFINE n == Cardinality(S)
           Prior(o) == {p \in S : Before(p, o)}
           Rank(o) == Cardinality(Prior(o))
           r == [o \in S |-> Rank(o) + 1]
<1>1. IsFiniteSet(S) /\ n \in Nat
  BY DeclaredFinite, FS_Subset, FS_CardinalityType
<1>2. ASSUME NEW o \in S
      PROVE  IsFiniteSet(Prior(o)) /\ Rank(o) \in Nat /\ Rank(o) < n
  <2>1. Prior(o) \in SUBSET S /\ o \notin Prior(o)
    BY BeforeOrders
  <2> HIDE DEF Prior
  <2>2. IsFiniteSet(Prior(o)) /\ Rank(o) <= n /\ (n = Rank(o) => S = Prior(o))
    BY <1>1, <2>1, FS_Subset
  <2>3. Rank(o) \in Nat
    BY <2>2, FS_CardinalityType
  <2> QED
    BY <1>1, <2>1, <2>2, <2>3
<1>3. ASSUME NEW o \in S, NEW p \in S, Before(o, p)
      PROVE  Rank(o) < Rank(p)
  <2>1. Prior(o) \in SUBSET Prior(p) /\ o \in Prior(p) /\ o \notin Prior(o)
    BY <1>3, BeforeOrders
  <2>2. /\ IsFiniteSet(Prior(p)) /\ Rank(o) \in Nat /\ Rank(p) \in Nat
    BY <1>2
  <2> HIDE DEF Prior
  <2>3. Rank(o) <= Rank(p) /\ (Rank(p) = Rank(o) => Prior(p) = Prior(o))
    BY <2>1, <2>2, FS_Subset
  <2> QED
    BY <2>1, <2>2, <2>3
<1>4. \A o, p \in S : Rank(o) = Rank(p) => o = p
  <2> SUFFICES ASSUME NEW o \in S, NEW p \in S, Rank(o) = Rank(p), o # p PROVE FALSE
    OBVIOUS
  <2>1. Before(o, p) \/ Before(p, o)
    BY BeforeOrders
  <2>2. Rank(o) \in Nat /\ Rank(p) \in Nat
    BY <1>2
  <2> HIDE DEF Rank
  <2> QED
    BY <1>3, <2>1, <2>2
<1>5. \A o, p \in S : Rank(o) < Rank(p) => Before(o, p)
  <2> SUFFICES ASSUME NEW o \in S, NEW p \in S, Rank(o) < Rank(p), ~Before(o, p) PROVE FALSE
    OBVIOUS
  <2>1. o = p \/ Before(p, o)
    BY BeforeOrders
  <2>2. Rank(o) \in Nat /\ Rank(p) \in Nat
    BY <1>2
  <2> HIDE DEF Rank
  <2> QED
    BY <1>3, <2>1, <2>2
<1>6. \A o \in S : Rank(o) + 1 \in 1 .. n
  <2>1. \A o \in S : Rank(o) \in Nat /\ Rank(o) < n
    BY <1>2
  <2> HIDE DEF Rank, n
  <2> QED BY <1>1, <2>1
<1>7. r \in Injection(S, 1 .. n)
  <2>1. \A o, p \in S : r[o] = r[p] => o = p
    <3>1. \A o \in S : Rank(o) \in Nat /\ r[o] = Rank(o) + 1
      BY <1>2
    <3> HIDE DEF Rank, r
    <3> QED BY <1>4, <3>1
  <2>2. r \in [S -> 1 .. n]
    <3> HIDE DEF Rank
    <3> QED BY <1>6
  <2> HIDE DEF r
  <2> QED
    BY <2>1, <2>2 DEF Injection, IsInjective
<1>8. r \in Surjection(S, 1 .. n)
  <2> HIDE DEF r
  <2>1. IsFiniteSet(1 .. n) /\ Cardinality(1 .. n) = n
    BY <1>1, FS_Interval
  <2> QED
    BY <1>7, <2>1, FS_Injection
<1>9. \A i \in 1 .. n : \E o \in S : Rank(o) = i - 1
  <2>1. \A o \in S : Rank(o) \in Nat /\ r[o] = Rank(o) + 1
    BY <1>2
  <2> HIDE DEF Rank, r
  <2>2. \A i \in 1 .. n : \E o \in S : r[o] = i
    BY <1>8 DEF Surjection
  <2>3. \A i \in 1 .. n : i \in Int
    BY <1>1
  <2> QED
    BY <2>1, <2>2, <2>3
<1> DEFINE s == InOrder(S)
<1>10. s = [i \in 1 .. n |-> CHOOSE o \in S : Rank(o) = i - 1]
  BY DEF InOrder
<1> HIDE DEF s, Rank
<1>11. \A i \in 1 .. n : s[i] \in S /\ Rank(s[i]) = i - 1
  BY <1>9, <1>10
<1>12. s \in [1 .. n -> S]
  BY <1>10, <1>11
<1>13. s \in Seq(S) /\ Len(s) = n /\ DOMAIN s = 1 .. n
  BY <1>1, <1>12, SeqDef, LenProperties
<1>14. IsInjective(s)
  BY <1>11, <1>13 DEF IsInjective
<1>15. ToSet(s) = S
  <2>1. ASSUME NEW o \in S PROVE s[Rank(o) + 1] = o
    <3>1. Rank(o) \in Nat /\ Rank(o) + 1 \in 1 .. n
      BY <1>2, <1>6 DEF Rank
    <3>2. s[Rank(o) + 1] \in S /\ Rank(s[Rank(o) + 1]) = Rank(o)
      BY <1>11, <3>1
    <3> QED
      BY <1>4, <3>2
  <2> QED
    BY <1>6, <1>11, <1>13, <2>1 DEF ToSet
<1>16. \A i, j \in 1 .. n : i < j => Before(s[i], s[j])
  BY <1>1, <1>5, <1>11
<1> QED
  BY <1>1, <1>13, <1>14, <1>15, <1>16 DEF s
-----------------------------------------------------------------------------
(* What imports denote *)

\* What is at the end of a chain of imports: a definition, what the policy makes, or
\* nothing.
Ends == Declared \cup ({"host", "policy"} \X Kinds \X Fields) \cup {Null}

Follow(p) == IF p # Null /\ IsImport(p) THEN Target(p) ELSE p

LEMMA OnlyEntriesImport ==
  ASSUME WellFormed(env), NEW p \in Ends
  PROVE  /\ p # Null /\ IsImport(p) <=> p \in ImportSet
         /\ p \in Declared => p # Null /\ p[1] = "own"
<1>1. ASSUME p \in Declared PROVE p # Null /\ p[1] = "own"
  BY <1>1, EntriesAre, NullAssumption
<1>2. ASSUME p \in {"host", "policy"} \X Kinds \X Fields PROVE ~IsImport(p)
  BY <1>2 DEF IsImport
<1> QED
  BY <1>1, <1>2 DEF Ends, ImportSet

\* What an import asks for.
LEMMA TargetsAre ==
  ASSUME WellFormed(env), OneKindPerField, NEW o \in ImportSet
  PROVE  LET k == o[3]
             f == Entry(o).field
             from == Entry(o).from
         IN /\ o \in Declared /\ k \in Kinds /\ f \in Fields
            /\ from = Host /\ HostProvides(k, f) => Target(o) = <<"host", k, f>>
            /\ from = Host /\ ~HostProvides(k, f) /\ env.policy[k][f] # Null =>
                  Target(o) = <<"policy", k, f>>
            /\ from = Host /\ ~HostProvides(k, f) /\ env.policy[k][f] = Null => Target(o) = Null
            /\ from \in Externals /\ env.exports[from][f] # Null =>
                  /\ Target(o) = <<"own", from, k, env.exports[from][f].index>>
                  /\ Target(o) \in Declared
                  /\ env.exports[from][f].kind = k
                  /\ env.exports[from][f].index \in DOMAIN env.index[from][k]
            /\ from \in Externals /\ env.exports[from][f] = Null => Target(o) = Null
            /\ from \notin Modules => Target(o) = Null
            /\ Target(o) \in Ends
<1> DEFINE k == o[3]
           f == Entry(o).field
           from == Entry(o).from
           x == env.exports[from][f]
<1>1. o \in Declared /\ IsImport(o)
  BY DEF ImportSet
<1>2. k \in Kinds /\ f \in Fields
  BY <1>1, EntriesAre
<1>3. from = Host => Target(o) = IF HostProvides(k, f) THEN <<"host", k, f>>
                                 ELSE IF env.policy[k][f] # Null THEN <<"policy", k, f>> ELSE Null
  BY DEF Target
<1>4. from # Host => Target(o) = IF from \in Externals /\ x # Null
                                 THEN <<"own", from, k, x.index>> ELSE Null
  BY DEF Target
<1>5. Host \notin Externals
  BY OrderAssumption
<1>6. ASSUME from \in Externals, x # Null
      PROVE  /\ Target(o) = <<"own", from, k, x.index>> /\ Target(o) \in Declared
             /\ x.kind = k /\ x.index \in DOMAIN env.index[from][k]
  <2>1. x.kind = k
    BY <1>6 DEF OneKindPerField
  <2>2. x.index \in DOMAIN env.index[from][x.kind]
    BY <1>2, <1>6 DEF WellFormed
  <2>3. Target(o) = <<"own", from, k, x.index>>
    BY <1>4, <1>5, <1>6
  <2>4. <<"own", from, k, x.index>> \in Declared
    <3> HIDE DEF x, k, from, f
    <3> QED
      BY <1>2, <1>6, <2>1, <2>2, InDeclared
  <2> QED
    BY <2>1, <2>2, <2>3, <2>4
<1>7. from \notin Modules => Target(o) = Null
  BY <1>4 DEF Modules
<1>8. Target(o) \in Ends
  <2>1. from = Host => Target(o) \in Ends
    BY <1>2, <1>3 DEF Ends
  <2>2. from # Host => Target(o) \in Ends
    BY <1>4, <1>6 DEF Ends
  <2> QED
    BY <2>1, <2>2
<1> HIDE DEF x
<1>9. from \in Externals /\ x = Null => Target(o) = Null
  BY <1>4, <1>5 DEF x
<1> QED
  BY <1>1, <1>2, <1>3, <1>6, <1>7, <1>8, <1>9 DEF x

\* The chain that starts at o, as Denotes follows it.
LEMMA ChainFrom ==
  ASSUME WellFormed(env), OneKindPerField, NEW o \in Ends
  PROVE  \E c \in [Nat -> Ends] : /\ c[0] = o
                                  /\ \A d \in Nat \ {0} : c[d] = Follow(c[d - 1])
                                  /\ Denotes(o) = c[Cardinality(Declared)]
<1> DEFINE step == [p \in Ends |-> Follow(p)]
<1>1. \A p \in Ends : Follow(p) \in Ends
  <2> TAKE p \in Ends
  <2>1. CASE p # Null /\ IsImport(p)
    BY <2>1, OnlyEntriesImport, TargetsAre DEF Follow
  <2>2. CASE ~(p # Null /\ IsImport(p))
    BY <2>2 DEF Follow
  <2> QED
    BY <2>1, <2>2
<1>2. step \in [Ends -> Ends]
  <2> HIDE DEF Ends
  <2> QED BY <1>1
<1>3. PICK f \in [Nat -> Ends] : f[0] = o /\ \A d \in Nat \ {0} : f[d] = step[f[d - 1]]
  <2> HIDE DEF step, Ends
  <2> QED BY <1>2, Iterates
<1>4. \A d \in Nat \ {0} : f[d] = Follow(f[d - 1])
  <2> SUFFICES ASSUME NEW d \in Nat \ {0} PROVE f[d] = Follow(f[d - 1])
    OBVIOUS
  <2>1. d - 1 \in Nat /\ f[d - 1] \in Ends
    BY <1>3
  <2> HIDE DEF Ends
  <2> QED
    BY <1>3, <2>1
<1>5. f = [d \in Nat |-> IF d = 0 THEN o ELSE Follow(f[d - 1])]
  <2> HIDE DEF Ends, Follow, step
  <2>1. f = [d \in Nat |-> f[d]]
    BY <1>3
  <2>2. \A d \in Nat : f[d] = IF d = 0 THEN o ELSE Follow(f[d - 1])
    BY <1>3, <1>4
  <2> QED
    BY <2>1, <2>2
<1> DEFINE nth == CHOOSE g : g = [d \in Nat |-> IF d = 0 THEN o ELSE Follow(g[d - 1])]
<1>6. nth = [d \in Nat |-> IF d = 0 THEN o ELSE Follow(nth[d - 1])]
  <2> HIDE DEF Follow
  <2> QED BY <1>5
<1>7. Denotes(o) = nth[Cardinality(Declared)]
  BY DEF Denotes, Follow
<1> HIDE DEF nth
<1>8. nth[0] = o /\ \A d \in Nat \ {0} : nth[d] = Follow(nth[d - 1])
  <2> HIDE DEF Follow
  <2>1. \A d \in Nat : nth[d] = IF d = 0 THEN o ELSE Follow(nth[d - 1])
    BY <1>6, Zenon
  <2> QED BY <2>1
<1>9. \A d \in Nat : nth[d] = f[d]
  <2> DEFINE Bad == {d \in Nat : nth[d] # f[d]}
  <2> SUFFICES ASSUME Bad # {} PROVE FALSE
    OBVIOUS
  <2>1. PICK d \in Bad : \A e \in Bad : d <= e
    <3>1. Bad \subseteq Nat
      OBVIOUS
    <3> HIDE DEF Bad
    <3> QED BY <3>1, LeastNatural
  <2>2. d # 0 /\ d \in Nat
    BY <1>3, <1>8
  <2>3. d - 1 \in Nat /\ ~(d <= d - 1)
    BY <2>2
  <2>4. nth[d - 1] = f[d - 1]
    BY <2>1, <2>3
  <2> HIDE DEF Follow
  <2>5. nth[d] = f[d]
    BY <1>4, <1>8, <2>2, <2>4
  <2> QED
    BY <2>1, <2>5
<1>10. Cardinality(Declared) \in Nat
  BY DeclaredFinite, FS_CardinalityType
<1> HIDE DEF Follow, Ends
<1> QED
  BY <1>3, <1>4, <1>7, <1>9, <1>10

\* What is not an import denotes itself; an import denotes what its target does.
LEMMA Denoted ==
  ASSUME WellFormed(env), OneKindPerField, Acyclic
  PROVE  /\ \A o \in Ends : o \notin ImportSet => Denotes(o) = o
         /\ \A o \in ImportSet : /\ Denotes(o) = Denotes(Target(o))
                                 /\ Denotes(o) \in Ends
                                 /\ Denotes(o) \notin ImportSet
<1> DEFINE C == Cardinality(Declared)
<1>0. C \in Nat
  BY DeclaredFinite, FS_CardinalityType
<1>1. ASSUME NEW o \in Ends, o \notin ImportSet PROVE Denotes(o) = o
  <2>1. PICK c \in [Nat -> Ends] : /\ c[0] = o
                                   /\ \A d \in Nat \ {0} : c[d] = Follow(c[d - 1])
                                   /\ Denotes(o) = c[C]
    BY ChainFrom
  <2>2. Follow(o) = o
    BY <1>1, OnlyEntriesImport DEF Follow
  <2>3. \A d \in Nat : c[d] = o
    <3> DEFINE Bad == {d \in Nat : c[d] # o}
    <3> SUFFICES ASSUME Bad # {} PROVE FALSE
      OBVIOUS
    <3>1. PICK d \in Bad : \A e \in Bad : d <= e
      <4>1. Bad \subseteq Nat
        OBVIOUS
      <4> HIDE DEF Bad
      <4> QED BY <4>1, LeastNatural
    <3>2. d # 0 /\ d \in Nat
      BY <2>1
    <3>3. d - 1 \in Nat /\ ~(d <= d - 1)
      BY <3>2
    <3>4. c[d - 1] = o
      BY <3>1, <3>3
    <3>5. c[d] = o
      BY <2>1, <2>2, <3>2, <3>4
    <3> QED
      BY <3>1, <3>5
  <2> QED
    BY <1>0, <2>1, <2>3
<1>2. ASSUME NEW o \in ImportSet
      PROVE  Denotes(o) = Denotes(Target(o)) /\ Denotes(o) \in Ends /\ Denotes(o) \notin ImportSet
  <2>0. o \in Ends /\ o # Null /\ IsImport(o) /\ Follow(o) = Target(o) /\ Target(o) \in Ends
    <3>1. o \in Declared
      BY DEF ImportSet
    <3>2. o \in Ends
      BY <3>1 DEF Ends
    <3> QED
      BY <3>2, OnlyEntriesImport, TargetsAre DEF Follow
  <2> HIDE DEF C
  <2>1. PICK c \in [Nat -> Ends] : /\ c[0] = o
                                   /\ \A d \in Nat \ {0} : c[d] = Follow(c[d - 1])
                                   /\ Denotes(o) = c[C]
    BY <2>0, ChainFrom DEF C
  <2>2. PICK b \in [Nat -> Ends] : /\ b[0] = Target(o)
                                   /\ \A d \in Nat \ {0} : b[d] = Follow(b[d - 1])
                                   /\ Denotes(Target(o)) = b[C]
    BY <2>0, ChainFrom DEF C
  <2>3. \A d \in Nat : c[d + 1] = b[d]
    <3> DEFINE Bad == {d \in Nat : c[d + 1] # b[d]}
    <3> SUFFICES ASSUME Bad # {} PROVE FALSE
      OBVIOUS
    <3>1. PICK d \in Bad : \A e \in Bad : d <= e
      <4>1. Bad \subseteq Nat
        OBVIOUS
      <4> HIDE DEF Bad
      <4> QED BY <4>1, LeastNatural
    <3>2. d \in Nat
      OBVIOUS
    <3>3. d # 0
      <4>1. c[1] = Follow(c[1 - 1]) /\ 0 + 1 = 1 /\ 1 - 1 = 0
        BY <2>1
      <4> QED
        BY <2>0, <2>1, <2>2, <4>1
    <3>4. d - 1 \in Nat /\ ~(d <= d - 1) /\ (d - 1) + 1 = d /\ d + 1 \in Nat \ {0} /\ (d + 1) - 1 = d
      BY <3>2, <3>3
    <3>5. c[d] = b[d - 1]
      BY <3>1, <3>4
    <3>6. c[d + 1] = b[d]
      BY <2>1, <2>2, <3>2, <3>3, <3>4, <3>5
    <3> QED
      BY <3>1, <3>6
  <2>4. Denotes(o) \in Ends
    BY <1>0, <2>1 DEF C
  <2>5. Denotes(o) \notin ImportSet
    BY <2>4, OnlyEntriesImport DEF Acyclic
  <2>6. Follow(c[C]) = c[C]
    BY <2>1, <2>4, <2>5, OnlyEntriesImport DEF Follow
  <2>7. c[C + 1] = Follow(c[C])
    <3>1. C + 1 \in Nat \ {0} /\ (C + 1) - 1 = C
      BY <1>0 DEF C
    <3> QED
      BY <2>1, <3>1
  <2>8. b[C] = c[C]
    BY <1>0, <2>3, <2>6, <2>7 DEF C
  <2> QED
    BY <2>1, <2>2, <2>4, <2>5, <2>8
<1> QED
  BY <1>1, <1>2
-----------------------------------------------------------------------------
(* The inductive invariant *)

\* What Init chooses and no step changes.
GoodEnvironment == env \in Environments /\ Acyclic /\ OneKindPerField /\ CopiesFit

\* The kinds of values, and when there is a call.
LinkTypes ==
  /\ phase \in {"prelink", "define", "import", "linked", "failed"}
  /\ exports \in [Modules -> [Fields -> [kind : Kinds, index : Nat] \cup {Null}]]
  /\ space \in [Modules -> [Kinds -> Seq(Objects \cup {Null})]]
  /\ slots \in [Kinds -> Seq([what : Objects \cup {Null}, type : Types \cup {Null}])]
  /\ count \in [Kinds -> Nat]
  /\ todo \in Seq(ImportSet)
  /\ calls \in Seq(ImportSet)
  /\ calls # <<>> => phase = "import"

Binding == phase \in {"import", "linked", "failed"}

\* An object of a kind is what d names, or a slot in use that holds it; memories and
\* tables are slots.
Stands(object, k, d) ==
  /\ object \in Objects
  /\ k \in Limited => object[1] = "slot"
  /\ IF object[1] = "slot"
     THEN object[2] = k /\ object[3] \in 1 .. count[k] /\ slots[k][object[3]].what = d
     ELSE object = d

\* The pools: as many slots as performPreLink counts; of those in use the first are the
\* copies, and each of the others is for a field that modules import, that the
\* host exports by now and that no other slot is for.
Asked(k) == {Entry(o).field : o \in Unknown(k)}
Granted(k, n, f) == /\ f \in Asked(k)
                    /\ slots[k][n].what = <<"policy", k, f>>
                    /\ exports[Host][f] # Null
                    /\ exports[Host][f].index # Invalid
                    /\ space[Host][k][exports[Host][f].index] = <<"slot", k, n>>
PoolsInv ==
  /\ phase \in {"prelink", "define"} => \A k \in Kinds : count[k] = 0
  /\ phase # "prelink" => \A k \in Kinds : Len(slots[k]) = PoolSize(k)
  /\ Binding => \A k \in Kinds :
        /\ Len(Copied(k)) <= count[k] /\ count[k] <= PoolSize(k)
        /\ \A n \in 1 .. Len(Copied(k)) : slots[k][n].what = Copied(k)[n]
        /\ \A n \in Len(Copied(k)) + 1 .. count[k] : \E f \in Fields : Granted(k, n, f)
        /\ \A n \in 1 .. count[k] :
              /\ slots[k][n].type \in Types
              /\ k \notin Limited => slots[k][n].type = DeclaredType(slots[k][n].what)

\* The host exports every field that is imported from it, and nothing but what the
\* import asks for.
HostInv ==
  phase # "prelink" =>
    \A o \in ImportSet : Entry(o).from = Host =>
      LET export == exports[Host][Entry(o).field]
      IN /\ export # Null
         /\ export.index # Invalid =>
               /\ export.index \in DOMAIN space[Host][o[3]]
               /\ Stands(space[Host][o[3]][export.index], o[3], Target(o))
         /\ HostProvides(o[3], Entry(o).field) => export.index # Invalid

\* The index spaces hold definitions, and of imports nothing or what they denote.
ObjectAt(o) == space[o[2]][o[3]][o[4]]
SpacesInv ==
  Binding =>
    /\ \A m \in Externals : exports[m] = env.exports[m]
    /\ \A m \in Externals, k \in Kinds : DOMAIN space[m][k] = DOMAIN env.index[m][k]
    /\ \A o \in Declared : /\ o \notin ImportSet => ObjectAt(o) # Null
                           /\ ObjectAt(o) # Null => Stands(ObjectAt(o), o[3], Denotes(o))

\* The calls under way are for imports of one kind that denote the same, of which all but
\* the first have no object yet, and the second is what the first asks for.
CallsInv ==
  /\ \A i \in 1 .. Len(calls) : /\ Denotes(calls[i]) = Denotes(calls[Len(calls)])
                                /\ calls[i][3] = calls[Len(calls)][3]
  /\ \A i \in 2 .. Len(calls) : ObjectAt(calls[i]) = Null
  /\ Len(calls) > 1 => Target(calls[1]) = calls[2]

\* The imports are taken in their order, and one that has had its turn is bound to an
\* object that it was compared with, or to that of an import later than itself.
Checked(o) ==
  /\ ObjectAt(o) # Null
  /\ \/ IsImport(Target(o)) /\ ~Before(Target(o), o)
     \/ TypeOf(ObjectAt(o)) = Entry(o).type
     \/ o[3] \in Limited /\ TypeOf(ObjectAt(o)) >= Entry(o).type
TurnsInv ==
  /\ \A i, j \in 1 .. Len(todo) : i < j => Before(todo[i], todo[j])
  /\ calls # <<>> => \A o \in ToSet(todo) : Before(calls[1], o)
  /\ phase \in {"import", "linked"} =>
        \A o \in ImportSet : (o \notin ToSet(todo) /\ (calls # <<>> => o # calls[1])) => Checked(o)
  /\ phase = "linked" => todo = <<>>

LinkInv == /\ GoodEnvironment /\ LinkTypes /\ PoolsInv /\ HostInv /\ SpacesInv
           /\ CallsInv /\ TurnsInv /\ FailsForCause
-----------------------------------------------------------------------------
(* What the environment says *)

LEMMA GoodIsWellFormed ==
  ASSUME GoodEnvironment
  PROVE  WellFormed(env) /\ Acyclic /\ OneKindPerField /\ CopiesFit
BY EnvironmentsAssumption DEF GoodEnvironment

LEMMA HostsAre ==
  ASSUME WellFormed(env), NEW k \in Kinds, NEW f \in Fields, env.host[k][f] # Null
  PROVE  /\ k \notin Limited /\ env.host[k][f].type \in Types
         /\ env.host[k][f].mut => k = "global"
BY DEF WellFormed

\* The environment does not change, nor what is defined from it.
LEMMA SameEnvironment ==
  ASSUME env' = env
  PROVE  /\ Declared' = Declared /\ ImportSet' = ImportSet
         /\ \A o : /\ Entry(o)' = Entry(o) /\ (IsImport(o)' <=> IsImport(o))
                   /\ Target(o)' = Target(o) /\ Denotes(o)' = Denotes(o)
                   /\ DeclaredType(o)' = DeclaredType(o)
         /\ \A k : /\ Unknown(k)' = Unknown(k) /\ Copied(k)' = Copied(k)
                   /\ PoolSize(k)' = PoolSize(k) /\ Asked(k)' = Asked(k)
         /\ \A k, f : HostProvides(k, f)' <=> HostProvides(k, f)
         /\ GoodEnvironment => GoodEnvironment'
<1>1. Declared' = Declared
  BY DEF Declared
<1>2. \A o : Entry(o)' = Entry(o) /\ (IsImport(o)' <=> IsImport(o))
  BY DEF Entry, IsImport
<1>3. \A o : Target(o)' = Target(o)
  BY DEF Entry, Target, HostProvides
<1>4. \A o : Denotes(o)' = Denotes(o)
  BY DEF Denotes, IsImport, Entry, Target, HostProvides, Declared
<1>5. \A o : DeclaredType(o)' = DeclaredType(o)
  BY DEF DeclaredType, Entry
<1>6. \A k, f : HostProvides(k, f)' <=> HostProvides(k, f)
  BY DEF HostProvides
<1>7. ImportSet' = ImportSet
  BY DEF ImportSet, IsImport, Entry, Declared
<1>8. \A k : Unknown(k)' = Unknown(k)
  BY DEF Unknown, HostProvides, ImportSet, IsImport, Entry, Declared
<1>9. \A k : Copied(k)' = Copied(k)
  BY DEF Copied, IsImport, Entry, Declared
<1>10. \A k : PoolSize(k)' = PoolSize(k)
  BY DEF PoolSize, Copied, Unknown, HostProvides, ImportSet, IsImport, Entry, Declared
<1>11. \A k : Asked(k)' = Asked(k)
  BY DEF Asked, Unknown, HostProvides, ImportSet, IsImport, Entry, Declared
<1>12. GoodEnvironment => GoodEnvironment'
  <2>1. Acyclic => Acyclic'
    BY <1>2, <1>4, <1>7 DEF Acyclic
  <2>2. OneKindPerField => OneKindPerField'
    <3>1. \A f : UnknownAs(f)' = UnknownAs(f) /\ DefinedAs(f)' = DefinedAs(f)
      BY <1>2, <1>8 DEF UnknownAs, DefinedAs
    <3> QED
      BY <1>2, <1>7, <3>1 DEF OneKindPerField
  <2>3. CopiesFit => CopiesFit'
    <3>1. HostMutable' = HostMutable
      BY DEF HostMutable
    <3> QED
      BY <1>10, <3>1 DEF CopiesFit
  <2> QED
    BY <2>1, <2>2, <2>3 DEF GoodEnvironment
<1> QED
  BY <1>1, <1>2, <1>3, <1>4, <1>5, <1>6, <1>7, <1>8, <1>9, <1>10, <1>11, <1>12

\* The copies of a kind, each once.
Copies(k) == {o \in Declared : /\ o[3] = k
                               /\ ~IsImport(o)
                               /\ \/ k \in Limited
                                  \/ k = "global" /\ Entry(o).mut}

LEMMA CopiedAre ==
  ASSUME GoodEnvironment, NEW k
  PROVE  /\ Copied(k) \in Seq(Copies(k)) /\ Len(Copied(k)) \in Nat
         /\ DOMAIN Copied(k) = 1 .. Len(Copied(k))
         /\ \A n \in 1 .. Len(Copied(k)) :
              /\ Copied(k)[n] \in Declared /\ Copied(k)[n] \notin ImportSet
              /\ Copied(k)[n] \in Copies(k)
         /\ \A o \in Copies(k) : \E n \in 1 .. Len(Copied(k)) : Copied(k)[n] = o
         /\ \A n, l \in 1 .. Len(Copied(k)) : Copied(k)[n] = Copied(k)[l] => n = l
         /\ IsFiniteSet(Unknown(k)) /\ Cardinality(Unknown(k)) \in Nat
         /\ PoolSize(k) \in Nat /\ PoolSize(k) = Cardinality(Unknown(k)) + Len(Copied(k))
<1>1. Copied(k) = InOrder(Copies(k))
  BY DEF Copied, Copies
<1>2. Copies(k) \subseteq Declared /\ \A o \in Copies(k) : o \notin ImportSet
  BY DEF Copies, ImportSet
<1>3. /\ Copied(k) \in Seq(Copies(k))
      /\ Len(Copied(k)) \in Nat
      /\ ToSet(Copied(k)) = Copies(k)
      /\ IsInjective(Copied(k))
  BY <1>1, <1>2, InOrderSorts, GoodIsWellFormed
<1> DEFINE c == Copied(k)
<1> HIDE DEF c
<1>4. DOMAIN c = 1 .. Len(c)
  BY <1>3, LenProperties DEF c
<1>5. \A n \in 1 .. Len(c) : c[n] \in Copies(k)
  BY <1>3, <1>4 DEF ToSet, c
<1>6. \A o \in Copies(k) : \E n \in 1 .. Len(c) : c[n] = o
  BY <1>3, <1>4 DEF ToSet, c
<1>7. \A n, l \in 1 .. Len(c) : c[n] = c[l] => n = l
  BY <1>3, <1>4 DEF IsInjective, c
<1>8. IsFiniteSet(Unknown(k)) /\ Cardinality(Unknown(k)) \in Nat
  <2>1. Unknown(k) \in SUBSET ImportSet
    BY DEF Unknown
  <2>2. IsFiniteSet(ImportSet)
    BY GoodIsWellFormed, DeclaredFinite
  <2> QED
    BY <2>1, <2>2, FS_Subset, FS_CardinalityType
<1> QED
  BY <1>2, <1>3, <1>4, <1>5, <1>6, <1>7, <1>8 DEF c, PoolSize

\* An import from the host is of a field that the host provides and nobody asks the policy
\* for, or is itself asked of the policy.
LEMMA OfOneKind ==
  ASSUME NEW S, S \subseteq Kinds, Cardinality(S) <= 1, NEW k \in S, NEW l \in S
  PROVE  k = l
<1> SUFFICES ASSUME k # l PROVE FALSE
  OBVIOUS
<1>1. IsFiniteSet(S)
  BY KindsAre, FS_Subset
<1>2. Cardinality({k, l}) = 2
  <2>1. Cardinality({k}) = 1 /\ IsFiniteSet({k})
    BY FS_Singleton
  <2>2. Cardinality({k} \cup {l}) = 1 + 1
    BY <2>1, FS_AddElement
  <2>3. {k} \cup {l} = {k, l}
    OBVIOUS
  <2> QED
    BY <2>2, <2>3
<1>3. Cardinality({k, l}) <= Cardinality(S)
  <2>1. {k, l} \in SUBSET S
    OBVIOUS
  <2> QED
    BY <1>1, <2>1, FS_Subset
<1>4. Cardinality(S) \in Nat
  BY <1>1, FS_CardinalityType
<1> QED
  BY <1>2, <1>3, <1>4

LEMMA FromHost ==
  ASSUME GoodEnvironment, NEW o \in ImportSet, Entry(o).from = Host
  PROVE  LET k == o[3]
             f == Entry(o).field
         IN IF HostProvides(k, f)
            THEN /\ UnknownAs(f) = {} /\ DefinedAs(f) = {k} /\ k \notin Limited
                 /\ Target(o) = <<"host", k, f>>
            ELSE o \in Unknown(k) /\ UnknownAs(f) = {k} /\ f \in Asked(k)
<1> DEFINE k == o[3]
           f == Entry(o).field
           S == UnknownAs(f) \cup DefinedAs(f)
<1>1. k \in Kinds /\ f \in Fields
  BY GoodIsWellFormed, TargetsAre
<1>2. S \subseteq Kinds /\ Cardinality(S) <= 1
  <2>1. \A g \in Fields : Cardinality(UnknownAs(g) \cup DefinedAs(g)) <= 1
    BY DEF GoodEnvironment, OneKindPerField
  <2> QED
    BY <1>1, <2>1 DEF UnknownAs, DefinedAs
<1>3. ASSUME HostProvides(k, f)
      PROVE  UnknownAs(f) = {} /\ DefinedAs(f) = {k} /\ k \notin Limited /\ Target(o) = <<"host", k, f>>
  <2>1. k \in DefinedAs(f)
    BY <1>1, <1>3 DEF DefinedAs, HostProvides
  <2>2. \A l \in S : l = k
    <3> HIDE DEF k, f
    <3>1. k \in S
      BY <2>1
    <3> HIDE DEF S
    <3> QED BY <1>2, <3>1, OfOneKind
  <2>3. k \notin UnknownAs(f)
    BY <1>3 DEF UnknownAs, Unknown
  <2>4. k \notin Limited
    BY <1>1, <1>3, GoodIsWellFormed, HostsAre DEF HostProvides
  <2>5. Target(o) = <<"host", k, f>>
    BY <1>3, GoodIsWellFormed, TargetsAre
  <2> QED
    BY <2>1, <2>2, <2>3, <2>4, <2>5
<1>4. ASSUME ~HostProvides(k, f)
      PROVE  o \in Unknown(k) /\ UnknownAs(f) = {k} /\ f \in Asked(k)
  <2>1. o \in Unknown(k)
    BY <1>4 DEF Unknown
  <2>2. k \in UnknownAs(f) /\ f \in Asked(k)
    BY <1>1, <2>1 DEF UnknownAs, Asked
  <2>3. \A l \in S : l = k
    <3> HIDE DEF k, f
    <3>1. k \in S
      BY <2>2
    <3> HIDE DEF S
    <3> QED BY <1>2, <3>1, OfOneKind
  <2> QED
    BY <2>1, <2>2, <2>3
<1> QED
  BY <1>3, <1>4

-----------------------------------------------------------------------------
(* performPreLink and the definitions *)

LEMMA EmptySequences ==
  /\ <<>> \in Seq(Objects \cup {Null})
  /\ <<>> \in Seq([what : Objects \cup {Null}, type : Types \cup {Null}])
  /\ \A S : <<>> \in Seq(S)
  /\ Len(<<>>) = 0
OBVIOUS

LEMMA InitLinks == Init => LinkInv
<1> SUFFICES ASSUME Init PROVE LinkInv
  OBVIOUS
<1>1. GoodEnvironment
  BY DEF Init, GoodEnvironment
<1>2. LinkTypes
  BY EmptySequences DEF Init, LinkTypes
<1>3. PoolsInv /\ HostInv /\ SpacesInv /\ FailsForCause
  BY DEF Init, PoolsInv, HostInv, SpacesInv, FailsForCause, Binding
<1>4. CallsInv /\ TurnsInv
  BY EmptySequences DEF Init, CallsInv, TurnsInv, ToSet
<1> QED
  BY <1>1, <1>2, <1>3, <1>4 DEF LinkInv

\* The fields of the host, and of these the mutable globals, as sequences.
LEMMA HostSequences ==
  ASSUME GoodEnvironment, NEW k \in Kinds
  PROVE  /\ HostFields(k) \in Seq(Fields) /\ Len(HostFields(k)) \in Nat
         /\ DOMAIN HostFields(k) = 1 .. Len(HostFields(k))
         /\ \A n \in DOMAIN HostFields(k) : HostFields(k)[n] \in Fields /\ env.host[k][HostFields(k)[n]] # Null
         /\ \A f \in Fields : env.host[k][f] # Null => \E n \in DOMAIN HostFields(k) : HostFields(k)[n] = f
         /\ Len(HostMutable) \in Nat /\ Len(HostMutable) <= PoolSize("global")
         /\ DOMAIN HostMutable = 1 .. Len(HostMutable)
         /\ \A n \in DOMAIN HostMutable :
              HostMutable[n] \in Fields /\ env.host["global"][HostMutable[n]] # Null
         /\ \A f \in Fields : env.host["global"][f] # Null /\ env.host["global"][f].mut =>
              \E n \in DOMAIN HostMutable : HostMutable[n] = f
<1> DEFINE S == {f \in Fields : env.host[k][f] # Null}
           T == {f \in Fields : env.host["global"][f] # Null /\ env.host["global"][f].mut}
<1>1. IsFiniteSet(S) /\ IsFiniteSet(T)
  <2>1. S \in SUBSET Fields /\ T \in SUBSET Fields
    OBVIOUS
  <2> HIDE DEF S, T
  <2> QED BY <2>1, FieldsAssumption, FS_Subset
<1>2. /\ SetToSeq(S) \in Seq(S) /\ ToSet(SetToSeq(S)) = S
      /\ SetToSeq(T) \in Seq(T) /\ ToSet(SetToSeq(T)) = T
  <2> HIDE DEF S, T
  <2> QED BY <1>1, SequenceOfSet
<1>3. HostFields(k) = SetToSeq(S) /\ HostMutable = SetToSeq(T)
  BY DEF HostFields, HostMutable
<1> DEFINE s == HostFields(k)
           t == HostMutable
<1>4. s \in Seq(S) /\ ToSet(s) = S /\ t \in Seq(T) /\ ToSet(t) = T
  BY <1>2, <1>3
<1>5. CopiesFit
  BY DEF GoodEnvironment
<1>6. Len(HostMutable) <= PoolSize("global")
  BY <1>5 DEF CopiesFit
<1> HIDE DEF s, t
<1>7. S \subseteq Fields
  OBVIOUS
<1>8. /\ s \in Seq(Fields) /\ Len(s) \in Nat /\ DOMAIN s = 1 .. Len(s)
      /\ Len(t) \in Nat /\ DOMAIN t = 1 .. Len(t)
  <2> HIDE DEF S, T
  <2>1. \A j \in 1 .. Len(s) : s[j] \in Fields
    BY <1>4, <1>7, ElementOfSeq
  <2> QED BY <1>4, <2>1, InSeqOf, LenProperties
<1>9. /\ \A n \in DOMAIN s : s[n] \in S
      /\ \A n \in DOMAIN t : t[n] \in T
      /\ \A f \in S : \E n \in DOMAIN s : s[n] = f
      /\ \A f \in T : \E n \in DOMAIN t : t[n] = f
  <2> HIDE DEF S, T
  <2> QED BY <1>4 DEF ToSet
<1> QED
  BY <1>6, <1>8, <1>9 DEF s, t

\* What the host has and exports after performPreLink.
LEMMA HostMade ==
  ASSUME GoodEnvironment
  PROVE  /\ \A f \in Fields : HostExport(f) \in [kind : Kinds, index : Nat] \cup {Null}
         /\ \A k \in Kinds : \A n \in DOMAIN HostFields(k) : HostObject(k, HostFields(k)[n]) \in Objects
         /\ \A o \in ImportSet : Entry(o).from = Host =>
              LET k == o[3]
                  f == Entry(o).field
              IN /\ HostExport(f) # Null
                 /\ HostProvides(k, f) => /\ HostExport(f).index \in DOMAIN HostFields(k)
                                          /\ HostFields(k)[HostExport(f).index] = f
                                          /\ HostExport(f).index # Invalid
                                          /\ HostObject(k, f) = <<"host", k, f>>
                 /\ ~HostProvides(k, f) => HostExport(f).index = Invalid
<1>1. ASSUME NEW f \in Fields, UnknownAs(f) # {}
      PROVE  /\ HostExport(f) = UnknownExport(f) /\ UnknownExport(f) \in [kind : Kinds, index : Nat]
             /\ UnknownExport(f).index = Invalid
  <2>1. (CHOOSE k \in UnknownAs(f) : TRUE) \in Kinds
    BY <1>1 DEF UnknownAs
  <2> QED
    BY <1>1, <2>1 DEF HostExport, UnknownExport, Invalid
<1>2. ASSUME NEW f \in Fields, UnknownAs(f) = {}, DefinedAs(f) # {}
      PROVE  /\ HostExport(f) = DefinedExport(f) /\ DefinedExport(f) \in [kind : Kinds, index : Nat]
             /\ DefinedExport(f).kind \in DefinedAs(f)
             /\ DefinedExport(f).index \in DOMAIN HostFields(DefinedExport(f).kind)
             /\ HostFields(DefinedExport(f).kind)[DefinedExport(f).index] = f
  <2> DEFINE k == CHOOSE l \in DefinedAs(f) : TRUE
             i == CHOOSE n \in DOMAIN HostFields(k) : HostFields(k)[n] = f
  <2>1. k \in DefinedAs(f) /\ k \in Kinds /\ env.host[k][f] # Null
    BY <1>2 DEF DefinedAs
  <2>2. DefinedExport(f) = [kind |-> k, index |-> i]
    BY DEF DefinedExport
  <2> HIDE DEF k
  <2>3. \E n \in DOMAIN HostFields(k) : HostFields(k)[n] = f
    BY <2>1, HostSequences
  <2>4. i \in DOMAIN HostFields(k) /\ HostFields(k)[i] = f
    BY <2>3
  <2>5. i \in Nat
    BY <2>1, <2>4, HostSequences
  <2> HIDE DEF i
  <2> QED
    BY <1>2, <2>1, <2>2, <2>4, <2>5 DEF HostExport
<1>3. \A f \in Fields : HostExport(f) \in [kind : Kinds, index : Nat] \cup {Null}
  <2> TAKE f \in Fields
  <2>1. UnknownAs(f) = {} /\ DefinedAs(f) = {} => HostExport(f) = Null
    BY DEF HostExport
  <2> QED
    BY <1>1, <1>2, <2>1
<1>4. ASSUME NEW k \in Kinds, NEW n \in DOMAIN HostFields(k)
      PROVE  HostObject(k, HostFields(k)[n]) \in Objects
  <2> DEFINE f == HostFields(k)[n]
  <2>1. f \in Fields /\ env.host[k][f] # Null
    BY HostSequences
  <2> HIDE DEF f
  <2>2. CASE HostProvides(k, f)
    BY <2>1, <2>2 DEF HostObject, Objects, f
  <2>3. CASE ~HostProvides(k, f)
    <3> DEFINE l == CHOOSE j \in DOMAIN HostMutable : HostMutable[j] = f
    <3>1. env.host[k][f].mut /\ k = "global"
      BY <2>1, <2>3, GoodIsWellFormed, HostsAre DEF HostProvides
    <3>2. \E j \in DOMAIN HostMutable : HostMutable[j] = f
      BY <2>1, <3>1, HostSequences
    <3>3. l \in 1 .. Len(HostMutable)
      BY <3>1, <3>2, HostSequences
    <3>4. PoolSize("global") \in Nat /\ Len(HostMutable) \in Nat /\ Len(HostMutable) <= PoolSize("global")
      BY <3>1, CopiedAre, HostSequences
    <3>5. HostObject(k, f) = <<"slot", k, CopySlot(l)>>
      BY <2>3 DEF HostObject
    <3> HIDE DEF l
    <3>6. CopySlot(l) \in Nat
      BY <3>3, <3>4 DEF CopySlot
    <3> QED
      BY <3>5, <3>6 DEF Objects, f
  <2> QED
    BY <2>2, <2>3
<1>5. ASSUME NEW o \in ImportSet, Entry(o).from = Host
      PROVE  LET k == o[3]
                 f == Entry(o).field
             IN /\ HostExport(f) # Null
                /\ HostProvides(k, f) => /\ HostExport(f).index \in DOMAIN HostFields(k)
                                         /\ HostFields(k)[HostExport(f).index] = f
                                         /\ HostExport(f).index # Invalid
                                         /\ HostObject(k, f) = <<"host", k, f>>
                /\ ~HostProvides(k, f) => HostExport(f).index = Invalid
  <2> DEFINE k == o[3]
             f == Entry(o).field
  <2>1. k \in Kinds /\ f \in Fields
    BY GoodIsWellFormed, TargetsAre
  <2>2. CASE HostProvides(k, f)
    <3>1. UnknownAs(f) = {} /\ DefinedAs(f) = {k}
      BY <1>5, <2>2, FromHost
    <3> HIDE DEF k, f
    <3>2. HostExport(f) \in [kind : Kinds, index : Nat] /\ HostExport(f).kind = k
          /\ HostExport(f).index \in DOMAIN HostFields(k)
          /\ HostFields(k)[HostExport(f).index] = f
      BY <1>2, <2>1, <3>1
    <3>3. HostExport(f).index # Invalid
      BY <2>1, <3>2, HostSequences DEF Invalid
    <3>4. HostObject(k, f) = <<"host", k, f>>
      BY <2>2 DEF HostObject
    <3> QED
      BY <2>2, <3>2, <3>3, <3>4, NullAssumption DEF k, f
  <2>3. CASE ~HostProvides(k, f)
    <3>1. UnknownAs(f) # {}
      BY <1>5, <2>3, FromHost
    <3> HIDE DEF k, f
    <3> QED
      BY <1>1, <2>1, <2>3, <3>1, NullAssumption DEF k, f
  <2> QED
    BY <2>2, <2>3
<1> QED
  BY <1>3, <1>4, <1>5

LEMMA SameTypes ==
  ASSUME env' = env, slots' = slots
  PROVE  \A x : TypeOf(x)' = TypeOf(x)
BY DEF TypeOf, DeclaredType, Entry

LEMMA SameFailure ==
  ASSUME env' = env, phase' = phase, FailsForCause
  PROVE  FailsForCause'
BY SameEnvironment DEF FailsForCause

\* What a step that leaves the objects as they are keeps.
LEMMA QuietLinks ==
  ASSUME LinkInv, env' = env, exports' = exports, space' = space, slots' = slots, count' = count,
         phase' = phase \/ (Binding /\ Binding')
  PROVE  /\ GoodEnvironment' /\ PoolsInv' /\ HostInv' /\ SpacesInv'
         /\ \A o : ObjectAt(o)' = ObjectAt(o)
         /\ \A o : Checked(o)' <=> Checked(o)
<1>1. GoodEnvironment'
  BY SameEnvironment DEF LinkInv
<1>2. (Binding' <=> Binding) /\ (phase = "prelink" <=> phase' = "prelink")
      /\ (phase = "define" <=> phase' = "define")
  BY DEF Binding
<1>3. PoolsInv'
  <2>1. \A k, n, f : Granted(k, n, f)' <=> Granted(k, n, f)
    BY SameEnvironment DEF Granted
  <2>2. \A k : PoolSize(k)' = PoolSize(k) /\ Copied(k)' = Copied(k)
    BY SameEnvironment
  <2>3. \A d : DeclaredType(d)' = DeclaredType(d)
    BY SameEnvironment
  <2> QED
    BY <1>2, <2>1, <2>2, <2>3 DEF LinkInv, PoolsInv
<1>4. \A object, k, d : Stands(object, k, d)' <=> Stands(object, k, d)
  BY DEF Stands
<1>5. HostInv'
  BY <1>2, <1>4, SameEnvironment DEF LinkInv, HostInv
<1>6. \A o : ObjectAt(o)' = ObjectAt(o)
  BY DEF ObjectAt
<1>7. SpacesInv'
  <2>1. /\ Declared' = Declared /\ ImportSet' = ImportSet
        /\ \A o : Denotes(o)' = Denotes(o)
    BY SameEnvironment
  <2> QED
    BY <1>2, <1>4, <1>6, <2>1 DEF LinkInv, SpacesInv
<1>8. \A o : Checked(o)' <=> Checked(o)
  BY SameTypes, SameEnvironment DEF Checked, ObjectAt, Before
<1> QED
  BY <1>1, <1>3, <1>5, <1>6, <1>7, <1>8

LEMMA StutterLinks ==
  ASSUME LinkInv, UNCHANGED vars
  PROVE  LinkInv'
<1>1. env' = env /\ phase' = phase /\ exports' = exports /\ space' = space /\ slots' = slots
      /\ count' = count /\ todo' = todo /\ calls' = calls
  BY DEF vars
<1>2. LinkTypes'
  BY <1>1, SameEnvironment DEF LinkInv, LinkTypes
<1>3. CallsInv'
  BY <1>1, SameEnvironment DEF LinkInv, CallsInv, ObjectAt
<1>4. TurnsInv'
  <2>1. TurnsInv /\ ImportSet' = ImportSet
    BY <1>1, SameEnvironment DEF LinkInv
  <2> QED
    BY <1>1, <2>1, QuietLinks DEF TurnsInv
<1>5. FailsForCause'
  BY <1>1, SameFailure DEF LinkInv
<1> QED
  BY <1>1, <1>2, <1>3, <1>4, <1>5, QuietLinks DEF LinkInv

\* performPreLink makes the pools and what the host exports.
LEMMA PreLinkLinks ==
  ASSUME LinkInv, PreLink
  PROVE  LinkInv'
<1>0. /\ GoodEnvironment /\ LinkTypes /\ PoolsInv /\ phase = "prelink" /\ phase' = "define"
      /\ env' = env /\ count' = count /\ todo' = todo /\ calls' = calls
  BY DEF LinkInv, PreLink
<1>1. GoodEnvironment'
  BY <1>0, SameEnvironment
<1> DEFINE Copy(k, n) == IF k = "global" /\ PoolSize(k) - n < Len(HostMutable)
                         THEN LET f == HostMutable[PoolSize(k) - n + 1]
                              IN [what |-> <<"copy", k, f>>, type |-> env.host[k][f].type]
                         ELSE Empty
           Slot2 == [what : Objects \cup {Null}, type : Types \cup {Null}]
<1>2. ASSUME NEW k \in Kinds
      PROVE  /\ slots'[k] \in Seq(Slot2)
             /\ Len(slots'[k]) = PoolSize(k)
  <2>1. PoolSize(k) \in Nat
    BY <1>0, CopiedAre
  <2>2. ASSUME NEW n \in 1 .. PoolSize(k) PROVE Copy(k, n) \in Slot2
    <3>1. CASE k = "global" /\ PoolSize(k) - n < Len(HostMutable)
      <4> DEFINE f == HostMutable[PoolSize(k) - n + 1]
      <4>1. PoolSize(k) - n + 1 \in DOMAIN HostMutable
        BY <1>0, <2>1, <3>1, HostSequences
      <4>2. f \in Fields /\ env.host["global"][f] # Null
        BY <1>0, <4>1, HostSequences
      <4> HIDE DEF f
      <4>3. env.host[k][f].type \in Types
        BY <1>0, <3>1, <4>2, GoodIsWellFormed, HostsAre
      <4>4. <<"copy", k, f>> \in Objects
        BY <4>2 DEF Objects
      <4>5. Copy(k, n) = [what |-> <<"copy", k, f>>, type |-> env.host[k][f].type]
        BY <3>1 DEF f
      <4> QED
        BY <4>3, <4>4, <4>5
    <3>2. CASE ~(k = "global" /\ PoolSize(k) - n < Len(HostMutable))
      BY <3>2 DEF Empty
    <3> QED
      BY <3>1, <3>2
  <2>3. slots'[k] = [n \in 1 .. PoolSize(k) |-> Copy(k, n)]
    BY DEF PreLink
  <2> HIDE DEF Copy, Slot2
  <2>4. slots'[k] \in [1 .. PoolSize(k) -> Slot2]
    BY <2>2, <2>3
  <2> QED
    BY <2>1, <2>4, SeqDef, LenProperties
<1>3. slots' \in [Kinds -> Seq(Slot2)]
  <2>1. slots' = [k \in Kinds |-> slots'[k]]
    BY DEF PreLink
  <2> HIDE DEF Slot2
  <2> QED
    BY <1>2, <2>1
<1>4. /\ exports' \in [Modules -> [Fields -> [kind : Kinds, index : Nat] \cup {Null}]]
      /\ \A f \in Fields : exports'[Host][f] = HostExport(f)
  <2>1. exports' = [exports EXCEPT ![Host] = [f \in Fields |-> HostExport(f)]]
    BY DEF PreLink
  <2>2. [f \in Fields |-> HostExport(f)] \in [Fields -> [kind : Kinds, index : Nat] \cup {Null}]
    BY <1>0, HostMade
  <2>3. exports \in [Modules -> [Fields -> [kind : Kinds, index : Nat] \cup {Null}]] /\ Host \in Modules
    BY <1>0 DEF LinkTypes, Modules
  <2> QED
    BY <2>1, <2>2, <2>3
<1>5. /\ space' \in [Modules -> [Kinds -> Seq(Objects \cup {Null})]]
      /\ \A k \in Kinds : space'[Host][k] = [n \in DOMAIN HostFields(k) |-> HostObject(k, HostFields(k)[n])]
  <2> DEFINE S == [k \in Kinds |-> [n \in DOMAIN HostFields(k) |-> HostObject(k, HostFields(k)[n])]]
  <2>1. space' = [space EXCEPT ![Host] = S]
    BY DEF PreLink
  <2>2. ASSUME NEW k \in Kinds PROVE S[k] \in Seq(Objects \cup {Null})
    <3>1. /\ DOMAIN HostFields(k) = 1 .. Len(HostFields(k)) /\ Len(HostFields(k)) \in Nat
          /\ \A n \in DOMAIN HostFields(k) : HostObject(k, HostFields(k)[n]) \in Objects
      BY <1>0, HostSequences, HostMade
    <3>2. S[k] \in [1 .. Len(HostFields(k)) -> Objects \cup {Null}]
      BY <3>1
    <3> HIDE DEF S
    <3> QED
      BY <3>1, <3>2, SeqDef
  <2>3. S \in [Kinds -> Seq(Objects \cup {Null})]
    BY <2>2
  <2>4. space \in [Modules -> [Kinds -> Seq(Objects \cup {Null})]] /\ Host \in Modules
    BY <1>0 DEF LinkTypes, Modules
  <2>5. \A k \in Kinds : S[k] = [n \in DOMAIN HostFields(k) |-> HostObject(k, HostFields(k)[n])]
    OBVIOUS
  <2> HIDE DEF S
  <2> QED
    BY <2>1, <2>3, <2>4, <2>5
<1>6. LinkTypes'
  BY <1>0, <1>3, <1>4, <1>5, SameEnvironment DEF LinkTypes
<1>7. PoolsInv'
  BY <1>0, <1>2, SameEnvironment DEF PoolsInv, Binding
<1>8. HostInv'
  <2> SUFFICES ASSUME NEW o \in ImportSet, Entry(o).from = Host
               PROVE  LET export == exports'[Host][Entry(o).field]
                      IN /\ export # Null
                         /\ export.index # Invalid =>
                               /\ export.index \in DOMAIN space'[Host][o[3]]
                               /\ Stands(space[Host][o[3]][exports[Host][Entry(o).field].index], o[3], Target(o))'
                         /\ HostProvides(o[3], Entry(o).field) => export.index # Invalid
    BY <1>0, SameEnvironment DEF HostInv
  <2> DEFINE k == o[3]
             f == Entry(o).field
  <2>1. k \in Kinds /\ f \in Fields
    BY <1>0, GoodIsWellFormed, TargetsAre
  <2>2. exports'[Host][f] = HostExport(f)
    BY <1>4, <2>1
  <2>3. HostExport(f) # Null
    BY <1>0, HostMade
  <2>4. CASE HostProvides(k, f)
    <3> DEFINE i == HostExport(f).index
    <3>1. i \in DOMAIN HostFields(k) /\ HostFields(k)[i] = f /\ i # Invalid
          /\ HostObject(k, f) = <<"host", k, f>>
      BY <1>0, <2>4, HostMade
    <3>2. k \notin Limited /\ Target(o) = <<"host", k, f>>
      BY <1>0, <2>4, FromHost
    <3>3. Target(o)' = Target(o) /\ Entry(o)' = Entry(o)
      BY <1>0, SameEnvironment
    <3>5. <<"host", k, f>> \in Objects
      BY <2>1 DEF Objects
    <3> HIDE DEF i, k, f
    <3>4. i \in DOMAIN space'[Host][k] /\ space'[Host][k][i] = <<"host", k, f>>
      BY <1>5, <2>1, <3>1
    <3>6. Stands(<<"host", k, f>>, k, Target(o))'
      BY <3>2, <3>3, <3>5 DEF Stands, k, f
    <3>7. Stands(space[Host][k][exports[Host][f].index], k, Target(o))'
      BY <2>2, <3>3, <3>4, <3>6 DEF i, k, f
    <3> QED
      BY <2>2, <2>3, <3>1, <3>4, <3>7 DEF i, k, f
  <2>5. CASE ~HostProvides(k, f)
    BY <1>0, <2>2, <2>3, <2>5, HostMade
  <2> QED
    BY <2>4, <2>5
<1>9. calls = <<>> /\ todo' = todo
  BY <1>0 DEF LinkTypes
<1>10. SpacesInv' /\ FailsForCause'
  BY <1>0 DEF SpacesInv, Binding, FailsForCause
<1>11. CallsInv' /\ TurnsInv'
  <2>1. \A i, j \in 1 .. Len(todo) : i < j => Before(todo[i], todo[j])
    BY DEF LinkInv, TurnsInv
  <2>2. calls' = <<>> /\ Len(calls') = 0
    BY <1>0, <1>9, EmptySequences
  <2>3. CallsInv'
    BY <2>2 DEF CallsInv
  <2>4. TurnsInv'
    BY <1>0, <1>9, <2>1 DEF TurnsInv, Before
  <2> QED
    BY <2>3, <2>4
<1> QED
  BY <1>1, <1>6, <1>7, <1>8, <1>10, <1>11 DEF LinkInv

\* The first loop of linkExternalModules puts every definition in its place.
LEMMA DefineLinks ==
  ASSUME LinkInv, Define
  PROVE  LinkInv'
<1>0. /\ GoodEnvironment /\ LinkTypes /\ PoolsInv /\ HostInv /\ phase = "define" /\ phase' = "import"
      /\ env' = env /\ calls' = calls /\ calls = <<>> /\ todo' = Imports
  BY DEF LinkInv, Define, LinkTypes
<1>1. GoodEnvironment'
  BY <1>0, SameEnvironment
<1>2. \A k \in Kinds : /\ count[k] = 0 /\ count'[k] = Len(Copied(k)) /\ count'[k] \in Nat
                       /\ Len(slots[k]) = PoolSize(k) /\ PoolSize(k) \in Nat
                       /\ DOMAIN slots[k] = 1 .. PoolSize(k) /\ Len(Copied(k)) <= PoolSize(k)
  <2> TAKE k \in Kinds
  <2>1. count'[k] = Len(Copied(k))
    BY DEF Define
  <2>2. slots[k] \in Seq([what : Objects \cup {Null}, type : Types \cup {Null}])
    BY <1>0 DEF LinkTypes
  <2>3. count[k] = 0 /\ Len(slots[k]) = PoolSize(k)
    BY <1>0 DEF PoolsInv
  <2>4. /\ Len(Copied(k)) \in Nat /\ PoolSize(k) \in Nat
        /\ Cardinality(Unknown(k)) \in Nat /\ PoolSize(k) = Cardinality(Unknown(k)) + Len(Copied(k))
    BY <1>0, CopiedAre
  <2> QED
    BY <2>1, <2>2, <2>3, <2>4, LenProperties
<1> DEFINE Slot2 == [what : Objects \cup {Null}, type : Types \cup {Null}]
           Made(k, n) == IF n <= Len(Copied(k))
                         THEN [what |-> Copied(k)[n], type |-> Entry(Copied(k)[n]).type]
                         ELSE slots[k][n]
<1>3. slots' = [k \in Kinds |-> [n \in DOMAIN slots[k] |-> Made(k, n)]]
  BY DEF Define
<1>4. ASSUME NEW k \in Kinds
      PROVE  /\ slots'[k] \in Seq(Slot2) /\ Len(slots'[k]) = PoolSize(k)
             /\ \A n \in 1 .. Len(Copied(k)) :
                  /\ slots'[k][n].what = Copied(k)[n]
                  /\ slots'[k][n].type = Entry(Copied(k)[n]).type
                  /\ slots'[k][n].type \in Types
  <2>1. \A n \in 1 .. Len(Copied(k)) : Copied(k)[n] \in Objects /\ Entry(Copied(k)[n]).type \in Types
    BY <1>0, CopiedAre, GoodIsWellFormed, EntriesAre
  <2>2. slots'[k] = [n \in 1 .. PoolSize(k) |-> Made(k, n)]
    BY <1>2, <1>3
  <2>3. \A n \in 1 .. PoolSize(k) : slots[k][n] \in Slot2
    <3>1. slots[k] \in Seq(Slot2)
      BY <1>0 DEF LinkTypes
    <3> HIDE DEF Slot2
    <3> QED BY <1>2, <3>1, ElementOfSeq
  <2>4. \A n \in 1 .. Len(Copied(k)) : [what |-> Copied(k)[n], type |-> Entry(Copied(k)[n]).type] \in Slot2
    BY <2>1
  <2>5. \A n \in 1 .. PoolSize(k) : n <= Len(Copied(k)) => n \in 1 .. Len(Copied(k))
    BY <1>2
  <2>6. \A n \in 1 .. PoolSize(k) : Made(k, n) \in Slot2
    <3> HIDE DEF Slot2
    <3> QED BY <2>3, <2>4, <2>5
  <2>7. slots'[k] \in Seq(Slot2) /\ Len(slots'[k]) = PoolSize(k)
    <3> HIDE DEF Slot2, Made
    <3>1. slots'[k] \in [1 .. PoolSize(k) -> Slot2]
      BY <2>2, <2>6
    <3> QED BY <1>2, <3>1, SeqDef, LenProperties
  <2>8. \A n \in 1 .. Len(Copied(k)) :
           slots'[k][n] = [what |-> Copied(k)[n], type |-> Entry(Copied(k)[n]).type]
    <3>1. \A n \in 1 .. Len(Copied(k)) : n \in 1 .. PoolSize(k) /\ n <= Len(Copied(k))
      BY <1>2
    <3> QED
      BY <2>2, <3>1
  <2> HIDE DEF Made, Slot2
  <2>9. ASSUME NEW n \in 1 .. Len(Copied(k))
        PROVE  /\ slots'[k][n].what = Copied(k)[n]
               /\ slots'[k][n].type = Entry(Copied(k)[n]).type
               /\ slots'[k][n].type \in Types
    <3> DEFINE c == Copied(k)[n]
               t == Entry(c).type
    <3>1. slots'[k][n] = [what |-> c, type |-> t] /\ t \in Types
      BY <2>1, <2>8
    <3> HIDE DEF t, c
    <3>2. slots'[k][n].what = c /\ slots'[k][n].type = t /\ t \in Types
      BY <3>1
    <3> QED
      BY <3>2 DEF t, c
  <2> QED
    BY <2>7, <2>9
<1>5. slots' \in [Kinds -> Seq(Slot2)]
  <2>1. slots' = [k \in Kinds |-> slots'[k]]
    BY <1>3
  <2> HIDE DEF Slot2
  <2> QED
    BY <1>4, <2>1
<1>6. /\ exports' \in [Modules -> [Fields -> [kind : Kinds, index : Nat] \cup {Null}]]
      /\ exports'[Host] = exports[Host] /\ \A m \in Externals : exports'[m] = env.exports[m]
  <2>1. exports' = [m \in Modules |-> IF m = Host THEN exports[m] ELSE env.exports[m]]
    BY DEF Define
  <2>2. Host \in Modules /\ (\A m \in Externals : m \in Modules /\ m # Host)
        /\ \A m \in Modules : m = Host \/ m \in Externals
    BY OrderAssumption DEF Modules
  <2>3. \A m \in Externals : env.exports[m] \in [Fields -> [kind : Kinds, index : Nat] \cup {Null}]
    BY <1>0, GoodIsWellFormed DEF WellFormed
  <2>4. exports[Host] \in [Fields -> [kind : Kinds, index : Nat] \cup {Null}]
    BY <1>0, <2>2 DEF LinkTypes
  <2> QED
    BY <2>1, <2>2, <2>3, <2>4
<1> DEFINE object(o) == IF IsImport(o) THEN Null
                        ELSE IF o \in ToSet(Copied(o[3]))
                             THEN <<"slot", o[3], CHOOSE n \in DOMAIN Copied(o[3]) : Copied(o[3])[n] = o>>
                             ELSE o
<1>7. space' = [m \in Modules |-> IF m = Host THEN space[m]
                    ELSE [k \in Kinds |-> [i \in DOMAIN env.index[m][k] |-> object(<<"own", m, k, i>>)]]]
  BY DEF Define
<1>8. ASSUME NEW o \in Declared, NEW x, x = object(o)
      PROVE  /\ x \in Objects \cup {Null}
             /\ o \notin ImportSet => x # Null /\ Stands(x, o[3], o)'
             /\ o \in ImportSet => x = Null
  <2>0. /\ o[3] \in Kinds /\ o \in Objects /\ o[1] = "own" /\ o # Null
    BY <1>0, GoodIsWellFormed, EntriesAre, NullAssumption
  <2>1. CASE o \in ImportSet
    BY <1>8, <2>1 DEF ImportSet
  <2>2. CASE o \notin ImportSet /\ o \in ToSet(Copied(o[3]))
    <3> DEFINE k == o[3]
               n == CHOOSE l \in DOMAIN Copied(k) : Copied(k)[l] = o
    <3>1. ~IsImport(o)
      BY <2>2 DEF ImportSet
    <3>2. \E l \in DOMAIN Copied(k) : Copied(k)[l] = o
      BY <2>2 DEF ToSet
    <3>3. n \in 1 .. Len(Copied(k)) /\ Copied(k)[n] = o
      BY <1>0, <3>2, CopiedAre
    <3>4. x = <<"slot", k, n>>
      BY <1>8, <2>2, <3>1
    <3> HIDE DEF n
    <3>5. n \in Nat /\ n \in 1 .. count'[k] /\ slots'[k][n].what = o
      BY <1>2, <1>4, <2>0, <3>3
    <3>6. x \in Objects
      BY <2>0, <3>4, <3>5 DEF Objects
    <3>7. Stands(x, k, o)'
      <4>1. x[1] = "slot" /\ x[2] = k /\ x[3] = n
        BY <3>4
      <4>2. x[3] \in 1 .. count'[k] /\ slots'[k][x[3]].what = o
        BY <3>5, <4>1
      <4> HIDE DEF object
      <4> QED
        BY <3>6, <4>1, <4>2 DEF Stands
    <3> QED
      BY <2>2, <3>6, <3>7, NullAssumption
  <2>3. CASE o \notin ImportSet /\ o \notin ToSet(Copied(o[3]))
    <3>1. ~IsImport(o)
      BY <2>3 DEF ImportSet
    <3>2. x = o
      BY <1>8, <2>3, <3>1
    <3>3. o[3] \notin Limited
      <4> SUFFICES ASSUME o[3] \in Limited PROVE FALSE
        OBVIOUS
      <4>1. o \in Copies(o[3])
        BY <3>1 DEF Copies
      <4>2. \E n \in 1 .. Len(Copied(o[3])) : Copied(o[3])[n] = o
        BY <1>0, <4>1, CopiedAre
      <4>3. DOMAIN Copied(o[3]) = 1 .. Len(Copied(o[3]))
        BY <1>0, CopiedAre
      <4> QED
        BY <2>3, <4>2, <4>3 DEF ToSet
    <3>4. Stands(o, o[3], o)'
      BY <2>0, <3>3 DEF Stands
    <3> HIDE DEF object
    <3> QED
      BY <2>0, <2>3, <3>2, <3>4
  <2> QED
    BY <2>1, <2>2, <2>3
<1> HIDE DEF object
<1>9. /\ space' \in [Modules -> [Kinds -> Seq(Objects \cup {Null})]]
      /\ space'[Host] = space[Host]
      /\ \A m \in Externals, k \in Kinds : DOMAIN space'[m][k] = DOMAIN env.index[m][k]
      /\ \A o \in Declared : space'[o[2]][o[3]][o[4]] = object(o)
  <2>1. Host \in Modules /\ (\A m \in Externals : m \in Modules /\ m # Host)
        /\ \A m \in Modules : m = Host \/ m \in Externals
    BY OrderAssumption DEF Modules
  <2>2. ASSUME NEW m \in Externals, NEW k \in Kinds
        PROVE  /\ space'[m][k] = [i \in DOMAIN env.index[m][k] |-> object(<<"own", m, k, i>>)]
               /\ space'[m][k] \in Seq(Objects \cup {Null})
    <3>1. space'[m][k] = [i \in DOMAIN env.index[m][k] |-> object(<<"own", m, k, i>>)]
      BY <1>7, <2>1
    <3>2. \A i \in DOMAIN env.index[m][k] : object(<<"own", m, k, i>>) \in Objects \cup {Null}
      <4>1. \A o \in Declared : object(o) \in Objects \cup {Null}
        BY <1>8
      <4> QED
        BY <4>1, InDeclared
    <3>3. env.index[m][k] \in Seq(ToSet(env.index[m][k]))
      BY <1>0, GoodIsWellFormed DEF WellFormed
    <3>4. DOMAIN env.index[m][k] = 1 .. Len(env.index[m][k]) /\ Len(env.index[m][k]) \in Nat
      BY <3>3, LenProperties
    <3>5. space'[m][k] \in [1 .. Len(env.index[m][k]) -> Objects \cup {Null}]
      BY <3>1, <3>2, <3>4
    <3> QED
      BY <3>1, <3>4, <3>5, SeqDef
  <2>3. space'[Host] = space[Host]
    BY <1>7, <2>1
  <2>4. space[Host] \in [Kinds -> Seq(Objects \cup {Null})]
    BY <1>0, <2>1 DEF LinkTypes
  <2>5. \A m \in Externals : space'[m] \in [Kinds -> Seq(Objects \cup {Null})]
    <3> TAKE m \in Externals
    <3>1. space'[m] = [k \in Kinds |-> [i \in DOMAIN env.index[m][k] |-> object(<<"own", m, k, i>>)]]
      BY <1>7, <2>1
    <3>2. space'[m] = [k \in Kinds |-> space'[m][k]]
      BY <3>1
    <3> QED
      BY <2>2, <3>2
  <2>6. space' = [m \in Modules |-> space'[m]]
    BY <1>7
  <2>7. space' \in [Modules -> [Kinds -> Seq(Objects \cup {Null})]]
    BY <2>1, <2>3, <2>4, <2>5, <2>6
  <2>8. \A o \in Declared : space'[o[2]][o[3]][o[4]] = object(o)
    <3> TAKE o \in Declared
    <3>1. /\ o = <<"own", o[2], o[3], o[4]>> /\ o[2] \in Externals /\ o[3] \in Kinds
          /\ o[4] \in DOMAIN env.index[o[2]][o[3]]
      BY <1>0, GoodIsWellFormed, EntriesAre
    <3>2. space'[o[2]][o[3]] = [i \in DOMAIN env.index[o[2]][o[3]] |-> object(<<"own", o[2], o[3], i>>)]
      BY <2>2, <3>1
    <3>3. space'[o[2]][o[3]][o[4]] = object(<<"own", o[2], o[3], o[4]>>)
      BY <3>1, <3>2
    <3> QED
      BY <3>1, <3>3
  <2>9. \A m \in Externals, k \in Kinds : DOMAIN space'[m][k] = DOMAIN env.index[m][k]
    BY <2>2
  <2> QED
    BY <2>3, <2>7, <2>8, <2>9
<1>10. Imports \in Seq(ImportSet)
       /\ ToSet(Imports) = ImportSet
       /\ \A i, j \in 1 .. Len(Imports) : i < j => Before(Imports[i], Imports[j])
  <2>1. ImportSet \subseteq Declared
    BY DEF ImportSet
  <2> QED
    BY <1>0, <2>1, InOrderSorts, GoodIsWellFormed DEF Imports
<1>11. LinkTypes'
  <2>1. count' \in [Kinds -> Nat]
    <3>1. count' = [k \in Kinds |-> Len(Copied(k))]
      BY DEF Define
    <3> QED
      BY <1>2, <3>1
  <2> QED
    BY <1>0, <1>5, <1>6, <1>9, <1>10, <2>1, SameEnvironment DEF LinkTypes
<1>12. PoolsInv'
  <2>1. ASSUME NEW k \in Kinds
        PROVE  /\ Len(Copied(k)) <= count'[k] /\ count'[k] <= PoolSize(k)
               /\ \A n \in 1 .. Len(Copied(k)) : slots'[k][n].what = Copied(k)[n]
               /\ \A n \in Len(Copied(k)) + 1 .. count'[k] : FALSE
               /\ \A n \in 1 .. count'[k] : /\ slots'[k][n].type \in Types
                                            /\ slots'[k][n].type = DeclaredType(slots'[k][n].what)
    <3>1. Len(Copied(k)) <= count'[k] /\ count'[k] <= PoolSize(k) /\ Len(Copied(k)) = count'[k]
      BY <1>2
    <3>2. \A n \in Len(Copied(k)) + 1 .. count'[k] : FALSE
      BY <1>2
    <3>3. ASSUME NEW n \in 1 .. Len(Copied(k)) PROVE DeclaredType(Copied(k)[n]) = Entry(Copied(k)[n]).type
      <4>1. Copied(k)[n][1] = "own"
        BY <1>0, CopiedAre, GoodIsWellFormed, EntriesAre
      <4> QED
        BY <4>1 DEF DeclaredType
    <3> QED
      BY <1>4, <3>1, <3>2, <3>3
  <2>2. \A k : PoolSize(k)' = PoolSize(k) /\ Copied(k)' = Copied(k)
    BY <1>0, SameEnvironment
  <2>3. \A d : DeclaredType(d)' = DeclaredType(d)
    BY <1>0, SameEnvironment
  <2> QED
    BY <1>0, <1>4, <2>1, <2>2, <2>3 DEF PoolsInv
<1>13. HostInv'
  <2>1. ASSUME NEW o \in ImportSet, Entry(o).from = Host, NEW x, Stands(x, o[3], Target(o))
        PROVE  Stands(x, o[3], Target(o))'
    <3>1. o[3] \in Kinds
      BY <1>0, GoodIsWellFormed, TargetsAre
    <3>2. count[o[3]] = 0
      BY <1>2, <3>1
    <3>3. x[1] # "slot"
      BY <2>1, <3>2 DEF Stands
    <3>4. Target(o)' = Target(o)
      BY <1>0, SameEnvironment
    <3> QED
      BY <2>1, <3>3, <3>4 DEF Stands
  <2>2. \A o : Entry(o)' = Entry(o) /\ Target(o)' = Target(o)
    BY <1>0, SameEnvironment
  <2>3. \A k, f : HostProvides(k, f)' <=> HostProvides(k, f)
    BY <1>0, SameEnvironment
  <2>4. ImportSet' = ImportSet
    BY <1>0, SameEnvironment
  <2> QED
    BY <1>0, <1>6, <1>9, <2>1, <2>2, <2>3, <2>4 DEF HostInv
<1>14. SpacesInv'
  <2>1. \A o \in Declared : o \notin ImportSet => Denotes(o) = o
    BY <1>0, GoodIsWellFormed, Denoted DEF Ends
  <2>2. \A o : Denotes(o)' = Denotes(o)
    BY <1>0, SameEnvironment
  <2>3. Declared' = Declared /\ ImportSet' = ImportSet
    BY <1>0, SameEnvironment
  <2>4. ASSUME NEW o \in Declared
        PROVE  /\ o \notin ImportSet => ObjectAt(o)' # Null
               /\ ObjectAt(o)' # Null => Stands(ObjectAt(o), o[3], Denotes(o))'
    <3>1. ObjectAt(o)' = object(o)
      BY <1>9 DEF ObjectAt
    <3>2. CASE o \in ImportSet
      BY <1>8, <3>1, <3>2
    <3>3. CASE o \notin ImportSet
      <4>1. \A x : x = object(o) => x # Null /\ Stands(x, o[3], o)'
        BY <1>8, <3>3
      <4>2. Denotes(o)' = o
        BY <2>1, <2>2, <3>3
      <4> QED
        BY <3>1, <4>1, <4>2 DEF Stands
    <3> QED
      BY <3>2, <3>3
  <2> QED
    BY <1>0, <1>6, <1>9, <2>3, <2>4 DEF SpacesInv
<1>15. CallsInv' /\ FailsForCause'
  BY <1>0, EmptySequences DEF CallsInv, FailsForCause
<1>16. TurnsInv'
  BY <1>0, <1>10, SameEnvironment DEF TurnsInv
<1> QED
  BY <1>1, <1>11, <1>12, <1>13, <1>14, <1>15, <1>16 DEF LinkInv
-----------------------------------------------------------------------------
(* The calls *)

\* The next import has its turn.
LEMMA NextImportLinks ==
  ASSUME LinkInv, NextImport
  PROVE  LinkInv'
<1>0. /\ LinkTypes /\ TurnsInv /\ phase = "import" /\ phase' = phase /\ calls = <<>> /\ todo # <<>>
      /\ calls' = << Head(todo) >> /\ todo' = Tail(todo)
      /\ env' = env /\ exports' = exports /\ space' = space /\ slots' = slots /\ count' = count
  BY DEF LinkInv, NextImport
<1>1. todo \in Seq(ImportSet) /\ Head(todo) \in ImportSet /\ Tail(todo) \in Seq(ImportSet)
  BY <1>0, HeadTailProperties DEF LinkTypes
<1>2. /\ Len(todo) \in Nat \ {0} /\ Head(todo) = todo[1] /\ Len(Tail(todo)) = Len(todo) - 1
      /\ \A i \in 1 .. Len(todo) - 1 : Tail(todo)[i] = todo[i + 1]
      /\ ToSet(todo) = ToSet(Tail(todo)) \cup {Head(todo)}
  BY <1>0, <1>1, HeadTailProperties, TailOfList, EmptySeq
<1>3. ImportSet' = ImportSet
  BY <1>0, SameEnvironment
<1>4. calls' \in Seq(ImportSet) /\ Len(calls') = 1 /\ calls'[1] = Head(todo)
  BY <1>0, <1>1, OneElement
<1>5. LinkTypes'
  <2>1. calls' # <<>> => phase' = "import"
    BY <1>0
  <2> QED
    BY <1>0, <1>1, <1>3, <1>4, <2>1 DEF LinkTypes
<1>6. CallsInv'
  BY <1>4 DEF CallsInv
<1>7. TurnsInv'
  <2>1. \A i, j \in 1 .. Len(todo) - 1 : i < j => Before(Tail(todo)[i], Tail(todo)[j])
    <3>1. \A i \in 1 .. Len(todo) - 1 : i + 1 \in 1 .. Len(todo)
      BY <1>2
    <3>2. \A i, j \in 1 .. Len(todo) - 1 : i < j => i + 1 < j + 1
      BY <1>2
    <3> QED
      BY <1>0, <1>2, <3>1, <3>2 DEF TurnsInv
  <2>2. \A o \in ToSet(Tail(todo)) : Before(Head(todo), o)
    <3> TAKE o \in ToSet(Tail(todo))
    <3>1. PICK i \in DOMAIN Tail(todo) : o = Tail(todo)[i]
      BY DEF ToSet
    <3>2. i \in 1 .. Len(todo) - 1
      BY <1>1, <1>2, LenProperties
    <3>3. o = todo[i + 1] /\ i + 1 \in 1 .. Len(todo) /\ 1 \in 1 .. Len(todo) /\ 1 < i + 1
      BY <1>2, <3>1, <3>2
    <3> QED
      BY <1>0, <1>2, <3>3 DEF TurnsInv
  <2>3. \A o \in ImportSet : o \notin ToSet(todo') /\ o # calls'[1] => Checked(o)'
    <3>1. \A o \in ImportSet : o \notin ToSet(todo) => Checked(o)
      BY <1>0 DEF TurnsInv
    <3>2. \A o : Checked(o)' <=> Checked(o)
      BY <1>0, QuietLinks
    <3> QED
      BY <1>0, <1>2, <1>4, <3>1, <3>2
  <2> QED
    BY <1>0, <1>2, <1>3, <1>4, <2>1, <2>2, <2>3 DEF TurnsInv
<1>8. FailsForCause'
  BY <1>0 DEF FailsForCause
<1> QED
  BY <1>0, <1>5, <1>6, <1>7, <1>8, QuietLinks DEF LinkInv

\* The last import had its turn.
LEMMA LinkedLinks ==
  ASSUME LinkInv, Linked
  PROVE  LinkInv'
<1>0. /\ LinkTypes /\ TurnsInv /\ phase = "import" /\ phase' = "linked" /\ calls = <<>> /\ todo = <<>>
      /\ calls' = calls /\ todo' = todo
      /\ env' = env /\ exports' = exports /\ space' = space /\ slots' = slots /\ count' = count
  BY DEF LinkInv, Linked
<1>1. Binding /\ Binding'
  BY <1>0 DEF Binding
<1>2. ImportSet' = ImportSet
  BY <1>0, SameEnvironment
<1>3. LinkTypes'
  BY <1>0, <1>2 DEF LinkTypes
<1>4. CallsInv'
  BY <1>0, EmptySequences DEF CallsInv
<1>5. TurnsInv'
  <2>1. \A o : Checked(o)' <=> Checked(o)
    BY <1>0, <1>1, QuietLinks
  <2> QED
    BY <1>0, <1>2, <2>1 DEF TurnsInv
<1>6. FailsForCause'
  BY <1>0 DEF FailsForCause
<1> QED
  BY <1>0, <1>1, <1>3, <1>4, <1>5, <1>6, QuietLinks DEF LinkInv

\* The call that is to find the next object.
LEMMA AtCall ==
  ASSUME LinkInv, calls # <<>>
  PROVE  /\ phase = "import" /\ Binding
         /\ Len(calls) \in Nat \ {0} /\ DOMAIN calls = 1 .. Len(calls) /\ Wanted = calls[Len(calls)]
         /\ \A i \in 1 .. Len(calls) : /\ calls[i] \in ImportSet /\ calls[i] \in ToSet(calls)
                                       /\ Denotes(calls[i]) = Denotes(Wanted)
                                       /\ calls[i][3] = Wanted[3]
         /\ \A o \in ToSet(calls) : o \in ImportSet /\ \E i \in 1 .. Len(calls) : o = calls[i]
         /\ Wanted \in ImportSet /\ Wanted[3] \in Kinds /\ Entry(Wanted).field \in Fields
         /\ Entry(Wanted).type \in Types
         /\ Export # Null => Source \in Modules /\ Export = exports[Source][Entry(Wanted).field]
         /\ Export # Null /\ Source \in Externals =>
               Export = env.exports[Source][Entry(Wanted).field]
<1>1. LinkTypes /\ SpacesInv /\ CallsInv /\ GoodEnvironment
  BY DEF LinkInv
<1>2. phase = "import" /\ Binding /\ calls \in Seq(ImportSet)
  BY <1>1 DEF LinkTypes, Binding
<1>3. Len(calls) \in Nat \ {0} /\ DOMAIN calls = 1 .. Len(calls) /\ Wanted = calls[Len(calls)]
  BY <1>2, EmptySeq, LenProperties DEF Wanted, Last
<1>4. \A i \in 1 .. Len(calls) : /\ calls[i] \in ImportSet /\ calls[i] \in ToSet(calls)
                                 /\ Denotes(calls[i]) = Denotes(Wanted)
                                 /\ calls[i][3] = Wanted[3]
  BY <1>1, <1>2, <1>3, ElementOfSeq DEF CallsInv, ToSet
<1>5. \A o \in ToSet(calls) : o \in ImportSet /\ \E i \in 1 .. Len(calls) : o = calls[i]
  BY <1>3, <1>4 DEF ToSet
<1>6. Wanted \in ImportSet
  BY <1>3, <1>4
<1>7. Wanted \in Declared
  BY <1>6 DEF ImportSet
<1>8. Wanted[3] \in Kinds /\ Entry(Wanted).field \in Fields /\ Entry(Wanted).type \in Types
  BY <1>1, <1>6, <1>7, GoodIsWellFormed, TargetsAre, EntriesAre
<1>9. Export # Null => Source \in Modules /\ Export = exports[Source][Entry(Wanted).field]
  BY DEF Export
<1>10. Source \in Externals => exports[Source] = env.exports[Source]
  BY <1>1, <1>2 DEF SpacesInv
<1> QED
  BY <1>2, <1>3, <1>4, <1>5, <1>6, <1>8, <1>9, <1>10

\* What an import from the host denotes is what it asks for.
LEMMA HostDenotes ==
  ASSUME GoodEnvironment, NEW o \in ImportSet, Entry(o).from = Host
  PROVE  Denotes(o) = Target(o)
<1>1. Target(o) \in Ends
  BY GoodIsWellFormed, TargetsAre
<1>2. Target(o) \notin ImportSet
  <2>1. Target(o) \in Declared => Target(o) # Null /\ Target(o)[1] = "own"
    BY <1>1, GoodIsWellFormed, OnlyEntriesImport
  <2>2. \/ Target(o) = <<"host", o[3], Entry(o).field>>
        \/ Target(o) = <<"policy", o[3], Entry(o).field>>
        \/ Target(o) = Null
    BY GoodIsWellFormed, TargetsAre
  <2> QED
    BY <2>1, <2>2 DEF ImportSet
<1> QED
  BY <1>1, <1>2, GoodIsWellFormed, Denoted

\* The object a call finds is what the import denotes.
LEMMA FoundStands ==
  ASSUME LinkInv, calls # <<>>, Export # Null, Found # Null
  PROVE  Stands(Found, Wanted[3], Denotes(Wanted))
<1> DEFINE k == Wanted[3]
           f == Entry(Wanted).field
<1>1. LinkTypes /\ SpacesInv /\ HostInv /\ GoodEnvironment
  BY DEF LinkInv
<1>2. /\ Wanted \in ImportSet /\ k \in Kinds /\ f \in Fields /\ Binding /\ phase = "import"
      /\ Source \in Modules /\ Export = exports[Source][f] /\ Source = Entry(Wanted).from
  BY AtCall DEF Source
<1>3. Export.index \in DOMAIN SourceSpace /\ Found = SourceSpace[Export.index]
      /\ SourceSpace = space[Source][k]
  BY DEF Found, SourceSpace
<1>4. CASE Source = Host
  <2>1. SourceSpace \in Seq(Objects \cup {Null})
    BY <1>1, <1>2, <1>3 DEF LinkTypes
  <2>2. Export.index # Invalid
    BY <1>3, <2>1, LenProperties DEF Invalid
  <2>3. Stands(space[Host][k][Export.index], k, Target(Wanted))
    BY <1>1, <1>2, <1>4, <2>2 DEF HostInv
  <2>4. Denotes(Wanted) = Target(Wanted)
    BY <1>1, <1>2, <1>4, HostDenotes
  <2> QED
    BY <1>3, <1>4, <2>3, <2>4
<1>5. CASE Source \in Externals
  <2> DEFINE t == Target(Wanted)
  <2>1. Export = env.exports[Source][f]
    BY <1>5, AtCall
  <2>2. t = <<"own", Source, k, Export.index>> /\ t \in Declared
    BY <1>1, <1>2, <1>5, <2>1, GoodIsWellFormed, TargetsAre
  <2>3. t[2] = Source /\ t[3] = k /\ t[4] = Export.index
    BY <2>2
  <2>4. Denotes(Wanted) = Denotes(t)
    BY <1>1, <1>2, GoodIsWellFormed, Denoted
  <2> HIDE DEF t
  <2>5. ObjectAt(t) = Found
    BY <1>3, <2>3 DEF ObjectAt
  <2>6. Stands(ObjectAt(t), t[3], Denotes(t))
    BY <1>1, <1>2, <2>2, <2>5 DEF SpacesInv
  <2> QED
    BY <2>3, <2>4, <2>5, <2>6
<1> QED
  BY <1>2, <1>4, <1>5 DEF Modules

\* One that finds none is for an import of an import, or for one that only the policy
\* can provide.
LEMMA NotFound ==
  ASSUME LinkInv, calls # <<>>, Export # Null, Found = Null
  PROVE  /\ Source \in Externals =>
              /\ Target(Wanted) = <<"own", Source, Wanted[3], Export.index>>
              /\ Target(Wanted) \in ImportSet
              /\ ObjectAt(Target(Wanted)) = Null
         /\ Source = Host =>
              /\ Wanted \in Unknown(Wanted[3]) /\ Entry(Wanted).field \in Asked(Wanted[3])
              /\ ~HostProvides(Wanted[3], Entry(Wanted).field)
              /\ exports[Host][Entry(Wanted).field].index = Invalid
<1> DEFINE k == Wanted[3]
           f == Entry(Wanted).field
<1>1. LinkTypes /\ SpacesInv /\ HostInv /\ GoodEnvironment
  BY DEF LinkInv
<1>2. /\ Wanted \in ImportSet /\ k \in Kinds /\ f \in Fields /\ Binding /\ phase = "import"
      /\ Source \in Modules /\ Export = exports[Source][f] /\ Source = Entry(Wanted).from
  BY AtCall DEF Source
<1>3. SourceSpace = space[Source][k]
  BY DEF SourceSpace
<1>4. Export.index \in DOMAIN SourceSpace => SourceSpace[Export.index] = Null
  BY DEF Found
<1>5. ASSUME Source \in Externals
      PROVE  /\ Target(Wanted) = <<"own", Source, Wanted[3], Export.index>>
             /\ Target(Wanted) \in ImportSet
             /\ ObjectAt(Target(Wanted)) = Null
  <2> DEFINE t == Target(Wanted)
  <2>1. Export = env.exports[Source][f]
    BY <1>5, AtCall
  <2>2. /\ t = <<"own", Source, k, Export.index>> /\ t \in Declared
        /\ Export.index \in DOMAIN env.index[Source][k]
    BY <1>1, <1>2, <1>5, <2>1, GoodIsWellFormed, TargetsAre
  <2>3. t[2] = Source /\ t[3] = k /\ t[4] = Export.index
    BY <2>2
  <2>4. Export.index \in DOMAIN SourceSpace
    BY <1>1, <1>2, <1>3, <1>5, <2>2 DEF SpacesInv
  <2> HIDE DEF t
  <2>5. ObjectAt(t) = Null
    BY <1>3, <1>4, <2>3, <2>4 DEF ObjectAt
  <2>6. t \in ImportSet
    BY <1>1, <1>2, <2>2, <2>5 DEF SpacesInv
  <2> QED
    BY <2>2, <2>5, <2>6 DEF t
<1>6. ASSUME Source = Host
      PROVE  /\ Wanted \in Unknown(k) /\ f \in Asked(k)
             /\ ~HostProvides(k, f)
             /\ exports[Host][f].index = Invalid
  <2>1. Export.index = Invalid
    <3> SUFFICES ASSUME Export.index # Invalid PROVE FALSE
      OBVIOUS
    <3>1. /\ Export.index \in DOMAIN space[Host][k]
          /\ Stands(space[Host][k][Export.index], k, Target(Wanted))
      BY <1>1, <1>2, <1>6 DEF HostInv
    <3>2. space[Host][k][Export.index] \in Objects
      BY <3>1 DEF Stands
    <3> QED
      BY <1>3, <1>4, <1>6, <3>1, <3>2, NullAssumption
  <2>2. ~HostProvides(k, f)
    BY <1>1, <1>2, <1>6, <2>1 DEF HostInv
  <2> QED
    BY <1>1, <1>2, <1>6, <2>1, <2>2, FromHost
<1> QED
  BY <1>5, <1>6

\* A call for what is an import itself makes a call for that.
LEMMA RecurseLinks ==
  ASSUME LinkInv, Recurse
  PROVE  LinkInv'
<1> DEFINE t == <<"own", Source, Wanted[3], Export.index>>
<1>0. /\ LinkTypes /\ TurnsInv /\ CallsInv /\ GoodEnvironment
      /\ calls # <<>> /\ Export # Null /\ Found = Null /\ Source \in Externals
      /\ calls' = Append(calls, t) /\ todo' = todo /\ phase' = phase
      /\ env' = env /\ exports' = exports /\ space' = space /\ slots' = slots /\ count' = count
  BY DEF LinkInv, Recurse
<1>1. t = Target(Wanted) /\ t \in ImportSet /\ ObjectAt(t) = Null
  BY <1>0, NotFound
<1>2. Denotes(Wanted) = Denotes(t)
  BY <1>0, <1>1, AtCall, GoodIsWellFormed, Denoted
<1> DEFINE n == Len(calls)
<1>3. n \in Nat \ {0} /\ calls \in Seq(ImportSet) /\ Wanted = calls[n] /\ phase = "import"
  BY <1>0, AtCall DEF LinkTypes
<1> HIDE DEF t
<1>4. /\ calls' \in Seq(ImportSet) /\ Len(calls') = n + 1
      /\ \A i \in 1 .. n : calls'[i] = calls[i]
      /\ calls'[n + 1] = t
  BY <1>0, <1>1, <1>3, AppendProperties
<1> HIDE DEF n
<1>5. ImportSet' = ImportSet /\ \A o : Denotes(o)' = Denotes(o) /\ Target(o)' = Target(o)
  BY <1>0, SameEnvironment
<1>6. LinkTypes'
  BY <1>0, <1>3, <1>4, <1>5 DEF LinkTypes
<1>7. CallsInv'
  <2>1. \A i \in 1 .. n + 1 : i \in 1 .. n \/ i = n + 1
    BY <1>3
  <2>2. \A i \in 1 .. n : Denotes(calls[i]) = Denotes(t) /\ calls[i][3] = t[3]
    <3>1. t[3] = Wanted[3]
      BY DEF t
    <3> QED
      BY <1>0, <1>2, <1>3, <3>1, AtCall DEF n
  <2>3. \A i \in 1 .. n + 1 : /\ Denotes(calls'[i]) = Denotes(calls'[n + 1])
                               /\ calls'[i][3] = calls'[n + 1][3]
    BY <1>4, <2>1, <2>2
  <2>4. \A i \in 2 .. n + 1 : ObjectAt(calls'[i]) = Null
    <3> TAKE i \in 2 .. n + 1
    <3>1. CASE i = n + 1
      BY <1>1, <1>4, <3>1
    <3>2. CASE i # n + 1
      <4>1. i \in 1 .. n /\ i \in 2 .. n
        BY <1>3, <3>2
      <4> QED
        BY <1>0, <1>4, <4>1 DEF CallsInv, n
    <3> QED
      BY <3>1, <3>2
  <2>5. Target(calls'[1]) = calls'[2]
    <3>1. CASE n = 1
      BY <1>1, <1>3, <1>4, <3>1
    <3>2. CASE n # 1
      <4>1. 1 \in 1 .. n /\ 2 \in 1 .. n /\ n > 1
        BY <1>3, <3>2
      <4> QED
        BY <1>0, <1>4, <4>1 DEF CallsInv, n
    <3> QED
      BY <3>1, <3>2
  <2>6. \A o : ObjectAt(o)' = ObjectAt(o)
    BY <1>0 DEF ObjectAt
  <2> QED
    BY <1>4, <1>5, <2>3, <2>4, <2>5, <2>6 DEF CallsInv
<1>8. TurnsInv'
  <2>1. \A o : Checked(o)' <=> Checked(o)
    BY <1>0, QuietLinks
  <2>2. calls'[1] = calls[1] /\ calls' # <<>>
    BY <1>3, <1>4, EmptySeq
  <2> QED
    BY <1>0, <1>3, <1>5, <2>1, <2>2 DEF TurnsInv
<1>9. FailsForCause'
  BY <1>0, <1>3 DEF FailsForCause
<1> QED
  BY <1>0, <1>6, <1>7, <1>8, <1>9, QuietLinks DEF LinkInv
-----------------------------------------------------------------------------
(* The steps that bind an object *)

\* What is in the slots in use stays there, and memories and tables only get larger.
Grows ==
  /\ env' = env
  /\ \A k \in Kinds :
        /\ count[k] <= count'[k]
        /\ \A n \in 1 .. count[k] :
              /\ slots'[k][n].what = slots[k][n].what
              /\ \/ slots'[k][n].type = slots[k][n].type
                 \/ /\ k \in Limited
                    /\ slots'[k][n].type \in Types /\ slots'[k][n].type >= slots[k][n].type

LEMMA StandsStill ==
  ASSUME Grows, count \in [Kinds -> Nat], count' \in [Kinds -> Nat],
         NEW x, NEW k \in Kinds, NEW d, Stands(x, k, d)
  PROVE  Stands(x, k, d)'
<1>1. CASE x[1] = "slot"
  <2> DEFINE n == x[3]
  <2>1. /\ x \in Objects /\ x[2] = k
        /\ n \in 1 .. count[k] /\ slots[k][n].what = d
    BY <1>1 DEF Stands
  <2>2. count[k] \in Nat /\ count'[k] \in Nat /\ count[k] <= count'[k]
    BY DEF Grows
  <2>3. n \in 1 .. count'[k]
    BY <2>1, <2>2
  <2>4. slots'[k][n].what = d
    BY <2>1 DEF Grows
  <2> QED
    BY <1>1, <2>1, <2>3, <2>4 DEF Stands
<1>2. CASE x[1] # "slot"
  BY <1>2 DEF Stands
<1> QED
  BY <1>1, <1>2

\* The type of an object stays too, or grows with the memory or table.
LEMMA TypesGrow ==
  ASSUME Grows, NEW x, NEW k \in Kinds, NEW d, Stands(x, k, d)
  PROVE  \/ TypeOf(x)' = TypeOf(x)
         \/ k \in Limited /\ TypeOf(x)' \in Types /\ TypeOf(x)' >= TypeOf(x)
<1>1. CASE x[1] = "slot"
  <2> DEFINE n == x[3]
  <2>1. x[2] = k /\ n \in 1 .. count[k]
    BY <1>1 DEF Stands
  <2>2. TypeOf(x) = slots[k][n].type /\ TypeOf(x)' = slots'[k][n].type
    BY <1>1, <2>1 DEF TypeOf
  <2> QED
    BY <2>1, <2>2 DEF Grows
<1>2. CASE x[1] # "slot"
  <2>1. TypeOf(x) = DeclaredType(x) /\ TypeOf(x)' = DeclaredType(x)'
    BY <1>2 DEF TypeOf
  <2> QED
    BY <2>1, SameEnvironment DEF Grows
<1> QED
  BY <1>1, <1>2

LEMMA TypesAreNumbers == \A t \in Types : t \in Int
BY TypesAssumption

\* Before the step it is a type, and of functions and globals that of the definition.
LEMMA TypeStands ==
  ASSUME LinkInv, Binding, NEW x, NEW k \in Kinds, NEW d, Stands(x, k, d)
  PROVE  /\ k \in Limited => TypeOf(x) \in Types
         /\ k \notin Limited => TypeOf(x) = DeclaredType(d)
<1>1. CASE x[1] = "slot"
  <2> DEFINE n == x[3]
  <2>1. x[2] = k /\ n \in 1 .. count[k] /\ slots[k][n].what = d
    BY <1>1 DEF Stands
  <2>2. TypeOf(x) = slots[k][n].type
    BY <1>1, <2>1 DEF TypeOf
  <2>3. /\ slots[k][n].type \in Types
        /\ k \notin Limited => slots[k][n].type = DeclaredType(slots[k][n].what)
    BY <2>1 DEF LinkInv, PoolsInv
  <2> QED
    BY <2>1, <2>2, <2>3
<1>2. CASE x[1] # "slot"
  BY <1>2 DEF Stands, TypeOf
<1> QED
  BY <1>1, <1>2

\* So an import that was compared with an object still has what it asks for.
LEMMA CheckedStill ==
  ASSUME LinkInv, Binding, Grows, NEW o \in ImportSet, Checked(o), ObjectAt(o)' = ObjectAt(o)
  PROVE  Checked(o)'
<1>0. WellFormed(env) /\ OneKindPerField
  BY GoodIsWellFormed DEF LinkInv
<1>1. o \in Declared /\ o[3] \in Kinds /\ Entry(o).type \in Types
  <2>1. o \in Declared
    BY DEF ImportSet
  <2> QED
    BY <1>0, <2>1, EntriesAre
<1>2. ObjectAt(o) # Null
  BY DEF Checked
<1>3. Stands(ObjectAt(o), o[3], Denotes(o))
  BY <1>1, <1>2 DEF LinkInv, SpacesInv
<1>4. PICK x : x = ObjectAt(o)
  OBVIOUS
<1>5. PICK d : d = Denotes(o)
  OBVIOUS
<1>6. \/ TypeOf(x)' = TypeOf(x)
      \/ o[3] \in Limited /\ TypeOf(x)' \in Types /\ TypeOf(x)' >= TypeOf(x)
  <2>1. Stands(x, o[3], d)
    BY <1>3, <1>4, <1>5
  <2> QED
    BY <1>1, <2>1, TypesGrow
<1>7. PICK t : t = TypeOf(x)
  OBVIOUS
<1>8. TypeOf(ObjectAt(o))' = TypeOf(x)'
  BY <1>4 DEF TypeOf, DeclaredType, Entry
<1>9. /\ Entry(o)' = Entry(o) /\ (IsImport(Target(o))' <=> IsImport(Target(o)))
      /\ (Before(Target(o), o)' <=> Before(Target(o), o))
  BY SameEnvironment DEF Grows, Before, IsImport, Entry, Target, HostProvides
<1>10. \/ IsImport(Target(o)) /\ ~Before(Target(o), o)
       \/ t = Entry(o).type
       \/ o[3] \in Limited /\ t >= Entry(o).type
  BY <1>4, <1>7 DEF Checked
<1>11. Entry(o).type \in Int /\ (o[3] \in Limited => t \in Int)
       /\ (TypeOf(x)' \in Types => TypeOf(x)' \in Int)
  <2>1. Stands(x, o[3], d)
    BY <1>3, <1>4, <1>5
  <2>2. o[3] \in Limited => TypeOf(x) \in Types
    BY <1>1, <2>1, TypeStands
  <2>3. o[3] \in Limited => t \in Types
    BY <1>7, <2>2
  <2>4. \A u \in Types : u \in Int
    BY TypesAreNumbers
  <2> QED
    BY <1>1, <2>3, <2>4
<1>12. \/ IsImport(Target(o)) /\ ~Before(Target(o), o)
       \/ TypeOf(x)' = Entry(o).type
       \/ o[3] \in Limited /\ TypeOf(x)' >= Entry(o).type
  <2> DEFINE u == TypeOf(x)'
             w == Entry(o).type
  <2>1. u = t \/ (o[3] \in Limited /\ u \in Types /\ u >= t)
    BY <1>6, <1>7
  <2> HIDE DEF u, w
  <2>2. o[3] \in Limited /\ t >= w /\ u \in Types /\ u >= t => u >= w
    BY <1>11 DEF u, w
  <2>3. o[3] \in Limited /\ t = w /\ u \in Types /\ u >= t => u >= w
    BY <1>11 DEF u, w
  <2> QED
    BY <1>10, <2>1, <2>2, <2>3 DEF u, w
<1>13. ObjectAt(o)' # Null
  BY <1>2
<1> QED
  BY <1>8, <1>9, <1>12, <1>13 DEF Checked

\* The index spaces when the calls return with an object: it is what their imports are
\* bound to, and all else is as it was.
LEMMA BoundIs ==
  ASSUME LinkInv, calls # <<>>, NEW x \in Objects
  PROVE  /\ Bound(x) \in [Modules -> [Kinds -> Seq(Objects \cup {Null})]]
         /\ \A k \in Kinds : Bound(x)[Host][k] = space[Host][k]
         /\ \A m \in Externals, k \in Kinds : DOMAIN Bound(x)[m][k] = DOMAIN env.index[m][k]
         /\ \A o \in Declared :
               Bound(x)[o[2]][o[3]][o[4]] = IF o \in ToSet(calls) THEN x ELSE ObjectAt(o)
<1>0. LinkTypes /\ SpacesInv /\ GoodEnvironment /\ WellFormed(env) /\ Binding
  BY AtCall, GoodIsWellFormed DEF LinkInv
<1>1. /\ Host \in Modules /\ \A m \in Externals : m \in Modules /\ m # Host
  BY OrderAssumption DEF Modules
<1> DEFINE S == Objects \cup {Null}
           At(m, k, i) == IF <<"own", m, k, i>> \in ToSet(calls) THEN x ELSE space[m][k][i]
<1>2. \A m \in Modules, k \in Kinds : Bound(x)[m][k] = [i \in DOMAIN space[m][k] |-> At(m, k, i)]
  BY DEF Bound
<1>3. \A m \in Modules, k \in Kinds : space[m][k] \in Seq(S)
  BY <1>0 DEF LinkTypes
<1>4. ASSUME NEW m \in Modules, NEW k \in Kinds
      PROVE  Bound(x)[m][k] \in Seq(S)
  <2> DEFINE s == space[m][k]
             b == Bound(x)[m][k]
  <2>1. s \in Seq(S)
    BY <1>3
  <2>2. b = [i \in DOMAIN s |-> At(m, k, i)]
    BY <1>2
  <2>3. \A i \in DOMAIN s : At(m, k, i) \in S
    <3>1. DOMAIN s = 1 .. Len(s) /\ \A i \in 1 .. Len(s) : s[i] \in S
      <4> HIDE DEF s, S
      <4> QED BY <2>1, LenProperties, ElementOfSeq
    <3> QED
      BY <3>1
  <2> HIDE DEF s, S, At, b
  <2>4. DOMAIN s = 1 .. Len(s) /\ Len(s) \in Nat
    BY <2>1, LenProperties
  <2>5. b \in [1 .. Len(s) -> S]
    BY <2>2, <2>3, <2>4
  <2>6. b \in Seq(S)
    BY <2>4, <2>5, SeqDef
  <2> QED
    BY <2>6 DEF b
<1>5. Bound(x) = [m \in Modules |-> [k \in Kinds |-> Bound(x)[m][k]]]
  BY DEF Bound
<1>6. Bound(x) \in [Modules -> [Kinds -> Seq(S)]]
  <2> HIDE DEF S
  <2> QED BY <1>4, <1>5
<1>7. ASSUME NEW k \in Kinds PROVE Bound(x)[Host][k] = space[Host][k]
  <2> DEFINE s == space[Host][k]
  <2>1. \A i \in DOMAIN s : At(Host, k, i) = s[i]
    <3> TAKE i \in DOMAIN s
    <3>1. <<"own", Host, k, i>> \notin ToSet(calls)
      <4> SUFFICES ASSUME <<"own", Host, k, i>> \in ToSet(calls) PROVE FALSE
        OBVIOUS
      <4>1. <<"own", Host, k, i>> \in ImportSet
        BY AtCall
      <4>2. <<"own", Host, k, i>>[2] \in Externals
        BY <1>0, <4>1, EntriesAre DEF ImportSet
      <4> QED
        BY <4>2, OrderAssumption
    <3> QED
      BY <3>1
  <2>2. s \in Seq(S)
    BY <1>1, <1>3
  <2>3. Bound(x)[Host][k] = [i \in DOMAIN s |-> At(Host, k, i)]
    BY <1>1, <1>2
  <2>4. s = [i \in DOMAIN s |-> s[i]]
    <3> HIDE DEF s, S
    <3>1. s \in [1 .. Len(s) -> S]
      BY <2>2, LenProperties
    <3> QED BY <3>1
  <2>5. Bound(x)[Host][k] = [i \in DOMAIN s |-> s[i]]
    <3> HIDE DEF s, S, At
    <3> QED BY <2>1, <2>3
  <2> QED
    BY <2>4, <2>5
<1>8. ASSUME NEW m \in Externals, NEW k \in Kinds
      PROVE  DOMAIN Bound(x)[m][k] = DOMAIN env.index[m][k]
  <2>1. DOMAIN space[m][k] = DOMAIN env.index[m][k]
    BY <1>0 DEF SpacesInv
  <2>2. Bound(x)[m][k] = [i \in DOMAIN space[m][k] |-> At(m, k, i)]
    BY <1>1, <1>2
  <2> HIDE DEF At
  <2> QED
    BY <2>1, <2>2
<1>9. ASSUME NEW o \in Declared
      PROVE  Bound(x)[o[2]][o[3]][o[4]] = IF o \in ToSet(calls) THEN x ELSE ObjectAt(o)
  <2>1. /\ o = <<"own", o[2], o[3], o[4]>> /\ o[2] \in Externals /\ o[3] \in Kinds
        /\ o[4] \in DOMAIN env.index[o[2]][o[3]]
    BY <1>0, EntriesAre
  <2>2. o[4] \in DOMAIN space[o[2]][o[3]]
    BY <1>0, <2>1 DEF SpacesInv
  <2>3. Bound(x)[o[2]][o[3]][o[4]] = At(o[2], o[3], o[4])
    <3>1. Bound(x)[o[2]][o[3]] = [i \in DOMAIN space[o[2]][o[3]] |-> At(o[2], o[3], i)]
      BY <1>1, <1>2, <2>1
    <3> HIDE DEF At
    <3> QED
      BY <2>2, <3>1
  <2> QED
    BY <2>1, <2>3 DEF ObjectAt
<1> QED
  BY <1>6, <1>7, <1>8, <1>9

\* What a step keeps that binds the imports of the calls to what they denote.
LEMMA BindLinks ==
  ASSUME LinkInv, calls # <<>>, Grows, count' \in [Kinds -> Nat],
         NEW w, w = Wanted, NEW d, d = Denotes(Wanted),
         NEW x \in Objects, Stands(x, w[3], d)',
         phase' = phase, todo' = todo, calls' = <<>>,
         \A m \in Externals : exports'[m] = exports[m] /\ space'[m] = Bound(x)[m],
         \/ TypeOf(x)' = Entry(w).type
         \/ w[3] \in Limited /\ TypeOf(x)' >= Entry(w).type
  PROVE  SpacesInv' /\ CallsInv' /\ TurnsInv'
<1>0. /\ LinkTypes /\ SpacesInv /\ CallsInv /\ TurnsInv /\ GoodEnvironment /\ WellFormed(env)
      /\ Binding /\ phase = "import" /\ env' = env
  BY AtCall, GoodIsWellFormed DEF LinkInv, Grows
<1>1. /\ Declared' = Declared /\ ImportSet' = ImportSet
      /\ \A o : /\ Entry(o)' = Entry(o) /\ (IsImport(o)' <=> IsImport(o))
                /\ Target(o)' = Target(o) /\ Denotes(o)' = Denotes(o)
                /\ (Before(Target(o), o)' <=> Before(Target(o), o))
                /\ (IsImport(Target(o))' <=> IsImport(Target(o)))
  <2>1. \A o : /\ (Before(Target(o), o)' <=> Before(Target(o), o))
               /\ (IsImport(Target(o))' <=> IsImport(Target(o)))
    BY <1>0 DEF Before, IsImport, Entry, Target, HostProvides
  <2> QED
    BY <1>0, <2>1, SameEnvironment
<1>2. \A o \in Declared : ObjectAt(o)' = IF o \in ToSet(calls) THEN x ELSE ObjectAt(o)
  <2>1. \A o \in Declared : o[2] \in Externals
    BY <1>0, EntriesAre
  <2>2. \A o \in Declared : space'[o[2]] = Bound(x)[o[2]]
    BY <2>1
  <2> QED
    BY <2>2, BoundIs DEF ObjectAt
<1>3. x # Null
  BY NullAssumption
<1>4. \A o \in ToSet(calls) : o \in ImportSet /\ o \in Declared /\ o[3] = w[3] /\ Denotes(o) = d
  <2>1. ImportSet \subseteq Declared
    BY DEF ImportSet
  <2> QED
    BY <2>1, AtCall
<1>5. SpacesInv'
  <2>1. \A m \in Externals : exports'[m] = env.exports[m]
    BY <1>0 DEF SpacesInv
  <2>2. \A m \in Externals, k \in Kinds : DOMAIN space'[m][k] = DOMAIN env.index[m][k]
    BY BoundIs
  <2>3. ASSUME NEW o \in Declared
        PROVE  /\ o \notin ImportSet => ObjectAt(o)' # Null
               /\ ObjectAt(o)' # Null => Stands(ObjectAt(o), o[3], Denotes(o))'
    <3>1. CASE o \in ToSet(calls)
      <4>1. ObjectAt(o)' = x /\ Denotes(o)' = d /\ o[3] = w[3]
        BY <1>1, <1>2, <1>4, <3>1
      <4> QED
        BY <1>3, <4>1 DEF Stands
    <3>2. CASE o \notin ToSet(calls)
      <4>1. ObjectAt(o)' = ObjectAt(o) /\ Denotes(o)' = Denotes(o)
        BY <1>1, <1>2, <3>2
      <4>2. o \notin ImportSet => ObjectAt(o) # Null
        BY <1>0 DEF SpacesInv
      <4>3. ASSUME ObjectAt(o) # Null PROVE Stands(ObjectAt(o), o[3], Denotes(o))'
        <5>1. Stands(ObjectAt(o), o[3], Denotes(o))
          BY <1>0, <4>3 DEF SpacesInv
        <5>2. PICK y : y = ObjectAt(o)
          OBVIOUS
        <5>3. PICK e : e = Denotes(o)
          OBVIOUS
        <5>4. Stands(y, o[3], e) /\ o[3] \in Kinds
          BY <1>0, <5>1, <5>2, <5>3, EntriesAre
        <5>5. Stands(y, o[3], e)'
          BY <1>0, <5>4, StandsStill DEF LinkTypes
        <5> QED
          BY <4>1, <5>2, <5>3, <5>5 DEF Stands
      <4> QED
        BY <4>1, <4>2, <4>3
    <3> QED
      BY <3>1, <3>2
  <2> QED
    BY <1>0, <1>1, <2>1, <2>2, <2>3 DEF SpacesInv
<1>6. CallsInv'
  BY EmptySequences DEF CallsInv
<1>7. ASSUME NEW o \in ImportSet, o \notin ToSet(todo) PROVE Checked(o)'
  <2>0. o \in Declared
    BY DEF ImportSet
  <2>1. CASE o # calls[1]
    <3>1. Checked(o)
      BY <1>0, <1>7, <2>1 DEF TurnsInv
    <3>2. o \notin ToSet(calls)
      <4> SUFFICES ASSUME o \in ToSet(calls) PROVE FALSE
        OBVIOUS
      <4>1. PICK i \in 1 .. Len(calls) : o = calls[i]
        BY AtCall
      <4>2. i \in 2 .. Len(calls)
        BY <2>1, <4>1, AtCall
      <4>3. ObjectAt(o) = Null
        BY <1>0, <4>1, <4>2 DEF CallsInv
      <4> QED
        BY <3>1, <4>3 DEF Checked
    <3>3. ObjectAt(o)' = ObjectAt(o)
      BY <1>2, <2>0, <3>2
    <3> QED
      BY <1>0, <3>1, <3>3, CheckedStill
  <2>2. CASE o = calls[1]
    <3>1. /\ Len(calls) \in Nat \ {0} /\ 1 \in 1 .. Len(calls) /\ o \in ToSet(calls)
      BY <2>2, AtCall
    <3>2. ObjectAt(o)' = x
      BY <1>2, <2>0, <3>1
    <3>3. CASE Len(calls) = 1
      <4>1. o = w
        BY <2>2, <3>3, AtCall
      <4>2. TypeOf(ObjectAt(o))' = TypeOf(x)'
        BY <3>2 DEF TypeOf, DeclaredType, Entry
      <4>3. \/ TypeOf(ObjectAt(o))' = Entry(o)'.type
            \/ o[3] \in Limited /\ TypeOf(ObjectAt(o))' >= Entry(o)'.type
        BY <1>1, <4>1, <4>2
      <4> QED
        BY <1>3, <3>2, <4>3 DEF Checked
    <3>4. CASE Len(calls) # 1
      <4> DEFINE p == calls[2]
      <4>1. Len(calls) > 1 /\ 2 \in 2 .. Len(calls) /\ 2 \in 1 .. Len(calls)
        BY <3>1, <3>4
      <4>2. Target(o) = p /\ p \in ImportSet /\ ObjectAt(p) = Null
        BY <1>0, <2>2, <4>1, AtCall DEF CallsInv
      <4>3. IsImport(p) /\ p \in Declared
        BY <4>2 DEF ImportSet
      <4> HIDE DEF p
      <4>4. ~Before(p, o)
        <5> SUFFICES ASSUME Before(p, o) PROVE FALSE
          OBVIOUS
        <5>1. ~Before(o, p) /\ p # o
          BY <1>0, <2>0, <4>3, BeforeOrders
        <5>2. p \notin ToSet(todo)
          BY <1>0, <2>2, <5>1 DEF TurnsInv
        <5>3. Checked(p)
          BY <1>0, <2>2, <4>2, <5>1, <5>2 DEF TurnsInv
        <5> QED
          BY <4>2, <5>3 DEF Checked
      <4>5. IsImport(Target(o)) /\ ~Before(Target(o), o)
        BY <4>2, <4>3, <4>4
      <4>6. IsImport(Target(o))' /\ ~Before(Target(o), o)'
        BY <1>1, <4>5
      <4> QED
        BY <1>3, <3>2, <4>6 DEF Checked
    <3> QED
      BY <3>3, <3>4
  <2> QED
    BY <2>1, <2>2
<1>8. TurnsInv'
  <2>1. \A i, j \in 1 .. Len(todo) : i < j => Before(todo[i], todo[j])
    BY <1>0 DEF TurnsInv
  <2> QED
    BY <1>0, <1>1, <1>7, <2>1 DEF TurnsInv, Before
<1> QED
  BY <1>5, <1>6, <1>8

\* A call finds the object.
LEMMA ImportFoundLinks ==
  ASSUME LinkInv, ImportFound
  PROVE  LinkInv'
<1>0. /\ LinkTypes /\ PoolsInv /\ HostInv /\ GoodEnvironment /\ WellFormed(env)
      /\ calls # <<>> /\ Export # Null /\ Found # Null
      /\ Matches(Wanted[3], TypeOf(Found), Entry(Wanted).type)
      /\ space' = Bound(Found) /\ calls' = <<>> /\ slots' = Widened(Found, Entry(Wanted).type)
      /\ env' = env /\ phase' = phase /\ exports' = exports /\ count' = count /\ todo' = todo
  BY GoodIsWellFormed DEF LinkInv, ImportFound
<1>1. PICK x : x = Found
  OBVIOUS
<1>2. PICK w : w = Wanted
  OBVIOUS
<1>3. PICK d : d = Denotes(Wanted)
  OBVIOUS
<1>4. PICK t : t = Entry(Wanted).type
  OBVIOUS
<1>5. /\ phase = "import" /\ Binding /\ w[3] \in Kinds /\ t \in Types /\ t \in Int
  BY <1>0, <1>2, <1>4, AtCall, TypesAreNumbers
<1>6. Stands(x, w[3], d) /\ x \in Objects
  BY <1>0, <1>1, <1>2, <1>3, FoundStands DEF Stands
<1> DEFINE k == w[3]
           n == x[3]
           Slot2 == [what : Objects \cup {Null}, type : Types \cup {Null}]
<1>7. /\ slots \in [Kinds -> Seq(Slot2)]
      /\ \A l \in Kinds : Len(slots[l]) = PoolSize(l) /\ Len(slots[l]) \in Nat /\ count[l] <= Len(slots[l])
                          /\ DOMAIN slots[l] = 1 .. Len(slots[l]) /\ count[l] \in Nat
  <2>1. slots \in [Kinds -> Seq(Slot2)] /\ count \in [Kinds -> Nat]
    BY <1>0 DEF LinkTypes
  <2>2. \A l \in Kinds : Len(slots[l]) = PoolSize(l) /\ count[l] <= PoolSize(l)
    BY <1>0, <1>5 DEF PoolsInv
  <2>3. \A l \in Kinds : slots[l] \in Seq(Slot2)
    BY <2>1
  <2> HIDE DEF Slot2
  <2> QED
    BY <2>1, <2>2, <2>3, LenProperties
<1> DEFINE widens == x[1] = "slot" /\ k \in Limited /\ t > TypeOf(x)
<1>8. slots' = IF widens THEN [slots EXCEPT ![k][n].type = t] ELSE slots
  <2>1. x[1] = "slot" => x[2] = k
    BY <1>6 DEF Stands
  <2> QED
    BY <1>0, <1>1, <1>4, <2>1 DEF Widened
<1>9. widens => n \in 1 .. count[k] /\ TypeOf(x) = slots[k][n].type
  <2>1. x[1] = "slot" => x[2] = k /\ n \in 1 .. count[k]
    BY <1>6 DEF Stands
  <2> QED
    BY <2>1 DEF TypeOf
<1>10. \A l \in Kinds :
         /\ DOMAIN slots'[l] = DOMAIN slots[l] /\ Len(slots'[l]) = Len(slots[l])
         /\ slots'[l] \in Seq(Slot2)
         /\ \A i \in DOMAIN slots[l] :
              /\ slots'[l][i].what = slots[l][i].what
              /\ slots'[l][i].type = IF widens /\ l = k /\ i = n THEN t ELSE slots[l][i].type
  <2>1. CASE ~widens
    <3>1. slots' = slots
      BY <1>8, <2>1
    <3> HIDE DEF Slot2, widens
    <3> QED
      BY <1>7, <2>1, <3>1
  <2>2. CASE widens
    <3>1. slots' = [slots EXCEPT ![k] = [slots[k] EXCEPT ![n] = [slots[k][n] EXCEPT !.type = t]]]
      BY <1>8, <2>2
    <3>2. n \in DOMAIN slots[k] /\ k \in Kinds
      BY <1>5, <1>7, <1>9, <2>2
    <3>3. slots[k][n] \in Slot2
      <4> HIDE DEF Slot2, n, k
      <4> QED BY <1>7, <3>2, ElementOfSeq
    <3> DEFINE e == [slots[k][n] EXCEPT !.type = t]
    <3>4. e \in Slot2 /\ e.what = slots[k][n].what /\ e.type = t
      BY <1>5, <3>3
    <3> HIDE DEF e, Slot2, n, k, widens
    <3>5. ASSUME NEW l \in Kinds, l # k PROVE slots'[l] = slots[l]
      BY <1>7, <3>1, <3>5
    <3>6. slots'[k] = [slots[k] EXCEPT ![n] = e]
      BY <1>7, <3>1, <3>2 DEF e
    <3>7. slots[k] \in Seq(Slot2)
      BY <1>7, <3>2
    <3>8. slots'[k] \in Seq(Slot2) /\ DOMAIN slots'[k] = DOMAIN slots[k] /\ Len(slots'[k]) = Len(slots[k])
          /\ slots'[k][n] = e /\ \A i \in DOMAIN slots[k] : i # n => slots'[k][i] = slots[k][i]
      BY <1>7, <3>2, <3>4, <3>6, <3>7
    <3> QED
      BY <1>7, <2>2, <3>2, <3>4, <3>5, <3>8
  <2> QED
    BY <2>1, <2>2
<1>11. Grows
  <2> SUFFICES ASSUME NEW l \in Kinds, NEW i \in 1 .. count[l]
               PROVE  /\ slots'[l][i].what = slots[l][i].what
                      /\ \/ slots'[l][i].type = slots[l][i].type
                         \/ /\ l \in Limited
                            /\ slots'[l][i].type \in Types /\ slots'[l][i].type >= slots[l][i].type
    BY <1>0, <1>7 DEF Grows
  <2>1. i \in DOMAIN slots[l]
    BY <1>7
  <2>2. slots[l][i].type \in Types
    BY <1>0, <1>5 DEF PoolsInv
  <2>3. slots[l][i].type \in Int
    BY <2>2, TypesAreNumbers
  <2>4. CASE widens /\ l = k /\ i = n
    <3>1. slots'[l][i].type = t /\ slots[l][i].type = TypeOf(x)
      BY <1>9, <1>10, <2>1, <2>4
    <3>2. \A u \in Int : t > u => t >= u
      BY <1>5
    <3> QED
      BY <1>5, <1>10, <2>1, <2>3, <2>4, <3>1, <3>2
  <2>5. CASE ~(widens /\ l = k /\ i = n)
    <3> HIDE DEF widens, k, n
    <3> QED
      BY <1>10, <2>1, <2>5
  <2> QED
    BY <2>4, <2>5
<1>12. SpacesInv' /\ CallsInv' /\ TurnsInv'
  <2>1. Stands(x, w[3], d)'
    BY <1>0, <1>5, <1>6, <1>11, StandsStill DEF LinkTypes
  <2>2. \/ TypeOf(x)' = Entry(w).type
        \/ w[3] \in Limited /\ TypeOf(x)' >= Entry(w).type
    <3>1. Entry(w).type = t
      BY <1>2, <1>4
    <3>2. CASE k \notin Limited
      <4>1. TypeOf(x) = t
        BY <1>0, <1>1, <1>2, <1>4, <3>2 DEF Matches
      <4>2. TypeOf(x)' = TypeOf(x)
        BY <1>5, <1>6, <1>11, <3>2, TypesGrow
      <4> QED
        BY <3>1, <4>1, <4>2
    <3>3. CASE k \in Limited
      <4>1. x[1] = "slot" /\ x[2] = k /\ n \in 1 .. count[k]
        BY <1>6, <3>3 DEF Stands
      <4>2. TypeOf(x) = slots[k][n].type /\ TypeOf(x)' = slots'[k][n].type
        BY <4>1 DEF TypeOf
      <4>3. n \in DOMAIN slots[k]
        BY <1>5, <1>7, <4>1
      <4>4. slots'[k][n].type = IF t > TypeOf(x) THEN t ELSE TypeOf(x)
        BY <1>5, <1>10, <3>3, <4>1, <4>2, <4>3
      <4>5. TypeOf(x) \in Int
        <5>1. TypeOf(x) \in Types
          BY <1>5, <1>6, <3>3, TypeStands
        <5> QED
          BY <5>1, TypesAreNumbers
      <4>6. TypeOf(x)' >= t
        <5> PICK u : u = TypeOf(x)
          OBVIOUS
        <5>1. TypeOf(x)' = IF t > u THEN t ELSE u
          BY <4>2, <4>4
        <5>2. u \in Int
          BY <4>5
        <5> QED
          BY <1>5, <5>1, <5>2
      <4> QED
        BY <3>1, <3>3, <4>6
    <3> QED
      BY <3>2, <3>3
  <2>3. \A m \in Externals : exports'[m] = exports[m] /\ space'[m] = Bound(x)[m]
    <3>1. Bound(Found) = Bound(x)
      BY <1>1 DEF Bound
    <3> QED
      BY <1>0, <3>1
  <2>4. count' \in [Kinds -> Nat]
    BY <1>0 DEF LinkTypes
  <2> QED
    BY <1>0, <1>2, <1>3, <1>6, <1>11, <2>1, <2>2, <2>3, <2>4, BindLinks
<1>13. GoodEnvironment'
  BY <1>0, SameEnvironment
<1>14. LinkTypes'
  <2>1. slots' \in [Kinds -> Seq(Slot2)]
    <3>1. slots' = [l \in Kinds |-> slots'[l]]
      <4>1. slots = [l \in Kinds |-> slots[l]]
        BY <1>7
      <4> HIDE DEF k, n, widens, Slot2
      <4> QED
        BY <1>8, <4>1
    <3> HIDE DEF Slot2, widens, k, n
    <3> QED
      BY <1>10, <3>1
  <2>2. space' \in [Modules -> [Kinds -> Seq(Objects \cup {Null})]]
    <3>1. space' = Bound(x)
      BY <1>0, <1>1 DEF Bound
    <3> QED
      BY <1>0, <1>6, <3>1, BoundIs
  <2>3. ImportSet' = ImportSet
    BY <1>0, SameEnvironment
  <2>4. calls' \in Seq(ImportSet) /\ ~(calls' # <<>>)
    BY <1>0
  <2> QED
    BY <1>0, <2>1, <2>2, <2>3, <2>4 DEF LinkTypes
<1>15. \A l \in Kinds : space'[Host][l] = space[Host][l]
  <2>1. space' = Bound(x)
    BY <1>0, <1>1 DEF Bound
  <2> QED
    BY <1>0, <1>6, <2>1, BoundIs
<1>16. PoolsInv'
  <2>1. \A l : PoolSize(l)' = PoolSize(l) /\ Copied(l)' = Copied(l)
    BY <1>0, SameEnvironment
  <2>2. \A e : DeclaredType(e)' = DeclaredType(e)
    BY <1>0, SameEnvironment
  <2>3. ASSUME NEW l \in Kinds
        PROVE  /\ Len(Copied(l)) <= count[l] /\ count[l] <= PoolSize(l)
               /\ \A i \in 1 .. Len(Copied(l)) : slots'[l][i].what = Copied(l)[i]
               /\ \A i \in Len(Copied(l)) + 1 .. count[l] : \E f \in Fields : Granted(l, i, f)'
               /\ \A i \in 1 .. count[l] :
                     /\ slots'[l][i].type \in Types
                     /\ l \notin Limited => slots'[l][i].type = DeclaredType(slots'[l][i].what)
    <3>1. /\ Len(Copied(l)) <= count[l] /\ count[l] <= PoolSize(l) /\ Len(Copied(l)) \in Nat
          /\ count[l] \in Nat
      BY <1>0, <1>5, <1>7, CopiedAre DEF PoolsInv
    <3>2. \A i \in 1 .. Len(Copied(l)) : slots'[l][i].what = Copied(l)[i]
      <4> TAKE i \in 1 .. Len(Copied(l))
      <4>1. i \in 1 .. count[l]
        BY <3>1
      <4>2. slots[l][i].what = Copied(l)[i]
        BY <1>0, <1>5 DEF PoolsInv
      <4> QED
        BY <1>11, <4>1, <4>2 DEF Grows
    <3>3. ASSUME NEW i \in Len(Copied(l)) + 1 .. count[l] PROVE \E f \in Fields : Granted(l, i, f)'
      <4>1. PICK f \in Fields : Granted(l, i, f)
        BY <1>0, <1>5 DEF PoolsInv
      <4>2. i \in 1 .. count[l]
        BY <3>1
      <4>3. slots'[l][i].what = slots[l][i].what
        BY <1>11, <4>2 DEF Grows
      <4>4. Asked(l)' = Asked(l)
        BY <1>0, SameEnvironment
      <4>5. Granted(l, i, f)'
        BY <1>0, <1>15, <4>1, <4>3, <4>4 DEF Granted
      <4> QED
        BY <4>5
    <3>4. ASSUME NEW i \in 1 .. count[l]
          PROVE  /\ slots'[l][i].type \in Types
                 /\ l \notin Limited => slots'[l][i].type = DeclaredType(slots'[l][i].what)
      <4>1. /\ slots[l][i].type \in Types
            /\ l \notin Limited => slots[l][i].type = DeclaredType(slots[l][i].what)
        BY <1>0, <1>5 DEF PoolsInv
      <4> QED
        BY <1>11, <4>1 DEF Grows
    <3> QED
      BY <3>1, <3>2, <3>3, <3>4
  <2> QED
    BY <1>0, <1>5, <1>7, <1>10, <2>1, <2>2, <2>3 DEF PoolsInv
<1>17. HostInv'
  <2>1. ASSUME NEW o \in ImportSet, NEW y, y # Null, Stands(y, o[3], Target(o))
        PROVE  Stands(y, o[3], Target(o))'
    <3>1. PICK e : e = Target(o)
      OBVIOUS
    <3>2. o[3] \in Kinds
      BY <1>0, GoodIsWellFormed, TargetsAre
    <3>3. Stands(y, o[3], e)
      BY <2>1, <3>1
    <3>4. Stands(y, o[3], e)'
      BY <1>0, <1>11, <3>2, <3>3, StandsStill DEF LinkTypes
    <3>5. Target(o)' = e
      BY <1>0, <3>1, SameEnvironment
    <3> QED
      BY <3>4, <3>5 DEF Stands
  <2>2. \A o : Entry(o)' = Entry(o) /\ Target(o)' = Target(o)
    BY <1>0, SameEnvironment
  <2>3. \A l, f : HostProvides(l, f)' <=> HostProvides(l, f)
    BY <1>0, SameEnvironment
  <2>4. ImportSet' = ImportSet
    BY <1>0, SameEnvironment
  <2>5. \A o \in ImportSet : o[3] \in Kinds
    BY <1>0, GoodIsWellFormed, TargetsAre
  <2>6. \A y, l, e : Stands(y, l, e) => y # Null
    BY NullAssumption DEF Stands
  <2> QED
    BY <1>0, <1>5, <1>15, <2>1, <2>2, <2>3, <2>4, <2>5, <2>6 DEF HostInv
<1>18. FailsForCause'
  BY <1>0, <1>5 DEF FailsForCause
<1> QED
  BY <1>12, <1>13, <1>14, <1>16, <1>17, <1>18 DEF LinkInv

\* What a call finds out about an import that only the policy can provide: the field is
\* asked for, no slot is for it yet, and so there is one left.
LEMMA RoomForNext ==
  ASSUME LinkInv, calls # <<>>, AsksPolicy
  PROVE  LET k == Wanted[3]
             f == Entry(Wanted).field
         IN /\ k \in Kinds /\ f \in Asked(k) /\ f \in Fields /\ ~HostProvides(k, f)
            /\ exports[Host][f] # Null /\ exports[Host][f].index = Invalid
            /\ Source = Host
            /\ count[k] \in Nat /\ NextSlot(k) \in 1 .. Len(slots[k]) /\ NextSlot(k) > count[k]
<1> DEFINE k == Wanted[3]
           f == Entry(Wanted).field
           L == Len(Copied(k))
           c == count[k]
           G == L + 1 .. c
           pick == [n \in G |-> CHOOSE g \in Fields : Granted(k, n, g)]
<1>0. /\ LinkTypes /\ PoolsInv /\ GoodEnvironment /\ Binding
      /\ Export # Null /\ Found = Null /\ Source = Host
  BY AtCall DEF LinkInv, AsksPolicy
<1>1. /\ k \in Kinds /\ f \in Fields /\ f \in Asked(k) /\ ~HostProvides(k, f)
      /\ exports[Host][f].index = Invalid /\ exports[Host][f] # Null
  BY <1>0, AtCall, NotFound
<1>2. /\ L \in Nat /\ c \in Nat /\ L <= c /\ c <= PoolSize(k) /\ Len(slots[k]) = PoolSize(k)
      /\ PoolSize(k) = Cardinality(Unknown(k)) + L
      /\ IsFiniteSet(Unknown(k)) /\ Cardinality(Unknown(k)) \in Nat
  BY <1>0, <1>1, CopiedAre DEF LinkTypes, PoolsInv, Binding
<1>3. \A n \in G : pick[n] \in Fields /\ Granted(k, n, pick[n])
  <2> TAKE n \in G
  <2>1. \E g \in Fields : Granted(k, n, g)
    BY <1>0, <1>1 DEF PoolsInv
  <2> QED
    BY <2>1
<1> DEFINE T == Asked(k) \ {f}
<1> HIDE DEF pick
<1>4. \A n \in G : pick[n] \in T
  BY <1>1, <1>3 DEF Granted
<1>5. \A n, l \in G : pick[n] = pick[l] => n = l
  <2> SUFFICES ASSUME NEW n \in G, NEW l \in G, pick[n] = pick[l] PROVE n = l
    OBVIOUS
  <2>1. <<"slot", k, n>> = <<"slot", k, l>>
    BY <1>3 DEF Granted
  <2> QED
    BY <2>1
<1>6. IsFiniteSet(Asked(k)) /\ Cardinality(Asked(k)) <= Cardinality(Unknown(k))
  <2> DEFINE g == [o \in Unknown(k) |-> Entry(o).field]
  <2>1. Asked(k) = {g[o] : o \in DOMAIN g} /\ DOMAIN g = Unknown(k) /\ g = [o \in DOMAIN g |-> g[o]]
    BY DEF Asked
  <2> HIDE DEF g
  <2> QED
    BY <1>2, <2>1, ImageOfFinite
<1>7. IsFiniteSet(T) /\ Cardinality(T) = Cardinality(Asked(k)) - 1 /\ Cardinality(Asked(k)) \in Nat
  BY <1>1, <1>6, FS_RemoveElement, FS_CardinalityType
<1>8. IsFiniteSet(G) /\ Cardinality(G) = c - L
  <2> HIDE DEF L, c
  <2>1. L + 1 \in Int /\ c \in Int
    BY <1>2
  <2>2. /\ IsFiniteSet((L + 1) .. c)
        /\ Cardinality((L + 1) .. c) = IF L + 1 > c THEN 0 ELSE c - (L + 1) + 1
    BY <2>1, FS_Interval
  <2>3. (IF L + 1 > c THEN 0 ELSE c - (L + 1) + 1) = c - L
    BY <1>2
  <2> QED
    BY <2>2, <2>3
<1>9. Cardinality(G) <= Cardinality(T)
  <2>1. pick \in [G -> T]
    BY <1>4 DEF pick
  <2>2. pick \in Injection(G, T)
    BY <1>5, <2>1 DEF Injection, IsInjective
  <2> HIDE DEF G, T
  <2> QED
    BY <1>7, <2>2, FS_Injection
<1>10. c + 1 <= PoolSize(k)
  BY <1>2, <1>6, <1>7, <1>8, <1>9
<1> QED
  BY <1>0, <1>1, <1>2, <1>10 DEF NextSlot

\* The policy provides what a call wants.
LEMMA ProvideLinks ==
  ASSUME LinkInv, Provide
  PROVE  LinkInv'
<1>1. PICK w : w = Wanted
  OBVIOUS
<1>2. PICK d : d = Denotes(Wanted)
  OBVIOUS
<1>3. PICK t : t = Entry(Wanted).type
  OBVIOUS
<1>4. PICK f : f = Entry(Wanted).field
  OBVIOUS
<1>5. PICK n : n = NextSlot(w[3])
  OBVIOUS
<1> DEFINE k == w[3]
           x == <<"slot", k, n>>
           p == env.policy[k][f]
           made == [what |-> <<"policy", k, f>>, type |-> IF k \in Limited /\ t > p THEN t ELSE p]
           Slot2 == [what : Objects \cup {Null}, type : Types \cup {Null}]
<1>0. /\ LinkTypes /\ PoolsInv /\ HostInv /\ GoodEnvironment /\ WellFormed(env)
      /\ calls # <<>> /\ AsksPolicy /\ p # Null /\ Matches(k, p, t)
      /\ slots' = Filled(k) /\ count' = [count EXCEPT ![k] = n]
      /\ space' = [Bound(x) EXCEPT ![Host][k] = Append(@, x)]
      /\ exports' = [exports EXCEPT ![Host][f].index = Len(space'[Host][k])]
      /\ calls' = <<>> /\ env' = env /\ phase' = phase /\ todo' = todo
  BY <1>1, <1>3, <1>4, <1>5, GoodIsWellFormed DEF LinkInv, Provide, AsksPolicy, PolicyType
<1>6. /\ phase = "import" /\ Binding /\ k \in Kinds /\ t \in Types /\ w \in ImportSet /\ f \in Fields
      /\ Entry(w).field = f /\ Entry(w).type = t
  BY <1>0, <1>1, <1>3, <1>4, AtCall
<1>7. /\ f \in Asked(k) /\ ~HostProvides(k, f)
      /\ exports[Host][f] # Null /\ exports[Host][f].index = Invalid
      /\ Entry(w).from = Host
      /\ count[k] \in Nat /\ n \in 1 .. Len(slots[k]) /\ n = count[k] + 1
  BY <1>0, <1>1, <1>4, <1>5, RoomForNext DEF Source, NextSlot
<1>8. p \in Types /\ made.type \in Types /\ made.what = <<"policy", k, f>> /\ made \in Slot2
  <2>1. p \in Types
    BY <1>0, <1>6 DEF WellFormed
  <2>2. <<"policy", k, f>> \in Objects
    BY <1>6 DEF Objects
  <2> QED
    BY <1>6, <2>1, <2>2
<1>9. Target(w) = <<"policy", k, f>> /\ d = <<"policy", k, f>>
  <2>1. Target(w) = <<"policy", k, f>>
    BY <1>0, <1>6, <1>7, GoodIsWellFormed, TargetsAre
  <2> QED
    BY <1>0, <1>1, <1>2, <1>6, <1>7, <2>1, HostDenotes
<1>10. /\ slots \in [Kinds -> Seq(Slot2)] /\ count \in [Kinds -> Nat]
       /\ \A l \in Kinds : Len(slots[l]) = PoolSize(l) /\ Len(slots[l]) \in Nat /\ count[l] <= Len(slots[l])
                           /\ DOMAIN slots[l] = 1 .. Len(slots[l]) /\ count[l] \in Nat
  <2>1. slots \in [Kinds -> Seq(Slot2)] /\ count \in [Kinds -> Nat]
    BY <1>0 DEF LinkTypes
  <2>2. \A l \in Kinds : Len(slots[l]) = PoolSize(l) /\ count[l] <= PoolSize(l)
    BY <1>0, <1>6 DEF PoolsInv
  <2>3. \A l \in Kinds : slots[l] \in Seq(Slot2)
    BY <2>1
  <2> HIDE DEF Slot2
  <2> QED
    BY <2>1, <2>2, <2>3, LenProperties
<1>11. slots' = [slots EXCEPT ![k] = [slots[k] EXCEPT ![n] = made]]
  <2>1. n \in DOMAIN slots[k]
    BY <1>6, <1>7, <1>10
  <2>2. Filled(k) = [slots EXCEPT ![k][n] = made]
    BY <1>1, <1>3, <1>4, <1>5, <2>1 DEF Filled, PolicyType
  <2> HIDE DEF made
  <2> QED
    BY <1>0, <2>2
<1> DEFINE s == slots[k]
           r == [s EXCEPT ![n] = made]
<1>12. /\ slots' = [slots EXCEPT ![k] = r]
       /\ r \in Seq(Slot2) /\ DOMAIN r = DOMAIN s /\ Len(r) = Len(s)
       /\ r[n] = made /\ \A i \in DOMAIN s : i # n => r[i] = s[i]
  <2>1. n \in DOMAIN s /\ s \in Seq(Slot2) /\ DOMAIN s = 1 .. Len(s)
    BY <1>6, <1>7, <1>10
  <2>2. slots' = [slots EXCEPT ![k] = r]
    BY <1>11
  <2> HIDE DEF made, Slot2, s
  <2> QED
    BY <1>8, <2>1, <2>2
<1> HIDE DEF r, s, made
<1>13. \A l \in Kinds : /\ l # k => slots'[l] = slots[l]
                        /\ l = k => slots'[l] = r
                        /\ slots'[l] \in Seq(Slot2) /\ Len(slots'[l]) = Len(slots[l])
  <2> HIDE DEF Slot2
  <2> QED
    BY <1>6, <1>10, <1>12 DEF s
<1>14. \A l \in Kinds : /\ l # k => count'[l] = count[l]
                        /\ l = k => count'[l] = n
                        /\ count'[l] \in Nat /\ count[l] <= count'[l]
                        /\ \A i \in 1 .. count'[l] : i \in 1 .. count[l] \/ (l = k /\ i = n)
  BY <1>0, <1>6, <1>7, <1>10
<1>15. \A l \in Kinds : \A i \in 1 .. count[l] : slots'[l][i] = slots[l][i]
  <2> TAKE l \in Kinds
  <2> TAKE i \in 1 .. count[l]
  <2>1. CASE l = k
    <3>1. i # n /\ i \in DOMAIN s
      BY <1>7, <1>10, <2>1 DEF s
    <3> QED
      BY <1>12, <1>13, <2>1, <3>1 DEF s
  <2>2. CASE l # k
    BY <1>13, <2>2
  <2> QED
    BY <2>1, <2>2
<1>16. Grows
  BY <1>0, <1>14, <1>15 DEF Grows
<1>17. slots'[k][n].what = <<"policy", k, f>> /\ slots'[k][n].type = made.type
  BY <1>6, <1>8, <1>12, <1>13 DEF made
<1>18. x \in Objects /\ Stands(x, k, d)'
  <2>1. x \in Objects
    BY <1>6, <1>7 DEF Objects
  <2>2. n \in 1 .. count'[k]
    BY <1>6, <1>7, <1>14
  <2> QED
    BY <1>9, <1>17, <2>1, <2>2 DEF Stands
<1> PICK y : y = x
  OBVIOUS
<1>19. /\ y \in Objects /\ y = <<"slot", k, n>> /\ Stands(y, k, d)' /\ x = y
  BY <1>18
<1> HIDE DEF x
<1> DEFINE h == space[Host][k]
           i2 == Len(h) + 1
<1>20. /\ Bound(y) \in [Modules -> [Kinds -> Seq(Objects \cup {Null})]]
       /\ \A l \in Kinds : Bound(y)[Host][l] = space[Host][l]
       /\ Host \in Modules /\ \A m \in Externals : m \in Modules /\ m # Host
  <2>1. Host \in Modules /\ \A m \in Externals : m \in Modules /\ m # Host
    BY OrderAssumption DEF Modules
  <2> QED
    BY <1>0, <1>19, <2>1, BoundIs
<1>21. /\ h \in Seq(Objects \cup {Null}) /\ Len(h) \in Nat /\ DOMAIN h = 1 .. Len(h)
       /\ Append(h, y) \in Seq(Objects \cup {Null}) /\ Len(Append(h, y)) = i2
       /\ Append(h, y)[i2] = y /\ DOMAIN Append(h, y) = 1 .. i2
       /\ \A i \in 1 .. Len(h) : Append(h, y)[i] = h[i]
  <2>1. h \in Seq(Objects \cup {Null})
    BY <1>0, <1>6, <1>20 DEF LinkTypes
  <2>2. y \in Objects \cup {Null}
    BY <1>19
  <2> HIDE DEF h
  <2> QED
    BY <2>1, <2>2, AppendProperties, LenProperties
<1>22. /\ space' = [Bound(y) EXCEPT ![Host][k] = Append(@, y)]
       /\ Bound(y)[Host][k] = h
  BY <1>0, <1>6, <1>19, <1>20
<1>23. /\ space' \in [Modules -> [Kinds -> Seq(Objects \cup {Null})]]
       /\ \A m \in Externals : space'[m] = Bound(y)[m]
       /\ space'[Host][k] = Append(h, y)
       /\ \A l \in Kinds : l # k => space'[Host][l] = space[Host][l]
  <2> DEFINE B == Bound(y)
             S == Seq(Objects \cup {Null})
  <2>1. B \in [Modules -> [Kinds -> S]] /\ Append(h, y) \in S
    BY <1>20, <1>21
  <2>2. space' = [B EXCEPT ![Host][k] = Append(h, y)]
    BY <1>22
  <2> HIDE DEF B, S, h
  <2>3. /\ space' \in [Modules -> [Kinds -> S]]
        /\ \A m \in Externals : space'[m] = B[m]
        /\ space'[Host][k] = Append(h, y)
        /\ \A l \in Kinds : l # k => space'[Host][l] = B[Host][l]
    BY <1>6, <1>20, <2>1, <2>2
  <2> QED
    BY <1>20, <2>3 DEF B, S
<1> HIDE DEF h
<1>24. /\ exports' \in [Modules -> [Fields -> [kind : Kinds, index : Nat] \cup {Null}]]
       /\ \A m \in Externals : exports'[m] = exports[m]
       /\ \A g \in Fields : g # f => exports'[Host][g] = exports[Host][g]
       /\ exports'[Host][f] # Null /\ exports'[Host][f].index = i2
  <2> DEFINE E == [kind : Kinds, index : Nat]
             old == exports[Host][f]
             new == [old EXCEPT !.index = i2]
  <2>1. exports \in [Modules -> [Fields -> E \cup {Null}]] /\ old \in E
    BY <1>0, <1>6, <1>7, <1>20 DEF LinkTypes
  <2>2. exports' = [exports EXCEPT ![Host][f] = new]
    BY <1>0, <1>21, <1>23
  <2>3. new \in E /\ new.index = i2
    BY <1>21, <2>1
  <2>4. new # Null
    BY <2>3, NullAssumption
  <2> HIDE DEF E, old, new
  <2> QED
    BY <1>6, <1>20, <2>1, <2>2, <2>3, <2>4 DEF E
<1>25. SpacesInv' /\ CallsInv' /\ TurnsInv'
  <2>1. TypeOf(y)' = made.type
    BY <1>17, <1>19 DEF TypeOf
  <2>2. \/ TypeOf(y)' = Entry(w).type
        \/ w[3] \in Limited /\ TypeOf(y)' >= Entry(w).type
    <3>1. p \in Int /\ t \in Int
      BY <1>6, <1>8, TypesAreNumbers
    <3>2. k \notin Limited => p = t
      BY <1>0 DEF Matches
    <3>3. made.type = IF k \in Limited /\ t > p THEN t ELSE p
      BY DEF made
    <3> HIDE DEF p
    <3> QED
      BY <1>6, <2>1, <3>1, <3>2, <3>3
  <2>3. count' \in [Kinds -> Nat]
    <3>1. count' = [l \in Kinds |-> count'[l]]
      BY <1>0, <1>10
    <3> QED
      BY <1>14, <3>1
  <2>4. calls # <<>> /\ phase' = phase /\ todo' = todo /\ calls' = <<>>
    BY <1>0
  <2>5. \A m \in Externals : exports'[m] = exports[m] /\ space'[m] = Bound(y)[m]
    BY <1>23, <1>24
  <2>6. y \in Objects /\ Stands(y, w[3], d)'
    BY <1>19
  <2> QED
    BY <1>1, <1>2, <1>16, <2>2, <2>3, <2>4, <2>5, <2>6, BindLinks
<1>26. GoodEnvironment'
  BY <1>0, SameEnvironment
<1>27. LinkTypes'
  <2>1. slots' \in [Kinds -> Seq(Slot2)]
    <3>1. slots' = [l \in Kinds |-> slots'[l]]
      BY <1>10, <1>12
    <3> HIDE DEF Slot2
    <3> QED
      BY <1>13, <3>1
  <2>2. ImportSet' = ImportSet
    BY <1>0, SameEnvironment
  <2>3. calls' \in Seq(ImportSet) /\ ~(calls' # <<>>)
    BY <1>0
  <2>4. count' \in [Kinds -> Nat]
    <3>1. count' = [l \in Kinds |-> count'[l]]
      BY <1>0, <1>10
    <3> QED
      BY <1>14, <3>1
  <2> QED
    BY <1>0, <1>23, <1>24, <2>1, <2>2, <2>3, <2>4 DEF LinkTypes
<1>28. FailsForCause'
  BY <1>0, <1>6 DEF FailsForCause
\* What is in the host's index spaces stays there.
<1>29. ASSUME NEW l \in Kinds, NEW i \in DOMAIN space[Host][l]
       PROVE  i \in DOMAIN space'[Host][l] /\ space'[Host][l][i] = space[Host][l][i]
  <2>1. CASE l = k
    <3>1. i \in 1 .. Len(h)
      BY <1>21, <2>1 DEF h
    <3>2. i \in 1 .. i2
      BY <1>21, <3>1
    <3> QED
      BY <1>21, <1>23, <2>1, <3>1, <3>2 DEF h
  <2>2. CASE l # k
    BY <1>23, <2>2
  <2> QED
    BY <2>1, <2>2
<1>30. ASSUME NEW l \in Kinds, NEW i \in 1 .. count[l], NEW g, Granted(l, i, g)
       PROVE  Granted(l, i, g)'
  <2>1. /\ g \in Asked(l) /\ slots[l][i].what = <<"policy", l, g>>
        /\ exports[Host][g] # Null /\ exports[Host][g].index # Invalid
        /\ space[Host][l][exports[Host][g].index] = <<"slot", l, i>>
    BY <1>30 DEF Granted
  <2>2. PICK o \in Unknown(l) : Entry(o).field = g
    BY <2>1 DEF Asked
  <2>3. o \in ImportSet /\ o[3] = l /\ Entry(o).from = Host
    BY DEF Unknown
  <2>4. g \in Fields
    BY <1>0, <2>2, <2>3, GoodIsWellFormed, TargetsAre
  <2>5. exports[Host][g].index \in DOMAIN space[Host][l]
    BY <1>0, <1>6, <2>1, <2>2, <2>3 DEF HostInv
  <2>6. g # f
    BY <1>7, <2>1
  <2>7. exports'[Host][g] = exports[Host][g]
    BY <1>24, <2>4, <2>6
  <2>8. space'[Host][l][exports[Host][g].index] = <<"slot", l, i>>
    BY <1>29, <2>1, <2>5
  <2>9. slots'[l][i].what = <<"policy", l, g>> /\ g \in Asked(l)'
    BY <1>0, <1>15, <2>1, SameEnvironment
  <2> QED
    BY <2>1, <2>7, <2>8, <2>9 DEF Granted
<1>31. Granted(k, n, f)'
  <2>1. f \in Asked(k)'
    BY <1>0, <1>7, SameEnvironment
  <2>2. space'[Host][k][exports'[Host][f].index] = <<"slot", k, n>>
    BY <1>19, <1>21, <1>23, <1>24
  <2>3. i2 # Invalid
    BY <1>21 DEF Invalid
  <2> QED
    BY <1>17, <1>24, <2>1, <2>2, <2>3 DEF Granted
<1>32. PoolsInv'
  <2>1. \A l : PoolSize(l)' = PoolSize(l) /\ Copied(l)' = Copied(l)
    BY <1>0, SameEnvironment
  <2>2. \A e : DeclaredType(e)' = DeclaredType(e)
    BY <1>0, SameEnvironment
  <2>3. ASSUME NEW l \in Kinds
        PROVE  /\ Len(Copied(l)) <= count'[l] /\ count'[l] <= PoolSize(l)
               /\ \A i \in 1 .. Len(Copied(l)) : slots'[l][i].what = Copied(l)[i]
               /\ \A i \in Len(Copied(l)) + 1 .. count'[l] : \E g \in Fields : Granted(l, i, g)'
               /\ \A i \in 1 .. count'[l] :
                     /\ slots'[l][i].type \in Types
                     /\ l \notin Limited => slots'[l][i].type = DeclaredType(slots'[l][i].what)
    <3>1. /\ Len(Copied(l)) <= count[l] /\ Len(Copied(l)) \in Nat
          /\ count[l] \in Nat /\ count'[l] \in Nat /\ count[l] <= count'[l]
      BY <1>0, <1>6, <1>10, <1>14, CopiedAre DEF PoolsInv
    <3>2. count'[l] <= PoolSize(l)
      BY <1>6, <1>7, <1>10, <1>14
    <3>3. \A i \in 1 .. Len(Copied(l)) : slots'[l][i].what = Copied(l)[i]
      <4> TAKE i \in 1 .. Len(Copied(l))
      <4>1. i \in 1 .. count[l]
        BY <3>1
      <4>2. slots[l][i].what = Copied(l)[i]
        BY <1>0, <1>6 DEF PoolsInv
      <4> QED
        BY <1>15, <4>1, <4>2
    <3>4. ASSUME NEW i \in Len(Copied(l)) + 1 .. count'[l] PROVE \E g \in Fields : Granted(l, i, g)'
      <4>1. i \in 1 .. count'[l]
        BY <3>1
      <4>2. CASE i \in 1 .. count[l]
        <5>1. PICK g \in Fields : Granted(l, i, g)
          <6>1. i \in Len(Copied(l)) + 1 .. count[l]
            BY <3>1, <4>2
          <6> QED
            BY <1>0, <1>6, <6>1 DEF PoolsInv
        <5>2. Granted(l, i, g)'
          BY <1>30, <4>2, <5>1
        <5> QED
          BY <5>2
      <4>3. CASE l = k /\ i = n
        BY <1>6, <1>31, <4>3
      <4> QED
        BY <1>14, <4>1, <4>2, <4>3
    <3>5. ASSUME NEW i \in 1 .. count'[l]
          PROVE  /\ slots'[l][i].type \in Types
                 /\ l \notin Limited => slots'[l][i].type = DeclaredType(slots'[l][i].what)
      <4>1. CASE i \in 1 .. count[l]
        <5>1. /\ slots[l][i].type \in Types
              /\ l \notin Limited => slots[l][i].type = DeclaredType(slots[l][i].what)
          BY <1>0, <1>6, <4>1 DEF PoolsInv
        <5> QED
          BY <1>15, <4>1, <5>1
      <4>2. CASE l = k /\ i = n
        <5>1. DeclaredType(<<"policy", k, f>>) = p
          BY DEF DeclaredType
        <5>2. k \notin Limited => made.type = p
          BY DEF made
        <5> QED
          BY <1>8, <1>17, <4>2, <5>1, <5>2
      <4> QED
        BY <1>14, <4>1, <4>2
    <3> QED
      BY <3>1, <3>2, <3>3, <3>4, <3>5
  <2>4. \A l \in Kinds : Len(slots'[l]) = PoolSize(l)
    BY <1>10, <1>13
  <2> QED
    BY <1>0, <1>6, <2>1, <2>2, <2>3, <2>4 DEF PoolsInv
<1>33. HostInv'
  <2>1. ASSUME NEW o \in ImportSet, Entry(o).from = Host
        PROVE  LET g == Entry(o).field
                   export == exports'[Host][g]
               IN /\ export # Null
                  /\ export.index # Invalid =>
                        /\ export.index \in DOMAIN space'[Host][o[3]]
                        /\ Stands(space[Host][o[3]][exports[Host][g].index], o[3], Target(o))'
                  /\ HostProvides(o[3], g) => export.index # Invalid
    <3> DEFINE g == Entry(o).field
               l == o[3]
    <3>1. l \in Kinds /\ g \in Fields
      BY <1>0, GoodIsWellFormed, TargetsAre
    <3>2. Entry(o)' = Entry(o) /\ Target(o)' = Target(o)
      BY <1>0, SameEnvironment
    <3>3. CASE g = f
      <4>1. l = k
        <5>1. UnknownAs(f) = {k}
          BY <1>0, <1>6, <1>7, FromHost
        <5>2. UnknownAs(f) = {l}
          BY <1>0, <2>1, <3>3, <5>1, FromHost
        <5> QED
          BY <5>1, <5>2
      <4>2. Target(o) = d
        <5>1. env.policy[l][g] # Null /\ ~HostProvides(l, g)
          BY <1>0, <1>7, <3>3, <4>1
        <5>2. Target(o) = <<"policy", l, g>>
          BY <1>0, <2>1, <5>1, GoodIsWellFormed, TargetsAre
        <5> QED
          BY <1>9, <3>3, <4>1, <5>2
      <4>3. exports'[Host][g].index = i2 /\ exports'[Host][g] # Null /\ i2 # Invalid
        BY <1>21, <1>24, <3>3 DEF Invalid
      <4>4. i2 \in DOMAIN space'[Host][l] /\ space'[Host][l][i2] = y
        BY <1>21, <1>23, <4>1
      <4> HIDE DEF g, l
      <4>5. Stands(space[Host][l][exports[Host][g].index], l, Target(o))'
        BY <1>19, <3>2, <4>1, <4>2, <4>3, <4>4 DEF Stands, g, l
      <4> QED
        BY <4>3, <4>4, <4>5 DEF g, l
    <3>4. CASE g # f
      <4>1. exports'[Host][g] = exports[Host][g]
        BY <1>24, <3>1, <3>4
      <4>2. /\ exports[Host][g] # Null
            /\ exports[Host][g].index # Invalid =>
                  /\ exports[Host][g].index \in DOMAIN space[Host][l]
                  /\ Stands(space[Host][l][exports[Host][g].index], l, Target(o))
            /\ HostProvides(l, g) => exports[Host][g].index # Invalid
        BY <1>0, <1>6, <2>1 DEF HostInv
      <4>3. ASSUME exports[Host][g].index # Invalid
            PROVE  /\ exports'[Host][g].index \in DOMAIN space'[Host][l]
                   /\ Stands(space[Host][l][exports[Host][g].index], l, Target(o))'
        <5>1. PICK z : z = space[Host][l][exports[Host][g].index]
          OBVIOUS
        <5>2. PICK e : e = Target(o)
          OBVIOUS
        <5>3. Stands(z, l, e)
          BY <4>2, <4>3, <5>1, <5>2
        <5>4. Stands(z, l, e)'
          <6>1. count' \in [Kinds -> Nat]
            BY <1>27 DEF LinkTypes
          <6> QED
            BY <1>10, <1>16, <3>1, <5>3, <6>1, StandsStill
        <5>5. exports'[Host][g].index \in DOMAIN space'[Host][l]
              /\ space'[Host][l][exports'[Host][g].index] = z
          BY <1>29, <3>1, <4>1, <4>2, <4>3, <5>1
        <5> HIDE DEF g, l
        <5>6. Stands(space[Host][l][exports[Host][g].index], l, Target(o))'
          BY <3>2, <5>2, <5>4, <5>5 DEF Stands, g, l
        <5> QED
          BY <5>5, <5>6
      <4> QED
        BY <4>1, <4>2, <4>3
    <3> QED
      BY <3>3, <3>4
  <2>2. \A o : Entry(o)' = Entry(o) /\ Target(o)' = Target(o)
    BY <1>0, SameEnvironment
  <2>3. \A l, g : HostProvides(l, g)' <=> HostProvides(l, g)
    BY <1>0, SameEnvironment
  <2>4. ImportSet' = ImportSet
    BY <1>0, SameEnvironment
  <2> QED
    BY <1>0, <1>6, <2>1, <2>2, <2>3, <2>4 DEF HostInv
<1> QED
  BY <1>25, <1>26, <1>27, <1>28, <1>32, <1>33 DEF LinkInv

\* init gives up when an import leads nowhere, is refused or is of another type.
LEMMA FailLinks ==
  ASSUME LinkInv, Fail
  PROVE  LinkInv'
<1>0. /\ LinkTypes /\ HostInv /\ PoolsInv /\ TurnsInv /\ GoodEnvironment /\ WellFormed(env)
      /\ OneKindPerField /\ calls # <<>> /\ Binding /\ phase = "import"
      /\ phase' = "failed" /\ calls' = <<>> /\ env' = env /\ exports' = exports /\ space' = space
      /\ slots' = slots /\ count' = count /\ todo' = todo
  BY AtCall, GoodIsWellFormed DEF LinkInv, Fail
<1> DEFINE w == Wanted
           k == Wanted[3]
           f == Entry(Wanted).field
<1>1. w \in ImportSet /\ k \in Kinds /\ f \in Fields /\ Source = Entry(w).from
  BY <1>0, AtCall DEF Source
<1>2. Denotes(Null) = Null
  <2>1. Null \in Ends
    BY DEF Ends
  <2>2. Null \notin ImportSet
    BY <1>0, EntriesAre, NullAssumption DEF ImportSet
  <2> QED
    BY <1>0, <2>1, <2>2, GoodIsWellFormed, Denoted
<1>3. Target(w) = Null => Denotes(w) = Null
  BY <1>0, <1>1, <1>2, GoodIsWellFormed, Denoted
<1>4. \/ Denotes(w) = Null
      \/ k \notin Limited /\ DeclaredType(Denotes(w)) # Entry(w).type
  <2>1. CASE Export = Null
    <3>1. CASE Source = Host
      <4>1. exports[Host][f] # Null
        BY <1>0, <1>1, <3>1 DEF HostInv
      <4> QED
        BY <2>1, <3>1, <4>1 DEF Export, Modules
    <3>2. CASE Source \in Externals
      <4>1. env.exports[Source][f] = Null
        BY <1>0, <2>1, <3>2 DEF LinkInv, SpacesInv, Export, Modules
      <4>2. Target(w) = Null
        BY <1>0, <1>1, <3>2, <4>1, TargetsAre
      <4> QED
        BY <1>3, <4>2
    <3>3. CASE Source \notin Modules
      BY <1>0, <1>1, <1>3, <3>3, TargetsAre
    <3> QED
      BY <3>1, <3>2, <3>3 DEF Modules
  <2>2. CASE Export # Null /\ Found # Null /\ ~Matches(k, TypeOf(Found), Entry(w).type)
    <3>1. Stands(Found, k, Denotes(w))
      BY <1>0, <2>2, FoundStands
    <3>2. PICK x : x = Found
      OBVIOUS
    <3>3. PICK d : d = Denotes(w)
      OBVIOUS
    <3>4. Stands(x, k, d)
      BY <3>1, <3>2, <3>3
    <3>5. PICK l : l = k
      OBVIOUS
    <3>6. k \notin Limited => TypeOf(x) = DeclaredType(d)
      BY <1>0, <1>1, <3>4, <3>5, TypeStands
    <3> QED
      BY <2>2, <3>2, <3>3, <3>6 DEF Matches
  <2>3. CASE AsksPolicy /\ PolicyType = Null
    <3>1. Source = Host /\ ~HostProvides(k, f)
      BY <1>0, <2>3, RoomForNext
    <3>2. Target(w) = Null
      BY <1>0, <1>1, <2>3, <3>1, TargetsAre DEF PolicyType
    <3> QED
      BY <1>3, <3>2
  <2>4. CASE AsksPolicy /\ PolicyType # Null /\ ~Matches(k, PolicyType, Entry(w).type)
    <3>1. Source = Host /\ ~HostProvides(k, f)
      BY <1>0, <2>4, RoomForNext
    <3>2. Target(w) = <<"policy", k, f>>
      BY <1>0, <1>1, <2>4, <3>1, TargetsAre DEF PolicyType
    <3>3. Denotes(w) = <<"policy", k, f>>
      BY <1>0, <1>1, <3>1, <3>2, HostDenotes
    <3>4. DeclaredType(Denotes(w)) = PolicyType
      BY <3>3 DEF DeclaredType, PolicyType
    <3> QED
      BY <2>4, <3>4 DEF Matches
  <2> QED
    BY <2>1, <2>2, <2>3, <2>4 DEF Fail
<1>5. FailsForCause'
  <2>1. \E o \in ImportSet :
          \/ Denotes(o) = Null
          \/ o[3] \notin Limited /\ DeclaredType(Denotes(o)) # Entry(o).type
    BY <1>1, <1>4
  <2> HIDE DEF w, k, f
  <2>2. PICK o \in ImportSet : \/ Denotes(o) = Null
                               \/ o[3] \notin Limited /\ DeclaredType(Denotes(o)) # Entry(o).type
    BY <2>1
  <2>3. /\ ImportSet' = ImportSet /\ Denotes(o)' = Denotes(o) /\ Entry(o)' = Entry(o)
        /\ DeclaredType(Denotes(o))' = DeclaredType(Denotes(o))
    <3>1. Denotes(o)' = Denotes(o)
      BY <1>0, SameEnvironment
    <3>2. DeclaredType(Denotes(o))' = DeclaredType(Denotes(o))
      BY <1>0, <3>1 DEF DeclaredType, Entry
    <3> QED
      BY <1>0, <3>1, <3>2, SameEnvironment
  <2>4. o \in ImportSet' /\ (\/ Denotes(o)' = Null
                             \/ o[3] \notin Limited /\ DeclaredType(Denotes(o))' # Entry(o)'.type)
    BY <2>2, <2>3
  <2> QED
    BY <2>4 DEF FailsForCause
<1>6. LinkTypes'
  <2>1. ImportSet' = ImportSet
    BY <1>0, SameEnvironment
  <2>2. calls' \in Seq(ImportSet) /\ ~(calls' # <<>>)
    BY <1>0
  <2> QED
    BY <1>0, <2>1, <2>2 DEF LinkTypes
<1>7. CallsInv'
  BY <1>0, EmptySequences DEF CallsInv
<1>8. TurnsInv'
  <2>1. \A i, j \in 1 .. Len(todo) : i < j => Before(todo[i], todo[j])
    BY <1>0 DEF TurnsInv
  <2> QED
    BY <1>0, <2>1 DEF TurnsInv
<1>9. Binding'
  BY <1>0 DEF Binding
<1> QED
  BY <1>0, <1>5, <1>6, <1>7, <1>8, <1>9, QuietLinks DEF LinkInv

LEMMA NextLinks ==
  ASSUME LinkInv, [Next]_vars
  PROVE  LinkInv'
<1>1. CASE PreLink
  BY <1>1, PreLinkLinks
<1>2. CASE Define
  BY <1>2, DefineLinks
<1>3. CASE NextImport
  BY <1>3, NextImportLinks
<1>4. CASE ImportFound
  BY <1>4, ImportFoundLinks
<1>5. CASE Recurse
  BY <1>5, RecurseLinks
<1>6. CASE Provide
  BY <1>6, ProvideLinks
<1>7. CASE Fail
  BY <1>7, FailLinks
<1>8. CASE Linked
  BY <1>8, LinkedLinks
<1>9. CASE UNCHANGED vars
  BY <1>9, StutterLinks
<1> QED
  BY <1>1, <1>2, <1>3, <1>4, <1>5, <1>6, <1>7, <1>8, <1>9 DEF Next

-----------------------------------------------------------------------------
(* What the invariant says *)

LEMMA LinkedTypes == LinkInv => TypeOK
<1> SUFFICES ASSUME LinkInv PROVE TypeOK
  OBVIOUS
<1>0. LinkTypes /\ PoolsInv /\ SpacesInv /\ WellFormed(env)
  BY GoodIsWellFormed DEF LinkInv
<1>1. \A m \in Modules, f \in Fields :
        exports[m][f] = Null \/ exports[m][f] \in [kind : Kinds, index : Nat]
  BY <1>0 DEF LinkTypes
<1>2. ASSUME NEW m \in Externals, NEW k \in Kinds, phase \in {"import", "linked"}
      PROVE  Len(space[m][k]) = Len(env.index[m][k])
  <2>1. m \in Modules
    BY DEF Modules
  <2>2. space[m][k] \in Seq(Objects \cup {Null}) /\ env.index[m][k] \in Seq(ToSet(env.index[m][k]))
    BY <1>0, <2>1 DEF LinkTypes, WellFormed
  <2>3. DOMAIN space[m][k] = DOMAIN env.index[m][k]
    BY <1>0, <1>2 DEF SpacesInv, Binding
  <2> DEFINE s == space[m][k]
             t == env.index[m][k]
  <2>4. DOMAIN s = 1 .. Len(s) /\ Len(s) \in Nat /\ DOMAIN t = 1 .. Len(t) /\ Len(t) \in Nat
    <3>1. s \in Seq(Objects \cup {Null}) /\ t \in Seq(ToSet(t))
      BY <2>2
    <3> HIDE DEF s, t
    <3> QED BY <3>1, LenProperties
  <2>5. \A a, b \in Nat : 1 .. a = 1 .. b => a = b
    <3> SUFFICES ASSUME NEW a \in Nat, NEW b \in Nat, 1 .. a = 1 .. b, a # b PROVE FALSE
      OBVIOUS
    <3>1. a \in 1 .. a \/ a = 0
      OBVIOUS
    <3>2. b \in 1 .. b \/ b = 0
      OBVIOUS
    <3> QED
      BY <3>1, <3>2
  <2> QED
    BY <2>3, <2>4, <2>5
<1>3. ASSUME NEW k \in Kinds, NEW n \in DOMAIN slots[k]
      PROVE  slots[k][n].type \in Types \cup {Null}
  <2> DEFINE Slot2 == [what : Objects \cup {Null}, type : Types \cup {Null}]
  <2>1. slots[k] \in Seq(Slot2)
    BY <1>0 DEF LinkTypes
  <2>2. slots[k][n] \in Slot2
    <3> HIDE DEF Slot2
    <3> QED BY <2>1, ElementOfSeq, LenProperties
  <2> QED
    BY <2>2
<1> QED
  BY <1>0, <1>1, <1>2, <1>3 DEF TypeOK, LinkTypes

LEMMA PoolsSuffice == LinkInv => SlotsEnough
<1> SUFFICES ASSUME LinkInv, NEW k \in Kinds
             PROVE  /\ count[k] <= Len(slots[k])
                    /\ \A n, l \in 1 .. count[k] : slots[k][n].what = slots[k][l].what => n = l
  BY DEF SlotsEnough
<1>0. LinkTypes /\ PoolsInv /\ GoodEnvironment /\ WellFormed(env) /\ count[k] \in Nat
      /\ phase \in {"prelink", "define", "import", "linked", "failed"}
  BY GoodIsWellFormed DEF LinkInv, LinkTypes
<1>1. CASE phase \in {"prelink", "define"}
  <2>1. count[k] = 0
    BY <1>0, <1>1 DEF PoolsInv
  <2>2. slots[k] \in Seq([what : Objects \cup {Null}, type : Types \cup {Null}])
    BY <1>0 DEF LinkTypes
  <2>3. Len(slots[k]) \in Nat
    BY <2>2, LenProperties
  <2> QED
    BY <2>1, <2>3
<1>2. CASE Binding
  <2>1. count[k] <= Len(slots[k])
    BY <1>0, <1>2 DEF PoolsInv, Binding
  <2>2. ASSUME NEW n \in 1 .. count[k]
        PROVE  \/ n \in 1 .. Len(Copied(k))
               \/ n \in Len(Copied(k)) + 1 .. count[k] /\ ~(n \in 1 .. Len(Copied(k)))
    BY <1>0, CopiedAre
  <2>3. \A n \in 1 .. Len(Copied(k)) : slots[k][n].what = Copied(k)[n] /\ Copied(k)[n][1] = "own"
    BY <1>0, <1>2, CopiedAre, EntriesAre DEF PoolsInv
  <2>4. ASSUME NEW n \in 1 .. count[k], NEW l \in 1 .. count[k], slots[k][n].what = slots[k][l].what
        PROVE  n = l
    <3>1. CASE n \in 1 .. Len(Copied(k)) /\ l \in 1 .. Len(Copied(k))
      BY <1>0, <2>3, <2>4, <3>1, CopiedAre
    <3>2. ASSUME NEW j \in Len(Copied(k)) + 1 .. count[k]
          PROVE  \E f \in Fields : /\ slots[k][j].what = <<"policy", k, f>>
                                   /\ space[Host][k][exports[Host][f].index] = <<"slot", k, j>>
      BY <1>0, <1>2 DEF PoolsInv, Granted
    <3>3. \A j \in Len(Copied(k)) + 1 .. count[k] : slots[k][j].what[1] = "policy"
      BY <3>2
    <3>4. CASE n \in Len(Copied(k)) + 1 .. count[k] /\ l \in Len(Copied(k)) + 1 .. count[k]
      <4>1. PICK f \in Fields : /\ slots[k][n].what = <<"policy", k, f>>
                                /\ space[Host][k][exports[Host][f].index] = <<"slot", k, n>>
        BY <3>2, <3>4
      <4>2. PICK g \in Fields : /\ slots[k][l].what = <<"policy", k, g>>
                                /\ space[Host][k][exports[Host][g].index] = <<"slot", k, l>>
        BY <3>2, <3>4
      <4>3. f = g
        <5>1. <<"policy", k, f>> = <<"policy", k, g>>
          BY <2>4, <4>1, <4>2
        <5> QED
          BY <5>1
      <4>4. <<"slot", k, n>> = <<"slot", k, l>>
        BY <4>1, <4>2, <4>3
      <4> QED
        BY <4>4
    <3>5. CASE n \in 1 .. Len(Copied(k)) /\ l \in Len(Copied(k)) + 1 .. count[k]
      BY <2>3, <2>4, <3>3, <3>5
    <3>6. CASE l \in 1 .. Len(Copied(k)) /\ n \in Len(Copied(k)) + 1 .. count[k]
      BY <2>3, <2>4, <3>3, <3>6
    <3> QED
      BY <2>2, <3>1, <3>4, <3>5, <3>6
  <2> QED
    BY <2>1, <2>4
<1> QED
  BY <1>0, <1>1, <1>2 DEF Binding

LEMMA BindingsHold == LinkInv => BoundAsDenoted
<1> SUFFICES ASSUME LinkInv, NEW o \in ImportSet, Binding
             PROVE  IF ObjectAt(o) = Null THEN phase # "linked"
                    ELSE Content(ObjectAt(o)) = Denotes(o)
  BY DEF BoundAsDenoted, Binding, ObjectAt
<1>1. ASSUME phase = "linked" PROVE ObjectAt(o) # Null
  <2>1. calls = <<>> /\ todo = <<>>
    BY <1>1 DEF LinkInv, LinkTypes, TurnsInv
  <2>2. o \notin ToSet(todo)
    BY <2>1 DEF ToSet
  <2> QED
    BY <1>1, <2>1, <2>2 DEF LinkInv, TurnsInv, Checked
<1>2. ASSUME ObjectAt(o) # Null PROVE Content(ObjectAt(o)) = Denotes(o)
  <2>1. o \in Declared
    BY DEF ImportSet
  <2>2. Stands(ObjectAt(o), o[3], Denotes(o))
    BY <1>2, <2>1 DEF LinkInv, SpacesInv
  <2> QED
    BY <2>2 DEF Stands, Content
<1> QED
  BY <1>1, <1>2

LEMMA ChecksHold == LinkInv => ImportsChecked
<1> SUFFICES ASSUME LinkInv, phase = "linked", NEW o \in ImportSet
             PROVE  LET type == TypeOf(ObjectAt(o))
                    IN \/ IsImport(Target(o)) /\ ~Before(Target(o), o)
                       \/ type = Entry(o).type
                       \/ o[3] \in Limited /\ type >= Entry(o).type
  BY DEF ImportsChecked, ObjectAt
<1>1. calls = <<>> /\ todo = <<>>
  BY DEF LinkInv, LinkTypes, TurnsInv
<1>2. o \notin ToSet(todo)
  BY <1>1 DEF ToSet
<1> QED
  BY <1>1, <1>2 DEF LinkInv, TurnsInv, Checked

-----------------------------------------------------------------------------
(* Theorems *)

\* Every run of linkExternalModules keeps LinkInv: as many slots as performPreLink counts,
\* each for a definition that is copied or for a field that the policy was asked for, and
\* index spaces that hold what the chains of imports lead to.
THEOREM LinkInvariant == Spec => []LinkInv
<1>1. Init => LinkInv
  BY InitLinks
<1>2. LinkInv /\ [Next]_vars => LinkInv'
  BY NextLinks
<1> QED
  BY <1>1, <1>2, PTL DEF Spec

\* The steps of Loader that follow leave all of it alone.
LEMMA LoadingLinks == [LoaderNext]_allVars => [Next]_vars
<1> SUFFICES ASSUME [LoaderNext]_allVars PROVE Next \/ UNCHANGED vars
  OBVIOUS
<1>1. CASE Linking
  BY <1>1 DEF Linking
<1>2. CASE LoadBegins
  BY <1>2 DEF LoadBegins
<1>3. CASE Allocate
  BY <1>3 DEF Allocate
<1>4. CASE EmplaceData
  BY <1>4 DEF EmplaceData
<1>5. CASE EmplaceElements
  BY <1>5 DEF EmplaceElements
<1>6. CASE InitHost
  BY <1>6 DEF InitHost
<1>7. CASE LoadFails
  BY <1>7 DEF LoadFails
<1>8. CASE Loaded
  BY <1>8 DEF Loaded
<1>9. CASE UNCHANGED allVars
  BY <1>9 DEF allVars, vars
<1> QED
  BY <1>1, <1>2, <1>3, <1>4, <1>5, <1>6, <1>7, <1>8, <1>9 DEF LoaderNext

\* So Runtime::init keeps LinkInv to its end, loadRuntime included.
THEOREM InitInvariant == LoaderSpec => []LinkInv
<1>1. LoaderInit => LinkInv
  BY InitLinks DEF LoaderInit
<1>2. LinkInv /\ [LoaderNext]_allVars => LinkInv'
  BY LoadingLinks, NextLinks
<1> QED
  BY <1>1, <1>2, PTL DEF LoaderSpec

\* Exports, index spaces, slots and calls are what the code declares them to be, and an
\* index space has as many objects as its module has entries.
THEOREM LinkTypeCorrect == LoaderSpec => []TypeOK
BY InitInvariant, LinkedTypes, PTL

\* The vectors that performPreLink makes are large enough for every environment: none
\* of the writes of linkExternalModules, which check nothing, is out of bounds, and
\* no two slots are for the same definition or field.
THEOREM SlotsSuffice == LoaderSpec => []SlotsEnough
BY InitInvariant, PoolsSuffice, PTL

\* Whatever imports ask for and in whatever order they are bound, each is bound to what its
\* chain of imports leads to, from when it is bound; and init succeeds with all bound.
THEOREM BindsWhatIsDenoted == LoaderSpec => []BoundAsDenoted
BY InitInvariant, BindingsHold, PTL

\* What init has bound an import to was compared with what the import asks for, except
\* when the import takes its object from the recursive call for a later import.
THEOREM ImportsAreChecked == LoaderSpec => []ImportsChecked
BY InitInvariant, ChecksHold, PTL

\* Linking fails only for an import that leads nowhere, is refused or has another type.
THEOREM LinkFailsForCause == LoaderSpec => []FailsForCause
<1>1. LinkInv => FailsForCause
  BY DEF LinkInv
<1> QED
  BY <1>1, InitInvariant, PTL

\* The same of Linker on its own.
THEOREM LinksRight ==
  Spec => [](TypeOK /\ SlotsEnough /\ BoundAsDenoted /\ ImportsChecked /\ FailsForCause)
<1>1. LinkInv => TypeOK /\ SlotsEnough /\ BoundAsDenoted /\ ImportsChecked /\ FailsForCause
  <2>1. LinkInv => FailsForCause
    BY DEF LinkInv
  <2> QED
    BY <2>1, LinkedTypes, PoolsSuffice, BindingsHold, ChecksHold
<1> QED
  BY <1>1, LinkInvariant, PTL

-----------------------------------------------------------------------------
(***************************************************************************)
(* Proofs about loading: what loadRuntime leaves in the memories and       *)
(* tables is what all segments for them say, and nothing fails without a   *)
(* cause.  The properties are about the end; the invariant says at every   *)
(* turn of the loop what has been placed, of which the last segment, and   *)
(* before all of them the host or the provider, decides a byte.  What an   *)
(* object is, and that no two slots are the same object, is in the         *)
(* invariant of linking.                                                   *)
(***************************************************************************)

-----------------------------------------------------------------------------
(* What is loaded, and the invariant of loading *)

\* The fields for which the policy is asked to initialise an object.
Served == {f \in Fields : exports[Host][f] # Null /\ exports[Host][f].kind \in Limited}

\* All that the loop over _modules comes to.
AllData == UNION {{<<"data", m, n>> : n \in DOMAIN chosen.data[m]} : m \in Externals}
AllElements == UNION {{<<"elements", m, n>> : n \in DOMAIN chosen.elements[m]} : m \in Externals}
AllServed == {<<"host", Host, f>> : f \in Served}
ItemSet == AllData \cup AllElements \cup AllServed

\* The item y is not taken before x.
Follows(y, x) == \/ Place(x[2]) < Place(y[2])
                 \/ x[2] = y[2] /\ (x[1] = y[1] /\ x[1] # "host" => x[3] < y[3])

\* What the host exports is asked of the policy or defined by the host.
HostKinds ==
  phase # "prelink" =>
    \A f \in Fields : exports[Host][f] # Null =>
        exports[Host][f].kind \in UnknownAs(f) \cup DefinedAs(f)

StageInv ==
  /\ stage \in {"linking", "allocating", "loading", "loaded", "failed"}
  /\ stage # "linking" => phase = "linked" /\ chosen \in Contents(env) /\ Legal(chosen)
  /\ stage = "loaded" => work = <<>>

Placing == stage \in {"loading", "loaded"}

\* The items are left in their order, and those done were before them.
WorkInv ==
  Placing =>
    /\ work \in Seq(ItemSet)
    /\ IsInjective(work)
    /\ \A i, j \in DOMAIN work : i < j => Follows(work[j], work[i])
    /\ \A x \in ItemSet \ ToSet(work), i \in DOMAIN work : Follows(work[i], x)

\* Only the memory of a host that gives nothing has no data, and gets a page if any.
SizeOf(n) == Bytes(Initial("memory", n))
ShapeInv ==
  stage \in {"loading", "loaded", "failed"} =>
    /\ memories \in [DOMAIN slots["memory"] -> Seq(Cells) \cup {Null}]
    /\ tables \in [DOMAIN slots["table"] -> Seq(Nat)]
    /\ \A n \in DOMAIN memories :
          \/ memories[n] # Null /\ Len(memories[n]) = SizeOf(n)
          \/ /\ SizeOf(n) = 0 /\ chosen.provider = "strict"
             /\ memories[n] # Null => Len(memories[n]) = Page
    /\ \A n \in DOMAIN tables :
          Initial("table", n) > 0 => Len(tables[n]) = Initial("table", n)

\* The segments for the n-th memory that have been placed, those of them with a value
\* for its i-th byte, and what the byte holds: properties of the end, at every moment.
Room(n) == IF memories[n] = Null THEN 0 ELSE Len(memories[n])
DataPlaced(n) == {s \in For(slots["memory"][n].what, "memory", chosen.data) :
                      <<"data", s[2], s[3]>> \notin ToSet(work)}
DataAt(n, i) == {s \in DataPlaced(n) : LET t == chosen.data[s[2]][s[3]]
                                       IN i \in t.offset + 1 .. t.offset + t.size}
HostWrote(n) == LET d == slots["memory"][n].what
                IN /\ d[1] = "policy" /\ <<"host", Host, d[3]>> \notin ToSet(work)
                   /\ chosen.memoryInit = "writes"
CellAt(n, i) ==
  IF i = 1 /\ HostWrote(n) /\ \A s \in DataAt(n, i) : s[1] < Place(Host) THEN HostByte
  ELSE IF DataAt(n, i) # {}
       THEN LET last == LastOf(DataAt(n, i))
            IN <<last[2], last[3], i - chosen.data[last[2]][last[3]].offset>>
       ELSE Given(n, Len(memories[n]))[i]
DataInv ==
  Placing =>
    \A n \in 1 .. count["memory"] :
      /\ \A s \in DataPlaced(n) : LET t == chosen.data[s[2]][s[3]]
                                  IN t.offset + t.size <= Room(n)
      /\ memories[n] # Null => \A i \in DOMAIN memories[n] : memories[n][i] = CellAt(n, i)

\* The same of the n-th table and its entries.
ElementsPlaced(n) == {s \in For(slots["table"][n].what, "table", chosen.elements) :
                          <<"elements", s[2], s[3]>> \notin ToSet(work)}
ElementsAt(n, i) == {s \in ElementsPlaced(n) : LET t == chosen.elements[s[2]][s[3]]
                                               IN i - t.offset \in DOMAIN t.values}
EntryAt(n, i) ==
  IF ElementsAt(n, i) = {} THEN Invalid
  ELSE LET last == LastOf(ElementsAt(n, i))
           t == chosen.elements[last[2]][last[3]]
       IN t.values[i - t.offset]
EntriesInv ==
  Placing =>
    \A n \in 1 .. count["table"] :
      /\ \A s \in ElementsPlaced(n) : LET t == chosen.elements[s[2]][s[3]]
                                      IN t.offset + Len(t.values) <= Len(tables[n])
      /\ \A i \in DOMAIN tables[n] : tables[n][i] = EntryAt(n, i)

LoadInv == /\ LinkInv /\ HostKinds /\ StageInv /\ WorkInv /\ ShapeInv
           /\ DataInv /\ EntriesInv /\ InitFailsForCause

-----------------------------------------------------------------------------
(* The order of the modules, and what linking leaves to loading *)

\* LoadOrder puts every module in one place, and the host is a module beside the externals.
LEMMA PlaceIs ==
  /\ \A m \in Modules : /\ Place(m) \in 1 .. Len(LoadOrder) /\ Place(m) \in Nat
                        /\ LoadOrder[Place(m)] = m
  /\ \A p \in 1 .. Len(LoadOrder) : LoadOrder[p] \in Modules /\ Place(LoadOrder[p]) = p
  /\ \A m, l \in Modules : Place(m) = Place(l) => m = l
  /\ Len(LoadOrder) \in Nat
  /\ Externals \subseteq Modules /\ Host \in Modules /\ Host \notin Externals
<1>1. Len(LoadOrder) \in Nat /\ DOMAIN LoadOrder = 1 .. Len(LoadOrder)
  BY LoadOrderAssumption, LenProperties
<1>2. \A p \in 1 .. Len(LoadOrder) : LoadOrder[p] \in Modules
  BY LoadOrderAssumption, ElementOfSeq
<1>3. ASSUME NEW m \in Modules
      PROVE  Place(m) \in DOMAIN LoadOrder /\ LoadOrder[Place(m)] = m
  <2>1. \E p \in DOMAIN LoadOrder : LoadOrder[p] = m
    BY LoadOrderAssumption DEF ToSet
  <2> QED
    BY <2>1 DEF Place
<1>4. \A p \in 1 .. Len(LoadOrder) : Place(LoadOrder[p]) = p
  BY <1>1, <1>2, <1>3, LoadOrderAssumption DEF IsInjective
<1>5. Externals \subseteq Modules /\ Host \in Modules /\ Host \notin Externals
  BY OrderAssumption DEF Modules
<1> QED
  BY <1>1, <1>2, <1>3, <1>4, <1>5

\* Every step of linking that changes the exports of the host leaves their kinds.
LEMMA HostKindsKept ==
  ASSUME LinkInv, HostKinds, [Next]_vars
  PROVE  HostKinds'
<1>1. GoodEnvironment /\ LinkTypes /\ WellFormed(env)
  BY GoodIsWellFormed DEF LinkInv
<1>2. Host \in Modules
  BY DEF Modules
<1>3. ASSUME env' = env PROVE \A f : UnknownAs(f)' = UnknownAs(f) /\ DefinedAs(f)' = DefinedAs(f)
  <2>1. \A k : Unknown(k)' = Unknown(k)
    BY <1>3, SameEnvironment
  <2>2. \A o : Entry(o)' = Entry(o)
    BY <1>3, SameEnvironment
  <2> QED
    BY <1>3, <2>1, <2>2 DEF UnknownAs, DefinedAs
<1>4. CASE PreLink
  <2>1. exports' = [exports EXCEPT ![Host] = [f \in Fields |-> HostExport(f)]] /\ env' = env
    BY <1>4 DEF PreLink
  <2>2. \A f \in Fields : exports'[Host][f] = HostExport(f)
    BY <1>1, <1>2, <2>1 DEF LinkTypes
  <2>3. ASSUME NEW f \in Fields, HostExport(f) # Null
        PROVE  HostExport(f).kind \in UnknownAs(f) \cup DefinedAs(f)
    <3>1. CASE UnknownAs(f) # {}
      BY <3>1 DEF HostExport, UnknownExport
    <3>2. CASE UnknownAs(f) = {} /\ DefinedAs(f) # {}
      BY <3>2 DEF HostExport, DefinedExport
    <3> QED
      BY <2>3, <3>1, <3>2 DEF HostExport
  <2> QED
    BY <1>3, <2>1, <2>2, <2>3 DEF HostKinds
<1>5. CASE Provide
  <2> DEFINE g == Entry(Wanted).field
  <2>1. calls # <<>> /\ AsksPolicy /\ env' = env /\ phase' = phase
    BY <1>5 DEF Provide, AsksPolicy
  <2>2. phase # "prelink"
    BY <1>1, <2>1 DEF LinkTypes
  <2>3. \E x : exports' = [exports EXCEPT ![Host][g].index = x]
    BY <1>5 DEF Provide
  <2>4. g \in Fields /\ exports[Host][g] # Null
    BY <2>1, RoomForNext
  <2>5. exports[Host][g] \in [kind : Kinds, index : Nat]
    BY <1>1, <1>2, <2>4 DEF LinkTypes
  <2>6. exports'[Host][g].kind = exports[Host][g].kind
    BY <1>1, <1>2, <2>3, <2>4, <2>5 DEF LinkTypes
  <2>7. \A f \in Fields : f # g => exports'[Host][f] = exports[Host][f]
    BY <1>1, <1>2, <2>3 DEF LinkTypes
  <2> QED
    BY <1>3, <2>1, <2>2, <2>4, <2>6, <2>7 DEF HostKinds
<1>6. CASE Define
  <2>1. exports'[Host] = exports[Host] /\ env' = env /\ phase = "define"
    BY <1>2, <1>6 DEF Define
  <2> QED
    BY <1>3, <2>1 DEF HostKinds
<1>7. CASE NextImport \/ ImportFound \/ Recurse \/ Fail \/ Linked \/ UNCHANGED vars
  <2>1. exports' = exports /\ env' = env /\ (phase = "prelink" => phase' = phase)
    BY <1>1, <1>7 DEF NextImport, ImportFound, Recurse, Fail, Linked, vars, LinkTypes
  <2> QED
    BY <1>3, <2>1 DEF HostKinds
<1> QED
  BY <1>4, <1>5, <1>6, <1>7 DEF Next

\* Before linking nothing is said of the exports of the host.
LEMMA HostKindsFirst == Init => HostKinds
BY DEF Init, HostKinds

\* When all is linked an entry of an index space of memories or tables is a slot in use.
LEMMA SlotOf ==
  ASSUME LinkInv, phase = "linked", NEW k \in Limited, NEW m \in Externals,
         NEW i \in DOMAIN env.index[m][k]
  PROVE  LET n == space[m][k][i][3]
         IN /\ space[m][k][i] = <<"slot", k, n>>
            /\ n \in 1 .. count[k] /\ n \in DOMAIN slots[k] /\ n \in Nat
            /\ slots[k][n].what = Denotes(<<"own", m, k, i>>)
<1> DEFINE o == <<"own", m, k, i>>
<1>1. k \in Kinds
  BY KindsAre DEF Limited
<1>2. o \in Declared
  BY <1>1, InDeclared
<1>3. /\ GoodEnvironment /\ LinkTypes /\ PoolsInv /\ SpacesInv /\ Binding /\ BoundAsDenoted
  BY BindingsHold DEF LinkInv, Binding
<1>4. ObjectAt(o) # Null
  BY <1>2, <1>3 DEF ObjectAt, SpacesInv, BoundAsDenoted
<1>5. Stands(ObjectAt(o), k, Denotes(o))
  BY <1>2, <1>3, <1>4 DEF SpacesInv
<1>6. ObjectAt(o) = space[m][k][i]
  BY DEF ObjectAt
<1> DEFINE x == space[m][k][i]
<1>7. /\ x \in Objects /\ x[1] = "slot" /\ x[2] = k /\ x[3] \in 1 .. count[k]
      /\ slots[k][x[3]].what = Denotes(o)
  BY <1>5, <1>6 DEF Stands
<1>8. x = <<"slot", k, x[3]>>
  <2>1. \/ \E a, b, c, d : x = <<"own", a, b, d>>
        \/ \E a, b : x = <<"slot", a, b>>
        \/ \E a, b, c : x = <<c, a, b>> /\ c \in {"host", "policy", "copy"}
    BY <1>7 DEF Objects
  <2> QED
    BY <1>7, <2>1
<1>9. x[3] \in DOMAIN slots[k] /\ x[3] \in Nat
  <2>1. /\ count[k] \in Nat /\ count[k] <= PoolSize(k) /\ Len(slots[k]) = PoolSize(k)
        /\ \A S : slots[k] \in Seq(S) => DOMAIN slots[k] = 1 .. Len(slots[k])
    BY <1>1, <1>3, LenProperties DEF PoolsInv, LinkTypes, Binding
  <2>2. DOMAIN slots[k] = 1 .. Len(slots[k]) /\ Len(slots[k]) \in Nat
    BY <1>1, <1>3, LenProperties DEF LinkTypes
  <2> QED
    BY <1>7, <2>1, <2>2
<1> QED
  BY <1>7, <1>8, <1>9

\* The memories and tables of the policy are slots, and those that the host exports.
LEMMA HostSlots ==
  ASSUME LinkInv, HostKinds, phase = "linked", NEW k \in Limited
  PROVE  /\ \A n \in 1 .. count[k] : slots[k][n].what[1] = "policy" =>
              LET f == slots[k][n].what[3]
              IN /\ slots[k][n].what = <<"policy", k, f>>
                 /\ f \in Served /\ exports[Host][f].kind = k
                 /\ space[Host][k][exports[Host][f].index] = <<"slot", k, n>>
         /\ \A f \in Served : exports[Host][f].kind = k =>
              LET n == space[Host][k][exports[Host][f].index][3]
              IN n \in 1 .. count[k] /\ slots[k][n].what = <<"policy", k, f>>
<1>1. /\ GoodEnvironment /\ WellFormed(env) /\ LinkTypes /\ PoolsInv /\ Binding /\ Host \in Modules
      /\ OneKindPerField /\ Acyclic
  BY GoodIsWellFormed DEF LinkInv, Binding, Modules
<1>2. k \in Kinds
  BY KindsAre DEF Limited
<1>3. /\ Len(Copied(k)) \in Nat /\ count[k] \in Nat
      /\ \A n \in 1 .. Len(Copied(k)) : slots[k][n].what \in Declared
      /\ \A n \in 1 .. count[k] : n \notin 1 .. Len(Copied(k)) => \E g \in Fields : Granted(k, n, g)
  <2>1. Len(Copied(k)) \in Nat /\ count[k] \in Nat
    BY <1>1, <1>2, CopiedAre DEF LinkTypes
  <2>2. \A n \in 1 .. Len(Copied(k)) : slots[k][n].what \in Declared
    BY <1>1, <1>2, CopiedAre DEF PoolsInv
  <2>3. \A n \in 1 .. count[k] : n \notin 1 .. Len(Copied(k)) => n \in Len(Copied(k)) + 1 .. count[k]
    BY <2>1
  <2>4. \A n \in Len(Copied(k)) + 1 .. count[k] : \E g \in Fields : Granted(k, n, g)
    BY <1>1, <1>2 DEF PoolsInv
  <2> QED
    BY <2>1, <2>2, <2>3, <2>4
<1>4. \A x \in Declared : x[1] = "own" /\ x # Null
  BY <1>1, EntriesAre, NullAssumption
<1>5. ASSUME NEW f \in Fields, exports[Host][f] # Null
      PROVE  /\ exports[Host][f].kind \in Kinds
             /\ exports[Host][f].kind \in UnknownAs(f) \cup DefinedAs(f)
             /\ UnknownAs(f) \cup DefinedAs(f) \subseteq Kinds
             /\ Cardinality(UnknownAs(f) \cup DefinedAs(f)) <= 1
  BY <1>1, <1>5 DEF LinkTypes, HostKinds, OneKindPerField, UnknownAs, DefinedAs
<1>6. ASSUME NEW n \in 1 .. count[k], slots[k][n].what[1] = "policy"
      PROVE  LET f == slots[k][n].what[3]
             IN /\ slots[k][n].what = <<"policy", k, f>>
                /\ f \in Served /\ exports[Host][f].kind = k
                /\ space[Host][k][exports[Host][f].index] = <<"slot", k, n>>
  <2>1. PICK g \in Fields : Granted(k, n, g)
    BY <1>3, <1>4, <1>6
  <2>2. /\ slots[k][n].what = <<"policy", k, g>> /\ slots[k][n].what[3] = g
        /\ exports[Host][g] # Null /\ g \in Asked(k)
        /\ space[Host][k][exports[Host][g].index] = <<"slot", k, n>>
    BY <2>1 DEF Granted
  <2>3. k \in UnknownAs(g)
    BY <1>2, <2>2 DEF Asked, UnknownAs
  <2>4. exports[Host][g].kind = k
    <3> DEFINE S == UnknownAs(g) \cup DefinedAs(g)
    <3>1. exports[Host][g].kind \in S /\ k \in S /\ S \subseteq Kinds /\ Cardinality(S) <= 1
      BY <1>5, <2>2, <2>3
    <3> HIDE DEF S
    <3> QED BY <3>1, OfOneKind
  <2> QED
    BY <2>2, <2>4 DEF Served
<1>7. ASSUME NEW f \in Served, exports[Host][f].kind = k
      PROVE  LET n == space[Host][k][exports[Host][f].index][3]
             IN n \in 1 .. count[k] /\ slots[k][n].what = <<"policy", k, f>>
  <2>1. f \in Fields /\ exports[Host][f] # Null
    BY DEF Served
  <2>2. k \notin DefinedAs(f)
    BY <1>1, <1>2, <2>1, HostsAre DEF DefinedAs
  <2>3. k \in UnknownAs(f)
    BY <1>5, <1>7, <2>1, <2>2
  <2>4. PICK o \in Unknown(k) : Entry(o).field = f
    BY <2>3 DEF UnknownAs
  <2>5. o \in ImportSet /\ o[3] = k /\ Entry(o).from = Host /\ ~HostProvides(k, f)
    BY <2>4 DEF Unknown
  <2>6. Denotes(o) = <<"policy", k, f>> \/ Denotes(o) = Null
    BY <1>1, <2>4, <2>5, HostDenotes, TargetsAre
  <2>7. o \in Declared
    BY <2>5 DEF ImportSet
  <2>8. o = <<"own", o[2], k, o[4]>> /\ o[2] \in Externals /\ o[4] \in DOMAIN env.index[o[2]][k]
    BY <1>1, <2>5, <2>7, EntriesAre
  <2> DEFINE n == space[o[2]][k][o[4]][3]
  <2>9. n \in 1 .. count[k] /\ slots[k][n].what = Denotes(o)
    BY <2>8, SlotOf
  <2>10. n \notin 1 .. Len(Copied(k))
    BY <1>3, <1>4, <2>6, <2>9
  <2>11. PICK g \in Fields : Granted(k, n, g)
    BY <1>3, <2>9, <2>10
  <2>12. <<"policy", k, g>> # Null
    BY <1>2, NullAssumption DEF Objects
  <2> HIDE DEF n
  <2>13. g = f
    BY <2>6, <2>9, <2>11, <2>12 DEF Granted
  <2>14. space[Host][k][exports[Host][f].index] = <<"slot", k, n>>
    BY <2>11, <2>13 DEF Granted
  <2> QED
    BY <2>9, <2>11, <2>13, <2>14 DEF Granted
<1> QED
  BY <1>6, <1>7

-----------------------------------------------------------------------------
(* The items of the loop *)

\* Flattening joins one sequence after another.
LEMMA FlattenParts ==
  ASSUME NEW S, NEW parts \in Seq(Seq(S))
  PROVE  \E flat \in [0 .. Len(parts) -> Seq(S)] :
            /\ flat[0] = <<>>
            /\ \A p \in 1 .. Len(parts) : flat[p] = flat[p - 1] \o parts[p]
            /\ FlattenSeq(parts) = flat[Len(parts)]
<1> DEFINE L == Len(parts)
           Good(g, n) == /\ g \in [0 .. n -> Seq(S)] /\ g[0] = <<>>
                         /\ \A p \in 1 .. n : g[p] = g[p - 1] \o parts[p]
<1>1. L \in Nat /\ \A p \in 1 .. L : parts[p] \in Seq(S)
  BY LenProperties, ElementOfSeq
<1>2. \A n \in 0 .. L : \E g : Good(g, n)
  <2> DEFINE Bad == {n \in 0 .. L : ~ \E g : Good(g, n)}
  <2> SUFFICES ASSUME Bad # {} PROVE FALSE
    OBVIOUS
  <2>1. PICK n \in Bad : \A l \in Bad : n <= l
    <3> HIDE DEF Good
    <3>1. Bad \subseteq Nat
      BY <1>1
    <3> HIDE DEF Bad
    <3> QED BY <3>1, LeastNatural
  <2>2. n \in 0 .. L /\ ~ \E g : Good(g, n)
    BY <2>1
  <2>3. CASE n = 0
    <3> DEFINE g == [p \in 0 .. 0 |-> <<>>]
    <3>1. Good(g, 0)
      OBVIOUS
    <3> QED BY <2>2, <2>3, <3>1
  <2>4. CASE n # 0
    <3>1. n \in Nat /\ n - 1 \in 0 .. L /\ ~(n <= n - 1) /\ n \in 1 .. L
      BY <1>1, <2>2, <2>4
    <3>2. n - 1 \notin Bad
      BY <2>1, <3>1
    <3>3. PICK g : Good(g, n - 1)
      BY <3>1, <3>2
    <3> DEFINE h == [p \in 0 .. n |-> IF p = n THEN g[n - 1] \o parts[n] ELSE g[p]]
    <3>4. g[n - 1] \in Seq(S) /\ parts[n] \in Seq(S)
      BY <1>1, <3>1, <3>3
    <3>5. g[n - 1] \o parts[n] \in Seq(S)
      BY <3>4, ConcatProperties
    <3>6. \A p \in 0 .. n : p # n => p \in 0 .. n - 1
      BY <3>1
    <3>7. h \in [0 .. n -> Seq(S)]
      BY <3>3, <3>5, <3>6
    <3>8. h[0] = <<>>
      BY <3>1, <3>3
    <3>9. ASSUME NEW p \in 1 .. n PROVE h[p] = h[p - 1] \o parts[p]
      <4>1. p \in 0 .. n /\ p - 1 \in 0 .. n /\ p - 1 # n /\ p \in Nat
        BY <3>1
      <4>2. h[p - 1] = g[p - 1]
        BY <4>1
      <4>3. CASE p = n
        BY <4>1, <4>2, <4>3
      <4>4. CASE p # n
        <5>1. p \in 1 .. n - 1
          BY <3>1, <4>1, <4>4
        <5> QED
          BY <3>3, <4>1, <4>2, <4>4, <5>1
      <4> QED
        BY <4>3, <4>4
    <3>10. Good(h, n)
      <4> HIDE DEF h
      <4> QED BY <3>7, <3>8, <3>9
    <3> QED
      BY <2>2, <3>10
  <2> QED
    BY <2>3, <2>4
<1>3. L \in 0 .. L
  BY <1>1
<1>4. PICK flat : Good(flat, L)
  BY <1>2, <1>3
<1>5. FlattenSeq(parts) = flat[L]
  <2>1. CASE L = 0
    <3>1. parts = <<>>
      BY <2>1, EmptySeq
    <3> QED
      BY <1>4, <2>1, <3>1 DEF FlattenSeq
  <2>2. CASE L # 0
    <3> DEFINE Rec(f) == f = [i \in 1 .. L |-> IF i = 1 THEN parts[i] ELSE f[i - 1] \o parts[i]]
               whole == [i \in 1 .. L |-> flat[i]]
               flatten == CHOOSE f : Rec(f)
    <3>1. FlattenSeq(parts) = flatten[L]
      BY <2>2 DEF FlattenSeq
    <3>2. \A i \in 1 .. L : whole[i] = IF i = 1 THEN parts[i] ELSE whole[i - 1] \o parts[i]
      <4> TAKE i \in 1 .. L
      <4>1. i \in Nat /\ whole[i] = flat[i - 1] \o parts[i]
        BY <1>1, <1>4
      <4>2. CASE i = 1
        <5>1. flat[0] \o parts[1] = parts[1]
          <6>1. parts[1] \in Seq(S)
            BY <1>1, <4>2
          <6> QED
            BY <1>4, <6>1, ConcatEmptySeq
        <5>2. i - 1 = 0 /\ parts[i] = parts[1]
          BY <4>2
        <5> QED
          BY <4>1, <4>2, <5>1, <5>2
      <4>3. CASE i # 1
        <5>1. i - 1 \in 1 .. L
          BY <1>1, <4>1, <4>3
        <5> QED
          BY <4>1, <4>3, <5>1
      <4> QED
        BY <4>2, <4>3
    <3>3. Rec(whole)
      BY <3>2
    <3>4. Rec(flatten)
      <4> HIDE DEF Rec, whole
      <4> QED BY <3>3
    <3> HIDE DEF flatten
    <3>5. \A i \in 1 .. L : flatten[i] = IF i = 1 THEN parts[i] ELSE flatten[i - 1] \o parts[i]
      BY <3>4, Zenon
    <3>6. \A i \in 1 .. L : flatten[i] = whole[i]
      <4> DEFINE Bad == {i \in 1 .. L : flatten[i] # whole[i]}
      <4> SUFFICES ASSUME Bad # {} PROVE FALSE
        OBVIOUS
      <4>1. PICK i \in Bad : \A l \in Bad : i <= l
        <5>1. Bad \subseteq Nat
          BY <1>1
        <5> HIDE DEF Bad
        <5> QED BY <5>1, LeastNatural
      <4>2. i \in 1 .. L /\ i \in Nat
        BY <1>1
      <4>3. flatten[i] # whole[i]
        BY <4>1
      <4> HIDE DEF whole
      <4>4. i # 1
        BY <3>2, <3>5, <4>2, <4>3
      <4>5. i - 1 \in 1 .. L /\ ~(i <= i - 1)
        BY <1>1, <4>2, <4>4
      <4>6. flatten[i - 1] = whole[i - 1]
        BY <4>1, <4>5
      <4> QED
        BY <3>2, <3>5, <4>2, <4>3, <4>4, <4>6
    <3>7. L \in 1 .. L
      BY <1>1, <2>2
    <3> QED
      BY <3>1, <3>6, <3>7
  <2> QED
    BY <2>1, <2>2
<1> QED
  BY <1>4, <1>5

\* An item names a module and an element of what it has to load, or a field of the host.
LEMMA ItemIs ==
  ASSUME HasForm(chosen, env), NEW x \in ItemSet
  PROVE  /\ x = <<x[1], x[2], x[3]>> /\ x[2] \in Modules
         /\ \/ x[1] = "data" /\ x[2] \in Externals /\ x[3] \in DOMAIN chosen.data[x[2]]
            \/ x[1] = "elements" /\ x[2] \in Externals /\ x[3] \in DOMAIN chosen.elements[x[2]]
            \/ x[1] = "host" /\ x[2] = Host /\ x[3] \in Served
<1>1. CASE x \in AllData
  BY <1>1, PlaceIs DEF AllData
<1>2. CASE x \in AllElements
  BY <1>2, PlaceIs DEF AllElements
<1>3. CASE x \in AllServed
  BY <1>3, PlaceIs DEF AllServed
<1> QED
  BY <1>1, <1>2, <1>3 DEF ItemSet

\* Everything that is to be loaded is an item.
LEMMA InItems ==
  /\ \A m \in Externals : \A n \in DOMAIN chosen.data[m] : <<"data", m, n>> \in ItemSet
  /\ \A m \in Externals : \A n \in DOMAIN chosen.elements[m] : <<"elements", m, n>> \in ItemSet
  /\ \A f \in Served : <<"host", Host, f>> \in ItemSet
<1>1. \A m \in Externals : \A n \in DOMAIN chosen.data[m] : <<"data", m, n>> \in AllData
  BY DEF AllData
<1>2. \A m \in Externals : \A n \in DOMAIN chosen.elements[m] : <<"elements", m, n>> \in AllElements
  BY DEF AllElements
<1>3. \A f \in Served : <<"host", Host, f>> \in AllServed
  BY DEF AllServed
<1> QED
  BY <1>1, <1>2, <1>3 DEF ItemSet

\* Items in which none is before one that it follows.
Sorted(s) == \A i, j \in DOMAIN s : i < j => Follows(s[j], s[i])

\* Two sorted parts are sorted together when the second follows the first.
LEMMA JoinedSorted ==
  ASSUME NEW A, NEW s \in Seq(A), NEW t \in Seq(A), Sorted(s), Sorted(t),
         \A x \in ToSet(s), y \in ToSet(t) : Follows(y, x)
  PROVE  Sorted(s \o t)
<1> DEFINE m == Len(s)
           n == Len(t)
           w == s \o t
<1>1. /\ m \in Nat /\ n \in Nat /\ DOMAIN s = 1 .. m /\ DOMAIN t = 1 .. n
      /\ DOMAIN w = 1 .. m + n
      /\ \A i \in 1 .. m + n : w[i] = IF i <= m THEN s[i] ELSE t[i - m]
  BY LenProperties, ConcatProperties
<1> HIDE DEF m, n, w
<1>2. ASSUME NEW i \in DOMAIN w, NEW j \in DOMAIN w, i < j PROVE Follows(w[j], w[i])
  <2>0. i \in Nat /\ j \in Nat /\ i \in 1 .. m + n /\ j \in 1 .. m + n
    BY <1>1
  <2>1. CASE j <= m
    <3>1. i \in DOMAIN s /\ j \in DOMAIN s /\ w[i] = s[i] /\ w[j] = s[j]
      BY <1>1, <1>2, <2>0, <2>1
    <3> QED
      BY <1>2, <3>1 DEF Sorted
  <2>2. CASE ~(j <= m) /\ i <= m
    <3>1. i \in DOMAIN s /\ j - m \in DOMAIN t /\ w[i] = s[i] /\ w[j] = t[j - m]
      BY <1>1, <1>2, <2>0, <2>2
    <3> QED
      BY <3>1 DEF ToSet
  <2>3. CASE ~(i <= m)
    <3>1. /\ i - m \in DOMAIN t /\ j - m \in DOMAIN t /\ i - m < j - m
          /\ w[i] = t[i - m] /\ w[j] = t[j - m]
      BY <1>1, <1>2, <2>0, <2>3
    <3> QED
      BY <3>1 DEF Sorted
  <2> QED
    BY <2>1, <2>2, <2>3
<1> QED
  BY <1>2 DEF Sorted, w

\* What the loop does for the p-th module.
Part(p) == IF LoadOrder[p] = Host THEN HostItems
           ELSE DataItems(LoadOrder[p]) \o ElementItems(LoadOrder[p])

\* A part has the items of its module, each once, sorted.
LEMMA PartIs ==
  ASSUME HasForm(chosen, env), NEW p \in 1 .. Len(LoadOrder)
  PROVE  /\ Part(p) \in Seq(ItemSet) /\ IsInjective(Part(p)) /\ Sorted(Part(p))
         /\ ToSet(Part(p)) = {x \in ItemSet : Place(x[2]) = p}
<1> DEFINE m == LoadOrder[p]
<1>1. m \in Modules /\ Place(m) = p /\ \A l \in Modules : Place(l) = p => l = m
  BY PlaceIs
<1>2. CASE m = Host
  <2> DEFINE asked == SetToSeq(Served)
             L == Len(asked)
  <2>1. IsFiniteSet(Served)
    BY FieldsAssumption, FS_Subset DEF Served
  <2>2. asked \in Seq(Served) /\ ToSet(asked) = Served /\ IsInjective(asked)
    BY <2>1, SequenceOfSet
  <2>3. L \in Nat /\ DOMAIN asked = 1 .. L /\ \A n \in 1 .. L : asked[n] \in Served
    <3> HIDE DEF asked
    <3> QED BY <2>2, LenProperties, ElementOfSeq DEF L
  <2>4. Part(p) = [n \in 1 .. L |-> <<"host", Host, asked[n]>>]
    <3>1. HostItems = [n \in DOMAIN asked |-> <<"host", Host, asked[n]>>]
      BY DEF HostItems, Served
    <3> QED
      BY <1>2, <2>3, <3>1 DEF Part
  <2> HIDE DEF asked, L
  <2>5. \A n \in 1 .. L : <<"host", Host, asked[n]>> \in ItemSet
    BY <2>3, InItems
  <2>6. Part(p) \in Seq(ItemSet)
    BY <2>3, <2>4, <2>5
  <2>7. IsInjective(Part(p))
    BY <2>2, <2>3, <2>4 DEF IsInjective
  <2>8. Sorted(Part(p))
    BY <2>4 DEF Sorted, Follows
  <2>9. ASSUME NEW x \in ItemSet, Place(x[2]) = p PROVE x \in ToSet(Part(p))
    <3>1. x[2] = Host /\ Host \notin Externals
      BY <1>1, <1>2, <2>9, ItemIs, OrderAssumption
    <3>2. x = <<"host", Host, x[3]>> /\ x[3] \in Served
      BY <3>1, ItemIs
    <3>3. PICK n \in 1 .. L : asked[n] = x[3]
      BY <2>2, <2>3, <3>2 DEF ToSet
    <3> QED
      BY <2>4, <3>2, <3>3 DEF ToSet
  <2>10. ASSUME NEW x \in ToSet(Part(p)) PROVE x \in ItemSet /\ Place(x[2]) = p
    BY <1>1, <1>2, <2>4, <2>5 DEF ToSet
  <2> QED
    BY <2>6, <2>7, <2>8, <2>9, <2>10
<1>3. CASE m # Host
  <2>1. m \in Externals
    BY <1>1, <1>3 DEF Modules
  <2> DEFINE D == DataItems(m)
             E == ElementItems(m)
             a == Len(chosen.data[m])
             b == Len(chosen.elements[m])
  <2>2. /\ a \in Nat /\ DOMAIN chosen.data[m] = 1 .. a
        /\ b \in Nat /\ DOMAIN chosen.elements[m] = 1 .. b
    BY <2>1, LenProperties DEF HasForm
  <2>3. D = [n \in 1 .. a |-> <<"data", m, n>>] /\ E = [n \in 1 .. b |-> <<"elements", m, n>>]
    BY <2>2 DEF DataItems, ElementItems
  <2>4. Part(p) = D \o E
    BY <1>3 DEF Part
  <2> HIDE DEF a, b
  <2>5. /\ \A n \in 1 .. a : <<"data", m, n>> \in ItemSet
        /\ \A n \in 1 .. b : <<"elements", m, n>> \in ItemSet
    BY <2>1, <2>2, InItems
  <2>6. D \in Seq(ItemSet) /\ E \in Seq(ItemSet)
    <3> HIDE DEF D, E
    <3>1. D \in [1 .. a -> ItemSet]
      BY <2>3, <2>5
    <3>2. E \in [1 .. b -> ItemSet]
      BY <2>3, <2>5
    <3> QED
      BY <2>2, <3>1, <3>2, FunctionIsSeq
  <2>7. ToSet(D) = {<<"data", m, n>> : n \in 1 .. a} /\ ToSet(E) = {<<"elements", m, n>> : n \in 1 .. b}
    BY <2>3 DEF ToSet
  <2>8. IsInjective(D) /\ IsInjective(E)
    BY <2>3 DEF IsInjective
  <2>9. Sorted(D) /\ Sorted(E)
    BY <2>3 DEF Sorted, Follows
  <2> HIDE DEF D, E
  <2>10. ToSet(D) \cap ToSet(E) = {}
    BY <2>7
  <2>11. \A x \in ToSet(D), y \in ToSet(E) : Follows(y, x)
    BY <2>7 DEF Follows
  <2>12. ToSet(D \o E) = {x \in ItemSet : Place(x[2]) = p}
    <3>1. ToSet(D \o E) = ToSet(D) \cup ToSet(E)
      BY <2>6, <2>8, <2>10, JoinedInjective
    <3>2. ASSUME NEW x \in ItemSet, Place(x[2]) = p PROVE x \in ToSet(D) \cup ToSet(E)
      <4>1. x[2] = m /\ m # Host
        BY <1>1, <1>3, <3>2, ItemIs
      <4>2. \/ x = <<"data", m, x[3]>> /\ x[3] \in 1 .. a
            \/ x = <<"elements", m, x[3]>> /\ x[3] \in 1 .. b
        BY <2>2, <4>1, ItemIs
      <4> QED
        BY <2>7, <4>2
    <3>3. ASSUME NEW x \in ToSet(D) \cup ToSet(E) PROVE x \in ItemSet /\ Place(x[2]) = p
      BY <1>1, <2>5, <2>7, <3>3
    <3> QED
      BY <3>1, <3>2, <3>3
  <2> QED
    BY <2>4, <2>6, <2>8, <2>9, <2>10, <2>11, <2>12, JoinedInjective, JoinedSorted, ConcatProperties
<1> QED
  BY <1>2, <1>3

\* The loop takes every item once, and in the order of the modules' names.
LEMMA ItemsAre ==
  ASSUME HasForm(chosen, env)
  PROVE  Items \in Seq(ItemSet) /\ IsInjective(Items) /\ Sorted(Items) /\ ToSet(Items) = ItemSet
<1> DEFINE L == Len(LoadOrder)
           parts == [p \in 1 .. L |-> Part(p)]
           UpTo(p) == {x \in ItemSet : Place(x[2]) <= p}
<1>1. L \in Nat /\ DOMAIN LoadOrder = 1 .. L
  BY LoadOrderAssumption, LenProperties
<1>2. parts \in Seq(Seq(ItemSet)) /\ Len(parts) = L /\ \A p \in 1 .. L : parts[p] = Part(p)
  <2>1. \A p \in 1 .. L : Part(p) \in Seq(ItemSet)
    BY PartIs
  <2> HIDE DEF L
  <2> QED
    BY <1>1, <2>1
<1>3. Items = FlattenSeq(parts)
  BY <1>1 DEF Items, Part
<1> HIDE DEF parts
<1>4. PICK flat \in [0 .. L -> Seq(ItemSet)] :
         /\ flat[0] = <<>>
         /\ \A p \in 1 .. L : flat[p] = flat[p - 1] \o parts[p]
         /\ FlattenSeq(parts) = flat[L]
  <2>1. \E flat \in [0 .. Len(parts) -> Seq(ItemSet)] :
           /\ flat[0] = <<>>
           /\ \A p \in 1 .. Len(parts) : flat[p] = flat[p - 1] \o parts[p]
           /\ FlattenSeq(parts) = flat[Len(parts)]
    BY <1>2, FlattenParts
  <2> HIDE DEF L
  <2> QED
    BY <1>2, <2>1
<1> HIDE DEF L
<1>5. \A x \in ItemSet : Place(x[2]) \in 1 .. L /\ Place(x[2]) \in Nat
  BY ItemIs, PlaceIs DEF L
<1> DEFINE Good(p) == IsInjective(flat[p]) /\ Sorted(flat[p]) /\ ToSet(flat[p]) = UpTo(p)
<1>6. \A p \in 0 .. L : Good(p)
  <2> DEFINE Bad == {p \in 0 .. L : ~Good(p)}
  <2> SUFFICES ASSUME Bad # {} PROVE FALSE
    OBVIOUS
  <2>1. PICK p \in Bad : \A q \in Bad : p <= q
    <3> HIDE DEF Good
    <3>1. Bad \subseteq Nat
      BY <1>1
    <3> HIDE DEF Bad
    <3> QED BY <3>1, LeastNatural
  <2>2. p \in 0 .. L /\ ~Good(p) /\ p \in Nat
    BY <1>1, <2>1
  <2>3. p # 0
    <3> SUFFICES ASSUME p = 0 PROVE FALSE
      OBVIOUS
    <3>1. ToSet(flat[0]) = {} /\ IsInjective(flat[0]) /\ Sorted(flat[0])
      BY <1>4 DEF ToSet, IsInjective, Sorted
    <3>2. UpTo(0) = {}
      BY <1>5
    <3> QED
      BY <2>2, <3>1, <3>2
  <2>4. p - 1 \in 0 .. L /\ ~(p <= p - 1) /\ p \in 1 .. L
    BY <1>1, <2>2, <2>3
  <2>5. Good(p - 1)
    BY <2>1, <2>4
  <2> DEFINE s == flat[p - 1]
             t == Part(p)
  <2>6. s \in Seq(ItemSet) /\ IsInjective(s) /\ Sorted(s) /\ ToSet(s) = UpTo(p - 1)
    BY <1>4, <2>4, <2>5
  <2>7. /\ t \in Seq(ItemSet) /\ IsInjective(t) /\ Sorted(t)
        /\ ToSet(t) = {x \in ItemSet : Place(x[2]) = p}
    BY <2>4, PartIs DEF L
  <2>8. flat[p] = s \o t
    BY <1>2, <1>4, <2>4
  <2> HIDE DEF s, t
  <2>9. ToSet(s) \cap ToSet(t) = {} /\ ToSet(s) \cup ToSet(t) = UpTo(p)
    <3>1. \A q \in Nat : /\ q <= p <=> (q <= p - 1 \/ q = p)
                         /\ ~(q <= p - 1 /\ q = p)
      BY <2>2
    <3> QED
      BY <1>5, <2>6, <2>7, <3>1
  <2>10. \A x \in ToSet(s), y \in ToSet(t) : Follows(y, x)
    <3> SUFFICES ASSUME NEW x \in ToSet(s), NEW y \in ToSet(t) PROVE Place(x[2]) < Place(y[2])
      BY DEF Follows
    <3>1. x \in ItemSet /\ y \in ItemSet /\ Place(x[2]) <= p - 1 /\ Place(y[2]) = p
      BY <2>6, <2>7
    <3> QED
      BY <1>5, <2>2, <3>1
  <2>11. Good(p)
    BY <2>6, <2>7, <2>8, <2>9, <2>10, JoinedInjective, JoinedSorted
  <2> QED
    BY <2>2, <2>11
<1>7. L \in 0 .. L /\ UpTo(L) = ItemSet
  BY <1>1, <1>5
<1>8. Items = flat[L] /\ flat[L] \in Seq(ItemSet)
  BY <1>3, <1>4, <1>7
<1> QED
  BY <1>6, <1>7, <1>8

-----------------------------------------------------------------------------
(* Bytes and cells *)

\* The byte count of a memory is exact below the limit of pages, and zero only where
\* there are no pages or line 876 has wrapped.
LEMMA BytesAre ==
  ASSUME NEW pages \in Nat
  PROVE  /\ Bytes(pages) \in Nat
         /\ pages < MaxPages => Bytes(pages) = pages * Page
         /\ Bytes(pages) = 0 => pages = 0 \/ pages >= MaxPages
<1>1. Page \in Nat /\ Page > 0 /\ MaxPages \in Nat /\ MaxPages > 0
  BY SizesAssumption
<1> DEFINE x == pages * Page
           y == MaxPages * Page
<1>2. \A a, b \in Nat : a * b \in Nat /\ (a > 0 /\ b > 0 => a * b > 0)
  OBVIOUS
<1>3. x \in Nat /\ y \in Nat /\ y > 0 /\ (pages > 0 => x > 0)
  BY <1>1, <1>2
<1>4. pages < MaxPages => x < y
  <2>1. \A a, b, c \in Nat : a < b /\ c > 0 => a * c < b * c
    OBVIOUS
  <2> QED
    BY <1>1, <2>1
<1> HIDE DEF x, y
<1>5. x % y \in Nat /\ (x < y => x % y = x)
  BY <1>3
<1>6. Bytes(pages) = x % y
  BY DEF Bytes, x, y
<1> QED
  BY <1>1, <1>3, <1>4, <1>5, <1>6 DEF x

\* The size a slot asks for is a number.
LEMMA InitialIs ==
  ASSUME LinkInv, NEW k \in Limited, NEW n \in DOMAIN slots[k]
  PROVE  Initial(k, n) \in Nat
<1> DEFINE Slot2 == [what : Objects \cup {Null}, type : Types \cup {Null}]
<1>1. k \in Kinds
  BY KindsAre DEF Limited
<1>2. slots[k] \in Seq(Slot2)
  BY <1>1 DEF LinkInv, LinkTypes
<1>3. slots[k][n] \in Slot2
  <2> HIDE DEF Slot2
  <2> QED BY <1>2, ElementOfSeq, LenProperties
<1> QED
  BY <1>3, TypesAssumption DEF Initial

\* Memory that is asked for has the size that is asked for, or there is none.
LEMMA GivenIs ==
  ASSUME LinkInv, HasForm(chosen, env), NEW n \in DOMAIN slots["memory"], NEW size \in Nat,
         size = SizeOf(n) \/ chosen.provider = "strict"
  PROVE  IF chosen.provider = "strict" /\ size = 0 THEN Given(n, size) = Null
         ELSE Given(n, size) \in Seq(Cells) /\ Len(Given(n, size)) = size /\ Given(n, size) # Null
<1>1. Unset \in Cells /\ Zero \in Cells /\ Alloc \in Cells
  BY DEF Cells
<1>2. CASE chosen.provider = "strict" /\ size = 0
  BY <1>2 DEF Given
<1>3. CASE ~(chosen.provider = "strict" /\ size = 0)
  <2>1. Given(n, size) \in [1 .. size -> Cells]
    <3>1. CASE chosen.provider = "new"
      <4>1. Given(n, size) = [i \in 1 .. size |-> IF i <= Initial("memory", n) THEN Zero ELSE Unset]
        BY <3>1 DEF Given, SizeOf
      <4> QED
        BY <1>1, <4>1
    <3>2. CASE chosen.provider = "pool" \/ (chosen.provider = "strict" /\ size # 0)
      <4>1. Given(n, size) = [i \in 1 .. size |-> Zero]
        BY <3>2 DEF Given
      <4> QED
        BY <1>1, <4>1
    <3>3. CASE chosen.provider = "script"
      <4> DEFINE first == StackOffset(n) + 1
      <4>1. Given(n, size) = [i \in 1 .. size |-> IF i \in first .. first + AllocatorSize - 1
                                                   THEN Alloc ELSE Zero]
        BY <3>3 DEF Given
      <4> HIDE DEF first
      <4> QED
        BY <1>1, <4>1
    <3> QED
      BY <1>3, <3>1, <3>2, <3>3 DEF HasForm
  <2>2. Given(n, size) \in Seq(Cells) /\ Len(Given(n, size)) = size
    BY <2>1, FunctionIsSeq
  <2> QED
    BY <1>3, <2>2, NoDataAssumption
<1> QED
  BY <1>2, <1>3

\* What copying values into cells leaves: the values where they go, the rest as it was.
LEMMA OverwrittenIs ==
  ASSUME NEW S, NEW cells \in Seq(S), NEW offset \in Nat, NEW values \in Seq(S),
         offset + Len(values) <= Len(cells)
  PROVE  /\ Overwritten(cells, offset, values) \in Seq(S)
         /\ Len(Overwritten(cells, offset, values)) = Len(cells)
         /\ \A i \in 1 .. Len(cells) :
               Overwritten(cells, offset, values)[i] =
                 IF i \in offset + 1 .. offset + Len(values) THEN values[i - offset] ELSE cells[i]
<1> DEFINE m == Len(cells)
           l == Len(values)
<1>1. /\ m \in Nat /\ l \in Nat /\ DOMAIN values = 1 .. l
      /\ (\A i \in 1 .. m : cells[i] \in S) /\ (\A i \in 1 .. l : values[i] \in S)
  BY LenProperties, ElementOfSeq
<1>2. Max({m, offset + l}) = m
  <2> HIDE DEF m, l
  <2>1. {m, offset + l} \subseteq Nat /\ {m, offset + l} # {} /\ \A x \in {m, offset + l} : x <= m
    BY <1>1 DEF m, l
  <2>2. Max({m, offset + l}) \in {m, offset + l} /\ \A x \in {m, offset + l} : x <= Max({m, offset + l})
    <3> DEFINE T == {m, offset + l}
    <3>1. T \subseteq Nat /\ T # {} /\ m \in Nat /\ \A x \in T : x <= m
      BY <1>1, <2>1
    <3>2. Max(T) \in T /\ \A x \in T : x <= Max(T)
      <4> HIDE DEF T
      <4> QED BY <3>1, MaxOfNaturals
    <3> QED
      BY <3>2
  <2> DEFINE x == Max({m, offset + l})
  <2>3. x \in Nat /\ x <= m /\ m <= x
    BY <2>1, <2>2
  <2> HIDE DEF x
  <2>4. x = m
    BY <1>1, <2>3
  <2> QED
    BY <2>4 DEF x
<1> DEFINE w == [i \in 1 .. m |-> IF i - offset \in DOMAIN values THEN values[i - offset] ELSE cells[i]]
<1>3. Overwritten(cells, offset, values) = w
  BY <1>2 DEF Overwritten
<1> HIDE DEF m, l
<1>4. w \in [1 .. m -> S]
  BY <1>1
<1>5. w \in Seq(S) /\ Len(w) = m
  <2> HIDE DEF w
  <2> QED BY <1>1, <1>4, FunctionIsSeq
<1>6. \A i \in 1 .. m : i - offset \in DOMAIN values <=> i \in offset + 1 .. offset + l
  BY <1>1
<1> QED
  BY <1>3, <1>5, <1>6 DEF m, l

\* The last of some segments is the one that is later than the others.
LEMMA LastOfIs ==
  ASSUME NEW S, NEW s \in S,
         \A t \in S : t[1] \in Nat /\ t[3] \in Nat,
         \A t \in S \ {s} : Later(s, t)
  PROVE  LastOf(S) = s
<1> DEFINE IsLast(x) == x \in S /\ \A t \in S \ {x} : Later(x, t)
<1>1. IsLast(s)
  OBVIOUS
<1>2. ASSUME NEW x, IsLast(x) PROVE x = s
  <2> SUFFICES ASSUME x # s PROVE FALSE
    OBVIOUS
  <2>1. Later(x, s) /\ Later(s, x)
    BY <1>2
  <2> QED
    BY <1>2, <2>1 DEF Later
<1> QED
  BY <1>1, <1>2 DEF LastOf

-----------------------------------------------------------------------------
(* What a step of loading leaves alone, and what a turn of the loop is about *)

\* Which segments For collects.
LEMMA ForIs ==
  ASSUME NEW d, NEW k, NEW items, NEW s
  PROVE  s \in For(d, k, items) <=>
            \E m \in Externals : \E n \in DOMAIN items[m] :
               s = <<Place(m), m, n>> /\ Denotes(<<"own", m, k, items[m][n].of>>) = d
BY DEF For

\* A segment that For collects is at the place of its module, and for that object.
LEMMA ForPlaces ==
  ASSUME NEW d, NEW k, NEW items, NEW s \in For(d, k, items)
  PROVE  /\ s = <<Place(s[2]), s[2], s[3]>> /\ s[1] = Place(s[2]) /\ s[1] \in Nat
         /\ s[2] \in Externals /\ s[3] \in DOMAIN items[s[2]]
         /\ Denotes(<<"own", s[2], k, items[s[2]][s[3]].of>>) = d
<1>0. PICK m \in Externals : \E n \in DOMAIN items[m] :
         s = <<Place(m), m, n>> /\ Denotes(<<"own", m, k, items[m][n].of>>) = d
  BY ForIs
<1>1. PICK n \in DOMAIN items[m] :
         s = <<Place(m), m, n>> /\ Denotes(<<"own", m, k, items[m][n].of>>) = d
  BY <1>0
<1>2. s[1] = Place(m) /\ s[2] = m /\ s[3] = n /\ Place(m) \in Nat
  BY <1>1, PlaceIs
<1> QED
  BY <1>1, <1>2

\* What is computed from the bound objects alone stays while loading goes on.
LEMMA SameLoading ==
  ASSUME UNCHANGED <<vars, chosen>>
  PROVE  /\ ItemSet' = ItemSet /\ Served' = Served
         /\ \A k, n : Initial(k, n)' = Initial(k, n)
         /\ \A n : SizeOf(n)' = SizeOf(n)
         /\ \A n, size : Given(n, size)' = Given(n, size)
         /\ \A d : /\ For(d, "memory", chosen.data)' = For(d, "memory", chosen.data)
                   /\ For(d, "table", chosen.elements)' = For(d, "table", chosen.elements)
<1>1. /\ env' = env /\ phase' = phase /\ exports' = exports /\ space' = space
      /\ slots' = slots /\ count' = count /\ chosen' = chosen
  BY DEF vars
<1>2. ItemSet' = ItemSet /\ Served' = Served
  BY <1>1 DEF ItemSet, AllData, AllElements, AllServed, Served
<1>3. \A k, n : Initial(k, n)' = Initial(k, n)
  BY <1>1 DEF Initial
<1>4. \A n : SizeOf(n)' = SizeOf(n)
  BY <1>3 DEF SizeOf, Bytes
<1>5. \A n, size : Given(n, size)' = Given(n, size)
  <2>1. \A m, i : StackValue(m, i)' = StackValue(m, i)
    BY <1>1 DEF StackValue, Content, Entry
  <2>2. \A m : FromMagic(m)' = FromMagic(m)
    BY <1>1, <2>1 DEF FromMagic
  <2>3. \A m, k : Definitions(m, k)' = Definitions(m, k)
    BY <1>1 DEF Definitions
  <2>4. \A m, k, i : Exported(m, k, i)' <=> Exported(m, k, i)
    BY <1>1 DEF Exported
  <2>5. \A m : FromGlobal(m)' = FromGlobal(m)
    BY <2>1, <2>3, <2>4 DEF FromGlobal
  <2>6. \A m, k, n : Has(m, k, n)' <=> Has(m, k, n)
    BY <1>1 DEF Has
  <2>7. \A m, n : Says(m, n)' = Says(m, n)
    BY <1>1, <2>2, <2>5, <2>6 DEF Says
  <2>8. \A n : StackOffset(n)' = StackOffset(n)
    BY <2>7 DEF StackOffset, Align
  <2> QED
    BY <1>1, <1>3, <2>8 DEF Given, Bytes
<1>6. ASSUME NEW d PROVE /\ For(d, "memory", chosen.data)' = For(d, "memory", chosen.data)
                         /\ For(d, "table", chosen.elements)' = For(d, "table", chosen.elements)
  <2>1. \A o : Denotes(o)' = Denotes(o)
    BY <1>1, SameEnvironment
  <2> QED
    BY <1>1, <2>1 DEF For
<1> QED
  BY <1>2, <1>3, <1>4, <1>5, <1>6

\* Once linking is done what is to be loaded is as the readers have left it.
LEMMA FormHolds ==
  ASSUME LinkInv, StageInv, stage # "linking"
  PROVE  HasForm(chosen, env) /\ Legal(chosen) /\ phase = "linked"
BY ContentsAssumption DEF LinkInv, GoodEnvironment, StageInv

\* The loop is at an item of its, after the items done and before those left.
LEMMA AtTurn ==
  ASSUME LoadInv, stage = "loading", work # <<>>
  PROVE  /\ HasForm(chosen, env) /\ Legal(chosen) /\ phase = "linked"
         /\ Head(work) \in ItemSet /\ Head(work) \in ToSet(work)
         /\ Tail(work) \in Seq(ItemSet) /\ IsInjective(Tail(work))
         /\ \A x : x \in ToSet(Tail(work)) <=> x \in ToSet(work) /\ x # Head(work)
         /\ \A i, j \in DOMAIN Tail(work) : i < j => Follows(Tail(work)[j], Tail(work)[i])
         /\ \A x \in ItemSet \ ToSet(work) : Follows(Head(work), x)
         /\ \A x \in ItemSet \ ToSet(Tail(work)), i \in DOMAIN Tail(work) : Follows(Tail(work)[i], x)
<1>1. HasForm(chosen, env) /\ Legal(chosen) /\ phase = "linked"
  BY FormHolds DEF LoadInv
<1>2. /\ work \in Seq(ItemSet) /\ IsInjective(work)
      /\ \A i, j \in DOMAIN work : i < j => Follows(work[j], work[i])
      /\ \A x \in ItemSet \ ToSet(work), i \in DOMAIN work : Follows(work[i], x)
  BY DEF LoadInv, WorkInv, Placing
<1> DEFINE rest == Tail(work)
           L == Len(work)
<1>3. /\ Head(work) = work[1] /\ L \in Nat \ {0} /\ DOMAIN work = 1 .. L
      /\ rest \in Seq(ItemSet) /\ Len(rest) = L - 1 /\ DOMAIN rest = 1 .. L - 1
      /\ \A i \in 1 .. L - 1 : rest[i] = work[i + 1]
  BY <1>2, HeadTailProperties, LenProperties, EmptySeq
<1>4. /\ ToSet(work) = ToSet(rest) \cup {Head(work)} /\ IsInjective(rest)
      /\ Head(work) \notin ToSet(rest)
  BY <1>2, TailOfList
<1>5. 1 \in DOMAIN work /\ Head(work) \in ItemSet
  BY <1>2, <1>3, ElementOfSeq
<1> HIDE DEF rest, L
<1>6. \A i, j \in DOMAIN rest : i < j => Follows(rest[j], rest[i])
  <2> SUFFICES ASSUME NEW i \in DOMAIN rest, NEW j \in DOMAIN rest, i < j
               PROVE  Follows(rest[j], rest[i])
    OBVIOUS
  <2>1. i + 1 \in DOMAIN work /\ j + 1 \in DOMAIN work /\ i + 1 < j + 1
    BY <1>3
  <2> QED
    BY <1>2, <1>3, <2>1
<1>7. ASSUME NEW x \in ItemSet \ ToSet(rest), NEW i \in DOMAIN rest
      PROVE  Follows(rest[i], x)
  <2>1. i + 1 \in DOMAIN work /\ rest[i] = work[i + 1] /\ 1 < i + 1
    BY <1>3
  <2>2. CASE x = Head(work)
    BY <1>2, <1>3, <1>5, <2>1, <2>2
  <2>3. CASE x # Head(work)
    BY <1>2, <1>4, <2>1, <2>3
  <2> QED
    BY <2>2, <2>3
<1> QED
  BY <1>1, <1>2, <1>3, <1>4, <1>5, <1>6, <1>7 DEF rest

\* Taking one item from the rest of the loop keeps the order, and all about linking.
LEMMA WorkKept ==
  ASSUME LoadInv, stage = "loading", work # <<>>, work' = Tail(work),
         UNCHANGED <<vars, stage, chosen>>
  PROVE  LinkInv' /\ HostKinds' /\ StageInv' /\ WorkInv' /\ InitFailsForCause'
<1>1. LinkInv' /\ HostKinds'
  BY NextLinks, HostKindsKept DEF LoadInv
<1>2. StageInv'
  BY DEF LoadInv, StageInv, Legal, vars
<1>3. WorkInv'
  <2>1. ItemSet' = ItemSet
    BY SameLoading
  <2> QED
    BY <2>1, AtTurn DEF WorkInv, Placing
<1>4. InitFailsForCause'
  BY <1>1 DEF InitFailsForCause, LinkInv
<1> QED
  BY <1>1, <1>2, <1>3, <1>4

-----------------------------------------------------------------------------
(* Before the loop *)

\* Init establishes the invariant.
LEMMA FirstLoads == LoaderInit => LoadInv
<1> SUFFICES ASSUME LoaderInit PROVE LoadInv
  OBVIOUS
<1>1. stage = "linking" /\ Init
  BY DEF LoaderInit
<1>2. LinkInv /\ HostKinds
  BY <1>1, InitLinks, HostKindsFirst
<1>3. StageInv /\ WorkInv /\ ShapeInv /\ DataInv /\ EntriesInv
  BY <1>1 DEF StageInv, WorkInv, ShapeInv, DataInv, EntriesInv, Placing
<1>4. InitFailsForCause
  BY <1>1, <1>2 DEF InitFailsForCause, LinkInv
<1> QED
  BY <1>2, <1>3, <1>4 DEF LoadInv

\* A step of linking loads nothing.
LEMMA LinkingLoads ==
  ASSUME LoadInv, Linking
  PROVE  LoadInv'
<1>1. Next /\ stage' = stage /\ chosen' = chosen
  BY DEF Linking, loading
<1>2. LinkInv /\ HostKinds /\ StageInv
  BY DEF LoadInv
<1>3. stage = "linking"
  <2> SUFFICES ASSUME phase = "linked" PROVE FALSE
    BY <1>2 DEF StageInv
  <2>1. calls = <<>>
    BY <1>2, AtCall
  <2> QED
    BY <1>1, <2>1 DEF Next, PreLink, Define, NextImport, ImportFound, Recurse, Provide, AsksPolicy,
                      Fail, Linked
<1>4. LinkInv' /\ HostKinds'
  BY <1>1, <1>2, NextLinks, HostKindsKept
<1>5. StageInv' /\ WorkInv' /\ ShapeInv' /\ DataInv' /\ EntriesInv'
  BY <1>1, <1>3 DEF StageInv, WorkInv, ShapeInv, DataInv, EntriesInv, Placing
<1>6. InitFailsForCause'
  BY <1>1, <1>3, <1>4 DEF InitFailsForCause, LinkInv
<1> QED
  BY <1>4, <1>5, <1>6 DEF LoadInv

\* loadRuntime begins with no memory and no table allocated.
LEMMA BeginLoads ==
  ASSUME LoadInv, LoadBegins
  PROVE  LoadInv'
<1>1. UNCHANGED vars /\ stage' = "allocating" /\ phase = "linked" /\ env' = env
  BY DEF LoadBegins, vars
<1>2. chosen' \in Contents(env) /\ Legal(chosen')
  BY DEF LoadBegins
<1>3. LinkInv' /\ HostKinds'
  BY <1>1, NextLinks, HostKindsKept DEF LoadInv
<1>4. StageInv'
  BY <1>1, <1>2 DEF StageInv, Legal, vars
<1>5. WorkInv' /\ ShapeInv' /\ DataInv' /\ EntriesInv'
  BY <1>1 DEF WorkInv, ShapeInv, DataInv, EntriesInv, Placing
<1>6. InitFailsForCause'
  BY <1>1, <1>3 DEF InitFailsForCause, LinkInv
<1> QED
  BY <1>3, <1>4, <1>5, <1>6 DEF LoadInv

\* initMemory and initTable: every object has its size, and no segment is placed yet.
LEMMA AllocateLoads ==
  ASSUME LoadInv, Allocate
  PROVE  LoadInv'
<1> DEFINE mem == DOMAIN slots["memory"]
           tab == DOMAIN slots["table"]
<1>1. /\ UNCHANGED <<vars, chosen>> /\ stage = "allocating" /\ stage' = "loading"
      /\ memories' = [n \in mem |-> Given(n, SizeOf(n))]
      /\ tables' = [n \in tab |-> [i \in 1 .. Initial("table", n) |-> Invalid]]
      /\ work' = Items /\ slots' = slots /\ count' = count /\ exports' = exports /\ chosen' = chosen
  BY DEF Allocate, vars, SizeOf
<1>2. LinkInv' /\ HostKinds' /\ LinkInv /\ HostKinds
  BY <1>1, NextLinks, HostKindsKept DEF LoadInv
<1>3. HasForm(chosen, env) /\ phase = "linked"
  BY <1>1, FormHolds DEF LoadInv
<1>4. StageInv'
  BY <1>1 DEF LoadInv, StageInv, Legal, vars
<1>5. /\ ItemSet' = ItemSet /\ \A n : SizeOf(n)' = SizeOf(n)
      /\ \A k, n : Initial(k, n)' = Initial(k, n)
      /\ \A n, size : Given(n, size)' = Given(n, size)
      /\ \A d : /\ For(d, "memory", chosen.data)' = For(d, "memory", chosen.data)
                /\ For(d, "table", chosen.elements)' = For(d, "table", chosen.elements)
  BY <1>1, SameLoading
<1>6. WorkInv'
  BY <1>1, <1>3, <1>5, ItemsAre DEF WorkInv, Sorted
<1>7. ASSUME NEW n \in mem
      PROVE  /\ SizeOf(n) \in Nat
             /\ IF chosen.provider = "strict" /\ SizeOf(n) = 0 THEN memories'[n] = Null
                ELSE /\ memories'[n] \in Seq(Cells) /\ Len(memories'[n]) = SizeOf(n)
                     /\ memories'[n] # Null
             /\ memories'[n] = Given(n, SizeOf(n))
  <2>1. SizeOf(n) \in Nat
    BY <1>2, InitialIs, BytesAre DEF SizeOf, Limited
  <2>2. memories'[n] = Given(n, SizeOf(n))
    BY <1>1
  <2> QED
    BY <1>2, <1>3, <2>1, <2>2, GivenIs
<1>8. ASSUME NEW n \in tab
      PROVE  /\ tables'[n] \in Seq(Nat) /\ Len(tables'[n]) = Initial("table", n)
             /\ DOMAIN tables'[n] = 1 .. Initial("table", n)
             /\ \A i \in 1 .. Initial("table", n) : tables'[n][i] = Invalid
  <2>1. Initial("table", n) \in Nat
    BY <1>2, InitialIs DEF Limited
  <2>2. tables'[n] = [i \in 1 .. Initial("table", n) |-> Invalid]
    BY <1>1
  <2> DEFINE t == tables'[n]
             N == Initial("table", n)
  <2>3. N \in Nat /\ t = [i \in 1 .. N |-> Invalid] /\ t \in [1 .. N -> Nat]
    BY <2>1, <2>2 DEF Invalid
  <2> HIDE DEF t, N
  <2>4. t \in Seq(Nat) /\ Len(t) = N
    BY <2>3, FunctionIsSeq
  <2>5. DOMAIN t = 1 .. N /\ \A i \in 1 .. N : t[i] = Invalid
    BY <2>3
  <2> QED
    BY <2>4, <2>5 DEF t, N
<1>9. DOMAIN memories' = mem /\ DOMAIN tables' = tab
  BY <1>1
<1>10. ShapeInv'
  <2>1. memories' \in [mem -> Seq(Cells) \cup {Null}]
    BY <1>1, <1>7
  <2>2. tables' \in [tab -> Seq(Nat)]
    BY <1>1, <1>8
  <2> QED
    BY <1>1, <1>5, <1>7, <1>8, <1>9, <2>1, <2>2 DEF ShapeInv
<1>11. ToSet(work') = ItemSet
  BY <1>1, <1>3, ItemsAre
<1>12. mem = 1 .. Len(slots["memory"]) /\ tab = 1 .. Len(slots["table"])
       /\ 1 .. count["memory"] \subseteq mem /\ 1 .. count["table"] \subseteq tab
  <2>1. "memory" \in Kinds /\ "table" \in Kinds
    BY KindsAre
  <2>2. SlotsEnough /\ LinkTypes
    BY <1>2, PoolsSuffice DEF LinkInv
  <2>3. /\ \A k \in Kinds : DOMAIN slots[k] = 1 .. Len(slots[k]) /\ Len(slots[k]) \in Nat
        /\ \A k \in Kinds : count[k] \in Nat
    BY <2>2, LenProperties DEF LinkTypes
  <2> QED
    BY <2>1, <2>2, <2>3 DEF SlotsEnough
<1>13. DataInv'
  <2> SUFFICES ASSUME NEW n \in 1 .. count["memory"]
               PROVE  /\ DataPlaced(n)' = {}
                      /\ memories'[n] # Null => \A i \in DOMAIN memories'[n] :
                            memories'[n][i] = CellAt(n, i)'
    BY <1>1 DEF DataInv
  <2>1. DataPlaced(n)' = {}
    <3>1. ASSUME NEW s \in For(slots["memory"][n].what, "memory", chosen.data)
          PROVE  <<"data", s[2], s[3]>> \in ItemSet
      BY <3>1, ForPlaces, InItems
    <3> QED
      BY <1>1, <1>5, <1>11, <3>1 DEF DataPlaced
  <2>2. ~HostWrote(n)'
    <3> SUFFICES ASSUME slots["memory"][n].what[1] = "policy"
                 PROVE  <<"host", Host, slots["memory"][n].what[3]>> \in ItemSet
      BY <1>1, <1>11 DEF HostWrote
    <3>1. slots["memory"][n].what[3] \in Served
      BY <1>2, <1>3, HostSlots DEF Limited
    <3> QED
      BY <3>1, InItems
  <2>3. n \in mem
    BY <1>12
  <2>4. memories'[n] # Null => \A i \in DOMAIN memories'[n] :
                            memories'[n][i] = Given(n, Len(memories'[n]))[i]
    BY <1>7, <2>3
  <2>5. \A i : DataAt(n, i)' = {}
    BY <2>1 DEF DataAt
  <2>6. \A i : CellAt(n, i)' = Given(n, Len(memories'[n]))[i]
    BY <1>1, <1>5, <2>2, <2>5 DEF CellAt
  <2> QED
    BY <2>1, <2>4, <2>6
<1>14. EntriesInv'
  <2> SUFFICES ASSUME NEW n \in 1 .. count["table"]
               PROVE  /\ ElementsPlaced(n)' = {}
                      /\ \A i \in DOMAIN tables'[n] : tables'[n][i] = Invalid
    BY <1>1, <1>5 DEF EntriesInv, EntryAt, ElementsAt
  <2>1. ElementsPlaced(n)' = {}
    <3>1. ASSUME NEW s \in For(slots["table"][n].what, "table", chosen.elements)
          PROVE  <<"elements", s[2], s[3]>> \in ItemSet
      BY <3>1, ForPlaces, InItems
    <3> QED
      BY <1>1, <1>5, <1>11, <3>1 DEF ElementsPlaced
  <2> QED
    BY <1>8, <1>12, <2>1
<1>15. InitFailsForCause'
  BY <1>1, <1>2 DEF InitFailsForCause, LinkInv
<1> QED
  BY <1>2, <1>4, <1>6, <1>10, <1>13, <1>14, <1>15 DEF LoadInv

-----------------------------------------------------------------------------
(* Turns of the loop *)

\* What is placed when the loop has gone on.
LEMMA PlacedNext ==
  ASSUME LoadInv, stage = "loading", work # <<>>, work' = Tail(work), UNCHANGED <<vars, chosen>>,
         NEW n
  PROVE  /\ DataPlaced(n)' = DataPlaced(n) \cup {s \in For(slots["memory"][n].what, "memory", chosen.data) :
                                                    Head(work) = <<"data", s[2], s[3]>>}
         /\ ElementsPlaced(n)' = ElementsPlaced(n)
                \cup {s \in For(slots["table"][n].what, "table", chosen.elements) :
                         Head(work) = <<"elements", s[2], s[3]>>}
         /\ HostWrote(n)' <=> \/ HostWrote(n)
                              \/ LET d == slots["memory"][n].what
                                 IN d[1] = "policy" /\ Head(work) = <<"host", Host, d[3]>>
                                    /\ chosen.memoryInit = "writes"
<1>1. slots' = slots /\ chosen' = chosen
  BY DEF vars
<1>2. \A x : x \in ToSet(work') <=> x \in ToSet(work) /\ x # Head(work)
  BY AtTurn
<1>3. \A d : /\ For(d, "memory", chosen.data)' = For(d, "memory", chosen.data)
             /\ For(d, "table", chosen.elements)' = For(d, "table", chosen.elements)
  BY SameLoading
<1>4. DataPlaced(n)' = DataPlaced(n) \cup {s \in For(slots["memory"][n].what, "memory", chosen.data) :
                                              Head(work) = <<"data", s[2], s[3]>>}
  BY <1>1, <1>2, <1>3 DEF DataPlaced
<1>5. ElementsPlaced(n)' = ElementsPlaced(n)
                \cup {s \in For(slots["table"][n].what, "table", chosen.elements) :
                         Head(work) = <<"elements", s[2], s[3]>>}
  BY <1>1, <1>2, <1>3 DEF ElementsPlaced
<1>6. HostWrote(n)' <=> \/ HostWrote(n)
                        \/ LET d == slots["memory"][n].what
                           IN d[1] = "policy" /\ Head(work) = <<"host", Host, d[3]>>
                              /\ chosen.memoryInit = "writes"
  BY <1>1, <1>2, Zenon DEF HostWrote
<1> QED
  BY <1>4, <1>5, <1>6

\* Where nothing more is placed the contents are as they were.
LEMMA SameEntries ==
  ASSUME LoadInv, stage = "loading", UNCHANGED <<vars, chosen>>, tables' = tables,
         \A n : ElementsPlaced(n)' = ElementsPlaced(n)
  PROVE  EntriesInv'
<1>1. slots' = slots /\ count' = count /\ chosen' = chosen
  BY DEF vars
<1>2. \A n, i : ElementsAt(n, i)' = ElementsAt(n, i)
  BY <1>1 DEF ElementsAt
<1>3. \A n, i : EntryAt(n, i)' = EntryAt(n, i)
  <2> TAKE n, i
  <2>1. LastOf(ElementsAt(n, i))' = LastOf(ElementsAt(n, i))
    BY <1>2 DEF LastOf, Later
  <2> QED
    BY <1>1, <1>2, <2>1 DEF EntryAt
<1>4. EntriesInv /\ Placing
  BY DEF LoadInv, Placing
<1> QED
  BY <1>1, <1>3, <1>4 DEF EntriesInv

\* A memory that a turn of the loop does not touch holds what it held.
LEMMA SameCells ==
  ASSUME LoadInv, stage = "loading", UNCHANGED <<vars, chosen>>,
         NEW n \in 1 .. count["memory"], memories'[n] = memories[n],
         DataPlaced(n)' = DataPlaced(n), HostWrote(n)' <=> HostWrote(n)
  PROVE  /\ \A s \in DataPlaced(n)' : LET t == chosen.data[s[2]][s[3]]
                                       IN t.offset + t.size <= Room(n)'
         /\ memories'[n] # Null => \A i \in DOMAIN memories'[n] : memories'[n][i] = CellAt(n, i)'
<1>1. slots' = slots /\ count' = count /\ chosen' = chosen
  BY DEF vars
<1>2. \A i : DataAt(n, i)' = DataAt(n, i)
  BY <1>1 DEF DataAt
<1>3. \A i : CellAt(n, i)' = CellAt(n, i)
  <2> TAKE i
  <2>1. LastOf(DataAt(n, i))' = LastOf(DataAt(n, i))
    BY <1>2 DEF LastOf, Later
  <2>2. \A size : Given(n, size)' = Given(n, size)
    BY SameLoading
  <2> QED
    BY <1>1, <1>2, <2>1, <2>2 DEF CellAt
<1>4. Room(n)' = Room(n)
  BY DEF Room
<1>5. DataInv /\ Placing
  BY DEF LoadInv, Placing
<1> QED
  BY <1>1, <1>3, <1>4, <1>5 DEF DataInv

\* Slots in use are elements of the vectors, and no two are for the same.
LEMMA SlotsInUse ==
  ASSUME LoadInv, NEW k \in Limited
  PROVE  /\ 1 .. count[k] \subseteq DOMAIN slots[k]
         /\ \A n, l \in 1 .. count[k] : slots[k][n].what = slots[k][l].what => n = l
<1>1. k \in Kinds
  BY KindsAre DEF Limited
<1>2. SlotsEnough /\ LinkTypes
  BY PoolsSuffice DEF LoadInv, LinkInv
<1>3. DOMAIN slots[k] = 1 .. Len(slots[k]) /\ Len(slots[k]) \in Nat /\ count[k] \in Nat
  BY <1>1, <1>2, LenProperties DEF LinkTypes
<1> QED
  BY <1>1, <1>2, <1>3 DEF SlotsEnough

\* The fields of a segment are numbers.
LEMMA SegmentsAre ==
  ASSUME HasForm(chosen, env)
  PROVE  /\ \A m \in Externals : \A i \in DOMAIN chosen.data[m] :
               i \in Nat /\ chosen.data[m][i] \in [of : Nat, offset : Nat, size : Nat]
         /\ \A m \in Externals : \A i \in DOMAIN chosen.elements[m] :
               /\ i \in Nat /\ chosen.elements[m][i] \in [of : Nat, offset : Nat, values : Seq(Nat)]
<1> DEFINE D == [of : Nat, offset : Nat, size : Nat]
           E == [of : Nat, offset : Nat, values : Seq(Nat)]
<1>1. \A m \in Externals : chosen.data[m] \in Seq(D) /\ chosen.elements[m] \in Seq(E)
  BY DEF HasForm
<1> HIDE DEF D, E
<1>2. \A S : \A q \in Seq(S) : \A i \in DOMAIN q : i \in Nat /\ q[i] \in S
  BY LenProperties, ElementOfSeq
<1>3. \A m \in Externals : \A i \in DOMAIN chosen.data[m] : i \in Nat /\ chosen.data[m][i] \in D
  BY <1>1, <1>2
<1>4. \A m \in Externals : \A i \in DOMAIN chosen.elements[m] : i \in Nat /\ chosen.elements[m][i] \in E
  BY <1>1, <1>2
<1> QED
  BY <1>3, <1>4 DEF D, E

\* A segment is for the memory its module knows by that index, and after all others
\* that are placed there, and after the host if that has written.
LEMMA DataTurn ==
  ASSUME LoadInv, Turn("data")
  PROVE  LET m == Owner
             l == Head(work)[3]
             s == <<Place(m), m, l>>
             N == Slot("memory")
         IN /\ m \in Externals /\ l \in DOMAIN chosen.data[m] /\ l \in Nat
            /\ Head(work) = <<"data", m, l>> /\ Segment = chosen.data[m][l]
            /\ Segment.offset \in Nat /\ Segment.size \in Nat
            /\ N \in 1 .. count["memory"] /\ N \in DOMAIN slots["memory"]
            /\ \A n \in 1 .. count["memory"] :
                  /\ {r \in For(slots["memory"][n].what, "memory", chosen.data) :
                        Head(work) = <<"data", r[2], r[3]>>} = IF n = N THEN {s} ELSE {}
                  /\ \A r \in DataPlaced(n) : /\ Later(s, r) /\ r[1] \in Nat /\ r[3] \in Nat
                                              /\ chosen.data[r[2]][r[3]].offset \in Nat
                                              /\ chosen.data[r[2]][r[3]].size \in Nat
                  /\ HostWrote(n) => Place(Host) < Place(m)
<1> DEFINE m == Owner
           l == Head(work)[3]
           s == <<Place(m), m, l>>
           N == Slot("memory")
<1>1. /\ stage = "loading" /\ work # <<>> /\ Head(work)[1] = "data"
      /\ LinkInv /\ HostKinds
  BY DEF Turn, LoadInv
<1>2. /\ HasForm(chosen, env) /\ Legal(chosen) /\ phase = "linked"
      /\ Head(work) \in ItemSet /\ Head(work) \in ToSet(work)
      /\ \A x \in ItemSet \ ToSet(work) : Follows(Head(work), x)
  BY <1>1, AtTurn
<1>3. /\ m \in Externals /\ l \in DOMAIN chosen.data[m]
      /\ Head(work) = <<"data", m, l>> /\ Segment = chosen.data[m][l]
  BY <1>1, <1>2, ItemIs DEF Owner, Segment
<1>4. \A e \in Externals : \A i \in DOMAIN chosen.data[e] :
         i \in Nat /\ chosen.data[e][i] \in [of : Nat, offset : Nat, size : Nat]
  BY <1>2, SegmentsAre
<1>5. Segment.offset \in Nat /\ Segment.size \in Nat /\ l \in Nat
  BY <1>3, <1>4
<1>6. Segment.of \in DOMAIN env.index[m]["memory"]
  BY <1>2, <1>3 DEF Legal
<1>7. /\ N \in 1 .. count["memory"] /\ N \in DOMAIN slots["memory"]
      /\ slots["memory"][N].what = Denotes(<<"own", m, "memory", Segment.of>>)
  BY <1>1, <1>2, <1>3, <1>6, SlotOf DEF Limited, Slot
<1> HIDE DEF N, m, l
<1>8. ASSUME NEW n \in 1 .. count["memory"]
      PROVE  {r \in For(slots["memory"][n].what, "memory", chosen.data) :
                Head(work) = <<"data", r[2], r[3]>>} = IF n = N THEN {s} ELSE {}
  <2>1. ASSUME NEW r \in For(slots["memory"][n].what, "memory", chosen.data),
               Head(work) = <<"data", r[2], r[3]>>
        PROVE  r = s /\ n = N
    <3>1. r[2] = m /\ r[3] = l
      BY <1>3, <2>1
    <3>2. /\ r = <<Place(r[2]), r[2], r[3]>>
          /\ Denotes(<<"own", r[2], "memory", chosen.data[r[2]][r[3]].of>>) = slots["memory"][n].what
      BY ForPlaces
    <3>3. slots["memory"][n].what = slots["memory"][N].what
      BY <1>3, <1>7, <3>1, <3>2
    <3> QED
      BY <1>7, <3>1, <3>2, <3>3, SlotsInUse DEF Limited
  <2>2. s \in For(slots["memory"][N].what, "memory", chosen.data) /\ Head(work) = <<"data", s[2], s[3]>>
    <3>1. Head(work) = <<"data", s[2], s[3]>>
      BY <1>3
    <3> QED
      BY <1>3, <1>7, <3>1, ForIs
  <2> HIDE DEF s
  <2> QED
    BY <2>1, <2>2
<1>9. ASSUME NEW n \in 1 .. count["memory"], NEW r \in DataPlaced(n)
      PROVE  /\ Later(s, r) /\ r[1] \in Nat /\ r[3] \in Nat
             /\ chosen.data[r[2]][r[3]].offset \in Nat
             /\ chosen.data[r[2]][r[3]].size \in Nat
  <2>1. r \in For(slots["memory"][n].what, "memory", chosen.data) /\ <<"data", r[2], r[3]>> \notin ToSet(work)
    BY DEF DataPlaced
  <2>2. r[1] = Place(r[2]) /\ r[1] \in Nat /\ r[2] \in Externals /\ r[3] \in DOMAIN chosen.data[r[2]]
    <3> DEFINE d == slots["memory"][n].what
    <3>1. r \in For(d, "memory", chosen.data)
      BY <2>1
    <3> HIDE DEF d
    <3>2. /\ r = <<Place(r[2]), r[2], r[3]>> /\ r[1] = Place(r[2]) /\ r[1] \in Nat
          /\ r[2] \in Externals /\ r[3] \in DOMAIN chosen.data[r[2]]
          /\ Denotes(<<"own", r[2], "memory", chosen.data[r[2]][r[3]].of>>) = d
      BY <3>1, ForPlaces
    <3> QED
      BY <3>2
  <2>3. r[3] \in Nat /\ chosen.data[r[2]][r[3]] \in [of : Nat, offset : Nat, size : Nat]
    BY <1>4, <2>2
  <2>4. Follows(Head(work), <<"data", r[2], r[3]>>)
    BY <1>2, <2>1, <2>2, InItems
  <2>5. Place(r[2]) < Place(m) \/ (r[2] = m /\ r[3] < l)
    BY <1>3, <2>4 DEF Follows
  <2>6. Later(s, r)
    BY <2>2, <2>3, <2>5, <1>5, <1>3, PlaceIs DEF Later
  <2> QED
    BY <2>2, <2>3, <2>6
<1>10. ASSUME NEW n \in 1 .. count["memory"], HostWrote(n) PROVE Place(Host) < Place(m)
  <2> DEFINE f == slots["memory"][n].what[3]
  <2>1. slots["memory"][n].what[1] = "policy" /\ <<"host", Host, f>> \notin ToSet(work)
    BY <1>10 DEF HostWrote
  <2>2. f \in Served
    BY <1>1, <1>2, <2>1, HostSlots DEF Limited
  <2>3. <<"host", Host, f>> \in ItemSet
    BY <2>2, InItems
  <2>4. Follows(Head(work), <<"host", Host, f>>)
    BY <1>2, <2>1, <2>3
  <2>5. Host # m
    BY <1>3, PlaceIs
  <2> QED
    BY <1>3, <2>4, <2>5 DEF Follows
<1> QED
  BY <1>3, <1>5, <1>7, <1>8, <1>9, <1>10 DEF N, m, l

\* The memory as it is when a segment is copied into it.
LEMMA RetriedIs ==
  ASSUME LoadInv, Turn("data")
  PROVE  LET N == Slot("memory")
         IN /\ memories[N] # Null => Retried = memories[N] /\ Retried \in Seq(Cells)
            /\ memories[N] = Null =>
                  /\ SizeOf(N) = 0 /\ chosen.provider = "strict"
                  /\ \/ Retried = Null
                     \/ /\ Retried = Given(N, Page) /\ Retried \in Seq(Cells) /\ Retried # Null
                        /\ Len(Retried) = Page
                        /\ Segment.offset = 0 /\ Segment.size >= 1
<1> DEFINE N == Slot("memory")
<1>1. stage = "loading" /\ work # <<>> /\ LinkInv
  BY DEF Turn, LoadInv
<1>2. N \in DOMAIN slots["memory"]
  BY DataTurn
<1>3. /\ memories \in [DOMAIN slots["memory"] -> Seq(Cells) \cup {Null}]
      /\ \/ memories[N] # Null /\ Len(memories[N]) = SizeOf(N)
         \/ SizeOf(N) = 0 /\ chosen.provider = "strict"
  BY <1>1, <1>2 DEF LoadInv, ShapeInv
<1>4. Retried = IF memories[N] = Null /\ Segment.offset = 0 /\ Segment.size \in 1 .. Page - 1
                THEN Given(N, Page) ELSE memories[N]
  BY DEF Retried
<1>5. HasForm(chosen, env)
  BY <1>1, AtTurn
<1> HIDE DEF N
<1>6. CASE memories[N] # Null
  BY <1>2, <1>3, <1>4, <1>6 DEF N
<1>7. CASE memories[N] = Null
  <2>1. SizeOf(N) = 0 /\ chosen.provider = "strict"
    BY <1>3, <1>7
  <2>2. Page \in Nat /\ Page # 0
    BY SizesAssumption
  <2>3. Given(N, Page) \in Seq(Cells) /\ Len(Given(N, Page)) = Page /\ Given(N, Page) # Null
    BY <1>1, <1>2, <1>5, <2>1, <2>2, GivenIs
  <2>4. Segment.size \in 1 .. Page - 1 => Segment.size >= 1
    OBVIOUS
  <2> QED
    BY <1>4, <1>7, <2>1, <2>3, <2>4 DEF N
<1> QED
  BY <1>6, <1>7

\* A data segment that fits is copied over what is there, and nothing else changes.
LEMMA EmplaceDataLoads ==
  ASSUME LoadInv, EmplaceData
  PROVE  LoadInv'
<1> DEFINE m == Owner
           l == Head(work)[3]
           s == <<Place(m), m, l>>
           N == Slot("memory")
           offset == Segment.offset
           size == Segment.size
           values == [j \in 1 .. size |-> <<m, l, j>>]
           W == IF size = 0 THEN Retried ELSE Overwritten(Retried, offset, values)
           new == offset + 1 .. offset + size
<1>1. /\ Turn("data") /\ stage = "loading" /\ work # <<>> /\ Head(work)[1] = "data"
      /\ UNCHANGED <<vars, stage, chosen>> /\ UNCHANGED <<vars, chosen>>
      /\ work' = Tail(work) /\ tables' = tables
      /\ slots' = slots /\ count' = count /\ chosen' = chosen /\ stage' = stage
      /\ memories' = [memories EXCEPT ![N] = W]
      /\ offset + size <= IF Retried = Null THEN 0 ELSE Len(Retried)
  BY DEF EmplaceData, Turn, vars, DataFits
<1>2. LinkInv' /\ HostKinds' /\ StageInv' /\ WorkInv' /\ InitFailsForCause'
  BY <1>1, WorkKept
<1>3. /\ m \in Externals /\ l \in DOMAIN chosen.data[m] /\ l \in Nat
      /\ Head(work) = <<"data", m, l>> /\ Segment = chosen.data[m][l]
      /\ offset \in Nat /\ size \in Nat
      /\ N \in 1 .. count["memory"] /\ N \in DOMAIN slots["memory"]
      /\ \A n \in 1 .. count["memory"] :
            /\ {r \in For(slots["memory"][n].what, "memory", chosen.data) :
                  Head(work) = <<"data", r[2], r[3]>>} = IF n = N THEN {s} ELSE {}
            /\ \A r \in DataPlaced(n) : /\ Later(s, r) /\ r[1] \in Nat /\ r[3] \in Nat
                                        /\ chosen.data[r[2]][r[3]].offset \in Nat
                                        /\ chosen.data[r[2]][r[3]].size \in Nat
            /\ HostWrote(n) => Place(Host) < Place(m)
  BY <1>1, DataTurn
<1>4. /\ memories[N] # Null => Retried = memories[N] /\ Retried \in Seq(Cells)
      /\ memories[N] = Null =>
            /\ SizeOf(N) = 0 /\ chosen.provider = "strict"
            /\ \/ Retried = Null
               \/ /\ Retried = Given(N, Page) /\ Retried \in Seq(Cells) /\ Retried # Null
                  /\ Len(Retried) = Page
                  /\ offset = 0 /\ size >= 1
  BY <1>1, RetriedIs
<1>5. chosen.data[s[2]][s[3]] = Segment /\ s[1] = Place(m) /\ s[3] = l /\ s[2] = m
      /\ Place(m) \in Nat /\ Place(Host) \in Nat
  BY <1>3, PlaceIs
<1> HIDE DEF m, l, N, s, offset, size
<1>6. /\ Retried = Null => W = Null /\ size = 0
      /\ Retried # Null =>
           /\ W \in Seq(Cells) /\ W # Null /\ Len(W) = Len(Retried) /\ Len(W) \in Nat
           /\ offset + size <= Len(W) /\ DOMAIN W = 1 .. Len(W)
           /\ \A i \in 1 .. Len(W) : W[i] = IF i \in new THEN <<m, l, i - offset>> ELSE Retried[i]
  <2>1. CASE Retried = Null
    BY <1>1, <1>3, <2>1
  <2>2. CASE Retried # Null /\ size = 0
    <3>1. Retried \in Seq(Cells) /\ W = Retried /\ new = {}
      BY <1>3, <1>4, <2>2
    <3> QED
      BY <1>1, <2>2, <3>1, LenProperties
  <2>3. CASE Retried # Null /\ size # 0
    <3>1. Retried \in Seq(Cells) /\ W = Overwritten(Retried, offset, values)
      BY <1>4, <2>3
    <3>2. \A j \in 1 .. size : <<m, l, j>> \in Cells
      BY <1>3 DEF Cells
    <3>3. values \in [1 .. size -> Cells]
      BY <3>2
    <3>4. values \in Seq(Cells) /\ Len(values) = size
      <4> HIDE DEF values
      <4> QED BY <1>3, <3>3, FunctionIsSeq
    <3>5. offset + size <= Len(Retried)
      BY <1>1, <2>3
    <3>6. /\ W \in Seq(Cells) /\ Len(W) = Len(Retried)
          /\ \A i \in 1 .. Len(Retried) :
               W[i] = IF i \in offset + 1 .. offset + Len(values) THEN values[i - offset] ELSE Retried[i]
      <4> HIDE DEF values, W
      <4> QED BY <1>3, <3>1, <3>4, <3>5, OverwrittenIs
    <3>7. \A i \in new : values[i - offset] = <<m, l, i - offset>>
      BY <1>3
    <3>8. Len(W) \in Nat /\ DOMAIN W = 1 .. Len(W) /\ W # Null
      <4> HIDE DEF W
      <4> QED BY <3>6, LenProperties, NoDataAssumption
    <3> HIDE DEF values, W
    <3> QED
      BY <2>3, <3>4, <3>5, <3>6, <3>7, <3>8
  <2> QED
    BY <2>1, <2>2, <2>3
<1> HIDE DEF W, values
<1>7. memories \in [DOMAIN slots["memory"] -> Seq(Cells) \cup {Null}]
  BY <1>1 DEF LoadInv, ShapeInv
<1>8. memories'[N] = W /\ \A n \in DOMAIN memories : n # N => memories'[n] = memories[n]
  BY <1>1, <1>3, <1>7
<1>9. DOMAIN memories' = DOMAIN memories /\ DOMAIN memories = DOMAIN slots["memory"]
  BY <1>1, <1>7
<1>10. \A n \in 1 .. count["memory"] : n \in DOMAIN memories
  BY <1>9, SlotsInUse DEF Limited
<1>11. ShapeInv'
  <2>1. memories' \in [DOMAIN slots["memory"] -> Seq(Cells) \cup {Null}]
    BY <1>1, <1>6, <1>7
  <2>2. \A k, n : Initial(k, n)' = Initial(k, n) /\ SizeOf(n)' = SizeOf(n)
    BY <1>1, SameLoading
  <2>3. \A n \in DOMAIN memories :
          \/ memories[n] # Null /\ Len(memories[n]) = SizeOf(n)
          \/ /\ SizeOf(n) = 0 /\ chosen.provider = "strict"
             /\ memories[n] # Null => Len(memories[n]) = Page
    BY <1>1 DEF LoadInv, ShapeInv
  <2>4. \A n \in DOMAIN memories' :
          \/ memories'[n] # Null /\ Len(memories'[n]) = SizeOf(n)
          \/ /\ SizeOf(n) = 0 /\ chosen.provider = "strict"
             /\ memories'[n] # Null => Len(memories'[n]) = Page
    <3> TAKE n \in DOMAIN memories'
    <3>1. CASE n # N
      BY <1>8, <1>9, <2>3, <3>1
    <3>2. CASE n = N
      <4>1. CASE memories[N] # Null
        BY <1>4, <1>6, <1>8, <1>9, <2>3, <3>2, <4>1
      <4>2. CASE memories[N] = Null
        BY <1>4, <1>6, <1>8, <3>2, <4>2
      <4> QED
        BY <4>1, <4>2
    <3> QED
      BY <3>1, <3>2
  <2>5. /\ tables \in [DOMAIN slots["table"] -> Seq(Nat)]
        /\ \A n \in DOMAIN tables : Initial("table", n) > 0 => Len(tables[n]) = Initial("table", n)
    BY <1>1 DEF LoadInv, ShapeInv
  <2> QED
    BY <1>1, <2>1, <2>2, <2>4, <2>5 DEF ShapeInv
<1>12. \A n \in 1 .. count["memory"] :
          /\ DataPlaced(n)' = IF n = N THEN DataPlaced(n) \cup {s} ELSE DataPlaced(n)
          /\ HostWrote(n)' <=> HostWrote(n)
  <2> TAKE n \in 1 .. count["memory"]
  <2>1. DataPlaced(n)' = DataPlaced(n) \cup {r \in For(slots["memory"][n].what, "memory", chosen.data) :
                                                Head(work) = <<"data", r[2], r[3]>>}
    BY <1>1, PlacedNext
  <2>2. DataPlaced(n)' = DataPlaced(n) \cup IF n = N THEN {s} ELSE {}
    BY <1>3, <2>1
  <2>3. HostWrote(n)' <=> HostWrote(n)
    BY <1>1, <1>3, PlacedNext
  <2> QED
    BY <2>2, <2>3
<1>13. \A n \in 1 .. count["memory"] : \A i \in Int :
          DataAt(n, i)' = IF n = N /\ i \in new THEN DataAt(n, i) \cup {s} ELSE DataAt(n, i)
  <2> TAKE n \in 1 .. count["memory"]
  <2> TAKE i \in Int
  <2>1. i \in chosen.data[s[2]][s[3]].offset + 1 ..
              chosen.data[s[2]][s[3]].offset + chosen.data[s[2]][s[3]].size <=> i \in new
    BY <1>5 DEF offset, size
  <2>2. DataAt(n, i)' = {r \in DataPlaced(n)' : LET t == chosen.data[r[2]][r[3]]
                                               IN i \in t.offset + 1 .. t.offset + t.size}
    BY <1>1 DEF DataAt
  <2>3. CASE n = N
    BY <1>12, <2>1, <2>2, <2>3 DEF DataAt
  <2>4. CASE n # N
    BY <1>12, <2>2, <2>4 DEF DataAt
  <2> QED
    BY <2>3, <2>4
<1>14. \A n, i : Given(n, i)' = Given(n, i)
  BY <1>1, SameLoading
<1>15. \A n \in 1 .. count["memory"] :
          /\ \A r \in DataPlaced(n) : LET t == chosen.data[r[2]][r[3]]
                                      IN t.offset + t.size <= Room(n)
          /\ memories[n] # Null => \A i \in DOMAIN memories[n] : memories[n][i] = CellAt(n, i)
  BY <1>1 DEF LoadInv, DataInv, Placing
<1>17. ASSUME NEW n \in 1 .. count["memory"], n = N
       PROVE  Room(n) <= Room(n)' /\ offset + size <= Room(n)' /\ Room(n) \in Nat /\ Room(n)' \in Nat
  <2>1. Room(n) = IF memories[N] = Null THEN 0 ELSE Len(memories[N])
    BY <1>17 DEF Room
  <2>2. Room(n)' = IF W = Null THEN 0 ELSE Len(W)
    BY <1>8, <1>17 DEF Room
  <2> QED
    BY <1>1, <1>3, <1>4, <1>6, <1>8, <2>1, <2>2, LenProperties
<1>18. ASSUME NEW n \in 1 .. count["memory"], n = N, W # Null, NEW i \in 1 .. Len(W)
       PROVE  W[i] = CellAt(n, i)'
  <2>1. i \in Int /\ memories'[n] = W /\ Retried # Null
    BY <1>6, <1>8, <1>18
  <2>2. CellAt(n, i)' =
          IF i = 1 /\ HostWrote(n) /\ \A r \in DataAt(n, i)' : r[1] < Place(Host) THEN HostByte
          ELSE IF DataAt(n, i)' # {}
               THEN <<LastOf(DataAt(n, i)')[2], LastOf(DataAt(n, i)')[3],
                      i - chosen.data[LastOf(DataAt(n, i)')[2]][LastOf(DataAt(n, i)')[3]].offset>>
               ELSE Given(n, Len(W))[i]
    <3>1. LastOf(DataAt(n, i))' = LastOf(DataAt(n, i)')
      BY DEF LastOf, Later
    <3> QED
      BY <1>1, <1>8, <1>12, <1>14, <1>18, <2>1, <3>1 DEF CellAt
  <2>3. CASE i \in new
    <3> DEFINE S == DataAt(n, i) \cup {s}
    <3>1. DataAt(n, i)' = S /\ s \in S
      BY <1>13, <1>18, <2>1, <2>3
    <3>2. \A r \in DataAt(n, i) : Later(s, r) /\ r[1] \in Nat /\ r[3] \in Nat
      BY <1>3 DEF DataAt
    <3>3. \A r \in S : r[1] \in Nat /\ r[3] \in Nat
      BY <1>3, <1>5, <3>2
    <3>4. \A r \in S \ {s} : Later(s, r)
      BY <3>2
    <3> HIDE DEF S
    <3>5. LastOf(S) = s
      BY <3>1, <3>3, <3>4, LastOfIs
    <3>6. ~(HostWrote(n) /\ s[1] < Place(Host))
      BY <1>3, <1>5
    <3>7. CellAt(n, i)' = <<m, l, i - offset>>
      BY <1>5, <2>2, <3>1, <3>5, <3>6 DEF offset
    <3> QED
      BY <1>6, <2>1, <2>3, <3>7
  <2>4. CASE i \notin new
    <3>1. W[i] = Retried[i] /\ DataAt(n, i)' = DataAt(n, i)
      BY <1>6, <1>13, <1>18, <2>1, <2>4
    <3>2. CASE memories[N] # Null
      <4>1. Retried = memories[n] /\ Len(W) = Len(memories[n]) /\ i \in DOMAIN memories[n]
        <5>1. memories[n] \in Seq(Cells) /\ Retried = memories[n]
          BY <1>4, <1>18, <3>2
        <5> QED
          BY <1>6, <1>18, <2>1, <5>1, LenProperties
      <4>2. memories[n][i] = CellAt(n, i)
        BY <1>15, <1>18, <3>2, <4>1
      <4>3. CellAt(n, i)' = CellAt(n, i)
        BY <2>2, <3>1, <4>1 DEF CellAt
      <4> QED
        BY <3>1, <4>1, <4>2, <4>3
    <3>3. CASE memories[N] = Null
      <4>1. Retried = Given(n, Page) /\ Len(W) = Page /\ offset = 0 /\ size >= 1
        BY <1>4, <1>6, <1>18, <2>1, <3>3
      <4>2. i # 1
        BY <1>3, <2>4, <4>1
      <4>3. DataAt(n, i) = {}
        <5> SUFFICES ASSUME NEW r \in DataAt(n, i) PROVE FALSE
          OBVIOUS
        <5> DEFINE t == chosen.data[r[2]][r[3]]
        <5>1. r \in DataPlaced(n) /\ i \in t.offset + 1 .. t.offset + t.size
          BY DEF DataAt
        <5>2. t.offset \in Nat /\ t.size \in Nat
          BY <1>3, <5>1
        <5>3. t.offset + t.size <= Room(n)
          BY <1>15, <5>1
        <5>4. Room(n) = 0
          BY <1>18, <3>3 DEF Room
        <5> HIDE DEF t
        <5> QED
          BY <2>1, <5>1, <5>2, <5>3, <5>4
      <4> QED
        BY <2>2, <3>1, <4>1, <4>2, <4>3
    <3> QED
      BY <3>2, <3>3
  <2> QED
    BY <2>3, <2>4
<1>19. DataInv'
  <2> SUFFICES ASSUME NEW n \in 1 .. count["memory"]
               PROVE  /\ \A r \in DataPlaced(n)' : LET t == chosen.data[r[2]][r[3]]
                                                   IN t.offset + t.size <= Room(n)'
                      /\ memories'[n] # Null => \A i \in DOMAIN memories'[n] :
                                                   memories'[n][i] = CellAt(n, i)'
    BY <1>1 DEF DataInv
  <2>1. CASE n # N
    <3>1. DataPlaced(n)' = DataPlaced(n) /\ memories'[n] = memories[n]
          /\ (HostWrote(n)' <=> HostWrote(n))
      BY <1>8, <1>10, <1>12, <2>1
    <3> QED
      BY <1>1, <3>1, SameCells
  <2>2. CASE n = N
    <3>1. \A r \in DataPlaced(n)' : LET t == chosen.data[r[2]][r[3]]
                                   IN t.offset + t.size <= Room(n)'
      <4> SUFFICES ASSUME NEW r \in DataPlaced(n)'
                   PROVE  chosen.data[r[2]][r[3]].offset + chosen.data[r[2]][r[3]].size <= Room(n)'
        OBVIOUS
      <4>1. CASE r = s
        BY <1>5, <1>17, <2>2, <4>1 DEF offset, size
      <4>2. CASE r \in DataPlaced(n)
        <5>1. /\ chosen.data[r[2]][r[3]].offset \in Nat /\ chosen.data[r[2]][r[3]].size \in Nat
              /\ chosen.data[r[2]][r[3]].offset + chosen.data[r[2]][r[3]].size <= Room(n)
          BY <1>3, <1>15, <4>2
        <5> QED
          BY <1>17, <2>2, <5>1
      <4> QED
        BY <1>12, <2>2, <4>1, <4>2
    <3>2. memories'[n] = W
      BY <1>8, <2>2
    <3> QED
      BY <1>6, <1>18, <2>2, <3>1, <3>2
  <2> QED
    BY <2>1, <2>2
<1>20. EntriesInv'
  <2>1. ASSUME NEW n PROVE ElementsPlaced(n)' = ElementsPlaced(n)
    <3>1. ElementsPlaced(n)' = ElementsPlaced(n)
             \cup {r \in For(slots["table"][n].what, "table", chosen.elements) :
                      Head(work) = <<"elements", r[2], r[3]>>}
      BY <1>1, PlacedNext
    <3>2. \A r : Head(work) # <<"elements", r[2], r[3]>>
      BY <1>3
    <3> QED
      BY <3>1, <3>2
  <2> QED
    BY <1>1, <2>1, SameEntries
<1> QED
  BY <1>2, <1>11, <1>19, <1>20 DEF LoadInv

\* The same of elements and their table.
LEMMA ElementsTurn ==
  ASSUME LoadInv, Turn("elements")
  PROVE  LET m == Owner
             l == Head(work)[3]
             s == <<Place(m), m, l>>
             N == Slot("table")
         IN /\ m \in Externals /\ l \in DOMAIN chosen.elements[m] /\ l \in Nat
            /\ Head(work) = <<"elements", m, l>> /\ Segment = chosen.elements[m][l]
            /\ Segment.offset \in Nat /\ Segment.values \in Seq(Nat)
            /\ N \in 1 .. count["table"] /\ N \in DOMAIN slots["table"]
            /\ \A n \in 1 .. count["table"] :
                  /\ {r \in For(slots["table"][n].what, "table", chosen.elements) :
                        Head(work) = <<"elements", r[2], r[3]>>} = IF n = N THEN {s} ELSE {}
                  /\ \A r \in ElementsPlaced(n) : /\ Later(s, r) /\ r[1] \in Nat /\ r[3] \in Nat
                                                  /\ chosen.elements[r[2]][r[3]].offset \in Nat
                                                  /\ chosen.elements[r[2]][r[3]].values \in Seq(Nat)
<1> DEFINE m == Owner
           l == Head(work)[3]
           s == <<Place(m), m, l>>
           N == Slot("table")
<1>1. /\ stage = "loading" /\ work # <<>> /\ Head(work)[1] = "elements" /\ LinkInv
  BY DEF Turn, LoadInv
<1>2. /\ HasForm(chosen, env) /\ Legal(chosen) /\ phase = "linked"
      /\ Head(work) \in ItemSet /\ Head(work) \in ToSet(work)
      /\ \A x \in ItemSet \ ToSet(work) : Follows(Head(work), x)
  BY <1>1, AtTurn
<1>3. /\ m \in Externals /\ l \in DOMAIN chosen.elements[m]
      /\ Head(work) = <<"elements", m, l>> /\ Segment = chosen.elements[m][l]
  BY <1>1, <1>2, ItemIs DEF Owner, Segment
<1>4. \A e \in Externals : \A i \in DOMAIN chosen.elements[e] :
         i \in Nat /\ chosen.elements[e][i] \in [of : Nat, offset : Nat, values : Seq(Nat)]
  BY <1>2, SegmentsAre
<1>5. Segment.offset \in Nat /\ Segment.values \in Seq(Nat) /\ l \in Nat
  BY <1>3, <1>4
<1>6. Segment.of \in DOMAIN env.index[m]["table"]
  BY <1>2, <1>3 DEF Legal
<1>7. /\ N \in 1 .. count["table"] /\ N \in DOMAIN slots["table"]
      /\ slots["table"][N].what = Denotes(<<"own", m, "table", Segment.of>>)
  BY <1>1, <1>2, <1>3, <1>6, SlotOf DEF Limited, Slot
<1> HIDE DEF N, m, l
<1>8. ASSUME NEW n \in 1 .. count["table"]
      PROVE  {r \in For(slots["table"][n].what, "table", chosen.elements) :
                Head(work) = <<"elements", r[2], r[3]>>} = IF n = N THEN {s} ELSE {}
  <2>1. ASSUME NEW r \in For(slots["table"][n].what, "table", chosen.elements),
               Head(work) = <<"elements", r[2], r[3]>>
        PROVE  r = s /\ n = N
    <3>1. r[2] = m /\ r[3] = l
      BY <1>3, <2>1
    <3>2. /\ r = <<Place(r[2]), r[2], r[3]>>
          /\ Denotes(<<"own", r[2], "table", chosen.elements[r[2]][r[3]].of>>) = slots["table"][n].what
      BY ForPlaces
    <3>3. slots["table"][n].what = slots["table"][N].what
      BY <1>3, <1>7, <3>1, <3>2
    <3> QED
      BY <1>7, <3>1, <3>2, <3>3, SlotsInUse DEF Limited
  <2>2. s \in For(slots["table"][N].what, "table", chosen.elements) /\ Head(work) = <<"elements", s[2], s[3]>>
    <3>1. Head(work) = <<"elements", s[2], s[3]>>
      BY <1>3
    <3> QED
      BY <1>3, <1>7, <3>1, ForIs
  <2> HIDE DEF s
  <2> QED
    BY <2>1, <2>2
<1>9. ASSUME NEW n \in 1 .. count["table"], NEW r \in ElementsPlaced(n)
      PROVE  /\ Later(s, r) /\ r[1] \in Nat /\ r[3] \in Nat
             /\ chosen.elements[r[2]][r[3]].offset \in Nat
             /\ chosen.elements[r[2]][r[3]].values \in Seq(Nat)
  <2>1. r \in For(slots["table"][n].what, "table", chosen.elements) /\ <<"elements", r[2], r[3]>> \notin ToSet(work)
    BY DEF ElementsPlaced
  <2>2. r[1] = Place(r[2]) /\ r[1] \in Nat /\ r[2] \in Externals /\ r[3] \in DOMAIN chosen.elements[r[2]]
    <3> DEFINE d == slots["table"][n].what
    <3>1. r \in For(d, "table", chosen.elements)
      BY <2>1
    <3> HIDE DEF d
    <3>2. /\ r = <<Place(r[2]), r[2], r[3]>> /\ r[1] = Place(r[2]) /\ r[1] \in Nat
          /\ r[2] \in Externals /\ r[3] \in DOMAIN chosen.elements[r[2]]
          /\ Denotes(<<"own", r[2], "table", chosen.elements[r[2]][r[3]].of>>) = d
      BY <3>1, ForPlaces
    <3> QED
      BY <3>2
  <2>3. r[3] \in Nat /\ chosen.elements[r[2]][r[3]] \in [of : Nat, offset : Nat, values : Seq(Nat)]
    BY <1>4, <2>2
  <2>4. Follows(Head(work), <<"elements", r[2], r[3]>>)
    BY <1>2, <2>1, <2>2, InItems
  <2>5. Place(r[2]) < Place(m) \/ (r[2] = m /\ r[3] < l)
    BY <1>3, <2>4 DEF Follows
  <2>6. Later(s, r)
    BY <2>2, <2>3, <2>5, <1>5, <1>3, PlaceIs DEF Later
  <2> QED
    BY <2>2, <2>3, <2>6
<1> QED
  BY <1>3, <1>5, <1>7, <1>8, <1>9 DEF N, m, l

\* A segment of elements that fits is copied into its table, and nothing else changes.
LEMMA EmplaceElementsLoads ==
  ASSUME LoadInv, EmplaceElements
  PROVE  LoadInv'
<1> DEFINE m == Owner
           l == Head(work)[3]
           s == <<Place(m), m, l>>
           N == Slot("table")
           offset == Segment.offset
           values == Segment.values
           R == Resized
           W == Overwritten(R, offset, values)
           new == offset + 1 .. offset + Len(values)
<1>1. /\ Turn("elements") /\ stage = "loading" /\ work # <<>> /\ Head(work)[1] = "elements"
      /\ UNCHANGED <<vars, stage, chosen>> /\ UNCHANGED <<vars, chosen>>
      /\ work' = Tail(work) /\ memories' = memories
      /\ slots' = slots /\ count' = count /\ chosen' = chosen /\ stage' = stage
      /\ tables' = [tables EXCEPT ![N] = W]
      /\ offset + Len(values) <= Len(R)
  BY DEF EmplaceElements, Turn, vars, ElementsFit
<1>2. LinkInv' /\ HostKinds' /\ StageInv' /\ WorkInv' /\ InitFailsForCause'
  BY <1>1, WorkKept
<1>3. /\ m \in Externals /\ l \in DOMAIN chosen.elements[m] /\ l \in Nat
      /\ Head(work) = <<"elements", m, l>> /\ Segment = chosen.elements[m][l]
      /\ offset \in Nat /\ values \in Seq(Nat)
      /\ N \in 1 .. count["table"] /\ N \in DOMAIN slots["table"]
      /\ \A n \in 1 .. count["table"] :
            /\ {r \in For(slots["table"][n].what, "table", chosen.elements) :
                  Head(work) = <<"elements", r[2], r[3]>>} = IF n = N THEN {s} ELSE {}
            /\ \A r \in ElementsPlaced(n) : /\ Later(s, r) /\ r[1] \in Nat /\ r[3] \in Nat
                                            /\ chosen.elements[r[2]][r[3]].offset \in Nat
                                            /\ chosen.elements[r[2]][r[3]].values \in Seq(Nat)
  BY <1>1, ElementsTurn
<1>4. /\ tables \in [DOMAIN slots["table"] -> Seq(Nat)]
      /\ \A n \in DOMAIN tables : Initial("table", n) > 0 => Len(tables[n]) = Initial("table", n)
      /\ memories \in [DOMAIN slots["memory"] -> Seq(Cells) \cup {Null}]
      /\ \A n \in DOMAIN memories :
            \/ memories[n] # Null /\ Len(memories[n]) = SizeOf(n)
            \/ /\ SizeOf(n) = 0 /\ chosen.provider = "strict"
               /\ memories[n] # Null => Len(memories[n]) = Page
  BY <1>1 DEF LoadInv, ShapeInv
<1>5. chosen.elements[s[2]][s[3]] = Segment /\ s[1] = Place(m) /\ s[3] = l /\ Place(m) \in Nat
      /\ s[2] = m
  BY <1>3, PlaceIs
<1>6. R = IF tables[N] = <<>> /\ offset = 0 THEN [i \in DOMAIN values |-> Invalid] ELSE tables[N]
  BY DEF Resized
<1> HIDE DEF m, l, N, s, offset, values, R, W
<1>7. DOMAIN values = 1 .. Len(values) /\ Len(values) \in Nat
  BY <1>3, LenProperties
<1>8. /\ R \in Seq(Nat)
      /\ tables[N] # <<>> => R = tables[N]
      /\ tables[N] = <<>> => /\ R \in {<<>>, [i \in 1 .. Len(values) |-> Invalid]}
                             /\ \A i \in 1 .. Len(R) : R[i] = Invalid
  <2>1. tables[N] \in Seq(Nat)
    BY <1>3, <1>4
  <2> DEFINE L == Len(values)
             Z == [i \in 1 .. L |-> Invalid]
  <2>2. L \in Nat /\ Z \in [1 .. L -> Nat]
    BY <1>7 DEF Invalid
  <2> HIDE DEF L
  <2>3. Z \in Seq(Nat) /\ Len(Z) = L
    <3> HIDE DEF Z
    <3> QED BY <2>2, FunctionIsSeq
  <2>4. \A i \in 1 .. L : Z[i] = Invalid
    OBVIOUS
  <2>5. R = IF tables[N] = <<>> /\ offset = 0 THEN Z ELSE tables[N]
    BY <1>6, <1>7 DEF L
  <2> HIDE DEF Z
  <2>6. Len(<<>>) = 0
    OBVIOUS
  <2>7. \A i \in 1 .. Len(R) : tables[N] = <<>> => R[i] = Invalid
    BY <2>3, <2>4, <2>5, <2>6
  <2> QED
    BY <2>1, <2>3, <2>5, <2>7 DEF Z, L
<1>9. /\ W \in Seq(Nat) /\ Len(W) = Len(R) /\ Len(R) \in Nat /\ DOMAIN W = 1 .. Len(R)
      /\ \A i \in 1 .. Len(R) : W[i] = IF i \in new THEN values[i - offset] ELSE R[i]
  <2>1. /\ W \in Seq(Nat) /\ Len(W) = Len(R)
        /\ \A i \in 1 .. Len(R) : W[i] = IF i \in new THEN values[i - offset] ELSE R[i]
    BY <1>1, <1>3, <1>8, OverwrittenIs DEF W
  <2> QED
    BY <1>8, <2>1, LenProperties
<1>10. tables'[N] = W /\ \A n \in DOMAIN tables : n # N => tables'[n] = tables[n]
  BY <1>1, <1>3, <1>4
<1>11. DOMAIN tables' = DOMAIN tables /\ DOMAIN tables = DOMAIN slots["table"]
  BY <1>1, <1>4
<1>12. \A n \in 1 .. count["table"] : n \in DOMAIN tables
  BY <1>11, SlotsInUse DEF Limited
<1>13. ShapeInv'
  <2>1. tables' \in [DOMAIN slots["table"] -> Seq(Nat)]
    BY <1>1, <1>4, <1>9
  <2>2. \A k, n : Initial(k, n)' = Initial(k, n) /\ SizeOf(n)' = SizeOf(n)
    BY <1>1, SameLoading
  <2>3. \A n \in DOMAIN tables' : Initial("table", n) > 0 => Len(tables'[n]) = Initial("table", n)
    <3> TAKE n \in DOMAIN tables'
    <3>1. CASE n # N
      BY <1>4, <1>10, <1>11, <3>1
    <3>2. CASE n = N
      <4>1. tables[N] = <<>> => ~(Initial("table", N) > 0)
        <5>1. Len(<<>>) = 0
          OBVIOUS
        <5> QED
          BY <1>3, <1>4, <1>11, <5>1
      <4> QED
        BY <1>4, <1>8, <1>9, <1>10, <1>11, <3>2, <4>1
    <3> QED
      BY <3>1, <3>2
  <2> QED
    BY <1>1, <1>4, <2>1, <2>2, <2>3 DEF ShapeInv
<1>14. \A n \in 1 .. count["table"] :
          ElementsPlaced(n)' = IF n = N THEN ElementsPlaced(n) \cup {s} ELSE ElementsPlaced(n)
  <2> TAKE n \in 1 .. count["table"]
  <2>1. ElementsPlaced(n)' = ElementsPlaced(n)
           \cup {r \in For(slots["table"][n].what, "table", chosen.elements) :
                    Head(work) = <<"elements", r[2], r[3]>>}
    BY <1>1, PlacedNext
  <2>2. ElementsPlaced(n)' = ElementsPlaced(n) \cup IF n = N THEN {s} ELSE {}
    BY <1>3, <2>1
  <2> QED
    BY <2>2
<1>15. \A n \in 1 .. count["table"] : \A i \in Int :
          ElementsAt(n, i)' = IF n = N /\ i \in new THEN ElementsAt(n, i) \cup {s} ELSE ElementsAt(n, i)
  <2> TAKE n \in 1 .. count["table"]
  <2> TAKE i \in Int
  <2>1. i - chosen.elements[s[2]][s[3]].offset \in DOMAIN chosen.elements[s[2]][s[3]].values <=> i \in new
    <3>1. i - offset \in DOMAIN values <=> i \in new
      BY <1>3, <1>7
    <3> QED
      BY <1>5, <3>1 DEF offset, values
  <2>2. ElementsAt(n, i)' = {r \in ElementsPlaced(n)' : LET t == chosen.elements[r[2]][r[3]]
                                                       IN i - t.offset \in DOMAIN t.values}
    BY <1>1 DEF ElementsAt
  <2>3. CASE n = N
    BY <1>14, <2>1, <2>2, <2>3 DEF ElementsAt
  <2>4. CASE n # N
    BY <1>14, <2>2, <2>4 DEF ElementsAt
  <2> QED
    BY <2>3, <2>4
<1>16. \A n \in 1 .. count["table"] :
          /\ \A r \in ElementsPlaced(n) : LET t == chosen.elements[r[2]][r[3]]
                                          IN t.offset + Len(t.values) <= Len(tables[n])
          /\ \A i \in DOMAIN tables[n] : tables[n][i] = EntryAt(n, i)
  BY <1>1 DEF LoadInv, EntriesInv, Placing
<1>17. ASSUME NEW n \in 1 .. count["table"], n = N, NEW i \in 1 .. Len(W)
       PROVE  W[i] = EntryAt(n, i)'
  <2>1. i \in Int
    BY <1>9
  <2>2. EntryAt(n, i)' =
          IF ElementsAt(n, i)' = {} THEN Invalid
          ELSE chosen.elements[LastOf(ElementsAt(n, i)')[2]][LastOf(ElementsAt(n, i)')[3]].values[
                 i - chosen.elements[LastOf(ElementsAt(n, i)')[2]][LastOf(ElementsAt(n, i)')[3]].offset]
    <3>1. LastOf(ElementsAt(n, i))' = LastOf(ElementsAt(n, i)')
      BY DEF LastOf, Later
    <3> QED
      BY <1>1, <3>1 DEF EntryAt
  <2>3. CASE i \in new
    <3> DEFINE S == ElementsAt(n, i) \cup {s}
    <3>1. ElementsAt(n, i)' = S /\ s \in S
      BY <1>15, <1>17, <2>1, <2>3
    <3>2. \A r \in ElementsAt(n, i) : Later(s, r) /\ r[1] \in Nat /\ r[3] \in Nat
      BY <1>3 DEF ElementsAt
    <3>3. \A r \in S : r[1] \in Nat /\ r[3] \in Nat
      BY <1>3, <1>5, <3>2
    <3>4. \A r \in S \ {s} : Later(s, r)
      BY <3>2
    <3> HIDE DEF S
    <3>5. LastOf(S) = s
      BY <3>1, <3>3, <3>4, LastOfIs
    <3>6. EntryAt(n, i)' = values[i - offset]
      BY <1>5, <2>2, <3>1, <3>5 DEF offset, values
    <3> QED
      BY <1>9, <2>3, <3>6
  <2>4. CASE i \notin new
    <3>1. W[i] = R[i] /\ ElementsAt(n, i)' = ElementsAt(n, i)
      BY <1>9, <1>15, <1>17, <2>1, <2>4
    <3>2. EntryAt(n, i)' = EntryAt(n, i)
      BY <2>2, <3>1 DEF EntryAt
    <3>3. CASE tables[N] # <<>>
      <4>1. R = tables[n] /\ i \in DOMAIN tables[n]
        BY <1>8, <1>9, <1>17, <3>3, LenProperties
      <4> QED
        BY <1>16, <3>1, <3>2, <4>1
    <3>4. CASE tables[N] = <<>>
      <4>1. W[i] = Invalid
        BY <1>8, <1>9, <3>1, <3>4
      <4>2. ElementsAt(n, i) = {}
        <5> SUFFICES ASSUME NEW r \in ElementsAt(n, i) PROVE FALSE
          OBVIOUS
        <5> DEFINE t == chosen.elements[r[2]][r[3]]
        <5>1. r \in ElementsPlaced(n) /\ i - t.offset \in DOMAIN t.values
          BY DEF ElementsAt
        <5>2. t.offset \in Nat /\ t.values \in Seq(Nat)
          BY <1>3, <5>1
        <5>3. t.offset + Len(t.values) <= Len(tables[n])
          BY <1>16, <5>1
        <5>4. Len(tables[n]) = 0
          BY <1>17, <3>4
        <5> HIDE DEF t
        <5>5. Len(t.values) \in Nat /\ DOMAIN t.values = 1 .. Len(t.values)
          BY <5>2, LenProperties
        <5> QED
          BY <2>1, <5>1, <5>2, <5>3, <5>4, <5>5
      <4>3. EntryAt(n, i) = Invalid
        BY <4>2 DEF EntryAt
      <4> QED
        BY <3>2, <4>1, <4>3
    <3> QED
      BY <3>3, <3>4
  <2> QED
    BY <2>3, <2>4
<1>18. EntriesInv'
  <2> SUFFICES ASSUME NEW n \in 1 .. count["table"]
               PROVE  /\ \A r \in ElementsPlaced(n)' : LET t == chosen.elements[r[2]][r[3]]
                                                       IN t.offset + Len(t.values) <= Len(tables'[n])
                      /\ \A i \in DOMAIN tables'[n] : tables'[n][i] = EntryAt(n, i)'
    BY <1>1 DEF EntriesInv
  <2>1. CASE n # N
    <3>1. ElementsPlaced(n)' = ElementsPlaced(n) /\ tables'[n] = tables[n]
      BY <1>10, <1>12, <1>14, <2>1
    <3>2. \A i : ElementsAt(n, i)' = ElementsAt(n, i)
      BY <1>1, <3>1 DEF ElementsAt
    <3>3. \A i : EntryAt(n, i)' = EntryAt(n, i)
      <4> TAKE i
      <4>1. LastOf(ElementsAt(n, i))' = LastOf(ElementsAt(n, i))
        BY <3>2 DEF LastOf, Later
      <4> QED
        BY <1>1, <3>2, <4>1 DEF EntryAt
    <3> QED
      BY <1>16, <3>1, <3>3
  <2>2. CASE n = N
    <3>0. tables'[n] = W
      BY <1>10, <2>2
    <3>1. ASSUME NEW r \in ElementsPlaced(n)'
          PROVE  chosen.elements[r[2]][r[3]].offset + Len(chosen.elements[r[2]][r[3]].values) <= Len(W)
      <4>1. CASE r = s
        BY <1>1, <1>5, <1>9, <4>1 DEF offset, values
      <4>2. CASE r \in ElementsPlaced(n)
        <5> DEFINE t == chosen.elements[r[2]][r[3]]
        <5>1. /\ t.offset \in Nat /\ t.values \in Seq(Nat)
              /\ t.offset + Len(t.values) <= Len(tables[n])
          BY <1>3, <1>16, <4>2
        <5>2. Len(tables[n]) <= Len(W)
          <6>1. CASE tables[N] = <<>>
            <7>1. Len(tables[n]) = 0
              BY <2>2, <6>1
            <7> QED
              BY <1>9, <7>1
          <6>2. CASE tables[N] # <<>>
            BY <1>8, <1>9, <2>2, <6>2
          <6> QED
            BY <6>1, <6>2
        <5>3. Len(t.values) \in Nat /\ Len(tables[n]) \in Nat /\ Len(W) \in Nat
          BY <1>4, <1>9, <1>12, <5>1, LenProperties
        <5> HIDE DEF t
        <5>4. t.offset + Len(t.values) <= Len(W)
          BY <5>1, <5>2, <5>3
        <5> QED
          BY <5>4 DEF t
      <4> QED
        BY <1>14, <2>2, <4>1, <4>2
    <3> QED
      BY <1>9, <1>17, <2>2, <3>0, <3>1
  <2> QED
    BY <2>1, <2>2
<1>19. DataInv'
  <2> SUFFICES ASSUME NEW n \in 1 .. count["memory"]
               PROVE  DataPlaced(n)' = DataPlaced(n) /\ (HostWrote(n)' <=> HostWrote(n))
    BY <1>1, SameCells DEF DataInv
  <2>1. DataPlaced(n)' = DataPlaced(n)
           \cup {r \in For(slots["memory"][n].what, "memory", chosen.data) :
                    Head(work) = <<"data", r[2], r[3]>>}
    BY <1>1, PlacedNext
  <2>2. \A r : Head(work) # <<"data", r[2], r[3]>>
    BY <1>3
  <2>3. HostWrote(n)' <=> HostWrote(n)
    BY <1>1, <1>3, PlacedNext
  <2> QED
    BY <2>1, <2>2, <2>3
<1> QED
  BY <1>2, <1>13, <1>18, <1>19 DEF LoadInv

\* The policy is asked for an object of the host after all that is before it; it writes
\* into the memory that it has provided for this field and into no other.
LEMMA InitHostLoads ==
  ASSUME LoadInv, InitHost
  PROVE  LoadInv'
<1> DEFINE f == Head(work)[3]
           N == space[Host]["memory"][Exports.index][3]
           writes == Answer = "writes" /\ Exports.kind = "memory"
           into == writes /\ memories[N] \notin {Null, <<>>}
<1>1. /\ Turn("host") /\ stage = "loading" /\ work # <<>> /\ Head(work)[1] = "host"
      /\ UNCHANGED <<vars, stage, chosen>> /\ UNCHANGED <<vars, chosen>>
      /\ work' = Tail(work) /\ tables' = tables
      /\ slots' = slots /\ count' = count /\ chosen' = chosen /\ stage' = stage
      /\ memories' = IF into THEN [memories EXCEPT ![N][1] = HostByte] ELSE memories
  <2>1. memories' = IF writes
                    THEN IF memories[N] \in {Null, <<>>} THEN memories
                         ELSE [memories EXCEPT ![N][1] = HostByte]
                    ELSE memories
    BY DEF InitHost
  <2>2. memories' = IF into THEN [memories EXCEPT ![N][1] = HostByte] ELSE memories
    <3> HIDE DEF N, writes
    <3> QED BY <2>1
  <2> QED
    BY <2>2 DEF InitHost, Turn, vars
<1>2. LinkInv' /\ HostKinds' /\ StageInv' /\ WorkInv' /\ InitFailsForCause'
  BY <1>1, WorkKept
<1>3. /\ HasForm(chosen, env) /\ phase = "linked" /\ LinkInv /\ HostKinds
      /\ Head(work) \in ItemSet /\ Head(work) \in ToSet(work)
      /\ \A x \in ItemSet \ ToSet(work) : Follows(Head(work), x)
  BY <1>1, AtTurn DEF LoadInv
<1>4. Head(work) = <<"host", Host, f>> /\ f \in Served /\ Exports = exports[Host][f]
  BY <1>1, <1>3, ItemIs DEF Exports
<1>5. Exports.kind = "memory" => N \in 1 .. count["memory"] /\ slots["memory"][N].what = <<"policy", "memory", f>>
  BY <1>3, <1>4, HostSlots DEF Limited
<1>6. ASSUME NEW n \in 1 .. count["memory"], slots["memory"][n].what[1] = "policy",
             Head(work) = <<"host", Host, slots["memory"][n].what[3]>>
      PROVE  Exports.kind = "memory" /\ n = N
  <2>1. slots["memory"][n].what[3] = f
    BY <1>4, <1>6
  <2> DEFINE g == slots["memory"][n].what[3]
  <2> HIDE DEF N, f
  <2>2. slots["memory"][n].what = <<"policy", "memory", g>> /\ exports[Host][g].kind = "memory"
    BY <1>3, <1>6, HostSlots DEF Limited
  <2> QED
    BY <1>4, <1>5, <2>1, <2>2, SlotsInUse DEF Limited
<1>7. Exports.kind = "memory" => Answer = chosen.memoryInit
  BY DEF Answer
<1> HIDE DEF f, N
<1>8. ASSUME NEW n \in 1 .. count["memory"]
      PROVE  /\ DataPlaced(n)' = DataPlaced(n)
             /\ n # N \/ ~writes => (HostWrote(n)' <=> HostWrote(n))
  <2>1. DataPlaced(n)' = DataPlaced(n)
           \cup {r \in For(slots["memory"][n].what, "memory", chosen.data) :
                    Head(work) = <<"data", r[2], r[3]>>}
    BY <1>1, PlacedNext
  <2>2. \A r : Head(work) # <<"data", r[2], r[3]>>
    BY <1>4
  <2>3. HostWrote(n)' <=> \/ HostWrote(n)
                          \/ LET d == slots["memory"][n].what
                             IN d[1] = "policy" /\ Head(work) = <<"host", Host, d[3]>>
                                /\ chosen.memoryInit = "writes"
    BY <1>1, PlacedNext
  <2> QED
    BY <1>6, <1>7, <2>1, <2>2, <2>3
<1>9. /\ memories \in [DOMAIN slots["memory"] -> Seq(Cells) \cup {Null}]
      /\ tables \in [DOMAIN slots["table"] -> Seq(Nat)]
      /\ \A n \in DOMAIN memories :
            \/ memories[n] # Null /\ Len(memories[n]) = SizeOf(n)
            \/ /\ SizeOf(n) = 0 /\ chosen.provider = "strict"
               /\ memories[n] # Null => Len(memories[n]) = Page
      /\ \A n \in DOMAIN tables : Initial("table", n) > 0 => Len(tables[n]) = Initial("table", n)
  BY <1>1 DEF LoadInv, ShapeInv
<1>10. \A n \in 1 .. count["memory"] : n \in DOMAIN memories
  BY <1>9, SlotsInUse DEF Limited
<1>11. into => /\ N \in 1 .. count["memory"] /\ N \in DOMAIN memories
               /\ memories[N] \in Seq(Cells) /\ memories[N] # Null /\ 1 \in DOMAIN memories[N]
               /\ Len(memories[N]) \in Nat /\ DOMAIN memories[N] = 1 .. Len(memories[N])
  <2> SUFFICES ASSUME into
               PROVE  /\ N \in 1 .. count["memory"] /\ N \in DOMAIN memories
                      /\ memories[N] \in Seq(Cells) /\ memories[N] # Null /\ 1 \in DOMAIN memories[N]
                      /\ Len(memories[N]) \in Nat /\ DOMAIN memories[N] = 1 .. Len(memories[N])
    OBVIOUS
  <2>1. N \in 1 .. count["memory"] /\ N \in DOMAIN memories
    BY <1>5, <1>10
  <2>2. memories[N] \in Seq(Cells) /\ memories[N] # <<>> /\ memories[N] # Null
    BY <1>9, <2>1
  <2> DEFINE c == memories[N]
  <2> HIDE DEF c
  <2>3. c \in Seq(Cells) /\ c # <<>>
    BY <2>2 DEF c
  <2>4. Len(c) \in Nat /\ DOMAIN c = 1 .. Len(c) /\ Len(c) # 0
    BY <2>3, LenProperties, EmptySeq
  <2> QED
    BY <2>1, <2>2, <2>4 DEF c
<1>12. into => /\ memories'[N] \in Seq(Cells) /\ memories'[N] # Null
               /\ Len(memories'[N]) = Len(memories[N])
               /\ DOMAIN memories'[N] = DOMAIN memories[N]
               /\ memories'[N][1] = HostByte
               /\ \A i \in DOMAIN memories[N] : i # 1 => memories'[N][i] = memories[N][i]
  <2> SUFFICES ASSUME into
               PROVE  /\ memories'[N] \in Seq(Cells) /\ memories'[N] # Null
                      /\ Len(memories'[N]) = Len(memories[N])
                      /\ DOMAIN memories'[N] = DOMAIN memories[N]
                      /\ memories'[N][1] = HostByte
                      /\ \A i \in DOMAIN memories[N] : i # 1 => memories'[N][i] = memories[N][i]
    OBVIOUS
  <2> DEFINE c == memories[N]
             b == [c EXCEPT ![1] = HostByte]
             L == Len(c)
  <2>1. memories'[N] = b
    BY <1>1, <1>11
  <2>2. c \in Seq(Cells) /\ 1 \in DOMAIN c /\ L \in Nat /\ DOMAIN c = 1 .. L
    BY <1>11
  <2> HIDE DEF c, L
  <2>3. HostByte \in Cells /\ \A i \in 1 .. L : c[i] \in Cells
    BY <2>2, ElementOfSeq DEF Cells, L
  <2>4. /\ b \in [1 .. L -> Cells] /\ DOMAIN b = DOMAIN c /\ b[1] = HostByte
        /\ \A i \in DOMAIN c : i # 1 => b[i] = c[i]
    <3>1. c \in [1 .. L -> Cells]
      BY <2>2, LenProperties DEF L
    <3> QED
      BY <2>2, <2>3, <3>1
  <2> HIDE DEF b
  <2>5. b \in Seq(Cells) /\ Len(b) = L
    BY <2>2, <2>4, FunctionIsSeq
  <2> QED
    BY <2>1, <2>4, <2>5, NoDataAssumption DEF c, L
<1>13. /\ DOMAIN memories' = DOMAIN memories
       /\ memories' \in [DOMAIN slots["memory"] -> Seq(Cells) \cup {Null}]
       /\ \A n \in DOMAIN memories : ~into \/ n # N => memories'[n] = memories[n]
  <2>1. CASE ~into
    BY <1>1, <1>9, <2>1
  <2>2. CASE into
    <3>1. memories' = [memories EXCEPT ![N] = memories'[N]]
      BY <1>1, <1>9, <1>11, <2>2
    <3> DEFINE c == memories'[N]
    <3>2. c \in Seq(Cells)
      BY <1>12, <2>2
    <3>3. memories' = [memories EXCEPT ![N] = c]
      BY <3>1
    <3> HIDE DEF c
    <3> QED
      BY <1>9, <1>11, <2>2, <3>2, <3>3
  <2> QED
    BY <2>1, <2>2
<1>14. ShapeInv'
  <2>1. \A k, n : Initial(k, n)' = Initial(k, n) /\ SizeOf(n)' = SizeOf(n)
    BY <1>1, SameLoading
  <2>2. \A n \in DOMAIN memories' :
          \/ memories'[n] # Null /\ Len(memories'[n]) = SizeOf(n)
          \/ /\ SizeOf(n) = 0 /\ chosen.provider = "strict"
             /\ memories'[n] # Null => Len(memories'[n]) = Page
    <3> TAKE n \in DOMAIN memories'
    <3>1. CASE ~into \/ n # N
      BY <1>9, <1>13, <3>1
    <3>2. CASE into /\ n = N
      BY <1>9, <1>11, <1>12, <1>13, <3>2
    <3> QED
      BY <3>1, <3>2
  <2> QED
    BY <1>1, <1>9, <1>13, <2>1, <2>2 DEF ShapeInv
<1>15. DataInv'
  <2> SUFFICES ASSUME NEW n \in 1 .. count["memory"]
               PROVE  /\ \A r \in DataPlaced(n)' : LET t == chosen.data[r[2]][r[3]]
                                                   IN t.offset + t.size <= Room(n)'
                      /\ memories'[n] # Null => \A i \in DOMAIN memories'[n] :
                                                   memories'[n][i] = CellAt(n, i)'
    BY <1>1 DEF DataInv
  <2>0. DataPlaced(n)' = DataPlaced(n)
    BY <1>8
  <2>1. CASE n # N \/ ~writes
    <3>1. memories'[n] = memories[n] /\ (HostWrote(n)' <=> HostWrote(n))
      BY <1>8, <1>10, <1>13, <2>1
    <3> QED
      BY <1>1, <2>0, <3>1, SameCells
  <2>2. CASE n = N /\ writes
    <3>1. /\ \A r \in DataPlaced(n) : LET t == chosen.data[r[2]][r[3]]
                                      IN t.offset + t.size <= Room(n)
          /\ memories[n] # Null => \A i \in DOMAIN memories[n] : memories[n][i] = CellAt(n, i)
      BY <1>1 DEF LoadInv, DataInv, Placing
    <3>2. Room(n)' = Room(n)
      BY <1>10, <1>12, <1>13, <2>2 DEF Room
    <3>3. \A i : DataAt(n, i)' = DataAt(n, i)
      BY <1>1, <2>0 DEF DataAt
    <3>4. HostWrote(n)'
      <4>1. slots["memory"][n].what = <<"policy", "memory", f>> /\ chosen.memoryInit = "writes"
        BY <1>5, <1>7, <2>2
      <4>2. slots["memory"][n].what[1] = "policy" /\ slots["memory"][n].what[3] = f
        BY <4>1
      <4> QED
        BY <1>1, <1>4, <4>1, <4>2, PlacedNext
    <3>5. \A r \in DataPlaced(n) : r[1] < Place(Host)
      <4> TAKE r \in DataPlaced(n)
      <4>1. r \in For(slots["memory"][n].what, "memory", chosen.data) /\ <<"data", r[2], r[3]>> \notin ToSet(work)
        BY DEF DataPlaced
      <4>2. r[1] = Place(r[2]) /\ r[2] \in Externals /\ r[3] \in DOMAIN chosen.data[r[2]]
        <5> DEFINE d == slots["memory"][n].what
        <5>1. r \in For(d, "memory", chosen.data)
          BY <4>1
        <5> HIDE DEF d
        <5>2. /\ r = <<Place(r[2]), r[2], r[3]>> /\ r[1] = Place(r[2]) /\ r[1] \in Nat
              /\ r[2] \in Externals /\ r[3] \in DOMAIN chosen.data[r[2]]
              /\ Denotes(<<"own", r[2], "memory", chosen.data[r[2]][r[3]].of>>) = d
          BY <5>1, ForPlaces
        <5> QED
          BY <5>2
      <4>3. Follows(Head(work), <<"data", r[2], r[3]>>)
        BY <1>3, <4>1, <4>2, InItems
      <4>4. r[2] # Host
        BY <4>2, PlaceIs
      <4> QED
        BY <1>4, <4>2, <4>3, <4>4 DEF Follows
    <3>6. ASSUME memories'[n] # Null, NEW i \in DOMAIN memories'[n]
          PROVE  memories'[n][i] = CellAt(n, i)'
      <4>1. \A size : Given(n, size)' = Given(n, size)
        BY <1>1, SameLoading
      <4>2. \A j : LastOf(DataAt(n, j))' = LastOf(DataAt(n, j))
        BY <3>3 DEF LastOf, Later
      <4>3. CASE ~into
        <5>1. memories[n] = <<>>
          BY <1>10, <1>13, <2>2, <3>6, <4>3
        <5>2. DOMAIN memories'[n] = {}
          BY <1>10, <1>13, <4>3, <5>1
        <5> QED
          BY <3>6, <5>2
      <4>4. CASE into /\ i = 1
        <5>1. \A r \in DataAt(n, i)' : r[1] < Place(Host)
          BY <3>3, <3>5 DEF DataAt
        <5>2. CellAt(n, i)' = HostByte
          BY <1>1, <3>4, <4>4, <5>1 DEF CellAt, HostByte
        <5> QED
          BY <1>12, <2>2, <4>4, <5>2
      <4>5. CASE into /\ i # 1
        <5>1. /\ memories[n] # Null /\ i \in DOMAIN memories[n]
              /\ Len(memories'[n]) = Len(memories[n]) /\ memories'[n][i] = memories[n][i]
          BY <1>11, <1>12, <2>2, <4>5
        <5>2. CellAt(n, i)' = CellAt(n, i)
          BY <1>1, <3>3, <4>1, <4>2, <4>5, <5>1 DEF CellAt
        <5> QED
          BY <3>1, <5>1, <5>2
      <4> QED
        BY <4>3, <4>4, <4>5
    <3> QED
      BY <2>0, <3>1, <3>2, <3>6
  <2> QED
    BY <2>1, <2>2
<1>16. EntriesInv'
  <2>1. ASSUME NEW n PROVE ElementsPlaced(n)' = ElementsPlaced(n)
    <3>1. ElementsPlaced(n)' = ElementsPlaced(n)
             \cup {r \in For(slots["table"][n].what, "table", chosen.elements) :
                      Head(work) = <<"elements", r[2], r[3]>>}
      BY <1>1, PlacedNext
    <3>2. \A r : Head(work) # <<"elements", r[2], r[3]>>
      BY <1>4
    <3> QED
      BY <3>1, <3>2
  <2> QED
    BY <1>1, <2>1, SameEntries
<1> QED
  BY <1>2, <1>14, <1>15, <1>16 DEF LoadInv

\* What does not fit is too large for the pages or entries there are to be.
LEMMA FailsLoads ==
  ASSUME LoadInv, LoadFails
  PROVE  LoadInv'
<1>1. /\ stage = "loading" /\ work # <<>> /\ UNCHANGED <<vars, chosen>> /\ stage' = "failed"
      /\ tables' = tables /\ slots' = slots /\ count' = count /\ chosen' = chosen
      /\ memories' = IF Head(work)[1] = "data"
                     THEN [memories EXCEPT ![Slot("memory")] = Retried] ELSE memories
      /\ \/ Turn("data") /\ ~DataFits
         \/ Turn("elements") /\ ~ElementsFit
         \/ Turn("host") /\ Answer = "refuses"
  BY DEF LoadFails, Turn, vars
<1>2. LinkInv' /\ HostKinds' /\ FailsForCause' /\ LinkInv
  BY <1>1, NextLinks, HostKindsKept DEF LoadInv, LinkInv
<1>3. StageInv' /\ WorkInv' /\ DataInv' /\ EntriesInv'
  BY <1>1 DEF LoadInv, StageInv, Legal, vars, WorkInv, DataInv, EntriesInv, Placing
<1>4. /\ memories \in [DOMAIN slots["memory"] -> Seq(Cells) \cup {Null}]
      /\ tables \in [DOMAIN slots["table"] -> Seq(Nat)]
      /\ \A n \in DOMAIN memories :
            \/ memories[n] # Null /\ Len(memories[n]) = SizeOf(n)
            \/ /\ SizeOf(n) = 0 /\ chosen.provider = "strict"
               /\ memories[n] # Null => Len(memories[n]) = Page
      /\ \A n \in DOMAIN tables : Initial("table", n) > 0 => Len(tables[n]) = Initial("table", n)
  BY <1>1 DEF LoadInv, ShapeInv
<1>5. \A k, n : /\ Initial(k, n)' = Initial(k, n) /\ SizeOf(n)' = SizeOf(n)
  BY <1>1, SameLoading
<1>6. ShapeInv'
  <2>1. CASE Head(work)[1] = "data"
    <3> DEFINE N == Slot("memory")
    <3>1. Turn("data")
      BY <1>1, <2>1 DEF Turn
    <3>2. N \in DOMAIN slots["memory"]
      BY <3>1, DataTurn
    <3>3. /\ memories[N] # Null => Retried = memories[N] /\ Retried \in Seq(Cells)
          /\ memories[N] = Null =>
                /\ SizeOf(N) = 0 /\ chosen.provider = "strict"
                /\ \/ Retried = Null
                   \/ Retried \in Seq(Cells) /\ Len(Retried) = Page
      BY <3>1, RetriedIs
    <3>4. memories' = [memories EXCEPT ![N] = Retried]
      BY <1>1, <2>1
    <3> HIDE DEF N
    <3>5. memories' \in [DOMAIN slots["memory"] -> Seq(Cells) \cup {Null}] /\ DOMAIN memories' = DOMAIN memories
      BY <1>4, <3>2, <3>3, <3>4
    <3>6. \A n \in DOMAIN memories' :
            \/ memories'[n] # Null /\ Len(memories'[n]) = SizeOf(n)
            \/ /\ SizeOf(n) = 0 /\ chosen.provider = "strict"
               /\ memories'[n] # Null => Len(memories'[n]) = Page
      BY <1>4, <3>2, <3>3, <3>4, <3>5
    <3> QED
      BY <1>1, <1>4, <1>5, <3>5, <3>6 DEF ShapeInv
  <2>2. CASE Head(work)[1] # "data"
    BY <1>1, <1>4, <1>5, <2>2 DEF ShapeInv
  <2> QED
    BY <2>1, <2>2
<1>7. \/ \E n \in 1 .. count["memory"] : \E s \in For(slots["memory"][n].what, "memory", chosen.data) :
            LET t == chosen.data[s[2]][s[3]]
            IN \/ t.offset + t.size > Initial("memory", n) * Page
               \/ Initial("memory", n) >= MaxPages
      \/ \E n \in 1 .. count["table"] : \E s \in For(slots["table"][n].what, "table", chosen.elements) :
            LET t == chosen.elements[s[2]][s[3]]
            IN t.offset + Len(t.values) > Initial("table", n)
      \/ "refuses" \in {chosen.memoryInit, chosen.tableInit}
  <2>1. CASE Turn("data") /\ ~DataFits
    <3> DEFINE N == Slot("memory")
               s == <<Place(Owner), Owner, Head(work)[3]>>
               t == Segment
               I == Initial("memory", N)
               room == IF Retried = Null THEN 0 ELSE Len(Retried)
    <3>1. /\ N \in 1 .. count["memory"] /\ N \in DOMAIN slots["memory"]
          /\ s \in For(slots["memory"][N].what, "memory", chosen.data)
          /\ chosen.data[s[2]][s[3]] = t
          /\ t.offset \in Nat /\ t.size \in Nat
      BY <2>1, DataTurn
    <3>2. I \in Nat
      BY <1>2, <3>1, InitialIs DEF Limited
    <3>3. ~(t.offset + t.size <= room)
      BY <2>1 DEF DataFits
    <3>4. room \in Nat /\ (room = SizeOf(N) \/ SizeOf(N) = 0)
      <4>1. /\ memories[N] # Null => Retried = memories[N] /\ Retried \in Seq(Cells)
            /\ memories[N] = Null => SizeOf(N) = 0 /\ (Retried = Null \/ Retried \in Seq(Cells))
        BY <2>1, RetriedIs
      <4>2. \/ memories[N] # Null /\ Len(memories[N]) = SizeOf(N)
            \/ SizeOf(N) = 0
        BY <1>4, <3>1
      <4> HIDE DEF N
      <4> QED
        BY <4>1, <4>2, LenProperties
    <3>5. /\ I < MaxPages => SizeOf(N) = I * Page
          /\ Page \in Nat /\ MaxPages \in Nat
      BY <3>2, BytesAre, SizesAssumption DEF SizeOf
    <3> DEFINE end == t.offset + t.size
               whole == I * Page
    <3>6. end \in Nat /\ whole \in Nat
      BY <3>1, <3>2, <3>5
    <3>7. end > whole \/ I >= MaxPages
      <4>1. ~(end <= room) /\ (room = SizeOf(N) \/ SizeOf(N) = 0) /\ (I < MaxPages => SizeOf(N) = whole)
            /\ room \in Nat /\ I \in Nat /\ MaxPages \in Nat
        BY <3>2, <3>3, <3>4, <3>5
      <4> HIDE DEF N, I, room, end, whole
      <4> QED
        BY <3>6, <4>1
    <3> QED
      BY <3>1, <3>7
  <2>2. CASE Turn("elements") /\ ~ElementsFit
    <3> DEFINE N == Slot("table")
               s == <<Place(Owner), Owner, Head(work)[3]>>
               t == Segment
               I == Initial("table", N)
    <3>1. /\ N \in 1 .. count["table"] /\ N \in DOMAIN slots["table"]
          /\ s \in For(slots["table"][N].what, "table", chosen.elements)
          /\ chosen.elements[s[2]][s[3]] = t
          /\ t.offset \in Nat /\ t.values \in Seq(Nat)
      BY <2>2, ElementsTurn
    <3>2. I \in Nat
      BY <1>2, <3>1, InitialIs DEF Limited
    <3>3. ~(t.offset + Len(t.values) <= Len(Resized))
      BY <2>2 DEF ElementsFit
    <3>4. tables[N] \in Seq(Nat) /\ (I > 0 => Len(tables[N]) = I)
      BY <1>4, <3>1
    <3>5. Resized = IF tables[N] = <<>> /\ t.offset = 0
                    THEN [i \in DOMAIN t.values |-> Invalid] ELSE tables[N]
      BY DEF Resized
    <3>6. Len(t.values) \in Nat
      BY <3>1, LenProperties
    <3> HIDE DEF N, I, t
    <3>7. t.offset + Len(t.values) > I
      <4>1. CASE Resized = tables[N]
        <5>1. Len(tables[N]) \in Nat
          BY <3>4, LenProperties
        <5> QED
          BY <3>1, <3>2, <3>3, <3>4, <3>6, <4>1, <5>1
      <4>2. CASE tables[N] = <<>> /\ t.offset = 0 /\ Resized = [i \in DOMAIN t.values |-> Invalid]
        <5> DEFINE L == Len(t.values)
                   Z == [i \in 1 .. L |-> Invalid]
        <5>1. Z \in [1 .. L -> Nat] /\ L \in Nat /\ Resized = Z
          BY <3>1, <3>6, <4>2, LenProperties DEF Invalid
        <5> HIDE DEF Z, L
        <5>2. Len(Resized) = L
          BY <5>1, FunctionIsSeq
        <5> QED
          BY <3>3, <4>2, <5>1, <5>2 DEF L
      <4> QED
        BY <3>5, <4>1, <4>2
    <3> QED
      BY <3>1, <3>7 DEF N, I, t
  <2>3. CASE Turn("host") /\ Answer = "refuses"
    BY <2>3 DEF Answer
  <2> QED
    BY <1>1, <2>1, <2>2, <2>3
<1>8. InitFailsForCause'
  <2>1. \A d : /\ For(d, "memory", chosen.data)' = For(d, "memory", chosen.data)
               /\ For(d, "table", chosen.elements)' = For(d, "table", chosen.elements)
    BY <1>1, SameLoading
  <2> QED
    BY <1>1, <1>2, <1>5, <1>7, <2>1 DEF InitFailsForCause
<1> QED
  BY <1>2, <1>3, <1>6, <1>8 DEF LoadInv

\* Steps that change no contents: the end of the loop, and stuttering.
LEMMA QuietLoads ==
  ASSUME LoadInv, UNCHANGED <<vars, chosen, memories, tables, work>>,
         stage' = stage \/ (stage = "loading" /\ work = <<>> /\ stage' = "loaded")
  PROVE  LoadInv'
<1>1. /\ UNCHANGED <<vars, chosen>> /\ slots' = slots /\ count' = count /\ chosen' = chosen
      /\ work' = work /\ tables' = tables /\ memories' = memories
  BY DEF vars
<1>2. LinkInv' /\ HostKinds' /\ FailsForCause'
  BY <1>1, NextLinks, HostKindsKept DEF LoadInv, LinkInv
<1>3. /\ ItemSet' = ItemSet
      /\ \A k, n : Initial(k, n)' = Initial(k, n) /\ SizeOf(n)' = SizeOf(n)
      /\ \A n, size : Given(n, size)' = Given(n, size)
      /\ \A d : /\ For(d, "memory", chosen.data)' = For(d, "memory", chosen.data)
                /\ For(d, "table", chosen.elements)' = For(d, "table", chosen.elements)
  BY <1>1, SameLoading
<1>4. (Placing' => Placing) /\ (stage' \in {"loading", "loaded", "failed"} => stage \in {"loading", "loaded", "failed"})
      /\ (stage' = "failed" => stage = "failed")
  BY DEF Placing
<1>5. StageInv'
  BY <1>1 DEF LoadInv, StageInv, Legal, vars
<1>6. WorkInv'
  BY <1>1, <1>3, <1>4 DEF LoadInv, WorkInv
<1>7. ShapeInv'
  BY <1>1, <1>3, <1>4 DEF LoadInv, ShapeInv
<1>8. DataInv'
  <2>1. \A n : /\ DataPlaced(n)' = DataPlaced(n) /\ (HostWrote(n)' <=> HostWrote(n)) /\ Room(n)' = Room(n)
    BY <1>1, <1>3 DEF DataPlaced, HostWrote, Room
  <2>2. \A n, i : DataAt(n, i)' = DataAt(n, i)
    BY <1>1, <2>1 DEF DataAt
  <2>3. \A n, i : CellAt(n, i)' = CellAt(n, i)
    <3> TAKE n, i
    <3>1. LastOf(DataAt(n, i))' = LastOf(DataAt(n, i))
      BY <2>2 DEF LastOf, Later
    <3> QED
      BY <1>1, <1>3, <2>1, <2>2, <3>1 DEF CellAt
  <2> QED
    BY <1>1, <1>4, <2>1, <2>3 DEF LoadInv, DataInv
<1>9. EntriesInv'
  <2>1. \A n : ElementsPlaced(n)' = ElementsPlaced(n)
    BY <1>1, <1>3 DEF ElementsPlaced
  <2>2. \A n, i : ElementsAt(n, i)' = ElementsAt(n, i)
    BY <1>1, <2>1 DEF ElementsAt
  <2>3. \A n, i : EntryAt(n, i)' = EntryAt(n, i)
    <3> TAKE n, i
    <3>1. LastOf(ElementsAt(n, i))' = LastOf(ElementsAt(n, i))
      BY <2>2 DEF LastOf, Later
    <3> QED
      BY <1>1, <2>2, <3>1 DEF EntryAt
  <2> QED
    BY <1>1, <1>4, <2>1, <2>3 DEF LoadInv, EntriesInv
<1>10. InitFailsForCause'
  BY <1>1, <1>2, <1>3, <1>4 DEF LoadInv, InitFailsForCause
<1> QED
  BY <1>2, <1>5, <1>6, <1>7, <1>8, <1>9, <1>10 DEF LoadInv

\* The invariant holds through linking, allocation and the loop over the modules.
THEOREM LoadInvariant == LoaderSpec => []LoadInv
<1>1. LoaderInit => LoadInv
  BY FirstLoads
<1>2. LoadInv /\ [LoaderNext]_allVars => LoadInv'
  <2> SUFFICES ASSUME LoadInv, [LoaderNext]_allVars PROVE LoadInv'
    OBVIOUS
  <2>1. CASE Loaded
    BY <2>1, QuietLoads DEF Loaded
  <2>2. CASE UNCHANGED allVars
    BY <2>2, QuietLoads DEF allVars, vars
  <2> QED
    BY <2>1, <2>2, LinkingLoads, BeginLoads, AllocateLoads, EmplaceDataLoads, EmplaceElementsLoads,
       InitHostLoads, FailsLoads DEF LoaderNext
<1> QED
  BY <1>1, <1>2, PTL DEF LoaderSpec

-----------------------------------------------------------------------------
(* What follows *)

\* What the invariant says of shapes is the type invariant.
LEMMA LoadedTypes == LoadInv => LoaderTypeOK
<1> SUFFICES ASSUME LoadInv PROVE LoaderTypeOK
  OBVIOUS
<1>1. TypeOK /\ stage \in {"linking", "allocating", "loading", "loaded", "failed"}
  BY LinkedTypes DEF LoadInv, StageInv
<1>2. ASSUME stage \in {"loading", "loaded", "failed"}
      PROVE  /\ \A n \in DOMAIN memories : memories[n] # Null =>
                   Len(memories[n]) \in {Bytes(Initial("memory", n)), Page}
             /\ \A n \in DOMAIN tables :
                   /\ Initial("table", n) > 0 => Len(tables[n]) = Initial("table", n)
                   /\ \A i \in DOMAIN tables[n] : tables[n][i] \in Nat
  <2>1. ShapeInv
    BY DEF LoadInv
  <2>2. \A n \in DOMAIN tables : tables[n] \in Seq(Nat)
    BY <1>2, <2>1 DEF ShapeInv
  <2>3. \A s \in Seq(Nat) : \A i \in DOMAIN s : s[i] \in Nat
    BY LenProperties, ElementOfSeq
  <2> QED
    BY <1>2, <2>1, <2>2, <2>3 DEF ShapeInv, SizeOf
<1> QED
  BY <1>1, <1>2 DEF LoaderTypeOK

\* What a byte is that no segment and no host has written.
LEMMA GivenAt ==
  ASSUME LoadInv, stage = "loaded", NEW n \in DOMAIN slots["memory"], memories[n] # Null,
         NEW i \in 1 .. Len(memories[n])
  PROVE  Given(n, Len(memories[n]))[i] =
            CASE chosen.provider = "new" -> (IF i <= Initial("memory", n) THEN Zero ELSE Unset)
              [] chosen.provider = "script" ->
                   (IF i \in StackOffset(n) + 1 .. StackOffset(n) + 1 + AllocatorSize - 1
                    THEN Alloc ELSE Zero)
              [] OTHER -> Zero
<1> DEFINE size == Len(memories[n])
<1>1. HasForm(chosen, env) /\ LinkInv
  BY FormHolds DEF LoadInv
<1>2. /\ memories[n] \in Seq(Cells) /\ size \in Nat
      /\ size = SizeOf(n) \/ chosen.provider = "strict"
  <2>1. ShapeInv
    BY DEF LoadInv
  <2>2. memories[n] \in Seq(Cells) /\ (size = SizeOf(n) \/ chosen.provider = "strict")
    BY <2>1 DEF ShapeInv
  <2> QED
    BY <2>2, LenProperties
<1>3. size # 0
  BY <1>2
<1> HIDE DEF size
<1>4. i \in 1 .. size
  BY DEF size
<1>5. CASE chosen.provider = "new"
  <2>1. Given(n, size) = [j \in 1 .. size |-> IF j <= Initial("memory", n) THEN Zero ELSE Unset]
    BY <1>2, <1>5 DEF Given, SizeOf
  <2> QED
    BY <1>4, <1>5, <2>1 DEF size
<1>6. CASE chosen.provider = "script"
  <2> DEFINE first == StackOffset(n) + 1
  <2>1. Given(n, size) = [j \in 1 .. size |-> IF j \in first .. first + AllocatorSize - 1
                                               THEN Alloc ELSE Zero]
    BY <1>6 DEF Given
  <2>2. Given(n, size)[i] = IF i \in first .. first + AllocatorSize - 1 THEN Alloc ELSE Zero
    <3> HIDE DEF first
    <3> QED BY <1>4, <2>1
  <2> QED
    BY <1>6, <2>2 DEF size
<1>7. CASE chosen.provider \in {"pool", "strict"}
  <2>1. Given(n, size) = [j \in 1 .. size |-> Zero]
    BY <1>3, <1>7 DEF Given
  <2> QED
    BY <1>4, <1>7, <2>1 DEF size
<1> QED
  BY <1>1, <1>5, <1>6, <1>7 DEF HasForm

\* When all is done, all is placed.
LEMMA AllPlaced ==
  ASSUME LoadInv, stage = "loaded", NEW n
  PROVE  /\ DataPlaced(n) = For(slots["memory"][n].what, "memory", chosen.data)
         /\ ElementsPlaced(n) = For(slots["table"][n].what, "table", chosen.elements)
         /\ HostWrote(n) <=> slots["memory"][n].what[1] = "policy" /\ chosen.memoryInit = "writes"
<1>1. work = <<>>
  BY DEF LoadInv, StageInv
<1>2. ToSet(work) = {}
  BY <1>1 DEF ToSet
<1> QED
  BY <1>2 DEF DataPlaced, ElementsPlaced, HostWrote

\* At the end all is placed, so that what holds of what has been placed is the property.
LEMMA LoadedContents == LoadInv => ContentsAsDeclared
<1> SUFFICES ASSUME LoadInv, stage = "loaded" PROVE ContentsAsDeclared
  BY DEF ContentsAsDeclared, BytesAsDeclared, EntriesAsDeclared
<1>1. ASSUME NEW n \in 1 .. count["memory"], memories[n] # Null, NEW i \in DOMAIN memories[n]
      PROVE  LET d == slots["memory"][n].what
                 all == For(d, "memory", chosen.data)
                 here == {s \in all : LET t == chosen.data[s[2]][s[3]]
                                     IN i \in t.offset + 1 .. t.offset + t.size}
                 last == LastOf(here)
                 host == i = 1 /\ d[1] = "policy" /\ chosen.memoryInit = "writes"
             IN memories[n][i] =
                  IF host /\ \A s \in here : s[1] < Place(Host) THEN HostByte
                  ELSE IF here # {} THEN <<last[2], last[3], i - chosen.data[last[2]][last[3]].offset>>
                  ELSE IF memories[n][i] = Alloc /\ chosen.provider = "script" THEN Alloc
                  ELSE IF chosen.provider = "new" /\ i > Initial("memory", n) THEN Unset
                  ELSE Zero
  <2>1. memories[n][i] = CellAt(n, i)
    BY <1>1 DEF LoadInv, DataInv, Placing
  <2>2. DataAt(n, i) = {s \in For(slots["memory"][n].what, "memory", chosen.data) :
                          LET t == chosen.data[s[2]][s[3]]
                          IN i \in t.offset + 1 .. t.offset + t.size}
    BY AllPlaced DEF DataAt
  <2>3. HostWrote(n) <=> slots["memory"][n].what[1] = "policy" /\ chosen.memoryInit = "writes"
    BY AllPlaced
  <2>4. n \in DOMAIN slots["memory"]
    BY SlotsInUse DEF Limited
  <2>5. i \in 1 .. Len(memories[n]) /\ i \in Nat
    <3>1. memories[n] \in Seq(Cells)
      BY <1>1, <2>4 DEF LoadInv, ShapeInv
    <3> QED
      BY <3>1, LenProperties
  <2>6. Initial("memory", n) \in Nat
    BY <2>4, InitialIs DEF LoadInv, Limited
  <2>7. Given(n, Len(memories[n]))[i] =
          CASE chosen.provider = "new" -> (IF i <= Initial("memory", n) THEN Zero ELSE Unset)
            [] chosen.provider = "script" ->
                 (IF i \in StackOffset(n) + 1 .. StackOffset(n) + 1 + AllocatorSize - 1
                  THEN Alloc ELSE Zero)
            [] OTHER -> Zero
    BY <1>1, <2>4, <2>5, GivenAt
  <2> DEFINE g == Given(n, Len(memories[n]))[i]
  <2>8. /\ chosen.provider = "new" => g = IF i > Initial("memory", n) THEN Unset ELSE Zero
        /\ chosen.provider = "script" => g \in {Alloc, Zero}
        /\ chosen.provider \notin {"new", "script"} => g = Zero
    BY <2>5, <2>6, <2>7
  <2> HIDE DEF g
  <2>9. CellAt(n, i) =
          IF i = 1 /\ HostWrote(n) /\ \A s \in DataAt(n, i) : s[1] < Place(Host) THEN HostByte
          ELSE IF DataAt(n, i) # {}
               THEN <<LastOf(DataAt(n, i))[2], LastOf(DataAt(n, i))[3],
                      i - chosen.data[LastOf(DataAt(n, i))[2]][LastOf(DataAt(n, i))[3]].offset>>
               ELSE g
    BY DEF CellAt, g
  <2> QED
    BY <2>1, <2>2, <2>3, <2>8, <2>9
<1>2. ASSUME NEW n \in 1 .. count["table"], NEW i \in DOMAIN tables[n]
      PROVE  LET items == chosen.elements
                 here == {s \in For(slots["table"][n].what, "table", items) :
                             i - items[s[2]][s[3]].offset \in DOMAIN items[s[2]][s[3]].values}
                 last == LastOf(here)
             IN tables[n][i] = IF here = {} THEN Invalid
                               ELSE items[last[2]][last[3]].values[i - items[last[2]][last[3]].offset]
  <2>1. tables[n][i] = EntryAt(n, i)
    BY <1>2 DEF LoadInv, EntriesInv, Placing
  <2>2. ElementsAt(n, i) = {s \in For(slots["table"][n].what, "table", chosen.elements) :
            i - chosen.elements[s[2]][s[3]].offset \in DOMAIN chosen.elements[s[2]][s[3]].values}
    BY AllPlaced DEF ElementsAt
  <2> QED
    BY <2>1, <2>2 DEF EntryAt
<1>3. BytesAsDeclared
  BY <1>1 DEF BytesAsDeclared
<1>4. EntriesAsDeclared
  BY <1>2 DEF EntriesAsDeclared
<1> QED
  BY <1>3, <1>4 DEF ContentsAsDeclared

-----------------------------------------------------------------------------
(* The Allocator of a script *)

\* A finite set of numbers has a bound.
LEMMA BoundOfFinite ==
  ASSUME NEW S, S \subseteq Nat, IsFiniteSet(S)
  PROVE  \E N \in Nat : \A x \in S : x <= N
<1> DEFINE Bounded(T) == \E N \in Nat : \A x \in T : x <= N
           Bad == {c \in Nat : \E T \in SUBSET Nat : IsFiniteSet(T) /\ Cardinality(T) = c /\ ~Bounded(T)}
<1> SUFFICES ASSUME Bad # {} PROVE FALSE
  <2>1. Cardinality(S) \in Nat
    BY FS_CardinalityType
  <2> QED
    BY <2>1
<1>1. PICK c \in Bad : \A b \in Bad : c <= b
  <2>1. Bad \subseteq Nat
    OBVIOUS
  <2> HIDE DEF Bad
  <2> QED
    BY <2>1, LeastNatural
<1>2. PICK T \in SUBSET Nat : IsFiniteSet(T) /\ Cardinality(T) = c /\ ~Bounded(T)
  OBVIOUS
<1>3. PICK x : x \in T
  BY <1>2
<1>4. IsFiniteSet(T \ {x}) /\ Cardinality(T \ {x}) = c - 1
  BY <1>2, <1>3, FS_RemoveElement
<1>5. c - 1 \in Nat
  BY <1>4, FS_CardinalityType
<1>6. c - 1 \notin Bad
  BY <1>1, <1>5
<1>7. Bounded(T \ {x})
  BY <1>4, <1>5, <1>6
<1>8. PICK N \in Nat : \A y \in T \ {x} : y <= N
  BY <1>7
<1>9. N + x \in Nat /\ \A y \in T : y <= N + x
  BY <1>3, <1>8
<1> QED
  BY <1>2, <1>9

\* A finite set of numbers that is not empty has a greatest element.
LEMMA MaxOfFinite ==
  ASSUME NEW S, S \subseteq Nat, IsFiniteSet(S), S # {}
  PROVE  Max(S) \in S /\ \A x \in S : x <= Max(S)
<1>1. PICK N \in Nat : \A x \in S : x <= N
  BY BoundOfFinite
<1> QED
  BY <1>1, MaxOfNaturals

\* Aligning never goes down.
LEMMA AlignIs ==
  ASSUME NEW x \in Nat
  PROVE  Align(x) \in Nat /\ x <= Align(x)
<1>1. Boundary \in Nat /\ Boundary > 0
  BY SizesAssumption
<1>2. \A a \in Nat, b \in Nat : b > 0 => /\ (a \div b) * b \in Nat
                                         /\ a < (a \div b) * b + b
  <2>1. \A a \in Nat, b \in Nat : b > 0 => a = b * (a \div b) + (a % b) /\ a % b < b /\ a \div b \in Nat /\ a % b \in Nat
    OBVIOUS
  <2>2. \A q \in Nat, b \in Nat : q * b = b * q /\ q * b \in Nat
    OBVIOUS
  <2> TAKE a \in Nat, b \in Nat
  <2> HAVE b > 0
  <2> DEFINE q == a \div b
             r == a % b
  <2>3. a = b * q + r /\ r < b /\ q \in Nat /\ r \in Nat
    BY <2>1
  <2> HIDE DEF q, r
  <2>4. q * b = b * q /\ q * b \in Nat
    BY <2>2, <2>3
  <2> DEFINE w == q * b
  <2> HIDE DEF w
  <2>5. a = w + r /\ w \in Nat
    BY <2>3, <2>4 DEF w
  <2>6. w \in Nat /\ a < w + b
    BY <2>3, <2>5
  <2> QED
    BY <2>6 DEF w, q
<1> DEFINE y == x + Boundary - 1
           z == (y \div Boundary) * Boundary
<1>3. y \in Nat /\ Align(x) = z
  BY <1>1 DEF Align
<1> HIDE DEF y
<1>4. z \in Nat /\ y < z + Boundary
  BY <1>1, <1>2, <1>3
<1> HIDE DEF z
<1>5. x <= z
  BY <1>1, <1>3, <1>4 DEF y
<1> QED
  BY <1>3, <1>4, <1>5

\* A module that imports no global is asked for the values of its own globals.
LEMMA OwnGlobals ==
  ASSUME LinkInv, phase = "linked", NEW m \in Externals,
         \A i \in DOMAIN env.index[m]["global"] : env.index[m]["global"][i].from = Null
  PROVE  /\ Definitions(m, "global") = DOMAIN env.index[m]["global"]
         /\ \A i \in DOMAIN env.index[m]["global"] :
               /\ i \in Nat
               /\ Cardinality({j \in Definitions(m, "global") : j <= i}) = i
               /\ StackValue(m, i) = LET global == env.index[m]["global"][i]
                                     IN IF global.mut /\ global.type = StackType
                                        THEN chosen.stack[m][i] ELSE Null
<1> DEFINE globals == env.index[m]["global"]
<1>1. Definitions(m, "global") = DOMAIN globals
  BY DEF Definitions
<1>2. /\ GoodEnvironment /\ WellFormed(env) /\ OneKindPerField /\ Acyclic /\ LinkTypes /\ SpacesInv
      /\ Binding /\ BoundAsDenoted /\ "global" \in Kinds /\ "global" \notin Limited
  BY GoodIsWellFormed, BindingsHold, KindsAre DEF LinkInv, Binding, Limited
<1>3. globals \in Seq(ToSet(globals))
  BY <1>2 DEF WellFormed
<1>4. Len(globals) \in Nat /\ DOMAIN globals = 1 .. Len(globals)
  <2> HIDE DEF globals
  <2> QED BY <1>3, LenProperties
<1>5. ASSUME NEW i \in DOMAIN globals
      PROVE  i \in Nat /\ Cardinality({j \in Definitions(m, "global") : j <= i}) = i
  <2> DEFINE G == Len(globals)
  <2>1. G \in Nat /\ i \in 1 .. G /\ Definitions(m, "global") = 1 .. G
    BY <1>1, <1>4, <1>5
  <2> HIDE DEF G
  <2> DEFINE upTo == {j \in Definitions(m, "global") : j <= i}
  <2>2. upTo = 1 .. i
    BY <2>1
  <2>3. i \in Nat /\ Cardinality(1 .. i) = i
    BY <2>1, FS_Interval
  <2> HIDE DEF upTo
  <2>4. Cardinality(upTo) = i
    BY <2>2, <2>3
  <2> QED
    BY <2>3, <2>4 DEF upTo
<1>6. ASSUME NEW i \in DOMAIN globals
      PROVE  StackValue(m, i) = IF globals[i].mut /\ globals[i].type = StackType
                                THEN chosen.stack[m][i] ELSE Null
  <2> DEFINE o == <<"own", m, "global", i>>
  <2>1. o \in Declared /\ o \in Ends
    BY <1>2, InDeclared DEF Ends
  <2>2. Entry(o) = globals[i] /\ o[1] = "own" /\ o[2] = m /\ o[3] = "global" /\ o[4] = i
    BY DEF Entry
  <2>3. o \notin ImportSet
    BY <2>2 DEF ImportSet, IsImport
  <2>4. Denotes(o) = o
    BY <1>2, <2>1, <2>3, Denoted
  <2>5. ObjectAt(o) # Null /\ ObjectAt(o) = space[m]["global"][i]
    BY <1>2, <2>1, <2>3 DEF ObjectAt, SpacesInv
  <2>6. Stands(ObjectAt(o), "global", o)
    BY <1>2, <2>1, <2>2, <2>4, <2>5 DEF SpacesInv
  <2>7. Content(space[m]["global"][i]) = o
    BY <2>5, <2>6 DEF Stands, Content
  <2> QED
    BY <2>2, <2>7 DEF StackValue
<1> QED
  BY <1>1, <1>5, <1>6

\* The Allocator begins behind every stack and segment it was told of, and is whole.
LEMMA AllocatorKept == LoadInv => AllocatorIntact
<1> SUFFICES ASSUME LoadInv, stage = "loaded", chosen.provider = "script", chosen.memoryInit # "writes",
                    NEW n \in 1 .. count["memory"]
             PROVE  LET d == slots["memory"][n].what
                        users == {m \in Externals : \E i \in DOMAIN env.index[m]["memory"] :
                                                        Denotes(<<"own", m, "memory", i>>) = d}
                        segments == {chosen.data[s[2]][s[3]] : s \in For(d, "memory", chosen.data)}
                        truthful(m) ==
                            /\ DeclaredEnd(m) # Null
                            /\ \A l \in DOMAIN chosen.data[m] :
                                  chosen.data[m][l].offset + chosen.data[m][l].size <= DeclaredEnd(m)
                            /\ \/ chosen.linking[m] # Null
                               \/ \A i \in DOMAIN env.index[m]["global"] :
                                     env.index[m]["global"][i].from = Null
                        named == {chosen.linking[m] : m \in Externals} \cup {DeclaredEnd(m) : m \in users}
                        alloc == {i \in DOMAIN memories[n] : memories[n][i] = Alloc}
                    IN (/\ users # {}
                        /\ \A m \in users : truthful(m)
                        /\ Align(Max(named \ {Null})) + AllocatorSize <= Len(memories[n]))
                       => /\ Cardinality(alloc) = AllocatorSize
                          /\ \A s \in segments : \A i \in alloc : s.size > 0 => i > s.offset + s.size
                          /\ \A m \in users, i \in alloc : i > DeclaredEnd(m)
  BY DEF AllocatorIntact
<1> DEFINE d == slots["memory"][n].what
           users == {m \in Externals : \E i \in DOMAIN env.index[m]["memory"] :
                                           Denotes(<<"own", m, "memory", i>>) = d}
           segments == {chosen.data[s[2]][s[3]] : s \in For(d, "memory", chosen.data)}
           truthful(m) ==
               /\ DeclaredEnd(m) # Null
               /\ \A l \in DOMAIN chosen.data[m] :
                     chosen.data[m][l].offset + chosen.data[m][l].size <= DeclaredEnd(m)
               /\ \/ chosen.linking[m] # Null
                  \/ \A i \in DOMAIN env.index[m]["global"] : env.index[m]["global"][i].from = Null
           named == {chosen.linking[m] : m \in Externals} \cup {DeclaredEnd(m) : m \in users}
           alloc == {i \in DOMAIN memories[n] : memories[n][i] = Alloc}
<1> SUFFICES ASSUME users # {},
                    \A m \in users : truthful(m),
                    Align(Max(named \ {Null})) + AllocatorSize <= Len(memories[n])
             PROVE  /\ Cardinality(alloc) = AllocatorSize
                    /\ \A s \in segments : \A i \in alloc : s.size > 0 => i > s.offset + s.size
                    /\ \A m \in users, i \in alloc : i > DeclaredEnd(m)
  OBVIOUS
<1>1. /\ LinkInv /\ HasForm(chosen, env) /\ Legal(chosen) /\ phase = "linked"
      /\ n \in DOMAIN slots["memory"] /\ "memory" \in Limited
  BY FormHolds, SlotsInUse DEF LoadInv, Limited
<1>2. Null \notin Nat
  BY NoDataAssumption

(* What modules say is what they have declared. *)
<1>3. ASSUME NEW m \in Externals, NEW i \in DOMAIN env.index[m]["memory"]
      PROVE  Denotes(<<"own", m, "memory", i>>) = d <=> space[m]["memory"][i] = <<"slot", "memory", n>>
  <2> DEFINE l == space[m]["memory"][i][3]
  <2>1. /\ space[m]["memory"][i] = <<"slot", "memory", l>>
        /\ l \in 1 .. count["memory"]
        /\ slots["memory"][l].what = Denotes(<<"own", m, "memory", i>>)
    BY <1>1, SlotOf
  <2> HIDE DEF l
  <2>2. slots["memory"][l].what = d <=> l = n
    BY <1>1, <2>1, SlotsInUse
  <2> QED
    BY <2>1, <2>2
<1>4. \A m \in Externals : m \in users <=> Has(m, "memory", n)
  <2> TAKE m \in Externals
  <2>1. "memory" \in Kinds /\ SpacesInv /\ Binding
    BY <1>1, KindsAre DEF LinkInv, Binding
  <2>2. DOMAIN space[m]["memory"] = DOMAIN env.index[m]["memory"]
    BY <2>1 DEF SpacesInv
  <2>3. Has(m, "memory", n) <=> \E i \in DOMAIN env.index[m]["memory"] :
                                   space[m]["memory"][i] = <<"slot", "memory", n>>
    BY <2>2 DEF Has, ToSet
  <2> QED
    BY <1>3, <2>3
<1>5. ASSUME NEW m \in users
      PROVE  /\ m \in Externals /\ Says(m, n) = DeclaredEnd(m) /\ DeclaredEnd(m) \in Nat
  <2>1. m \in Externals /\ Has(m, "memory", n) /\ truthful(m)
    BY <1>4
  <2>2. CASE chosen.linking[m] # Null
    <3>1. Says(m, n) = chosen.linking[m] /\ DeclaredEnd(m) = chosen.linking[m]
      BY <2>2 DEF Says, DeclaredEnd
    <3>2. chosen.linking[m] \in Nat
      BY <1>1, <2>1, <2>2 DEF HasForm
    <3> QED
      BY <2>1, <3>1, <3>2
  <2>3. CASE chosen.linking[m] = Null
    <3> DEFINE globals == env.index[m]["global"]
               Pointer(i) == globals[i].mut /\ globals[i].type = StackType
    <3>1. \A i \in DOMAIN globals : globals[i].from = Null
      BY <2>1, <2>3
    <3>2. /\ Definitions(m, "global") = DOMAIN globals
          /\ \A i \in DOMAIN globals :
                /\ i \in Nat
                /\ Cardinality({j \in Definitions(m, "global") : j <= i}) = i
                /\ StackValue(m, i) = IF Pointer(i) THEN chosen.stack[m][i] ELSE Null
      BY <1>1, <2>1, <3>1, OwnGlobals
    <3>3. \A i \in DOMAIN globals : Pointer(i) => chosen.stack[m][i] \in Nat
      BY <1>1, <2>1 DEF HasForm
    <3>4. \A i \in DOMAIN globals : StackValue(m, i) # Null <=> Pointer(i)
      <4> TAKE i \in DOMAIN globals
      <4> HIDE DEF Pointer, globals
      <4>1. CASE Pointer(i)
        BY <1>2, <3>2, <3>3, <4>1
      <4>2. CASE ~Pointer(i)
        BY <3>2, <4>2
      <4> QED
        BY <4>1, <4>2
    <3> DEFINE P == {i \in DOMAIN globals : Pointer(i) /\ ~Exported(m, "global", i)}
    <3>5. Says(m, n) = IF FromMagic(m) # Null THEN FromMagic(m) ELSE FromGlobal(m)
      BY <2>1, <2>3 DEF Says
    <3>6. chosen.magic[m] \in DOMAIN globals \cup {Null}
      BY <1>1, <2>1 DEF Legal
    <3>7. DeclaredEnd(m) = IF chosen.magic[m] # Null /\ Pointer(chosen.magic[m])
                           THEN chosen.stack[m][chosen.magic[m]]
                           ELSE IF P # {} THEN chosen.stack[m][Min(P)] ELSE Null
      <4> DEFINE Q == {i \in DOMAIN globals : /\ globals[i].from = Null /\ globals[i].mut
                                              /\ globals[i].type = StackType
                                              /\ ~Exported(m, "global", i)}
      <4>1. Q = P
        BY <3>1
      <4>2. DeclaredEnd(m) = IF chosen.magic[m] # Null /\ globals[chosen.magic[m]].from = Null
                                  /\ Pointer(chosen.magic[m])
                             THEN chosen.stack[m][chosen.magic[m]]
                             ELSE IF Q # {} THEN chosen.stack[m][Min(Q)] ELSE Null
        BY <2>3, Zenon DEF DeclaredEnd
      <4> HIDE DEF P, Q
      <4> QED
        BY <3>1, <3>6, <4>1, <4>2
    <3>8. FromMagic(m) = IF chosen.magic[m] = Null THEN Null ELSE StackValue(m, chosen.magic[m])
      BY DEF FromMagic
    <3>9. FromGlobal(m) = IF P = {} THEN 0 ELSE StackValue(m, Min(P))
      <4> DEFINE Nth(i) == Cardinality({j \in Definitions(m, "global") : j <= i})
                 Q == {i \in Definitions(m, "global") :
                          ~Exported(m, "global", i) /\ StackValue(m, Nth(i)) # Null}
      <4>1. FromGlobal(m) = IF Q = {} THEN 0 ELSE StackValue(m, Nth(Min(Q)))
        BY DEF FromGlobal
      <4>2. \A i \in DOMAIN globals : Nth(i) = i
        BY <3>2
      <4> HIDE DEF Nth
      <4>3. Q = P
        BY <3>2, <3>4, <4>2
      <4>4. P # {} => Min(P) \in DOMAIN globals
        <5>1. P \subseteq Nat
          BY <3>2
        <5>2. P \subseteq DOMAIN globals
          OBVIOUS
        <5> HIDE DEF P
        <5> QED
          BY <5>1, <5>2, MinOfNaturals
      <4> HIDE DEF P, Q
      <4> QED
        BY <4>1, <4>2, <4>3, <4>4
    <3>10. P # {} => Min(P) \in P
      <4>1. P \subseteq Nat
        BY <3>2
      <4> HIDE DEF P
      <4> QED
        BY <4>1, MinOfNaturals
    <3>11. P # {} => Min(P) \in DOMAIN globals /\ Pointer(Min(P))
      BY <3>10
    <3> HIDE DEF P
    <3>12. DeclaredEnd(m) # Null
      BY <2>1
    <3>13. CASE chosen.magic[m] # Null /\ Pointer(chosen.magic[m])
      BY <1>2, <2>1, <3>2, <3>3, <3>5, <3>6, <3>7, <3>8, <3>13
    <3>14. CASE ~(chosen.magic[m] # Null /\ Pointer(chosen.magic[m]))
      <4>1. P # {} /\ DeclaredEnd(m) = chosen.stack[m][Min(P)]
        BY <3>7, <3>12, <3>14
      <4>2. FromMagic(m) = Null
        BY <3>2, <3>6, <3>8, <3>14
      <4>3. Says(m, n) = StackValue(m, Min(P))
        BY <3>5, <3>9, <4>1, <4>2
      <4> QED
        BY <2>1, <3>2, <3>3, <3>11, <4>1, <4>3
    <3> QED
      BY <3>13, <3>14
  <2> QED
    BY <2>2, <2>3
<1> DEFINE said == {Says(m, n) : m \in Externals}
           told == named \ {Null}
<1>6. \A m \in Externals : Says(m, n) \in told \cup {0}
  <2> TAKE m \in Externals
  <2>1. CASE m \in users
    BY <1>2, <1>5, <2>1
  <2>2. CASE m \notin users /\ chosen.linking[m] # Null
    BY <2>2 DEF Says
  <2>3. CASE m \notin users /\ chosen.linking[m] = Null
    BY <1>4, <2>3 DEF Says
  <2> QED
    BY <2>1, <2>2, <2>3
<1>7. told \subseteq said /\ told \subseteq Nat /\ told # {}
  <2>1. \A m \in Externals : chosen.linking[m] # Null =>
           chosen.linking[m] \in Nat /\ Says(m, n) = chosen.linking[m]
    BY <1>1 DEF HasForm, Says
  <2>2. ASSUME NEW x \in told PROVE x \in said /\ x \in Nat
    <3>1. CASE x \in {DeclaredEnd(m) : m \in users}
      BY <1>5, <3>1
    <3>2. CASE x \in {chosen.linking[m] : m \in Externals}
      BY <2>1, <2>2, <3>2
    <3> QED
      BY <2>2, <3>1, <3>2
  <2>3. PICK m \in users : TRUE
    OBVIOUS
  <2>4. DeclaredEnd(m) \in told
    BY <1>2, <1>5, <2>3
  <2> HIDE DEF told, said
  <2> QED
    BY <2>2, <2>4
<1> HIDE DEF told
<1>8. said \subseteq Nat /\ said # {} /\ IsFiniteSet(said) /\ said \subseteq told \cup {0}
  <2>1. IsFiniteSet(Externals)
    <3>1. Order \in Seq(Externals) /\ Externals = {Order[i] : i \in DOMAIN Order}
      BY OrderAssumption DEF Externals, ToSet
    <3>2. DOMAIN Order = 1 .. Len(Order) /\ Len(Order) \in Nat /\ Order = [i \in DOMAIN Order |-> Order[i]]
      BY <3>1, LenProperties
    <3> QED
      <4>1. IsFiniteSet(DOMAIN Order)
        BY <3>2, FS_Interval
      <4>2. IsFiniteSet({Order[i] : i \in DOMAIN Order})
        BY <3>2, <4>1, ImageOfFinite
      <4> QED
        BY <3>1, <4>2
  <2> DEFINE f == [m \in Externals |-> Says(m, n)]
  <2>2. IsFiniteSet({f[m] : m \in DOMAIN f})
    BY <2>1, ImageOfFinite
  <2>3. said = {f[m] : m \in DOMAIN f}
    OBVIOUS
  <2>4. said \subseteq Nat /\ said # {} /\ said \subseteq told \cup {0}
    BY <1>6, <1>7
  <2> HIDE DEF f, said
  <2> QED
    BY <2>2, <2>3, <2>4
<1> DEFINE top == Max(said)
<1>9. \A m \in users : DeclaredEnd(m) \in said
  BY <1>5
<1> HIDE DEF said
<1>10. top \in said /\ \A x \in said : x <= top
  BY <1>8, MaxOfFinite
<1>11. top \in Nat /\ Max(told) = top
  <2>1. IsFiniteSet(told)
    BY <1>7, <1>8, FS_Subset
  <2>2. Max(told) \in told /\ \A x \in told : x <= Max(told)
    BY <1>7, <2>1, MaxOfFinite
  <2> DEFINE a == Max(told)
  <2> HIDE DEF a, top
  <2>3. a \in told /\ \A x \in told : x <= a
    BY <2>2 DEF a
  <2>4. top \in Nat /\ a \in Nat /\ a <= top
    BY <1>7, <1>8, <1>10, <2>3
  <2>5. top <= a
    BY <1>8, <1>10, <2>3, <2>4
  <2>6. a = top
    BY <2>4, <2>5
  <2> QED
    BY <2>4, <2>6 DEF a
<1> DEFINE end == StackOffset(n)
<1>12. end \in Nat /\ top <= end /\ end + AllocatorSize <= Len(memories[n])
  <2>1. end = Align(top)
    BY DEF StackOffset, said
  <2>2. Align(top) \in Nat /\ top <= Align(top)
    BY <1>11, AlignIs
  <2> QED
    BY <1>11, <2>1, <2>2 DEF told
<1>13. \A m \in users : DeclaredEnd(m) \in Nat /\ DeclaredEnd(m) <= end
  <2> TAKE m \in users
  <2>1. DeclaredEnd(m) \in Nat /\ DeclaredEnd(m) <= top
    BY <1>5, <1>9, <1>10
  <2> HIDE DEF top, end
  <2> QED
    BY <1>11, <1>12, <2>1
<1> HIDE DEF end, top

(* So no segment reaches the Allocator. *)
<1>14. ASSUME NEW s \in For(d, "memory", chosen.data)
       PROVE  LET t == chosen.data[s[2]][s[3]]
              IN t.offset \in Nat /\ t.size \in Nat /\ t.offset + t.size <= end
  <2>1. /\ s = <<Place(s[2]), s[2], s[3]>> /\ s[1] = Place(s[2]) /\ s[1] \in Nat
        /\ s[2] \in Externals /\ s[3] \in DOMAIN chosen.data[s[2]]
        /\ Denotes(<<"own", s[2], "memory", chosen.data[s[2]][s[3]].of>>) = d
    <3> HIDE DEF d
    <3> QED BY ForPlaces
  <2>2. chosen.data[s[2]][s[3]] \in [of : Nat, offset : Nat, size : Nat]
    BY <1>1, <2>1, SegmentsAre
  <2>3. chosen.data[s[2]][s[3]].of \in DOMAIN env.index[s[2]]["memory"]
    BY <1>1, <2>1 DEF Legal
  <2>4. s[2] \in users
    BY <2>1, <2>3
  <2>5. chosen.data[s[2]][s[3]].offset + chosen.data[s[2]][s[3]].size <= DeclaredEnd(s[2])
    BY <2>1, <2>4
  <2> DEFINE t == chosen.data[s[2]][s[3]]
  <2>6. t.offset \in Nat /\ t.size \in Nat /\ t.offset + t.size <= DeclaredEnd(s[2])
    BY <2>2, <2>5
  <2> DEFINE e == DeclaredEnd(s[2])
  <2>7. e \in Nat /\ e <= end
    BY <1>13, <2>4
  <2> HIDE DEF t, e
  <2>8. t.offset + t.size <= end
    BY <1>12, <2>6, <2>7 DEF e
  <2> QED
    BY <2>6, <2>8 DEF t
<1>15. /\ memories[n] # Null /\ memories[n] \in Seq(Cells)
       /\ Len(memories[n]) \in Nat /\ DOMAIN memories[n] = 1 .. Len(memories[n])
  <2>1. memories[n] # Null /\ memories[n] \in Seq(Cells)
    BY <1>1 DEF LoadInv, ShapeInv
  <2> QED
    BY <2>1, LenProperties
<1>16. AllocatorSize \in Nat /\ AllocatorSize # 0
  BY SizesAssumption
<1>17. ASSUME NEW i \in 1 .. Len(memories[n])
       PROVE  memories[n][i] = Alloc <=> i \in end + 1 .. end + AllocatorSize
  <2>1. memories[n][i] = CellAt(n, i)
    BY <1>15 DEF LoadInv, DataInv, Placing
  <2>2. ~HostWrote(n)
    BY DEF HostWrote
  <2>3. Given(n, Len(memories[n]))[i] =
           IF i \in end + 1 .. end + 1 + AllocatorSize - 1 THEN Alloc ELSE Zero
    BY <1>1, <1>15, GivenAt DEF end
  <2>4. i \in Nat /\ end + 1 + AllocatorSize - 1 = end + AllocatorSize
    BY <1>12, <1>15, <1>16
  <2>5. ASSUME DataAt(n, i) # {} PROVE i <= end /\ CellAt(n, i) # Alloc
    <3>1. PICK s \in DataAt(n, i) : TRUE
      BY <2>5
    <3>2. /\ s \in For(d, "memory", chosen.data)
          /\ i \in chosen.data[s[2]][s[3]].offset + 1 ..
                   chosen.data[s[2]][s[3]].offset + chosen.data[s[2]][s[3]].size
      BY <3>1, AllPlaced DEF DataAt
    <3>3. i <= end
      <4> DEFINE t == chosen.data[s[2]][s[3]]
      <4>1. /\ t.offset \in Nat /\ t.size \in Nat /\ t.offset + t.size <= end
            /\ i \in t.offset + 1 .. t.offset + t.size
        BY <1>14, <3>2
      <4> HIDE DEF t
      <4> QED
        BY <1>12, <2>4, <4>1
    <3>4. \E a, b, c : CellAt(n, i) = <<a, b, c>>
      BY <2>2, <2>5 DEF CellAt
    <3> QED
      BY <3>3, <3>4 DEF Alloc
  <2>6. ASSUME DataAt(n, i) = {} PROVE CellAt(n, i) = Given(n, Len(memories[n]))[i]
    BY <2>2, <2>6 DEF CellAt
  <2>7. Alloc # Zero
    BY DEF Alloc, Zero
  <2> QED
    BY <1>12, <1>16, <2>1, <2>3, <2>4, <2>5, <2>6, <2>7
<1>18. alloc = end + 1 .. end + AllocatorSize
  BY <1>12, <1>15, <1>16, <1>17
<1>19. Cardinality(alloc) = AllocatorSize
  <2> DEFINE a == end + 1
             b == end + AllocatorSize
  <2>1. a \in Int /\ b \in Int /\ ~(a > b) /\ b - a + 1 = AllocatorSize
    BY <1>12, <1>16
  <2> HIDE DEF a, b, alloc
  <2>2. Cardinality(a .. b) = AllocatorSize
    BY <2>1, FS_Interval
  <2> QED
    BY <1>18, <2>2 DEF a, b
<1>20. \A i \in alloc : i \in Nat /\ i > end
  <2> HIDE DEF alloc
  <2> QED
    BY <1>12, <1>16, <1>18
<1>21. ASSUME NEW t \in segments, NEW i \in alloc PROVE i > t.offset + t.size
  <2>1. t.offset \in Nat /\ t.size \in Nat /\ t.offset + t.size <= end
    BY <1>14
  <2> QED
    BY <1>12, <1>20, <2>1
<1>22. ASSUME NEW m \in users, NEW i \in alloc PROVE i > DeclaredEnd(m)
  <2> DEFINE e == DeclaredEnd(m)
  <2>1. e \in Nat /\ e <= end /\ i \in Nat /\ i > end
    BY <1>13, <1>20
  <2> HIDE DEF e
  <2>2. i > e
    BY <1>12, <2>1
  <2> QED
    BY <2>2 DEF e
<1> QED
  BY <1>19, <1>21, <1>22

-----------------------------------------------------------------------------
(* The theorems *)

\* Memories and tables keep their types, from initMemory and initTable to the end.
THEOREM LoadTypeCorrect == LoaderSpec => []LoaderTypeOK
BY LoadInvariant, LoadedTypes, PTL

\* Runtime::init fails only for an import, a segment that does not fit, a memory that
\* cannot be provided, or a host that refuses.
THEOREM InitFailsOnlyForCause == LoaderSpec => []InitFailsForCause
<1>1. LoadInv => InitFailsForCause
  BY DEF LoadInv
<1> QED
  BY <1>1, LoadInvariant, PTL

\* When init has ended every byte and every entry is that of the last segment for it,
\* whichever of the modules that share the object it is in.
THEOREM LoadsWhatIsDeclared == LoaderSpec => []ContentsAsDeclared
BY LoadInvariant, LoadedContents, PTL

\* The Allocator that the script runtime puts into the memory lies behind what the modules
\* have declared, and no segment loaded after it has overwritten it.
THEOREM AllocatorUntouched == LoaderSpec => []AllocatorIntact
BY LoadInvariant, AllocatorKept, PTL
=============================================================================
