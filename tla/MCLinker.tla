------------------------------ MODULE MCLinker ------------------------------
(***************************************************************************)
(* Linker for TLC: two external modules and the host, and environments in  *)
(* four families: two functions or two globals per module, a memory in     *)
(* each, or one object of every kind.  A module exports its first object of a kind under the   *)
(* first name of the kind, its second under the second.                    *)
(***************************************************************************)
EXTENDS Linker, TLC

CONSTANTS A, B, Env, Absent

MCOrder == <<A, B>>
MCFields == {"f1", "f2", "g1", "g2", "m1", "t1"}
MCTypes == {1, 2}

Names == [func |-> <<"f1", "f2">>, global |-> <<"g1", "g2">>, memory |-> <<"m1">>, table |-> <<"t1">>]
Other(m) == IF m = A THEN B ELSE A

Definition(t, mut) == [from |-> Null, field |-> Null, type |-> t, mut |-> mut]
Import(from, f, t) == [from |-> from, field |-> f, type |-> t, mut |-> FALSE]

\* What an entry can be, and index spaces of at most n of these, imports first.
Entries(m, k) ==
    {Definition(1, mut) : mut \in IF k = "global" THEN BOOLEAN ELSE {FALSE}}
    \cup {Import(from, Names[k][1], t) : from \in {Other(m), Env}, t \in MCTypes}
    \cup {Import(Other(m), f, 1) : f \in ToSet(Names[k])}
    \cup IF k = "memory" THEN {Import(Absent, "m1", 1)} ELSE {}
Index(n, E) == {s \in UNION {[1 .. l -> E] : l \in 0 .. n} :
                   \A i, j \in DOMAIN s : i < j /\ s[i].from = Null => s[j].from = Null}

ExportsOf(index) ==
    [f \in MCFields |->
        LET ks == {k \in DOMAIN Names : f \in ToSet(Names[k])}
            k == CHOOSE l \in ks : TRUE
            i == CHOOSE j \in DOMAIN Names[k] : Names[k][j] = f
        IN IF i \in DOMAIN index[k] THEN [kind |-> k, index |-> i] ELSE Null]

Nothing == [k \in DOMAIN Names |-> [f \in MCFields |-> Null]]
With(k, x) == [Nothing EXCEPT ![k][Names[k][1]] = x]

HostObjects(k) ==
    {Null} \cup (IF k \in Limited THEN {} ELSE {[type |-> 1, mut |-> FALSE]})
           \cup (IF k = "global" THEN {[type |-> 1, mut |-> TRUE]} ELSE {})

Environment(indexes, host, policy) ==
    [index |-> indexes,
     exports |-> [m \in {A, B} |-> ExportsOf(indexes[m])],
     host |-> host,
     policy |-> policy]

\* Objects of one kind, at most na in A and nb in B; the host defines the first
\* field, or the policy provides it, or neither.
OfKind(k, na, nb) ==
    LET only(s) == [l \in DOMAIN Names |-> IF l = k THEN s ELSE <<>>]
        ask(h, p) == {Environment([m \in {A, B} |-> only(IF m = A THEN a ELSE b)],
                                  With(k, h), With(k, p)) :
                         a \in Index(na, Entries(A, k)), b \in Index(nb, Entries(B, k))}
    IN UNION {ask(h, Null) : h \in HostObjects(k)} \cup UNION {ask(h, 1) : h \in HostObjects(k)}

\* A function, a mutable global and a memory in each module, with a willing policy.
OfAllKinds ==
    LET one(m, k) == {e \in Entries(m, k) : e.type = 1 /\ e.from # Absent
                                            /\ e.field \in {Null, Names[k][1]}}
        table(memory) == IF memory.from = Null THEN Import(Env, "t1", 2) ELSE Definition(1, FALSE)
        all(m) == {[func |-> <<f>>, global |-> <<Definition(1, TRUE)>>, memory |-> <<x>>,
                    table |-> <<table(x)>>] : f \in one(m, "func"), x \in one(m, "memory")}
    IN {Environment([m \in {A, B} |-> IF m = A THEN a ELSE b], Nothing,
                    [k \in DOMAIN Names |-> With(k, 1)[k]]) : a \in all(A), b \in all(B)}

MCEnvironments == OfKind("func", 2, 1) \cup OfKind("func", 1, 2) \cup OfKind("global", 2, 1)
                  \cup OfKind("memory", 1, 1) \cup OfAllKinds
=============================================================================
