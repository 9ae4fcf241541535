----------------------------- MODULE ModuleStore -----------------------------
(***************************************************************************)
(* What loading promises to those who link modules: a store of modules that *)
(* never change, each one complete and consistent in itself.                *)
(***************************************************************************)
EXTENDS Naturals, Sequences, SequencesExt

CONSTANTS Names, Kinds

VARIABLE store    \* name -> module

Resolves(m, kind, index) ==
    IF index.import THEN index.index \in DOMAIN m.imports /\ m.imports[index.index].kind = kind
    ELSE index.index \in DOMAIN m.defs[kind]

\* Every index of the module is the index of something, every function has a body.
Consistent(m) ==
    /\ \A kind \in Kinds : \A index \in ToSet(m.index[kind]) : Resolves(m, kind, index)
    /\ \A f \in DOMAIN m.defs["func"] : m.defs["func"][f].body
    /\ \A e \in ToSet(m.exports) : m.index[e.kind][e.object] = e.index
    /\ \A s \in ToSet(m.elements) :
        /\ s.table \in DOMAIN m.index["table"]
        /\ \A f \in ToSet(s.values) : f \in DOMAIN m.index["func"]
    /\ \A s \in ToSet(m.data) : s.memory \in DOMAIN m.index["memory"]

Init == \A name \in DOMAIN store : Consistent(store[name])
Load(name) ==
    /\ name \notin DOMAIN store
    /\ DOMAIN store' = DOMAIN store \cup {name}
    /\ \A other \in DOMAIN store : store'[other] = store[other]
    /\ Consistent(store'[name])
Next == \E name \in Names : Load(name)
Spec == Init /\ [][Next]_store
=============================================================================
