----------------------------- MODULE PoolForest -----------------------------
(***************************************************************************)
(* What the pools of the script runtime promise the guest: a forest that   *)
(* grows by roots and children, from which a pool disappears only after    *)
(* every pool below it.  ScriptPools is the implementation.                *)
(***************************************************************************)
CONSTANTS Pools, Null

VARIABLES live,   \* the pools that exist
          parent  \* [Pools -> Pools \cup {Null}]

vars == <<live, parent>>

Init == \E root \in Pools : /\ live = {root}
                            /\ parent = [p \in Pools |-> Null]

Create(p, above) == /\ p \notin live
                    /\ above \in live \cup {Null}
                    /\ live' = live \cup {p}
                    /\ parent' = [parent EXCEPT ![p] = above]

Destroy(p) == /\ p \in live
              /\ \A q \in live : parent[q] # p
              /\ live' = live \ {p}
              /\ parent' = [parent EXCEPT ![p] = Null]

Next == \E p \in Pools : Destroy(p) \/ \E above \in Pools \cup {Null} : Create(p, above)

Spec == Init /\ [][Next]_vars
=============================================================================
