--------------------------- MODULE GrowableMemory ---------------------------
(***************************************************************************)
(* What the interpreter promises to several guest threads that share one   *)
(* linear memory: a thread resolves an address (the host pointer of a byte *)
(* of the memory) and then loads or stores through it; the memory grows in *)
(* one step, only while no resolved address is outstanding, and a growth   *)
(* keeps every byte stored before it.  src/wasm/Thread.h (ThreadContext)   *)
(* and src/wasm/ThreadUtils.cc (GrowMemory, TrySync) implement it; see     *)
(* ThreadSync.                                                             *)
(***************************************************************************)
EXTENDS Integers

CONSTANTS Threads,    \* the guest threads
          Values,     \* the stores that are told apart
          InitPages,  \* limits.initial of the memory when it is created
          MaxPages    \* limits.max of the memory

VARIABLES pages,      \* the memory's size in pages
          stored,     \* the stores that have reached the memory
          users       \* the threads with a resolved address outstanding

vars == <<pages, stored, users>>

Init == /\ pages = InitPages
        /\ stored = {}
        /\ users = {}

Resolve(t) == /\ t \notin users
              /\ users' = users \cup {t}
              /\ UNCHANGED <<pages, stored>>

Load(t) == /\ t \in users
           /\ users' = users \ {t}
           /\ UNCHANGED <<pages, stored>>

Store(t, v) == /\ t \in users
               /\ users' = users \ {t}
               /\ stored' = stored \cup {v}
               /\ UNCHANGED pages

Grow == /\ users = {}
        /\ pages' \in pages..MaxPages
        /\ UNCHANGED <<stored, users>>

Next == \/ \E t \in Threads : Resolve(t) \/ Load(t) \/ \E v \in Values : Store(t, v)
        \/ Grow

Spec == Init /\ [][Next]_vars
=============================================================================
