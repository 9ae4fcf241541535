----------------------------- MODULE ThreadSync -----------------------------
(***************************************************************************)
(* The protocol by which interpreter threads that share a ThreadContext    *)
(* (src/wasm/Thread.h:73) suspend each other while one of them reallocates *)
(* the linear memory: Thread::Run takes the context's mutex shared,        *)
(* Thread::TrySync parks a thread on the condition variable while stopFlag *)
(* is up, and Thread::GrowMemory gives the shared lock back, raises        *)
(* stopFlag and takes the mutex exclusively.                               *)
(*                                                                         *)
(* A thread's pc is the point of the C++ code it has reached; every atomic *)
(* operation, lock operation and use of the memory is a step of its own.   *)
(*   idle     outside Run                                                  *)
(*   entry    in Run, about to PushLocals and PushCall                     *)
(*   sync     at TrySync                                                   *)
(*   flagged  in TrySync, has read stopFlag = true                         *)
(*   waiting  parked in cond.wait, the shared lock released                *)
(*   relock   woken, about to take the shared lock again                   *)
(*   exec     in the opcode loop                                           *)
(*   access   holds the host address of a byte of the memory               *)
(*   flag, acquire, clear, check, swap, release, notify, restore           *)
(*            the steps of GrowMemory and of Runtime::growMemory in it     *)
(***************************************************************************)
EXTENDS Integers, FiniteSets

CONSTANTS Threads,
          Growers,         \* the threads whose guest code executes grow_memory
          HostGrowers,     \* those whose host calls GrowMemory outside Run
          EntryTraps,      \* may the value or call stack be full on entry to Run?
          SpuriousWakeups, \* may cond.wait return without a notification?
          InitialFlags,    \* the values stopFlag may start with, see Init
          MaxNest,         \* bound: Run inside host callbacks inside Run ...
          Values,          \* the stores that are told apart
          InitPages,       \* limits.initial of the memory when it is created
          MaxPages,        \* limits.max (WABT_MAX_PAGES when it has none)
          AddressPages,    \* 2^16: the pages a 32-bit size in bytes can express
          PageCounter,     \* 2^32: the modulus of the page counter
          Deltas,          \* the page counts grow_memory is called with
          None             \* no thread

ASSUME ThreadsAssumption == /\ Growers \subseteq Threads
                            /\ HostGrowers \subseteq Threads
                            /\ None \notin Threads
                            /\ EntryTraps \in BOOLEAN
                            /\ SpuriousWakeups \in BOOLEAN
                            /\ InitialFlags \subseteq BOOLEAN
                            /\ MaxNest \in Nat \ {0}

ASSUME PagesAssumption == /\ InitPages \in Nat
                          /\ MaxPages \in Nat
                          /\ AddressPages \in Nat
                          /\ PageCounter \in Nat \ {0}
                          /\ InitPages <= MaxPages
                          /\ InitPages < AddressPages
                          /\ AddressPages <= PageCounter
                          /\ Deltas \subseteq 0 .. PageCounter - 1

VARIABLES pc,        \* [Threads -> the points above]
          owns,      \* [Threads -> BOOLEAN] _contextLock.owns_lock()
          locked,    \* [Threads -> BOOLEAN] "locked" of the outermost Run
          nest,      \* [Threads -> Nat] the Run calls with a frame pushed
          writer,    \* the thread that holds the mutex exclusively, or None
          stopFlag,  \* ThreadContext::stopFlag
          pages,     \* limits.initial
          stored,    \* the stores the memory block mem.data points to has seen
          dangling,  \* the threads in access whose block has been freed
          old,       \* [Threads -> Nat] old_page_size of the grow_memory opcode
          new,       \* [Threads -> Nat] new_page_size of growMemory
          copy       \* [Threads -> SUBSET Values] the contents of newData

vars == <<pc, owns, locked, nest, writer, stopFlag, pages, stored, dangling,
          old, new, copy>>
lockVars == <<owns, locked, nest, writer, stopFlag>>
memVars  == <<pages, stored, dangling, old, new, copy>>

Points == {"idle", "entry", "sync", "flagged", "waiting", "relock", "exec",
           "access", "flag", "acquire", "clear", "check", "swap", "release",
           "notify", "restore"}

\* stopFlag has no initializer: FALSE in a value-initialized ThreadContext,
\* indeterminate in a default-initialized one.
Init == /\ pc = [t \in Threads |-> "idle"]
        /\ owns = [t \in Threads |-> FALSE]
        /\ locked = [t \in Threads |-> FALSE]
        /\ nest = [t \in Threads |-> 0]
        /\ writer = None
        /\ stopFlag \in InitialFlags
        /\ pages = InitPages
        /\ stored = {}
        /\ dangling = {}
        /\ old = [t \in Threads |-> 0]
        /\ new = [t \in Threads |-> 0]
        /\ copy = [t \in Threads |-> {}]

Goto(t, point) == pc' = [pc EXCEPT ![t] = point]

\* Where GrowMemory returns to: the opcode loop, or a host outside Run.
Caller(t) == IF nest[t] = 0 THEN "idle" ELSE "exec"
-----------------------------------------------------------------------------
(* Thread::Run: entry and exit *)

\* Run takes the shared lock unless the thread has it already.
RunLocks(t) == /\ pc[t] = "idle"
               /\ ~owns[t]
               /\ writer = None
               /\ owns' = [owns EXCEPT ![t] = TRUE]
               /\ locked' = [locked EXCEPT ![t] = TRUE]
               /\ Goto(t, "entry")
               /\ UNCHANGED <<nest, writer, stopFlag, memVars>>

RunFindsLock(t) == /\ pc[t] = "idle"
                   /\ owns[t]
                   /\ Goto(t, "entry")
                   /\ UNCHANGED <<lockVars, memVars>>

\* A host callback of the running guest calls Run: the lock is owned.
HostCallsRun(t) == /\ pc[t] = "exec"
                   /\ nest[t] < MaxNest
                   /\ Goto(t, "entry")
                   /\ UNCHANGED <<lockVars, memVars>>

RunPushes(t) == /\ pc[t] = "entry"
                /\ nest' = [nest EXCEPT ![t] = @ + 1]
                /\ Goto(t, "sync")
                /\ UNCHANGED <<owns, locked, writer, stopFlag, memVars>>

\* CHECK_TRAP leaves Run when PushLocals or PushCall fails: past the unlock.
RunTrapsOnEntry(t) ==
    /\ EntryTraps
    /\ pc[t] = "entry"
    /\ Goto(t, Caller(t))
    /\ locked' = [locked EXCEPT ![t] = @ /\ nest[t] > 0]
    /\ UNCHANGED <<owns, nest, writer, stopFlag, memVars>>

\* Mutant: every Run that finds the lock owned unlocks it, nested or not.
UnlocksNested(t) ==
    /\ pc[t] = "exec"
    /\ nest' = [nest EXCEPT ![t] = @ - 1]
    /\ Goto(t, IF nest[t] = 1 THEN "idle" ELSE "exec")
    /\ owns' = [owns EXCEPT ![t] = FALSE]
    /\ locked' = [locked EXCEPT ![t] = FALSE]
    /\ UNCHANGED <<writer, stopFlag, memVars>>

\* Run ends, with a result or with a trap: only the call that locked unlocks.
RunReturns(t) ==
    /\ pc[t] = "exec"
    /\ nest' = [nest EXCEPT ![t] = @ - 1]
    /\ Goto(t, IF nest[t] = 1 THEN "idle" ELSE "exec")
    /\ IF nest[t] = 1 /\ locked[t]
       THEN /\ owns' = [owns EXCEPT ![t] = FALSE]
            /\ locked' = [locked EXCEPT ![t] = FALSE]
       ELSE UNCHANGED <<owns, locked>>
    /\ UNCHANGED <<writer, stopFlag, memVars>>
-----------------------------------------------------------------------------
(* The opcode loop and TrySync *)

\* A call, or a return to a frame below: the frame loop starts with TrySync.
SwitchFrame(t) == /\ pc[t] = "exec"
                  /\ Goto(t, "sync")
                  /\ UNCHANGED <<lockVars, memVars>>

\* Mutant: TrySync does not look at the flag.
IgnoresStopFlag(t) == /\ pc[t] = "sync"
                      /\ Goto(t, "exec")
                      /\ UNCHANGED <<lockVars, memVars>>

LoadStopFlag(t) == /\ pc[t] = "sync"
                   /\ Goto(t, IF stopFlag THEN "flagged" ELSE "exec")
                   /\ UNCHANGED <<lockVars, memVars>>

\* cond.wait: joining the waiters and releasing the lock are one step.
Wait(t) == /\ pc[t] = "flagged"
           /\ owns' = [owns EXCEPT ![t] = FALSE]
           /\ Goto(t, "waiting")
           /\ UNCHANGED <<locked, nest, writer, stopFlag, memVars>>

WakeSpuriously(t) == /\ SpuriousWakeups
                     /\ pc[t] = "waiting"
                     /\ Goto(t, "relock")
                     /\ UNCHANGED <<lockVars, memVars>>

\* cond.wait takes the shared lock again before it returns to TrySync.
Relock(t) == /\ pc[t] = "relock"
             /\ writer = None
             /\ owns' = [owns EXCEPT ![t] = TRUE]
             /\ Goto(t, "exec")
             /\ UNCHANGED <<locked, nest, writer, stopFlag, memVars>>

\* A load or store first turns an address of the guest into a host pointer.
GetAccessAddress(t) == /\ pc[t] = "exec"
                       /\ Goto(t, "access")
                       /\ UNCHANGED <<lockVars, memVars>>

Load(t) == /\ pc[t] = "access"
           /\ Goto(t, "exec")
           /\ dangling' = dangling \ {t}
           /\ UNCHANGED <<lockVars, pages, stored, old, new, copy>>

\* A store through a pointer into a freed block never reaches the memory.
Store(t, v) == /\ pc[t] = "access"
               /\ Goto(t, "exec")
               /\ stored' = IF t \in dangling THEN stored ELSE stored \cup {v}
               /\ dangling' = dangling \ {t}
               /\ UNCHANGED <<lockVars, pages, old, new, copy>>
-----------------------------------------------------------------------------
(* Thread::GrowMemory *)

\* The opcode reads the old size, pops its argument and calls GrowMemory,
\* which releases the shared lock first.
GrowUnlocks(t, d) ==
    /\ t \in Growers
    /\ pc[t] = "exec"
    /\ old' = [old EXCEPT ![t] = pages]
    /\ new' = [new EXCEPT ![t] = d]
    /\ owns' = [owns EXCEPT ![t] = FALSE]
    /\ Goto(t, "flag")
    /\ UNCHANGED <<locked, nest, writer, stopFlag, pages, stored, dangling, copy>>

\* The script runtime allocates from the memory outside Run (ScriptThread's
\* init, pushString): without the lock GrowMemory synchronises with nobody.
HostGrows(t, d) ==
    /\ t \in HostGrowers
    /\ pc[t] = "idle"
    /\ old' = [old EXCEPT ![t] = pages]
    /\ new' = [new EXCEPT ![t] = d]
    /\ owns' = [owns EXCEPT ![t] = FALSE]
    /\ Goto(t, IF owns[t] THEN "flag" ELSE "check")
    /\ UNCHANGED <<locked, nest, writer, stopFlag, pages, stored, dangling, copy>>

RaiseStopFlag(t) == /\ pc[t] = "flag"
                    /\ stopFlag' = TRUE
                    /\ Goto(t, "acquire")
                    /\ UNCHANGED <<owns, locked, nest, writer, memVars>>

\* mutex.lock(): no thread has the mutex, shared or exclusive.
AcquireExclusive(t) == /\ pc[t] = "acquire"
                       /\ writer = None
                       /\ \A u \in Threads : ~owns[u]
                       /\ writer' = t
                       /\ Goto(t, "clear")
                       /\ UNCHANGED <<owns, locked, nest, stopFlag, memVars>>

\* Mutant: the exclusive lock is given back before the growth, not after it.
ReleasesEarly(t) == /\ pc[t] = "clear"
                    /\ stopFlag' = FALSE
                    /\ writer' = None
                    /\ Goto(t, "check")
                    /\ UNCHANGED <<owns, locked, nest, memVars>>

ClearStopFlag(t) == /\ pc[t] = "clear"
                    /\ stopFlag' = FALSE
                    /\ Goto(t, "check")
                    /\ UNCHANGED <<owns, locked, nest, writer, memVars>>

AfterGrow(t) == IF writer = t THEN "release" ELSE Caller(t)

NewPages(t) == (pages + new[t]) % PageCounter

\* Mutant: the check forgets limits.max.
FitsAddress(n) == n < AddressPages

Fits(n) == n <= MaxPages /\ n < AddressPages

\* Mutant: the new block is not filled from the old one.
ForgetsCopy(t) == /\ pc[t] = "check"
                  /\ Fits(NewPages(t))
                  /\ new' = [new EXCEPT ![t] = NewPages(t)]
                  /\ copy' = [copy EXCEPT ![t] = {}]
                  /\ Goto(t, "swap")
                  /\ UNCHANGED <<lockVars, pages, stored, dangling, old>>

\* Runtime::growMemory: the limits, then the copy into a new block ...
CopyMemory(t) == /\ pc[t] = "check"
                 /\ Fits(NewPages(t))
                 /\ new' = [new EXCEPT ![t] = NewPages(t)]
                 /\ copy' = [copy EXCEPT ![t] = stored]
                 /\ Goto(t, "swap")
                 /\ UNCHANGED <<lockVars, pages, stored, dangling, old>>

\* ... which becomes the memory, and the old block is freed.
SwapMemory(t) == /\ pc[t] = "swap"
                 /\ pages' = new[t]
                 /\ stored' = copy[t]
                 /\ dangling' = dangling \cup {u \in Threads : pc[u] = "access"}
                 /\ old' = [old EXCEPT ![t] = 0]
                 /\ new' = [new EXCEPT ![t] = 0]
                 /\ copy' = [copy EXCEPT ![t] = {}]
                 /\ Goto(t, AfterGrow(t))
                 /\ UNCHANGED lockVars

\* The size exceeds a limit, or the embedder's memory callback refuses it.
GrowFails(t) == /\ pc[t] = "check"
                /\ old' = [old EXCEPT ![t] = 0]
                /\ new' = [new EXCEPT ![t] = 0]
                /\ Goto(t, AfterGrow(t))
                /\ UNCHANGED <<lockVars, pages, stored, dangling, copy>>

\* Mutant: a growth ends without notify_all.
ForgetsNotify(t) == /\ pc[t] = "release"
                    /\ writer' = None
                    /\ Goto(t, "restore")
                    /\ UNCHANGED <<owns, locked, nest, stopFlag, memVars>>

ReleaseExclusive(t) == /\ pc[t] = "release"
                       /\ writer' = None
                       /\ Goto(t, "notify")
                       /\ UNCHANGED <<owns, locked, nest, stopFlag, memVars>>

\* Mutant: notify_one where the code has notify_all.
NotifyOne(t) ==
    /\ pc[t] = "notify"
    /\ \/ /\ \A u \in Threads : pc[u] # "waiting"
          /\ Goto(t, "restore")
       \/ \E u \in Threads :
            /\ pc[u] = "waiting"
            /\ pc' = [pc EXCEPT ![t] = "restore", ![u] = "relock"]
    /\ UNCHANGED <<lockVars, memVars>>

NotifyAll(t) ==
    /\ pc[t] = "notify"
    /\ pc' = [u \in Threads |-> IF u = t THEN "restore"
                                ELSE IF pc[u] = "waiting" THEN "relock"
                                ELSE pc[u]]
    /\ UNCHANGED <<lockVars, memVars>>

RestoreShared(t) == /\ pc[t] = "restore"
                    /\ writer = None
                    /\ owns' = [owns EXCEPT ![t] = TRUE]
                    /\ Goto(t, Caller(t))
                    /\ UNCHANGED <<locked, nest, writer, stopFlag, memVars>>
-----------------------------------------------------------------------------
\* What a thread does of itself, once it has a next operation to perform.
Proceed(t) == \/ RunPushes(t) \/ RunTrapsOnEntry(t)
              \/ LoadStopFlag(t) \/ Wait(t) \/ Relock(t)
              \/ Load(t) \/ \E v \in Values : Store(t, v)
              \/ RaiseStopFlag(t) \/ AcquireExclusive(t) \/ ClearStopFlag(t)
              \/ CopyMemory(t) \/ SwapMemory(t) \/ GrowFails(t)
              \/ ReleaseExclusive(t) \/ NotifyAll(t) \/ RestoreShared(t)

\* What the guest's code, its host or the implementation of cond.wait decide.
Choose(t) == \/ RunLocks(t) \/ RunFindsLock(t) \/ HostCallsRun(t)
             \/ GetAccessAddress(t) \/ WakeSpuriously(t)
             \/ \E d \in Deltas : GrowUnlocks(t, d) \/ HostGrows(t, d)

LeaveFrame(t) == SwitchFrame(t) \/ RunReturns(t)

Next == \E t \in Threads : Proceed(t) \/ Choose(t) \/ LeaveFrame(t)

Spec == Init /\ [][Next]_vars

\* The scheduler runs every thread that can run, and no function of the guest
\* loops for ever without a call: TrySync is reached at frame switches only.
Fairness == \A t \in Threads : WF_vars(Proceed(t)) /\ SF_vars(LeaveFrame(t))

FairSpec == Spec /\ Fairness
-----------------------------------------------------------------------------
(* Properties *)

\* Every variable has its type; the memory respects its limits.
TypeOK == /\ pc \in [Threads -> Points]
          /\ owns \in [Threads -> BOOLEAN]
          /\ locked \in [Threads -> BOOLEAN]
          /\ nest \in [Threads -> 0..MaxNest]
          /\ writer \in Threads \cup {None}
          /\ stopFlag \in BOOLEAN
          /\ pages \in 0..MaxPages
          /\ stored \subseteq Values
          /\ dangling \subseteq Threads
          /\ old \in [Threads -> 0..MaxPages]
          /\ new \in [Threads -> 0 .. PageCounter - 1]
          /\ copy \in [Threads -> SUBSET Values]

\* A thread that runs opcodes or holds a host address (Thread::Run) has the
\* shared lock, whatever nested calls of Run, waits in TrySync and growths of
\* its own it has been through; and a growth (GrowMemory) excludes them all.
GuestRunsUnderLock ==
    \A t \in Threads : pc[t] \in {"exec", "access"} => owns[t] /\ writer = None

\* No thread holds a host address into a block that a growth has freed
\* (GetAccessAddress in one thread, Runtime_realloc_mem in another).
NoDanglingAccess == dangling = {}

\* The threads that will call notify_all.
Notifying == {g \in Threads : pc[g] \in {"acquire", "clear", "check", "swap",
                                        "release", "notify"}}

\* Nobody parks in TrySync without a growth under way whose notify_all is
\* still to come: no wakeup is lost, though cond.wait has no predicate.
ParkedHaveNotifier ==
    (\E t \in Threads : pc[t] \in {"flagged", "waiting"}) => Notifying # {}

\* The threads' accesses and growths are those of one memory that grows
\* atomically and keeps its contents.
Memory == INSTANCE GrowableMemory
          WITH users <- {t \in Threads : pc[t] = "access"}

ImplementsMemory == Memory!Spec

\* Every thread parked in TrySync is woken, however the flags and growths of
\* several growers interleave.  (That it then runs again would need a mutex
\* that does not starve readers, which std::shared_timed_mutex may do.)
ParkedWake == \A t \in Threads : pc[t] = "waiting" ~> pc[t] # "waiting"

\* A growth gets the exclusive lock, and the thread that asked for it goes on, unless
\* another grower takes the lock before it and clears the flag that both have raised.
GrowthCompletes ==
    \A t \in Threads :
        pc[t] = "acquire" /\ stopFlag ~> pc[t] = "exec" \/ \E u \in Threads \ {t} : pc[u] = "clear"
=============================================================================
