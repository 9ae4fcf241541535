-------------------------- MODULE ThreadSyncProofs --------------------------
(***************************************************************************)
(* Proofs about ThreadSync, for any number of threads, any nesting of Run, *)
(* any limits of the memory and any sequence of growths.                   *)
(***************************************************************************)
EXTENDS ThreadSync, TLAPS

-----------------------------------------------------------------------------
(* Type correctness *)

\* The depth of Run goes with the point a thread has reached: idle threads
\* have no frame, threads in the opcode loop have one.
NestInv == \A t \in Threads :
             /\ pc[t] = "idle" => nest[t] = 0
             /\ pc[t] = "entry" => nest[t] < MaxNest
             /\ pc[t] \in {"sync", "flagged", "waiting", "relock", "exec", "access"}
                  => nest[t] > 0

\* A new size that reached the reallocation has passed the check of the limits.
SizeInv == \A t \in Threads : pc[t] = "swap" => new[t] <= MaxPages

TypeInv == TypeOK /\ NestInv /\ SizeInv

\* growMemory accepts no size above the limits.
LEMMA NewPagesType ==
  ASSUME TypeOK, NEW t \in Threads
  PROVE  /\ NewPages(t) \in 0 .. PageCounter - 1
         /\ Fits(NewPages(t)) => NewPages(t) <= MaxPages
BY PagesAssumption DEF TypeOK, NewPages, Fits

\* A fresh ThreadContext and memory (setSyncContext, initMemory) have the types.
LEMMA TypeInit == Init => TypeInv
BY ThreadsAssumption, PagesAssumption
   DEF Init, TypeInv, TypeOK, NestInv, SizeInv, Points

\* Each step of Run, TrySync and GrowMemory keeps the types and the depths.
LEMMA TypeProceed ==
  ASSUME TypeInv, NEW t \in Threads, Proceed(t)
  PROVE  TypeInv'
<1> USE ThreadsAssumption DEF TypeInv, TypeOK, NestInv, SizeInv, Points, Goto, memVars, lockVars, Caller
<1>1. CASE RunPushes(t)
  BY <1>1 DEF RunPushes
<1>2. CASE RunTrapsOnEntry(t)
  BY <1>2 DEF RunTrapsOnEntry
<1>3. CASE LoadStopFlag(t)
  BY <1>3 DEF LoadStopFlag
<1>4. CASE Wait(t)
  BY <1>4 DEF Wait
<1>5. CASE Relock(t)
  BY <1>5 DEF Relock
<1>6. CASE Load(t)
  BY <1>6 DEF Load
<1>7. ASSUME NEW v \in Values, Store(t, v)
      PROVE  TypeInv'
  BY <1>7 DEF Store
<1>8. CASE RaiseStopFlag(t)
  BY <1>8 DEF RaiseStopFlag
<1>9. CASE AcquireExclusive(t)
  BY <1>9 DEF AcquireExclusive
<1>10. CASE ClearStopFlag(t)
  BY <1>10 DEF ClearStopFlag
<1>11. CASE CopyMemory(t)
  BY <1>11, NewPagesType DEF CopyMemory
<1>12. CASE SwapMemory(t)
  BY <1>12, PagesAssumption DEF SwapMemory, AfterGrow
<1>13. CASE GrowFails(t)
  BY <1>13, PagesAssumption DEF GrowFails, AfterGrow
<1>14. CASE ReleaseExclusive(t)
  BY <1>14 DEF ReleaseExclusive
<1>15. CASE NotifyAll(t)
  BY <1>15 DEF NotifyAll
<1>16. CASE RestoreShared(t)
  BY <1>16 DEF RestoreShared
<1> QED
  BY <1>1, <1>2, <1>3, <1>4, <1>5, <1>6, <1>7, <1>8, <1>9, <1>10, <1>11,
     <1>12, <1>13, <1>14, <1>15, <1>16 DEF Proceed

\* Entering and leaving Run, starting an access or a growth keep them too.
LEMMA TypeChoose ==
  ASSUME TypeInv, NEW t \in Threads, Choose(t) \/ LeaveFrame(t)
  PROVE  TypeInv'
<1> USE ThreadsAssumption, PagesAssumption
    DEF TypeInv, TypeOK, NestInv, SizeInv, Points, Goto, memVars, lockVars
<1>1. CASE RunLocks(t)
  BY <1>1 DEF RunLocks
<1>2. CASE RunFindsLock(t)
  BY <1>2 DEF RunFindsLock
<1>3. CASE HostCallsRun(t)
  BY <1>3 DEF HostCallsRun
<1>4. CASE GetAccessAddress(t)
  BY <1>4 DEF GetAccessAddress
<1>5. CASE WakeSpuriously(t)
  BY <1>5 DEF WakeSpuriously
<1>6. ASSUME NEW d \in Deltas, GrowUnlocks(t, d)
      PROVE  TypeInv'
  BY <1>6 DEF GrowUnlocks
<1>7. ASSUME NEW d \in Deltas, HostGrows(t, d)
      PROVE  TypeInv'
  BY <1>7 DEF HostGrows
<1>8. CASE SwitchFrame(t)
  BY <1>8 DEF SwitchFrame
<1>9. CASE RunReturns(t)
  <2>1. nest[t] \in 1..MaxNest
    BY <1>9 DEF RunReturns
  <2>2. owns' \in [Threads -> BOOLEAN] /\ locked' \in [Threads -> BOOLEAN]
    <3>1. CASE nest[t] = 1 /\ locked[t]
      BY <1>9, <3>1 DEF RunReturns
    <3>2. CASE ~(nest[t] = 1 /\ locked[t])
      BY <1>9, <3>2 DEF RunReturns
    <3> QED BY <3>1, <3>2
  <2>3. nest' \in [Threads -> 0..MaxNest] /\ nest'[t] = nest[t] - 1
    BY <1>9, <2>1 DEF RunReturns
  <2>4. pc' \in [Threads -> Points] /\ NestInv'
    <3>1. CASE nest[t] = 1
      BY <1>9, <2>1, <2>3, <3>1 DEF RunReturns
    <3>2. CASE nest[t] # 1
      BY <1>9, <2>1, <2>3, <3>2 DEF RunReturns
    <3> QED BY <3>1, <3>2
  <2>5. SizeInv'
    BY <1>9 DEF RunReturns
  <2> QED
    BY <1>9, <2>2, <2>3, <2>4, <2>5 DEF RunReturns
<1> QED
  BY <1>1, <1>2, <1>3, <1>4, <1>5, <1>6, <1>7, <1>8, <1>9
     DEF Choose, LeaveFrame

\* So does every step of the protocol.
LEMMA TypeStep == TypeInv /\ [Next]_vars => TypeInv'
<1> SUFFICES ASSUME TypeInv, [Next]_vars
             PROVE  TypeInv'
  OBVIOUS
<1>1. CASE UNCHANGED vars
  BY <1>1 DEF vars, TypeInv, TypeOK, NestInv, SizeInv
<1>2. ASSUME NEW t \in Threads, Proceed(t) \/ Choose(t) \/ LeaveFrame(t)
      PROVE  TypeInv'
  BY <1>2, TypeProceed, TypeChoose
<1> QED
  BY <1>1, <1>2 DEF Next

\* Every variable of the protocol keeps its type; in particular the memory's
\* size stays within its limits (Runtime::growMemory).
THEOREM TypeCorrect == Spec => []TypeOK
<1>1. TypeInv => TypeOK
  BY DEF TypeInv
<1> QED
  BY <1>1, TypeInit, TypeStep, PTL DEF Spec

\* The types and depths as an invariant, for the proofs below.
LEMMA TypeAlways == Spec => []TypeInv
BY TypeInit, TypeStep, PTL DEF Spec
-----------------------------------------------------------------------------
(* The lock discipline *)

\* The points at which a thread has the shared lock ...
Sharing == {"entry", "sync", "flagged", "exec", "access"}

\* ... those at which it has the exclusive one ...
Excluding == {"clear", "check", "swap", "release"}

\* ... and those at which it has given the shared lock away.
Parted == Excluding \cup {"waiting", "relock", "flag", "acquire", "notify",
                         "restore"}

\* (An idle thread may have either: RunTrapsOnEntry keeps the lock.)
LockInv == /\ \A t \in Threads : pc[t] \in Sharing => owns[t]
           /\ \A t \in Threads : pc[t] \in Parted => ~owns[t]
           /\ \A t \in Threads : writer = t <=> pc[t] \in Excluding
           /\ writer # None => \A t \in Threads : ~owns[t]

\* Nobody owns the mutex of a fresh ThreadContext.
LEMMA LockInit == Init => LockInv
BY ThreadsAssumption DEF Init, LockInv, Sharing, Parted, Excluding

\* Run, TrySync and GrowMemory keep the correspondence of points and lock,
\* as long as GrowMemory is called inside Run only.
LEMMA LockStep ==
  ASSUME HostGrowers = {}, TypeInv, LockInv, NEW t \in Threads,
         Proceed(t) \/ Choose(t) \/ LeaveFrame(t)
  PROVE  LockInv'
<1> USE ThreadsAssumption DEF TypeInv, TypeOK, NestInv, LockInv, Sharing, Parted,
        Excluding, Points, Goto, memVars, lockVars
<1>1. CASE RunPushes(t)
  BY <1>1 DEF RunPushes
<1>2. CASE RunTrapsOnEntry(t)
  BY <1>2 DEF RunTrapsOnEntry, Caller
<1>3. CASE LoadStopFlag(t)
  BY <1>3 DEF LoadStopFlag
<1>4. CASE Wait(t)
  BY <1>4 DEF Wait
<1>5. CASE Relock(t)
  BY <1>5 DEF Relock
<1>6. CASE Load(t)
  BY <1>6 DEF Load
<1>7. ASSUME NEW v \in Values, Store(t, v)
      PROVE  LockInv'
  BY <1>7 DEF Store
<1>8. CASE RaiseStopFlag(t)
  BY <1>8 DEF RaiseStopFlag
<1>9. CASE AcquireExclusive(t)
  BY <1>9 DEF AcquireExclusive
<1>10. CASE ClearStopFlag(t)
  BY <1>10 DEF ClearStopFlag
<1>11. CASE CopyMemory(t)
  BY <1>11 DEF CopyMemory
<1>12. CASE SwapMemory(t)
  BY <1>12 DEF SwapMemory, AfterGrow, Caller
<1>13. CASE GrowFails(t)
  BY <1>13 DEF GrowFails, AfterGrow, Caller
<1>14. CASE ReleaseExclusive(t)
  BY <1>14 DEF ReleaseExclusive
<1>15. CASE NotifyAll(t)
  BY <1>15 DEF NotifyAll
<1>16. CASE RestoreShared(t)
  BY <1>16 DEF RestoreShared, Caller
<1>17. CASE RunLocks(t)
  BY <1>17 DEF RunLocks
<1>18. CASE RunFindsLock(t)
  BY <1>18 DEF RunFindsLock
<1>19. CASE HostCallsRun(t)
  BY <1>19 DEF HostCallsRun
<1>20. CASE GetAccessAddress(t)
  BY <1>20 DEF GetAccessAddress
<1>21. CASE WakeSpuriously(t)
  BY <1>21 DEF WakeSpuriously
<1>22. ASSUME NEW d \in Deltas, GrowUnlocks(t, d)
      PROVE  LockInv'
  BY <1>22 DEF GrowUnlocks
<1>23. ASSUME NEW d \in Deltas, HostGrows(t, d)
      PROVE  LockInv'
  BY <1>23 DEF HostGrows
<1>24. CASE SwitchFrame(t)
  BY <1>24 DEF SwitchFrame
<1>25. CASE RunReturns(t)
  BY <1>25 DEF RunReturns
<1> QED
  BY <1>1, <1>2, <1>3, <1>4, <1>5, <1>6, <1>7, <1>8, <1>9, <1>10, <1>11,
     <1>12, <1>13, <1>14, <1>15, <1>16, <1>17, <1>18, <1>19, <1>20, <1>21,
     <1>22, <1>23, <1>24, <1>25 DEF Proceed, Choose, LeaveFrame

-----------------------------------------------------------------------------
(* The memory *)

\* No size the guest asks for wraps the uint32_t page counter.
NoWrap == \A d \in Deltas : d + MaxPages < PageCounter

\* No address dangles; the block that is about to become the memory has its
\* contents; and a growth in progress works on the size the guest asked for.
MemoryInv ==
    /\ dangling = {}
    /\ \A t \in Threads : pc[t] = "swap" => copy[t] = stored /\ new[t] >= pages
    /\ \A t \in Threads : pc[t] \in {"flag", "acquire", "clear", "check"}
                           => new[t] \in Deltas

\* Before the first access no address dangles and nothing is being copied.
LEMMA MemoryInit == Init => MemoryInv
BY DEF Init, MemoryInv

\* Remainders of numbers below the modulus.
LEMMA ModSmall ==
  ASSUME NEW m \in Nat, NEW n \in Nat, n < m
  PROVE  n % m = n
OBVIOUS

\* Without wrapping, growMemory never computes a smaller size.
LEMMA NewPagesGrow ==
  ASSUME NoWrap, TypeInv, MemoryInv, NEW t \in Threads, pc[t] = "check"
  PROVE  NewPages(t) \in Nat /\ NewPages(t) >= pages
<1>1. new[t] \in Nat /\ pages \in 0..MaxPages /\ new[t] + MaxPages < PageCounter
  BY PagesAssumption DEF NoWrap, TypeInv, TypeOK, MemoryInv
<1>2. NewPages(t) = pages + new[t]
  <2>1. pages + new[t] \in Nat /\ PageCounter \in Nat /\ pages + new[t] < PageCounter
    BY <1>1, PagesAssumption
  <2> QED
    BY <2>1, ModSmall DEF NewPages
<1> QED
  BY <1>1, <1>2, PagesAssumption

\* A growth under the exclusive lock finds no address in use, and the contents
\* it copies do not change until it swaps the blocks (Runtime::growMemory).
LEMMA MemoryStep ==
  ASSUME HostGrowers = {}, NoWrap, TypeInv, LockInv, MemoryInv, NEW t \in Threads,
         Proceed(t) \/ Choose(t) \/ LeaveFrame(t)
  PROVE  MemoryInv'
<1> USE ThreadsAssumption DEF TypeInv, TypeOK, LockInv, MemoryInv, Sharing, Parted,
        Excluding, Points, Goto, memVars, lockVars
<1>1. CASE RunPushes(t)
  BY <1>1 DEF RunPushes
<1>2. CASE RunTrapsOnEntry(t)
  BY <1>2 DEF RunTrapsOnEntry, Caller
<1>3. CASE LoadStopFlag(t)
  BY <1>3 DEF LoadStopFlag
<1>4. CASE Wait(t)
  BY <1>4 DEF Wait
<1>5. CASE Relock(t)
  BY <1>5 DEF Relock
<1>6. CASE Load(t)
  BY <1>6 DEF Load
<1>7. ASSUME NEW v \in Values, Store(t, v)
      PROVE  MemoryInv'
  BY <1>7 DEF Store
<1>8. CASE RaiseStopFlag(t)
  BY <1>8 DEF RaiseStopFlag
<1>9. CASE AcquireExclusive(t)
  BY <1>9 DEF AcquireExclusive
<1>10. CASE ClearStopFlag(t)
  BY <1>10 DEF ClearStopFlag
<1>11. CASE CopyMemory(t)
  BY <1>11, NewPagesGrow DEF CopyMemory
<1>12. CASE SwapMemory(t)
  BY <1>12 DEF SwapMemory, AfterGrow, Caller
<1>13. CASE GrowFails(t)
  BY <1>13 DEF GrowFails, AfterGrow, Caller
<1>14. CASE ReleaseExclusive(t)
  BY <1>14 DEF ReleaseExclusive
<1>15. CASE NotifyAll(t)
  BY <1>15 DEF NotifyAll
<1>16. CASE RestoreShared(t)
  BY <1>16 DEF RestoreShared, Caller
<1>17. CASE RunLocks(t)
  BY <1>17 DEF RunLocks
<1>18. CASE RunFindsLock(t)
  BY <1>18 DEF RunFindsLock
<1>19. CASE HostCallsRun(t)
  BY <1>19 DEF HostCallsRun
<1>20. CASE GetAccessAddress(t)
  BY <1>20 DEF GetAccessAddress
<1>21. CASE WakeSpuriously(t)
  BY <1>21 DEF WakeSpuriously
<1>22. ASSUME NEW d \in Deltas, GrowUnlocks(t, d)
      PROVE  MemoryInv'
  BY <1>22 DEF GrowUnlocks
<1>23. ASSUME NEW d \in Deltas, HostGrows(t, d)
      PROVE  MemoryInv'
  BY <1>23 DEF HostGrows
<1>24. CASE SwitchFrame(t)
  BY <1>24 DEF SwitchFrame
<1>25. CASE RunReturns(t)
  BY <1>25 DEF RunReturns
<1> QED
  BY <1>1, <1>2, <1>3, <1>4, <1>5, <1>6, <1>7, <1>8, <1>9, <1>10, <1>11,
     <1>12, <1>13, <1>14, <1>15, <1>16, <1>17, <1>18, <1>19, <1>20, <1>21,
     <1>22, <1>23, <1>24, <1>25 DEF Proceed, Choose, LeaveFrame

-----------------------------------------------------------------------------
(* Wakeups *)

\* A raised flag has the thread that raised it before its next clear; a thread
\* that saw the flag has a grower that cannot get the lock before it parks;
\* and a parked thread has a grower that has yet to call notify_all.
WakeInv ==
    /\ stopFlag => \E g \in Threads : pc[g] \in {"acquire", "clear"}
    /\ (\E t \in Threads : pc[t] = "flagged")
         => \E g \in Threads : pc[g] = "acquire"
    /\ (\E t \in Threads : pc[t] = "waiting") => Notifying # {}

\* With the flag down at the start nobody is parked.
LEMMA WakeInit == ASSUME InitialFlags = {FALSE} PROVE Init => WakeInv
BY DEF Init, WakeInv

\* TrySync, GrowMemory's flag and notify_all keep a notifier for the parked.
LEMMA WakeStep ==
  ASSUME HostGrowers = {}, TypeInv, LockInv, WakeInv, NEW t \in Threads,
         Proceed(t) \/ Choose(t) \/ LeaveFrame(t)
  PROVE  WakeInv'
<1> USE ThreadsAssumption DEF TypeInv, TypeOK, LockInv, WakeInv, Notifying, Sharing,
        Parted, Excluding, Points, Goto, memVars, lockVars
<1>1. CASE RunPushes(t)
  BY <1>1 DEF RunPushes
<1>2. CASE RunTrapsOnEntry(t)
  BY <1>2 DEF RunTrapsOnEntry, Caller
<1>3. CASE LoadStopFlag(t)
  BY <1>3 DEF LoadStopFlag
<1>4. CASE Wait(t)
  BY <1>4 DEF Wait
<1>5. CASE Relock(t)
  BY <1>5 DEF Relock
<1>6. CASE Load(t)
  BY <1>6 DEF Load
<1>7. ASSUME NEW v \in Values, Store(t, v)
      PROVE  WakeInv'
  BY <1>7 DEF Store
<1>8. CASE RaiseStopFlag(t)
  BY <1>8 DEF RaiseStopFlag
<1>9. CASE AcquireExclusive(t)
  BY <1>9 DEF AcquireExclusive
<1>10. CASE ClearStopFlag(t)
  BY <1>10 DEF ClearStopFlag
<1>11. CASE CopyMemory(t)
  BY <1>11 DEF CopyMemory
<1>12. CASE SwapMemory(t)
  BY <1>12 DEF SwapMemory, AfterGrow, Caller
<1>13. CASE GrowFails(t)
  BY <1>13 DEF GrowFails, AfterGrow, Caller
<1>14. CASE ReleaseExclusive(t)
  BY <1>14 DEF ReleaseExclusive
<1>15. CASE NotifyAll(t)
  BY <1>15 DEF NotifyAll
<1>16. CASE RestoreShared(t)
  BY <1>16 DEF RestoreShared, Caller
<1>17. CASE RunLocks(t)
  BY <1>17 DEF RunLocks
<1>18. CASE RunFindsLock(t)
  BY <1>18 DEF RunFindsLock
<1>19. CASE HostCallsRun(t)
  BY <1>19 DEF HostCallsRun
<1>20. CASE GetAccessAddress(t)
  BY <1>20 DEF GetAccessAddress
<1>21. CASE WakeSpuriously(t)
  BY <1>21 DEF WakeSpuriously
<1>22. ASSUME NEW d \in Deltas, GrowUnlocks(t, d)
      PROVE  WakeInv'
  BY <1>22 DEF GrowUnlocks
<1>23. ASSUME NEW d \in Deltas, HostGrows(t, d)
      PROVE  WakeInv'
  BY <1>23 DEF HostGrows
<1>24. CASE SwitchFrame(t)
  BY <1>24 DEF SwitchFrame
<1>25. CASE RunReturns(t)
  BY <1>25 DEF RunReturns
<1> QED
  BY <1>1, <1>2, <1>3, <1>4, <1>5, <1>6, <1>7, <1>8, <1>9, <1>10, <1>11,
     <1>12, <1>13, <1>14, <1>15, <1>16, <1>17, <1>18, <1>19, <1>20, <1>21,
     <1>22, <1>23, <1>24, <1>25 DEF Proceed, Choose, LeaveFrame

-----------------------------------------------------------------------------
(* The theorems *)

LockedInv == TypeInv /\ LockInv

\* Steps that leave every variable alone keep the invariants.
LEMMA Stutter ==
  ASSUME UNCHANGED vars
  PROVE  /\ LockInv => LockInv'
         /\ MemoryInv => MemoryInv'
         /\ WakeInv => WakeInv'
BY DEF vars, LockInv, MemoryInv, WakeInv, Notifying

\* The lock discipline as an invariant, with the types it rests on.
LEMMA LockedAlways ==
  ASSUME HostGrowers = {}
  PROVE  Spec => []LockedInv
<1>1. Init => LockedInv
  BY TypeInit, LockInit DEF LockedInv
<1>2. LockedInv /\ [Next]_vars => LockedInv'
  BY TypeStep, LockStep, Stutter DEF LockedInv, Next
<1> QED
  BY <1>1, <1>2, PTL DEF Spec

\* A thread that executes guest code or holds a host address has the shared
\* lock, and no growth is going on (Thread::Run, GrowMemory).
THEOREM GuestLocked ==
  ASSUME HostGrowers = {}
  PROVE  Spec => []GuestRunsUnderLock
<1>1. LockedInv => GuestRunsUnderLock
  BY ThreadsAssumption
     DEF LockedInv, TypeInv, TypeOK, LockInv, Sharing, GuestRunsUnderLock
<1> QED
  BY <1>1, LockedAlways, PTL

\* No wakeup is lost: while a thread is parked in TrySync, or about to be, a
\* growth is under way that has yet to call notify_all.
THEOREM NoLostWakeup ==
  ASSUME HostGrowers = {}, InitialFlags = {FALSE}
  PROVE  Spec => []ParkedHaveNotifier
<1> DEFINE Inv == LockedInv /\ WakeInv
<1>1. Init => Inv
  BY TypeInit, LockInit, WakeInit DEF LockedInv
<1>2. Inv /\ [Next]_vars => Inv'
  BY TypeStep, LockStep, WakeStep, Stutter DEF LockedInv, Next
<1>3. Inv => ParkedHaveNotifier
  BY DEF WakeInv, ParkedHaveNotifier, Notifying
<1> QED
  BY <1>1, <1>2, <1>3, PTL DEF Spec

\* The invariant the two theorems on the memory rest on.
LEMMA MemoryAlways ==
  ASSUME HostGrowers = {}, NoWrap
  PROVE  Spec => [](LockedInv /\ MemoryInv)
<1> DEFINE Inv == LockedInv /\ MemoryInv
<1>1. Init => Inv
  BY TypeInit, LockInit, MemoryInit DEF LockedInv
<1>2. Inv /\ [Next]_vars => Inv'
  BY TypeStep, LockStep, MemoryStep, Stutter DEF LockedInv, Next
<1> QED
  BY <1>1, <1>2, PTL DEF Spec

\* No thread ever holds a host address into a freed block.
THEOREM AccessSafe ==
  ASSUME HostGrowers = {}, NoWrap
  PROVE  Spec => []NoDanglingAccess
<1>1. LockedInv /\ MemoryInv => NoDanglingAccess
  BY DEF MemoryInv, NoDanglingAccess
<1> QED
  BY <1>1, MemoryAlways, PTL

-----------------------------------------------------------------------------
(* ThreadSync implements GrowableMemory *)

\* A fresh memory is a fresh growable memory.
LEMMA RefineInit == Init => Memory!Init
BY DEF Init, Memory!Init

\* Resolving an address, loading, storing and the swap of the blocks are the
\* steps of GrowableMemory of these names; all others are stuttering steps.
LEMMA RefineStep ==
  ASSUME HostGrowers = {}, TypeInv, LockInv, MemoryInv, NEW t \in Threads,
         Proceed(t) \/ Choose(t) \/ LeaveFrame(t)
  PROVE  [Memory!Next]_(Memory!vars)
<1> USE ThreadsAssumption, PagesAssumption
    DEF TypeInv, TypeOK, SizeInv, LockInv, MemoryInv, Sharing, Parted, Excluding,
        Points, Goto, memVars, lockVars, Memory!vars, Memory!Next
<1>1. CASE RunPushes(t)
  BY <1>1 DEF RunPushes
<1>2. CASE RunTrapsOnEntry(t)
  BY <1>2 DEF RunTrapsOnEntry, Caller
<1>3. CASE LoadStopFlag(t)
  BY <1>3 DEF LoadStopFlag
<1>4. CASE Wait(t)
  BY <1>4 DEF Wait
<1>5. CASE Relock(t)
  BY <1>5 DEF Relock
<1>6. CASE Load(t)
  BY <1>6 DEF Load, Memory!Load
<1>7. ASSUME NEW v \in Values, Store(t, v)
      PROVE  [Memory!Next]_(Memory!vars)
  BY <1>7 DEF Store, Memory!Store
<1>8. CASE RaiseStopFlag(t)
  BY <1>8 DEF RaiseStopFlag
<1>9. CASE AcquireExclusive(t)
  BY <1>9 DEF AcquireExclusive
<1>10. CASE ClearStopFlag(t)
  BY <1>10 DEF ClearStopFlag
<1>11. CASE CopyMemory(t)
  BY <1>11 DEF CopyMemory
<1>12. CASE SwapMemory(t)
  BY <1>12 DEF SwapMemory, AfterGrow, Caller, Memory!Grow
<1>13. CASE GrowFails(t)
  BY <1>13 DEF GrowFails, AfterGrow, Caller
<1>14. CASE ReleaseExclusive(t)
  BY <1>14 DEF ReleaseExclusive
<1>15. CASE NotifyAll(t)
  BY <1>15 DEF NotifyAll
<1>16. CASE RestoreShared(t)
  BY <1>16 DEF RestoreShared, Caller
<1>17. CASE RunLocks(t)
  BY <1>17 DEF RunLocks
<1>18. CASE RunFindsLock(t)
  BY <1>18 DEF RunFindsLock
<1>19. CASE HostCallsRun(t)
  BY <1>19 DEF HostCallsRun
<1>20. CASE GetAccessAddress(t)
  BY <1>20 DEF GetAccessAddress, Memory!Resolve
<1>21. CASE WakeSpuriously(t)
  BY <1>21 DEF WakeSpuriously
<1>22. ASSUME NEW d \in Deltas, GrowUnlocks(t, d)
      PROVE  [Memory!Next]_(Memory!vars)
  BY <1>22 DEF GrowUnlocks
<1>23. ASSUME NEW d \in Deltas, HostGrows(t, d)
      PROVE  [Memory!Next]_(Memory!vars)
  BY <1>23 DEF HostGrows
<1>24. CASE SwitchFrame(t)
  BY <1>24 DEF SwitchFrame
<1>25. CASE RunReturns(t)
  BY <1>25 DEF RunReturns
<1> QED
  BY <1>1, <1>2, <1>3, <1>4, <1>5, <1>6, <1>7, <1>8, <1>9, <1>10, <1>11,
     <1>12, <1>13, <1>14, <1>15, <1>16, <1>17, <1>18, <1>19, <1>20, <1>21,
     <1>22, <1>23, <1>24, <1>25 DEF Proceed, Choose, LeaveFrame

\* Threads that follow the protocol share one memory that grows atomically,
\* never while an address is in use, and never loses a store.
THEOREM Refinement ==
  ASSUME HostGrowers = {}, NoWrap
  PROVE  Spec => ImplementsMemory
<1>1. LockedInv /\ MemoryInv /\ [Next]_vars => [Memory!Next]_(Memory!vars)
  <2> SUFFICES ASSUME LockedInv, MemoryInv, [Next]_vars
               PROVE  [Memory!Next]_(Memory!vars)
    OBVIOUS
  <2>1. CASE UNCHANGED vars
    BY <2>1 DEF vars, Memory!vars
  <2>2. ASSUME NEW t \in Threads, Proceed(t) \/ Choose(t) \/ LeaveFrame(t)
        PROVE  [Memory!Next]_(Memory!vars)
    BY <2>2, RefineStep DEF LockedInv
  <2> QED
    BY <2>1, <2>2 DEF Next
<1> QED
  BY <1>1, RefineInit, MemoryAlways, PTL DEF Spec, ImplementsMemory, Memory!Spec
=============================================================================
