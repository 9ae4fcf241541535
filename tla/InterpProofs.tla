---------------------------- MODULE InterpProofs ----------------------------
(***************************************************************************)
(* Proofs about Interp, for any functions, values and sizes of the two     *)
(* stacks: however calls, host functions that call back, and traps nest,   *)
(* the frames stay one above the other, and what is left when a run ends   *)
(* is what was there when it began.  With that, the flat stacks implement  *)
(* CallMachine: the slots between two of the places that the first part    *)
(* bounds are the locals, operands or arguments of one call, and what a    *)
(* step writes lies above those of all other calls.                        *)
(***************************************************************************)
EXTENDS Interp, ProofLemmas

-----------------------------------------------------------------------------
(* The inductive invariant *)

Calls == Runs \cup HostCalls
Frames == [fn : Funcs, locals : 0 .. ValueSize]

\* Both stacks are within their arrays, and what lies below callTop are frames.
StacksInv == /\ slots \in [0 .. ValueSize - 1 -> Values]
             /\ top \in 0 .. ValueSize
             /\ callStack \in [1 .. CallSize -> Frames \cup {NoFrame}]
             /\ callTop \in 0 .. CallSize
             /\ \A i \in 1 .. callTop : callStack[i] \in Frames
             /\ currentFrame \in 0 .. CallSize
             /\ out \in Seq(Values)

\* Where the slots between frame i and the next one end.
Above(i) == IF i = callTop THEN top ELSE callStack[i + 1].locals

\* The frames do not overlap.
Stacked == \A i \in 1 .. callTop : callStack[i].locals + Types(callStack[i].fn) <= Above(i)

\* A pending host function belongs to a frame, and has its arguments above that
\* frame's operands and below the next frame.
HostCallInv(c) == /\ c.at <= callTop
                  /\ callStack[c.at].locals + Types(callStack[c.at].fn) <= c.base
                  /\ c.base + Params[c.fn] <= Above(c.at)
                  /\ c.newTop = c.base + Results[c.fn]

\* A run has begun above all that was there, with a frame at the bottom of its own.
RunInv(c) == /\ c.origStack < callTop
             /\ callStack[c.origStack + 1].locals = c.origValue

\* Runs and host functions alternate: a run is made by the host function before it,
\* from whose frame it goes on; the first one starts from empty stacks.
Nested(before, c) ==
    IF c.kind = "run"
    THEN /\ before.kind = "host"
         /\ c.origStack = before.at
         /\ before.base + Params[before.fn] <= c.origValue
    ELSE /\ before.kind = "run"
         /\ before.origStack < c.at

ControlInv ==
    /\ control \in Seq(Calls)
    /\ \A k \in 1 .. Len(control) :
         /\ IF control[k].kind = "run" THEN RunInv(control[k]) ELSE HostCallInv(control[k])
         /\ k > 1 => Nested(control[k - 1], control[k])
    /\ \A j, k \in 1 .. Len(control) :
         (j < k /\ control[j].kind = "host" /\ control[k].kind = "host")
            => control[j].at < control[k].at
    /\ control # <<>> => /\ control[1].kind = "run"
                         /\ control[1].origStack = 0
                         /\ control[1].origValue = 0
                         /\ Last(control).kind = "host" => Last(control).at = callTop
    /\ control = <<>> => top = 0 /\ callTop = 0

Inv == StacksInv /\ Stacked /\ ControlInv
-----------------------------------------------------------------------------
(* Facts about the operators *)

LEMMA SizesNat ==
  /\ \A f \in Funcs : Types(f) \in Nat /\ Declared[f] \in Nat /\ Types(f) = Params[f] + Declared[f]
  /\ \A f \in Funcs \cup Hosts : Params[f] \in Nat /\ Results[f] \in Nat
BY InterpAssumption DEF Types

LEMMA MovedType ==
  ASSUME NEW s \in [0 .. ValueSize - 1 -> Values], NEW from \in Nat, NEW to \in Int, NEW n \in Nat,
         from + n <= ValueSize
  PROVE  Moved(s, from, to, n) \in [0 .. ValueSize - 1 -> Values]
<1>1. \A i \in 0 .. ValueSize - 1 : i \in to .. to + n - 1 => from + i - to \in 0 .. ValueSize - 1
  BY InterpAssumption
<1>2. \A i \in 0 .. ValueSize - 1 : (IF i \in to .. to + n - 1 THEN s[from + i - to] ELSE s[i]) \in Values
  BY <1>1
<1> QED
  BY <1>2 DEF Moved

LEMMA WrittenType ==
  ASSUME NEW s \in [0 .. ValueSize - 1 -> Values], NEW base \in Int, NEW t \in Seq(Values)
  PROVE  Written(s, base, t) \in [0 .. ValueSize - 1 -> Values]
BY ElementOfSeq, LenProperties DEF Written

\* What PushLocals writes.
LEMMA WithLocalsType ==
  ASSUME StacksInv, NEW f \in Funcs, NEW args \in Tuples(Params[f])
  PROVE  WithLocals(f, args) \in [0 .. ValueSize - 1 -> Values]
<1> DEFINE zeros == [i \in 1 .. Declared[f] |-> Zero]
<1>1. args \in Seq(Values) /\ zeros \in Seq(Values)
  <2>1. \A n \in Nat : \A t \in [1 .. n -> Values] : t \in Seq(Values)
    BY SeqDef
  <2>2. args \in [1 .. Params[f] -> Values] /\ zeros \in [1 .. Declared[f] -> Values]
    BY InterpAssumption DEF Tuples
  <2> QED
    BY <2>1, <2>2, SizesNat
<1>2. args \o zeros \in Seq(Values)
  BY <1>1, ConcatProperties
<1>3. WithLocals(f, args) = Written(slots, top, args \o zeros)
  BY DEF WithLocals
<1>4. slots \in [0 .. ValueSize - 1 -> Values] /\ top \in Int
  BY DEF StacksInv
<1> HIDE DEF zeros
<1> QED
  BY <1>2, <1>3, <1>4, WrittenType

\* A member of control.
LEMMA CallsOf ==
  ASSUME ControlInv, NEW k \in 1 .. Len(control)
  PROVE  /\ control[k] \in Calls
         /\ control[k].kind = "run" => control[k] \in Runs
         /\ control[k].kind # "run" => control[k] \in HostCalls /\ control[k].kind = "host"
<1>1. control[k] \in Calls
  BY ElementOfSeq DEF ControlInv
<1> QED
  BY <1>1 DEF Calls, Runs, HostCalls

\* The frame in the opcode loop, and where its operands begin.
LEMMA InLoop ==
  ASSUME Inv, InGuest
  PROVE  /\ Len(control) \in Nat \ {0}
         /\ Last(control) = control[Len(control)]
         /\ Last(control) \in Runs
         /\ Last(control).origStack < callTop
         /\ callStack[Last(control).origStack + 1].locals = Last(control).origValue
         /\ callTop \in 1 .. CallSize
         /\ Frame \in Frames
         /\ OpsBase \in 0 .. top
         /\ Height = top - OpsBase
<1> DEFINE c == control[Len(control)]
<1>1. /\ Len(control) \in Nat \ {0}
      /\ Last(control) = c
  BY FrontOfSeq DEF Inv, ControlInv, InGuest
<1>2. c \in Runs /\ RunInv(c)
  BY <1>1, CallsOf DEF Inv, ControlInv, InGuest
<1>3. callTop \in 1 .. CallSize
  BY <1>2, InterpAssumption DEF Inv, StacksInv, RunInv, Runs
<1>4. Frame \in Frames /\ Frame.locals + Types(Frame.fn) <= top
  BY <1>3 DEF Inv, StacksInv, Stacked, Frame, Above
<1>5. OpsBase \in 0 .. top
  BY <1>4, SizesNat DEF OpsBase, Frames, Inv, StacksInv
<1> QED
  BY <1>1, <1>2, <1>3, <1>4, <1>5 DEF RunInv, Height

\* Every pending host function belongs to a frame below the running one.
LEMMA HostsBelow ==
  ASSUME Inv, InGuest, NEW k \in 1 .. Len(control), control[k].kind = "host"
  PROVE  k < Len(control) /\ control[k].at <= Last(control).origStack /\ control[k].at < callTop
<1> DEFINE n == Len(control)
<1>1. n \in Nat \ {0} /\ control[n] = Last(control) /\ control[n].kind = "run" /\ k < n
  BY InLoop DEF InGuest
<1>2. n > 1 /\ Nested(control[n - 1], control[n])
  BY <1>1 DEF Inv, ControlInv
<1>3. control[n].origStack = control[n - 1].at /\ control[n - 1].kind = "host"
  BY <1>1, <1>2 DEF Nested
<1>4. control[k] \in HostCalls /\ control[n - 1] \in HostCalls /\ control[n] \in Runs
  BY <1>1, <1>2, <1>3, CallsOf DEF Inv
<1>5. control[k].at <= control[n - 1].at
  <2>1. CASE k = n - 1
    BY <2>1, <1>4 DEF HostCalls
  <2>2. CASE k < n - 1
    BY <2>2, <1>1, <1>2, <1>3, <1>4, SMTT(30) DEF HostCalls, Inv, ControlInv
  <2> QED
    BY <1>1, <2>1, <2>2
<1>6. /\ control[k].at \in Nat /\ control[n].origStack \in Nat /\ callTop \in Nat
      /\ control[n].origStack < callTop
  BY <1>1, <1>4, InLoop, SMTT(30) DEF HostCalls, Inv, StacksInv, Runs
<1>7. control[k].at <= control[n].origStack
  BY <1>3, <1>5
<1> QED
  BY <1>1, <1>6, <1>7
-----------------------------------------------------------------------------
(* One step of the inductive invariant per action *)

\* An opcode that leaves the stacks above the frame's locals.
LEMMA LoopKeeps ==
  ASSUME Inv, InGuest, Loop,
         slots' \in [0 .. ValueSize - 1 -> Values], top' \in OpsBase .. ValueSize
  PROVE  Inv'
<1>0. /\ UNCHANGED <<callStack, callTop, currentFrame, control>>
      /\ out' = <<>>
  BY DEF Loop
<1>1. StacksInv'
  BY <1>0, InLoop, EmptySeq DEF Inv, StacksInv
<1>2. \A i \in 1 .. callTop : i # callTop => Above(i)' = Above(i)
  BY <1>0 DEF Above
<1>3. /\ Above(callTop)' = top'
      /\ callStack[callTop].locals + Types(callStack[callTop].fn) <= top'
  <2>1. OpsBase \in Int /\ ValueSize \in Int
    BY InLoop, InterpAssumption
  <2>2. OpsBase <= top'
    BY <2>1
  <2> QED
    BY <1>0, <2>2 DEF Above, OpsBase, Frame
<1>4. Stacked'
  <2> SUFFICES ASSUME NEW i \in 1 .. callTop
               PROVE  callStack[i].locals + Types(callStack[i].fn) <= Above(i)'
    BY <1>0 DEF Stacked, Types
  <2>1. CASE i = callTop
    BY <2>1, <1>0, <1>3 DEF Above
  <2>2. CASE i # callTop
    BY <2>2, <1>2 DEF Inv, Stacked
  <2> QED
    BY <2>1, <2>2
<1>5. ControlInv'
  <2>1. \A k \in 1 .. Len(control) : control[k].kind = "host" => HostCallInv(control[k])'
    <3> SUFFICES ASSUME NEW k \in 1 .. Len(control), control[k].kind = "host"
                 PROVE  HostCallInv(control[k])'
      OBVIOUS
    <3>1. control[k] \in HostCalls /\ HostCallInv(control[k]) /\ control[k].at < callTop
      BY CallsOf, HostsBelow DEF Inv, ControlInv
    <3>2. Above(control[k].at)' = Above(control[k].at)
      BY <3>1, <1>2, <1>0 DEF HostCalls, Inv, StacksInv, Above
    <3> QED
      BY <3>1, <3>2, <1>0 DEF HostCallInv, Types
  <2>2. \A k \in 1 .. Len(control) : control[k].kind = "run" => RunInv(control[k])'
    BY <1>0 DEF Inv, ControlInv, RunInv
  <2>3. \A k \in 1 .. Len(control) : k > 1 => Nested(control[k - 1], control[k])
    BY DEF Inv, ControlInv
  <2>4. control # <<>>
    BY DEF InGuest
  <2>5. \A k \in 1 .. Len(control) : control[k].kind = "run" \/ control[k].kind = "host"
    BY CallsOf DEF Inv
  <2> QED
    BY <1>0, <2>1, <2>2, <2>3, <2>4, <2>5 DEF Inv, ControlInv, Nested
<1> QED
  BY <1>1, <1>4, <1>5 DEF Inv

LEMMA StoreResultType ==
  ASSUME Inv, InGuest, NEW kept \in Nat, NEW n \in Nat, kept + n <= Height, StoreResult(kept, n)
  PROVE  slots' \in [0 .. ValueSize - 1 -> Values] /\ top' \in OpsBase .. ValueSize
<1>0. /\ OpsBase \in 0 .. top /\ Height = top - OpsBase
      /\ top \in 0 .. ValueSize /\ ValueSize \in Nat
  BY InLoop, InterpAssumption DEF Inv, StacksInv
<1>1. /\ top - n \in Nat /\ top - n + n <= ValueSize
      /\ OpsBase + kept \in Int /\ OpsBase + kept + n \in OpsBase .. ValueSize
  BY <1>0
<1>2. Moved(slots, top - n, OpsBase + kept, n) \in [0 .. ValueSize - 1 -> Values]
  BY <1>1, MovedType DEF Inv, StacksInv
<1> QED
  BY <1>1, <1>2 DEF StoreResult

LEMMA OperationKeeps ==
  ASSUME Inv, Operation
  PROVE  Inv'
<1>0. slots \in [0 .. ValueSize - 1 -> Values] /\ top \in 0 .. ValueSize /\ ValueSize \in Nat
  BY InterpAssumption DEF Inv, StacksInv
<1>1. ASSUME NEW v \in Values, Push(v) PROVE Inv'
  <2>1. InGuest /\ Loop /\ top < ValueSize
    BY <1>1 DEF Push
  <2>2. OpsBase \in 0 .. top
    BY <2>1, InLoop
  <2>3. slots' \in [0 .. ValueSize - 1 -> Values] /\ top' \in OpsBase .. ValueSize
    BY <1>0, <1>1, <2>1, <2>2 DEF Push
  <2> QED
    BY <2>1, <2>3, LoopKeeps
<1>2. ASSUME Drop PROVE Inv'
  <2>1. InGuest /\ Loop /\ Height >= 1
    BY <1>2 DEF Drop
  <2>2. slots' \in [0 .. ValueSize - 1 -> Values] /\ top' \in OpsBase .. ValueSize
    BY <1>0, <1>2, <2>1, InLoop DEF Drop
  <2> QED
    BY <2>1, <2>2, LoopKeeps
<1>3. ASSUME InGuest, NEW i \in 0 .. Types(Frame.fn) - 1,
             GetLocal(i) \/ SetLocal(i) \/ TeeLocal(i)
      PROVE  Inv'
  <2>0. /\ OpsBase \in 0 .. top /\ Height = top - OpsBase
        /\ OpsBase = Frame.locals + Types(Frame.fn)
        /\ Frame.locals \in Nat /\ Types(Frame.fn) \in Nat
    BY <1>3, InLoop, SizesNat DEF OpsBase, Frames
  <2>1. Frame.locals + i \in 0 .. ValueSize - 1 \/ Types(Frame.fn) = 0
    BY <1>0, <2>0
  <2>2. CASE GetLocal(i)
    <3>1. top < ValueSize /\ Frame.locals + i \in 0 .. ValueSize - 1
      BY <2>0, <2>2, <1>0 DEF GetLocal, Push
    <3>2. slots[Frame.locals + i] \in Values
      BY <3>1, <1>0
    <3> QED
      BY <3>2, <2>2, <1>1 DEF GetLocal
  <2>3. CASE SetLocal(i) \/ TeeLocal(i)
    <3>1. Loop /\ Height >= 1 /\ top' \in {top, top - 1}
          /\ slots' = [slots EXCEPT ![Frame.locals + i] = slots[top - 1]]
      BY <2>3 DEF SetLocal, TeeLocal
    <3>2. top - 1 \in 0 .. ValueSize - 1
      BY <1>0, <2>0, <3>1
    <3>3. slots' \in [0 .. ValueSize - 1 -> Values] /\ top' \in OpsBase .. ValueSize
      BY <1>0, <2>0, <3>1, <3>2, SMTT(30)
    <3> QED
      BY <3>1, <3>3, <1>3, LoopKeeps
  <2> QED
    BY <1>3, <2>2, <2>3
<1>4. ASSUME InGuest, NEW kept \in 0 .. Height, NEW n \in 0 .. Height, EndBlock(kept, n)
      PROVE  Inv'
  <2>1. Loop /\ kept + n <= Height /\ StoreResult(kept, n)
    BY <1>4 DEF EndBlock
  <2>2. kept \in Nat /\ n \in Nat
    BY <1>0, <1>4, InLoop
  <2> QED
    BY <1>4, <2>1, <2>2, StoreResultType, LoopKeeps
<1> QED
  BY <1>1, <1>2, <1>3, <1>4 DEF Operation
\* A call that begins, from the host or to the host.
LEMMA Appended ==
  ASSUME Inv, NEW c \in Calls, control' = Append(control, c),
         \A d \in Runs : RunInv(d) => RunInv(d)',
         \A d \in HostCalls : HostCallInv(d) => HostCallInv(d)',
         IF c.kind = "run" THEN RunInv(c)' ELSE HostCallInv(c)' /\ c.at = callTop',
         control # <<>> => Nested(Last(control), c),
         control = <<>> => c.kind = "run" /\ c.origStack = 0 /\ c.origValue = 0,
         c.kind = "host" => \A k \in 1 .. Len(control) :
                              control[k].kind = "host" => control[k].at < c.at
  PROVE  ControlInv'
<1>0. PICK n \in Nat : n = Len(control)
  BY LenProperties DEF Inv, ControlInv
<1>1. /\ control' \in Seq(Calls) /\ control' # <<>>
      /\ Len(control') = n + 1
      /\ \A k \in 1 .. n : control'[k] = control[k]
      /\ control'[n + 1] = c
      /\ Last(control') = c
  BY <1>0, AppendProperties, LastOfAppend DEF Inv, ControlInv
<1>2. c.kind # "run" => c.kind = "host"
  BY DEF Calls, Runs, HostCalls
<1>3. ASSUME NEW k \in 1 .. n
      PROVE  (IF control[k].kind = "run" THEN RunInv(control[k]) ELSE HostCallInv(control[k]))'
  <2>1. PICK d \in Calls : d = control[k]
    BY <1>0, CallsOf DEF Inv
  <2>2. control'[k] = d
    BY <1>1, <2>1
  <2>3. IF d.kind = "run" THEN d \in Runs /\ RunInv(d) ELSE d \in HostCalls /\ HostCallInv(d)
    BY <1>0, <2>1, CallsOf DEF Inv, ControlInv
  <2>4. IF d.kind = "run" THEN RunInv(d)' ELSE HostCallInv(d)'
    BY <2>3
  <2> QED
    BY <2>2, <2>4 DEF RunInv, HostCallInv, Above
<1>4. (IF control[n + 1].kind = "run" THEN RunInv(control[n + 1])
                                       ELSE HostCallInv(control[n + 1]) /\ control[n + 1].at = callTop)'
  BY <1>1 DEF RunInv, HostCallInv, Above
<1>5. \A k \in 1 .. n + 1 : k > 1 => Nested(control'[k - 1], control'[k])
  <2>1. \A k \in 1 .. n : k > 1 => Nested(control[k - 1], control[k])
    BY <1>0 DEF Inv, ControlInv
  <2>2. n > 0 => control # <<>> /\ Last(control) = control[n]
    BY <1>0, <1>1, EmptySeq DEF Last
  <2> QED
    BY <1>1, <2>1, <2>2
<1>6. \A j, k \in 1 .. n + 1 :
         (j < k /\ control'[j].kind = "host" /\ control'[k].kind = "host")
            => control'[j].at < control'[k].at
  <2>1. \A j, k \in 1 .. n :
          (j < k /\ control[j].kind = "host" /\ control[k].kind = "host")
             => control[j].at < control[k].at
    BY <1>0 DEF Inv, ControlInv
  <2>2. \A k \in 1 .. n + 1 : k = n + 1 \/ k \in 1 .. n
    OBVIOUS
  <2>3. \A j \in 1 .. n : (control[j].kind = "host" /\ c.kind = "host") => control[j].at < c.at
    BY <1>0
  <2> QED
    BY <1>1, <2>1, <2>2, <2>3
<1>7. control'[1].kind = "run" /\ control'[1].origStack = 0 /\ control'[1].origValue = 0
  <2>1. n = 0 <=> control = <<>>
    BY <1>0, <1>1, EmptySeq DEF Inv, ControlInv
  <2> QED
    BY <1>0, <1>1, <2>1 DEF Inv, ControlInv
<1>8. \A k \in 1 .. n + 1 :
        (IF control[k].kind = "run" THEN RunInv(control[k]) ELSE HostCallInv(control[k]))'
  BY <1>1, <1>3, <1>4
<1> QED
  BY <1>1, <1>2, <1>4, <1>5, <1>6, <1>7, <1>8 DEF ControlInv
\* A run that begins.
LEMMA EnterKeeps ==
  ASSUME Inv, NEW f \in Funcs, NEW args \in Tuples(Params[f]), NEW kind, Enter(f, args, kind)
  PROVE  Inv'
<1> DEFINE new == [fn |-> f, locals |-> top]
<1>0. /\ slots' = WithLocals(f, args)
      /\ top' = top + Types(f)
      /\ callTop < CallSize
      /\ callStack' = [callStack EXCEPT ![callTop + 1] = new]
      /\ callTop' = callTop + 1
      /\ currentFrame' = callTop + 1
      /\ control' = Append(control, Activation(kind, f))
      /\ out' = <<>>
  BY DEF Enter, PushFrame
<1>1. /\ top + Types(f) <= ValueSize /\ Types(f) \in Nat
      /\ top \in 0 .. ValueSize /\ callTop \in 0 .. CallSize
      /\ ValueSize \in Nat /\ CallSize \in Nat
  BY SizesNat, InterpAssumption DEF Enter, RoomFor, Larger, Inv, StacksInv
<1>2. new \in Frames
  BY <1>1 DEF Frames
<1>3. /\ callStack'[callTop + 1] = new
      /\ \A i \in 1 .. callTop : callStack'[i] = callStack[i]
      /\ callStack' \in [1 .. CallSize -> Frames \cup {NoFrame}]
  BY <1>0, <1>1, <1>2 DEF Inv, StacksInv
<1>4. StacksInv'
  <2>1. slots' \in [0 .. ValueSize - 1 -> Values]
    BY <1>0, WithLocalsType DEF Inv
  <2>2. \A i \in 1 .. callTop + 1 : callStack'[i] \in Frames
    <3>1. \A i \in 1 .. callTop + 1 : i = callTop + 1 \/ i \in 1 .. callTop
      BY <1>1
    <3> QED
      BY <1>2, <1>3, <3>1 DEF Inv, StacksInv
  <2>3. top' \in 0 .. ValueSize /\ callTop' \in 0 .. CallSize /\ currentFrame' \in 0 .. CallSize
    BY <1>0, <1>1
  <2> QED
    BY <1>0, <1>3, <2>1, <2>2, <2>3, EmptySeq DEF StacksInv
<1>5. \A i \in 1 .. callTop : Above(i)' = Above(i)
  BY <1>0, <1>1, <1>3 DEF Above
<1>6. Stacked'
  <2> SUFFICES ASSUME NEW i \in 1 .. callTop + 1
               PROVE  callStack'[i].locals + Types(callStack'[i].fn) <= Above(i)'
    BY <1>0 DEF Stacked, Types
  <2>1. CASE i = callTop + 1
    BY <2>1, <1>0, <1>1, <1>3 DEF Above
  <2>2. CASE i # callTop + 1
    <3>1. i \in 1 .. callTop
      BY <2>2, <1>1
    <3>2. callStack[i].locals + Types(callStack[i].fn) <= Above(i)
      BY <3>1 DEF Inv, Stacked
    <3> QED
      BY <3>1, <3>2, <1>3, <1>5
  <2> QED
    BY <2>1, <2>2
<1>7. ControlInv'
  <2>0. PICK c \in Calls : c = Activation(kind, f)
    <3> DEFINE b == kind = "prepare"
    <3>1. b \in BOOLEAN
      OBVIOUS
    <3> HIDE DEF b
    <3>2. [kind |-> "run", prepared |-> b, fn |-> f, origStack |-> callTop, origValue |-> top] \in Runs
      BY <1>1, <3>1 DEF Runs
    <3> QED
      BY <3>2 DEF Activation, Calls, b
  <2>1. c.kind = "run" /\ c.origStack = callTop /\ c.origValue = top
    BY <2>0 DEF Activation
  <2>2. ASSUME NEW d \in Runs, RunInv(d)
        PROVE  RunInv(d)'
    <3>1. d.origStack \in Nat /\ d.origStack < callTop
      BY <2>2 DEF Runs, RunInv
    <3>2. d.origStack + 1 \in 1 .. callTop
      BY <3>1, <1>1
    <3> QED
      BY <2>2, <3>1, <3>2, <1>0, <1>1, <1>3 DEF RunInv
  <2>3. ASSUME NEW d \in HostCalls, HostCallInv(d)
        PROVE  HostCallInv(d)'
    <3>1. d.at \in 1 .. callTop
      BY <2>3, <1>1 DEF HostCalls, HostCallInv
    <3> QED
      BY <2>3, <3>1, <1>0, <1>1, <1>3, <1>5 DEF HostCallInv, Types
  <2>4. RunInv(c)'
    BY <2>1, <1>0, <1>1, <1>3 DEF RunInv
  <2>5. control # <<>> => Nested(Last(control), c)
    <3> SUFFICES ASSUME control # <<>> PROVE Nested(Last(control), c)
      OBVIOUS
    <3>1. Last(control).kind = "host" /\ Last(control).at = callTop
      BY DEF Enter, InHost, Inv, ControlInv
    <3>2. Len(control) \in Nat \ {0} /\ Last(control) = control[Len(control)]
      BY FrontOfSeq DEF Inv, ControlInv
    <3>3. HostCallInv(Last(control))
      BY <3>1, <3>2 DEF Inv, ControlInv
    <3> QED
      BY <2>1, <3>1, <3>3 DEF Nested, HostCallInv, Above
  <2>6. control = <<>> => c.origStack = 0 /\ c.origValue = 0
    BY <2>1 DEF Inv, ControlInv
  <2> QED
    BY <1>0, <2>0, <2>1, <2>2, <2>3, <2>4, <2>5, <2>6, Appended
<1> QED
  BY <1>4, <1>6, <1>7 DEF Inv

\* What is on top of the innermost frame is left alone, or its host function is
\* given more room: nothing else can tell.
LEMMA TopRaised ==
  ASSUME Inv, InHost, callTop # 0,
         slots' \in [0 .. ValueSize - 1 -> Values], top' \in top .. ValueSize,
         UNCHANGED <<callStack, callTop, currentFrame, control>>, out' = <<>>
  PROVE  Inv'
<1>0. top \in 0 .. ValueSize /\ ValueSize \in Nat /\ top <= top'
  BY InterpAssumption DEF Inv, StacksInv
<1>1. StacksInv'
  BY <1>0, EmptySeq DEF Inv, StacksInv
<1>2. \A i \in 1 .. callTop : /\ Above(i) \in Nat /\ Above(i)' \in Nat
                              /\ Above(i) <= Above(i)'
  <2> SUFFICES ASSUME NEW i \in 1 .. callTop
               PROVE  Above(i) \in Nat /\ Above(i)' \in Nat /\ Above(i) <= Above(i)'
    OBVIOUS
  <2>1. CASE i = callTop
    BY <2>1, <1>0 DEF Above
  <2>2. CASE i # callTop
    <3>1. i + 1 \in 1 .. callTop
      BY <2>2 DEF Inv, StacksInv
    <3> QED
      BY <2>2, <3>1 DEF Above, Inv, StacksInv, Frames
  <2> QED
    BY <2>1, <2>2
<1>3. \A i \in 1 .. callTop : callStack[i].locals \in Nat /\ Types(callStack[i].fn) \in Nat
  BY SizesNat DEF Inv, StacksInv, Frames
<1>4. Stacked'
  BY <1>2, <1>3 DEF Inv, Stacked, Types
<1>5. ControlInv'
  <2>1. ASSUME NEW d \in HostCalls, HostCallInv(d)
        PROVE  HostCallInv(d)'
    <3>1. d.at \in 1 .. callTop /\ d.base + Params[d.fn] \in Nat
      BY <2>1, SizesNat DEF HostCalls, HostCallInv, Inv, StacksInv
    <3> QED
      BY <2>1, <3>1, <1>2 DEF HostCallInv, Types
  <2> QED
    BY <2>1, CallsOf DEF Inv, ControlInv, RunInv
<1> QED
  BY <1>1, <1>4, <1>5 DEF Inv

\* A call from the host that finds no room on the call stack.
LEMMA EnterTrapsKeeps ==
  ASSUME Inv, NEW f \in Funcs, NEW args \in Tuples(Params[f]), EnterTraps(f, args)
  PROVE  Inv'
<1>1. /\ InHost /\ callTop # 0
      /\ UNCHANGED <<callStack, callTop, currentFrame, control>> /\ out' = <<>>
  BY InterpAssumption DEF EnterTraps
<1>2. slots' \in [0 .. ValueSize - 1 -> Values]
  BY WithLocalsType DEF Inv, EnterTraps
<1>3. top' \in top .. ValueSize
  BY SizesNat, InterpAssumption DEF EnterTraps, RoomFor, Larger, Inv, StacksInv
<1> QED
  BY <1>1, <1>2, <1>3, TopRaised
\* A call within the guest, of a function whose frame has nothing but the arguments:
\* PushCall makes the room for declared locals out of the caller's operands.
LEMMA CallKeeps ==
  ASSUME Inv, NEW f \in Callees, Declared[f] = 0, Call(f)
  PROVE  Inv'
<1> DEFINE new == [fn |-> f, locals |-> top - Types(f)]
<1>0. /\ InGuest /\ Params[f] <= Height
      /\ callTop < CallSize
      /\ callStack' = [callStack EXCEPT ![callTop + 1] = new]
      /\ callTop' = callTop + 1
      /\ currentFrame' = callTop + 1
      /\ out' = <<>>
      /\ UNCHANGED <<slots, top, control>>
  BY DEF Call, PushFrame
<1>1. /\ f \in Funcs /\ Types(f) \in Nat /\ Types(f) = Params[f]
      /\ OpsBase \in 0 .. top /\ Height = top - OpsBase
      /\ OpsBase = callStack[callTop].locals + Types(callStack[callTop].fn)
      /\ callTop \in 1 .. CallSize
  BY <1>0, SizesNat, InterpAssumption, InLoop DEF OpsBase, Frame
<1>2. /\ top \in 0 .. ValueSize /\ ValueSize \in Nat /\ CallSize \in Nat
      /\ top - Types(f) \in 0 .. ValueSize /\ OpsBase <= top - Types(f)
  BY <1>0, <1>1, InterpAssumption DEF Inv, StacksInv
<1>3. /\ new \in Frames
      /\ callStack'[callTop + 1] = new
      /\ \A i \in 1 .. callTop : callStack'[i] = callStack[i]
      /\ callStack' \in [1 .. CallSize -> Frames \cup {NoFrame}]
  BY <1>0, <1>1, <1>2 DEF Inv, StacksInv, Frames
<1>4. StacksInv'
  <2>1. \A i \in 1 .. callTop + 1 : callStack'[i] \in Frames
    <3>1. \A i \in 1 .. callTop + 1 : i = callTop + 1 \/ i \in 1 .. callTop
      BY <1>1
    <3> QED
      BY <1>3, <3>1 DEF Inv, StacksInv
  <2>2. callTop' \in 0 .. CallSize /\ currentFrame' \in 0 .. CallSize
    BY <1>0, <1>1, <1>2
  <2> QED
    BY <1>0, <1>3, <2>1, <2>2, EmptySeq DEF Inv, StacksInv
<1>5. \A i \in 1 .. callTop : i # callTop => Above(i)' = Above(i)
  BY <1>0, <1>1, <1>3 DEF Above
<1>6. Stacked'
  <2> SUFFICES ASSUME NEW i \in 1 .. callTop + 1
               PROVE  callStack'[i].locals + Types(callStack'[i].fn) <= Above(i)'
    BY <1>0 DEF Stacked, Types
  <2>1. CASE i = callTop + 1
    BY <2>1, <1>0, <1>1, <1>2, <1>3 DEF Above
  <2>2. CASE i = callTop
    BY <2>2, <1>0, <1>1, <1>2, <1>3 DEF Above
  <2>3. CASE i \in 1 .. callTop - 1
    <3>1. i \in 1 .. callTop /\ i # callTop
      BY <2>3, <1>1
    <3>2. callStack[i].locals + Types(callStack[i].fn) <= Above(i)
      BY <3>1 DEF Inv, Stacked
    <3> QED
      BY <3>1, <3>2, <1>3, <1>5
  <2> QED
    BY <1>1, <2>1, <2>2, <2>3
<1>7. ControlInv'
  <2>1. ASSUME NEW d \in Runs, RunInv(d)
        PROVE  RunInv(d)'
    <3>1. d.origStack \in Nat /\ d.origStack < callTop
      BY <2>1 DEF Runs, RunInv
    <3>2. d.origStack + 1 \in 1 .. callTop
      BY <3>1, <1>1
    <3> QED
      BY <2>1, <3>1, <3>2, <1>0, <1>1, <1>3 DEF RunInv
  <2>2. ASSUME NEW d \in HostCalls, HostCallInv(d), d.at < callTop
        PROVE  HostCallInv(d)'
    <3>1. d.at \in 1 .. callTop /\ d.at # callTop
      BY <2>2, <1>1 DEF HostCalls
    <3> QED
      BY <2>2, <3>1, <1>0, <1>1, <1>3, <1>5 DEF HostCallInv, Types
  <2>3. \A k \in 1 .. Len(control) :
           IF control[k].kind = "run" THEN RunInv(control[k])' ELSE HostCallInv(control[k])'
    <3> SUFFICES ASSUME NEW k \in 1 .. Len(control), NEW d \in Calls, d = control[k]
                 PROVE  IF d.kind = "run" THEN RunInv(d)' ELSE HostCallInv(d)'
      BY <1>0, CallsOf DEF Inv, RunInv, HostCallInv, Above
    <3>1. CASE d.kind = "run"
      BY <3>1, <2>1, CallsOf DEF Inv, ControlInv
    <3>2. CASE d.kind # "run"
      BY <3>2, <2>2, <1>0, CallsOf, HostsBelow DEF Inv, ControlInv
    <3> QED
      BY <3>1, <3>2
  <2>4. control # <<>> /\ Last(control).kind = "run"
    BY <1>0 DEF InGuest
  <2> QED
    BY <1>0, <2>3, <2>4 DEF Inv, ControlInv
<1> QED
  BY <1>4, <1>6, <1>7 DEF Inv

\* A call to a host function.
LEMMA CallHostKeeps ==
  ASSUME Inv, NEW h \in Hosts, CallHost(h)
  PROVE  Inv'
<1>1. /\ InGuest /\ Params[h] <= Height
      /\ top - Params[h] + Results[h] < ValueSize
      /\ out' = <<>>
      /\ UNCHANGED <<slots, top, callStack, callTop, currentFrame>>
  BY DEF CallHost
<1>2. /\ Params[h] \in Nat /\ Results[h] \in Nat
      /\ top \in 0 .. ValueSize /\ ValueSize \in Nat
      /\ OpsBase \in 0 .. top /\ Height = top - OpsBase
      /\ OpsBase = callStack[callTop].locals + Types(callStack[callTop].fn)
      /\ callTop \in 1 .. CallSize
  BY <1>1, SizesNat, InLoop, InterpAssumption DEF OpsBase, Frame, Inv, StacksInv
<1>3. PICK c \in Calls : c = [kind |-> "host", fn |-> h, newTop |-> top - Params[h] + Results[h],
                              base |-> top - Params[h], at |-> callTop]
  <2>0. \A p, r, t, o, v \in Nat : (o <= t /\ p <= t - o /\ t <= v /\ t - p + r < v)
             => t - p \in 0 .. v /\ t - p + r \in 0 .. v
    OBVIOUS
  <2>1. /\ top - Params[h] + Results[h] \in 0 .. ValueSize
        /\ top - Params[h] \in 0 .. ValueSize
    <3>1. OpsBase \in Nat /\ top \in Nat /\ OpsBase <= top /\ top <= ValueSize
      BY <1>2
    <3> QED
      BY <1>1, <1>2, <2>0, <3>1
  <2> QED
    BY <1>2, <2>1 DEF Calls, HostCalls
<1>4. /\ c.kind = "host" /\ c.at = callTop /\ c.base = top - Params[h] /\ c.fn = h
      /\ c.newTop = c.base + Results[h]
      /\ control' = Append(control, c)
  BY <1>3 DEF CallHost
<1>5. StacksInv' /\ Stacked'
  BY <1>1, EmptySeq DEF Inv, StacksInv, Stacked, Above, Types
<1>6. ControlInv'
  <2>1. HostCallInv(c)'
    BY <1>1, <1>2, <1>4 DEF HostCallInv, Above, Types
  <2>2. control # <<>> /\ Nested(Last(control), c)
    BY <1>1, <1>4, InLoop DEF InGuest, Nested
  <2>3. \A k \in 1 .. Len(control) : control[k].kind = "host" => control[k].at < c.at
    BY <1>1, <1>4, HostsBelow
  <2>4. \A d \in Runs : RunInv(d) => RunInv(d)'
    BY <1>1 DEF RunInv
  <2>5. \A d \in HostCalls : HostCallInv(d) => HostCallInv(d)'
    BY <1>1 DEF HostCallInv, Above, Types
  <2>6. c.at = callTop'
    BY <1>1, <1>4
  <2> QED
    BY <1>4, <2>1, <2>2, <2>3, <2>4, <2>5, <2>6, Appended
<1> QED
  BY <1>5, <1>6 DEF Inv
\* Every host function before the n-th call that is itself one is for a lower frame,
\* and every run before it began lower still.
LEMMA Below ==
  ASSUME Inv, NEW n \in 1 .. Len(control), control[n].kind = "host", NEW k \in 1 .. n - 1
  PROVE  IF control[k].kind = "run" THEN control[k].origStack < control[n].at
                                     ELSE control[k].at < control[n].at
<1>0. Len(control) \in Nat /\ k \in 1 .. Len(control) /\ k + 1 \in 1 .. Len(control) /\ k + 1 <= n
  BY LenProperties DEF Inv, ControlInv
<1>1. CASE control[k].kind = "run"
  <2>1. Nested(control[k], control[k + 1])
    BY <1>0 DEF Inv, ControlInv
  <2>2. control[k + 1].kind = "host" /\ control[k].origStack < control[k + 1].at
    BY <1>1, <2>1, <1>0, CallsOf DEF Nested, Inv
  <2>3. control[k + 1].at <= control[n].at
    <3>1. control[n].at \in Nat
      BY CallsOf DEF HostCalls, Inv
    <3>2. k + 1 < n => control[k + 1].at < control[n].at
      BY <2>2, <1>0 DEF Inv, ControlInv
    <3>3. k + 1 = n \/ k + 1 < n
      BY <1>0
    <3>4. control[k + 1].at \in Nat
      BY <2>2, <1>0, CallsOf DEF HostCalls, Inv
    <3> QED
      BY <3>1, <3>2, <3>3, <3>4
  <2>4. control[k].origStack \in Nat /\ control[k + 1].at \in Nat /\ control[n].at \in Nat
    BY <1>0, <1>1, <2>2, CallsOf DEF Runs, HostCalls, Inv
  <2> QED
    BY <1>1, <2>2, <2>3, <2>4
<1>2. CASE control[k].kind # "run"
  <2>1. control[k].kind = "host" /\ k < n
    BY <1>2, <1>0, CallsOf DEF Inv
  <2> QED
    BY <1>2, <2>1, <1>0 DEF Inv, ControlInv
<1> QED
  BY <1>1, <1>2

\* The host function that is running has been called from the innermost frame.
LEMMA InHostCall ==
  ASSUME Inv, InHost, control # <<>>
  PROVE  /\ Len(control) \in Nat /\ Len(control) >= 2
         /\ Last(control) = control[Len(control)]
         /\ Last(control) \in HostCalls
         /\ HostCallInv(Last(control))
         /\ Last(control).at = callTop /\ callTop \in 1 .. CallSize
         /\ control[Len(control) - 1] \in Runs
         /\ control[Len(control) - 1].kind = "run"
<1>1. /\ Len(control) \in Nat \ {0}
      /\ Last(control) = control[Len(control)]
      /\ control[1].kind = "run"
      /\ Last(control).kind = "host"
  BY FrontOfSeq DEF Inv, ControlInv, InHost
<1>2. Len(control) >= 2
  BY <1>1
<1>3. /\ Last(control).at = callTop
      /\ HostCallInv(Last(control))
      /\ Nested(control[Len(control) - 1], control[Len(control)])
  BY <1>1, <1>2 DEF Inv, ControlInv
<1>4. Last(control) \in HostCalls /\ callTop \in 1 .. CallSize
  BY <1>1, <1>3, CallsOf DEF Inv, HostCalls
<1>5. control[Len(control) - 1].kind = "run"
  BY <1>1, <1>3 DEF Nested
<1>6. control[Len(control) - 1] \in Runs
  BY <1>2, <1>5, CallsOf DEF Inv
<1> QED
  BY <1>1, <1>2, <1>3, <1>4, <1>5, <1>6

\* A host function that returns: its arguments give way to its results.
LEMMA HostReturnsKeeps ==
  ASSUME Inv, control # <<>>, NEW results \in Tuples(Results[Last(control).fn]),
         HostReturns(results)
  PROVE  Inv'
<1> DEFINE h == Last(control)
<1>0. /\ InHost
      /\ slots' = Written(slots, h.base, results)
      /\ top' = h.newTop
      /\ control' = Front(control)
      /\ out' = <<>>
      /\ UNCHANGED <<callStack, callTop, currentFrame>>
  BY DEF HostReturns
<1>1. PICK n \in Nat : Len(control) = n + 1 /\ n >= 1
  <2>1. Len(control) - 1 \in Nat /\ Len(control) = (Len(control) - 1) + 1 /\ Len(control) - 1 >= 1
    BY <1>0, InHostCall
  <2> QED
    BY <2>1
<1>2. /\ h = control[n + 1] /\ h \in HostCalls /\ HostCallInv(h)
      /\ h.kind = "host" /\ h.at = callTop /\ callTop \in 1 .. CallSize
      /\ control[n] \in Runs /\ control[n].kind = "run"
  <2>1. h.kind = "host"
    BY <1>0 DEF InHost
  <2>2. Len(control) - 1 = n
    BY <1>1
  <2> QED
    BY <1>0, <1>1, <2>1, <2>2, InHostCall
<1>3. /\ control' \in Seq(Calls) /\ Len(control') = n /\ control' # <<>>
      /\ \A k \in 1 .. n : control'[k] = control[k]
      /\ Last(control') = control[n]
  <2>1. control \in Seq(Calls)
    BY DEF Inv, ControlInv
  <2>2. /\ Front(control) \in Seq(Calls) /\ Len(Front(control)) = n
        /\ \A k \in 1 .. n : Front(control)[k] = control[k]
        /\ Front(control) # <<>> => Last(Front(control)) = control[n]
    <3>1. Len(control) - 1 = n
      BY <1>1
    <3>2. /\ Front(control) \in Seq(Calls) /\ Len(Front(control)) = Len(control) - 1
          /\ \A k \in 1 .. Len(control) - 1 : Front(control)[k] = control[k]
          /\ Front(control) # <<>> => Last(Front(control)) = control[Len(control) - 1]
      BY <2>1, FrontOfSeq
    <3> QED
      BY <3>1, <3>2
  <2>3. Front(control) # <<>>
    BY <1>1, <2>2, EmptySeq
  <2> QED
    BY <1>0, <2>2, <2>3
<1>4. StacksInv'
  <2>1. results \in Seq(Values)
    <3>1. \A m \in Nat : \A t \in [1 .. m -> Values] : t \in Seq(Values)
      BY SeqDef
    <3> QED
      BY <1>2, <3>1, SizesNat DEF Tuples, HostCalls
  <2>2. slots' \in [0 .. ValueSize - 1 -> Values]
    <3>1. h.base \in Int
      BY <1>2 DEF HostCalls
    <3> QED
      BY <1>0, <2>1, <3>1, WrittenType DEF Inv, StacksInv
  <2>3. top' \in 0 .. ValueSize
    BY <1>0, <1>2 DEF HostCalls
  <2> QED
    BY <1>0, <2>2, <2>3, EmptySeq DEF Inv, StacksInv
<1>5. \A i \in 1 .. callTop : i # callTop => Above(i)' = Above(i)
  BY <1>0 DEF Above
<1>6. callStack[callTop].locals + Types(callStack[callTop].fn) <= top'
  <2>1. /\ h.base \in Nat /\ Results[h.fn] \in Nat
        /\ callStack[callTop].locals \in Nat /\ Types(callStack[callTop].fn) \in Nat
    BY <1>2, SizesNat DEF HostCalls, Inv, StacksInv, Frames
  <2>2. top' = h.base + Results[h.fn] /\ callStack[callTop].locals + Types(callStack[callTop].fn) <= h.base
    BY <1>0, <1>2 DEF HostCallInv
  <2> QED
    BY <2>1, <2>2
<1>7. Stacked'
  <2> SUFFICES ASSUME NEW i \in 1 .. callTop
               PROVE  callStack[i].locals + Types(callStack[i].fn) <= Above(i)'
    BY <1>0 DEF Stacked, Types
  <2>1. CASE i = callTop
    BY <2>1, <1>0, <1>6 DEF Above
  <2>2. CASE i # callTop
    BY <2>2, <1>5 DEF Inv, Stacked
  <2> QED
    BY <2>1, <2>2
<1>8. ControlInv'
  <2>1. \A k \in 1 .. n : k \in 1 .. Len(control) /\ (k > 1 => k - 1 \in 1 .. n)
    BY <1>1
  <2>2. ASSUME NEW k \in 1 .. n
        PROVE  (IF control[k].kind = "run" THEN RunInv(control[k]) ELSE HostCallInv(control[k]))'
    <3>1. PICK d \in Calls : d = control[k]
      BY <2>1, CallsOf DEF Inv
    <3>2. CASE d.kind = "run"
      BY <3>1, <3>2, <2>1, <1>0, <1>3 DEF RunInv, Inv, ControlInv
    <3>3. CASE d.kind # "run"
      <4>1. d \in HostCalls /\ HostCallInv(d)
        BY <2>1, <3>1, <3>3, CallsOf DEF Inv, ControlInv
      <4>2. d.at < callTop
        <5>1. k \in 1 .. (n + 1) - 1 /\ n + 1 \in 1 .. Len(control)
          BY <1>1
        <5> QED
          BY <5>1, <3>1, <3>3, <1>2, Below
      <4>3. d.at \in 1 .. callTop /\ d.at # callTop
        BY <4>1, <4>2, <1>2 DEF HostCalls
      <4>4. HostCallInv(d)'
        BY <4>1, <4>3, <1>0, <1>5 DEF HostCallInv, Types
      <4>5. control'[k] = d
        BY <3>1, <1>3
      <4> QED
        BY <3>3, <4>4, <4>5 DEF HostCallInv, Above
    <3> QED
      BY <3>2, <3>3
  <2>3. \A k \in 1 .. n : k > 1 => Nested(control'[k - 1], control'[k])
    BY <1>3, <2>1 DEF Inv, ControlInv
  <2>4. \A j, k \in 1 .. n :
           (j < k /\ control'[j].kind = "host" /\ control'[k].kind = "host")
              => control'[j].at < control'[k].at
    <3>1. \A j, k \in 1 .. n :
             (j < k /\ control[j].kind = "host" /\ control[k].kind = "host")
                => control[j].at < control[k].at
      BY <2>1 DEF Inv, ControlInv
    <3> QED
      BY <1>3, <3>1
  <2>5. control'[1] = control[1]
    BY <1>1, <1>3
  <2> QED
    BY <1>2, <1>3, <2>2, <2>3, <2>4, <2>5 DEF Inv, ControlInv
<1> QED
  BY <1>4, <1>7, <1>8 DEF Inv
\* The run after the n-th call ends, by a trap or by its last return, with all that
\* it has called: the stacks are what they were when it began.
LEMMA Unwound ==
  ASSUME Inv, NEW n \in Nat, n < Len(control), control[n + 1].kind = "run",
         control' \in Seq(Calls), Len(control') = n,
         \A k \in 1 .. n : control'[k] = control[k],
         callTop' = control[n + 1].origStack,
         top' = control[n + 1].origValue,
         slots' \in [0 .. ValueSize - 1 -> Values],
         currentFrame' \in 0 .. CallSize, out' \in Seq(Values),
         UNCHANGED callStack
  PROVE  Inv'
<1> DEFINE r == control[n + 1]
<1>0. /\ Len(control) \in Nat /\ n + 1 \in 1 .. Len(control)
      /\ \A k \in 1 .. n : k \in 1 .. Len(control) /\ (k > 1 => k - 1 \in 1 .. n)
  BY LenProperties DEF Inv, ControlInv
<1>1. r \in Runs /\ RunInv(r) /\ (n >= 1 => Nested(control[n], r))
  <2>1. n >= 1 => Nested(control[(n + 1) - 1], control[n + 1])
    BY <1>0 DEF Inv, ControlInv
  <2> QED
    BY <1>0, <2>1, CallsOf DEF Inv, ControlInv
<1>2. /\ r.origStack \in 0 .. CallSize /\ r.origStack < callTop /\ callTop \in 0 .. CallSize
      /\ r.origValue \in 0 .. ValueSize
      /\ r.origValue = callStack[r.origStack + 1].locals
      /\ CallSize \in Nat
  BY <1>1, InterpAssumption DEF Runs, RunInv, Inv, StacksInv
<1>3. StacksInv'
  BY <1>2 DEF Inv, StacksInv
<1>4. \A i \in 1 .. r.origStack : i \in 1 .. callTop /\ Above(i)' = Above(i)
  BY <1>2 DEF Above
<1>5. Stacked'
  BY <1>2, <1>4 DEF Inv, Stacked, Types
<1>6. /\ n >= 1 => control[n].kind = "host" /\ control[n].at = r.origStack
      /\ n = 0 => r.origStack = 0 /\ r.origValue = 0
  <2>1. n >= 1 => control[n].kind = "host" /\ control[n].at = r.origStack
    BY <1>1 DEF Nested
  <2>2. n = 0 => r.origStack = 0 /\ r.origValue = 0
    <3>1. control # <<>>
      BY <1>0, EmptySeq
    <3> QED
      BY <3>1 DEF Inv, ControlInv
  <2> QED
    BY <2>1, <2>2
<1>7. ASSUME NEW k \in 1 .. n
      PROVE  (IF control[k].kind = "run" THEN RunInv(control[k]) ELSE HostCallInv(control[k]))'
  <2>1. PICK d \in Calls : d = control[k]
    BY <1>0, CallsOf DEF Inv
  <2>2. control'[k] = d
    BY <2>1
  <2>3. n >= 1 /\ n \in 1 .. Len(control)
    BY <1>0
  <2>4. CASE d.kind = "run"
    <3>1. k # n
      BY <1>6, <2>1, <2>3, <2>4
    <3>2. k \in 1 .. n - 1
      BY <3>1
    <3>3. d.origStack < r.origStack
      BY <3>2, <2>1, <2>3, <2>4, <1>6, Below
    <3>4. RunInv(d)'
      BY <3>3, <2>1, <2>4, <1>0 DEF Inv, ControlInv, RunInv
    <3> QED
      BY <2>2, <2>4, <3>4 DEF RunInv
  <2>5. CASE d.kind # "run"
    <3>1. d \in HostCalls /\ HostCallInv(d)
      BY <1>0, <2>1, <2>5, CallsOf DEF Inv, ControlInv
    <3>2. d.at \in 1 .. r.origStack
      <4>1. k \in 1 .. n - 1 \/ k = n
        OBVIOUS
      <4>2. CASE k = n
        BY <4>2, <3>1, <2>1, <2>3, <1>6, <1>2 DEF HostCalls
      <4>3. CASE k \in 1 .. n - 1
        <5>1. d.at < r.origStack
          BY <4>3, <2>1, <2>3, <2>5, <1>6, Below
        <5> QED
          BY <5>1, <3>1, <1>2 DEF HostCalls
      <4> QED
        BY <4>1, <4>2, <4>3
    <3>3. Above(d.at)' = Above(d.at)
      BY <3>2, <1>4
    <3>4. HostCallInv(d)'
      BY <3>1, <3>2, <3>3, <1>2 DEF HostCallInv, Types
    <3> QED
      BY <2>2, <2>5, <3>4 DEF HostCallInv, Above
  <2> QED
    BY <2>4, <2>5
<1>8. ControlInv'
  <2>1. \A k \in 1 .. n : k > 1 => Nested(control'[k - 1], control'[k])
    <3>1. \A k \in 1 .. n : k > 1 => Nested(control[k - 1], control[k])
      BY <1>0 DEF Inv, ControlInv
    <3> QED
      BY <1>0, <3>1
  <2>2. \A j, k \in 1 .. n :
           (j < k /\ control'[j].kind = "host" /\ control'[k].kind = "host")
              => control'[j].at < control'[k].at
    <3>1. \A j, k \in 1 .. n :
             (j < k /\ control[j].kind = "host" /\ control[k].kind = "host")
                => control[j].at < control[k].at
      BY <1>0 DEF Inv, ControlInv
    <3> QED
      BY <3>1, SMTT(30)
  <2>3. control' # <<>> => /\ n >= 1
                           /\ control'[1] = control[1]
                           /\ Last(control') = control[n]
    BY EmptySeq DEF Last
  <2>4. control # <<>>
    BY <1>0, EmptySeq
  <2>5. control' = <<>> => n = 0
    BY EmptySeq
  <2>6. control' # <<>> => /\ control'[1].kind = "run"
                           /\ control'[1].origStack = 0
                           /\ control'[1].origValue = 0
                           /\ Last(control').kind = "host" => Last(control').at = callTop'
    BY <1>6, <2>3, <2>4 DEF Inv, ControlInv
  <2>7. control' = <<>> => top' = 0 /\ callTop' = 0
    BY <1>6, <2>5
  <2> QED
    BY <1>7, <2>1, <2>2, <2>6, <2>7 DEF ControlInv
<1> QED
  BY <1>3, <1>5, <1>8 DEF Inv
\* A trap in the guest.
LEMMA TrapKeeps ==
  ASSUME Inv, Trap
  PROVE  Inv'
<1>1. /\ InGuest
      /\ callTop' = Last(control).origStack /\ top' = Last(control).origValue
      /\ control' = Front(control)
      /\ out' = <<>>
      /\ UNCHANGED <<slots, callStack, currentFrame>>
  BY DEF Trap, Unwind
<1>2. PICK n \in Nat : n = Len(control) - 1
  <2>1. Len(control) - 1 \in Nat
    BY <1>1, InLoop
  <2> QED
    BY <2>1
<1>3. /\ n < Len(control) /\ Last(control) = control[n + 1] /\ control[n + 1].kind = "run"
      /\ n + 1 = Len(control)
  BY <1>1, <1>2, InLoop DEF InGuest
<1>4. /\ control' \in Seq(Calls) /\ Len(control') = n
      /\ \A k \in 1 .. n : control'[k] = control[k]
  <2>1. control \in Seq(Calls) /\ control # <<>>
    BY <1>1 DEF Inv, ControlInv, InGuest
  <2> QED
    BY <1>1, <1>2, <2>1, FrontOfSeq
<1>5. /\ slots' \in [0 .. ValueSize - 1 -> Values] /\ currentFrame' \in 0 .. CallSize
      /\ out' \in Seq(Values)
  BY <1>1, EmptySeq DEF Inv, StacksInv
<1> QED
  BY <1>1, <1>3, <1>4, <1>5, Unwound

\* An error of a host function.
LEMMA HostTrapsKeeps ==
  ASSUME Inv, HostTraps
  PROVE  Inv'
<1>1. /\ InHost /\ Len(control) >= 2
      /\ callTop' = control[Len(control) - 1].origStack
      /\ top' = control[Len(control) - 1].origValue
      /\ control' = Front(Front(control))
      /\ out' = <<>>
      /\ UNCHANGED <<slots, callStack, currentFrame>>
  BY DEF HostTraps, Unwind
<1>2. control \in Seq(Calls) /\ Len(control) \in Nat /\ control # <<>>
  BY <1>1, EmptySeq, LenProperties DEF Inv, ControlInv
<1>3. PICK n \in Nat : n = Len(control) - 2
  <2>1. Len(control) - 2 \in Nat
    BY <1>1, <1>2
  <2> QED
    BY <2>1
<1>4. /\ n < Len(control) /\ Len(control) - 1 = n + 1
      /\ control[n + 1].kind = "run"
  BY <1>1, <1>2, <1>3, InHostCall
<1>5. /\ control' \in Seq(Calls) /\ Len(control') = n
      /\ \A k \in 1 .. n : control'[k] = control[k]
  <2>1. /\ Front(control) \in Seq(Calls) /\ Len(Front(control)) = n + 1
        /\ \A k \in 1 .. n + 1 : Front(control)[k] = control[k]
    BY <1>2, <1>4, FrontOfSeq
  <2>2. Front(control) # <<>>
    BY <2>1, EmptySeq
  <2>3. /\ Front(Front(control)) \in Seq(Calls)
        /\ Len(Front(Front(control))) = Len(Front(control)) - 1
        /\ \A k \in 1 .. Len(Front(control)) - 1 : Front(Front(control))[k] = Front(control)[k]
    BY <2>1, <2>2, FrontOfSeq
  <2> QED
    BY <1>1, <2>1, <2>3
<1>6. /\ slots' \in [0 .. ValueSize - 1 -> Values] /\ currentFrame' \in 0 .. CallSize
      /\ out' \in Seq(Values)
  BY <1>1, EmptySeq DEF Inv, StacksInv
<1> QED
  BY <1>1, <1>4, <1>5, <1>6, Unwound

\* A function that returns, and the run with it if that was its first function.  Its
\* results go to where its locals were, which PopCall looks up in _currentFrame: the
\* frame itself, unless a host function has left another one there.
LEMMA ReturnKeeps ==
  ASSUME Inv, Return, currentFrame = callTop
  PROVE  Inv'
<1> DEFINE n == Results[Frame.fn]
           run == Last(control)
           locals == callStack[callTop].locals
           popped == PopCall(callStack[currentFrame].locals, n)
           ends == callTop - 1 = run.origStack
<1>0. /\ InGuest /\ n <= Height
      /\ callTop' = callTop - 1
      /\ slots' = IF ends THEN PreparedResults(popped.s, run, n) ELSE popped.s
      /\ top' = IF ~ends THEN popped.t ELSE IF run.prepared THEN run.origValue ELSE popped.t - n
      /\ currentFrame' = IF ends THEN currentFrame ELSE callTop - 1
      /\ control' = IF ends THEN Front(control) ELSE control
      /\ out' = IF ends THEN [i \in 1 .. n |-> popped.s[popped.t - n + i - 1]] ELSE <<>>
      /\ UNCHANGED callStack
  BY DEF Return
<1>1. /\ callTop \in 1 .. CallSize /\ CallSize \in Nat /\ ValueSize \in Nat
      /\ top \in 0 .. ValueSize
      /\ Frame \in Frames /\ n \in Nat
      /\ locals \in Nat /\ locals + n <= top
      /\ run \in Runs /\ run.origStack < callTop
      /\ callStack[run.origStack + 1].locals = run.origValue
      /\ run = control[Len(control)] /\ Len(control) \in Nat \ {0}
  <2>1. /\ Frame = callStack[callTop] /\ Frame \in Frames /\ OpsBase \in 0 .. top
        /\ Height = top - OpsBase /\ OpsBase = locals + Types(Frame.fn)
    BY <1>0, InLoop DEF Frame, OpsBase
  <2>2. Types(Frame.fn) \in Nat /\ n \in Nat /\ locals \in Nat
    BY <2>1, SizesNat DEF Frames
  <2>3. top \in 0 .. ValueSize /\ ValueSize \in Nat /\ CallSize \in Nat
    BY InterpAssumption DEF Inv, StacksInv
  <2>4. locals + n <= top
    BY <1>0, <2>1, <2>2, <2>3
  <2> QED
    BY <1>0, <2>1, <2>2, <2>3, <2>4, InLoop
<1>2. /\ popped.s = Moved(slots, top - n, locals, n)
      /\ popped.t = locals + n
  BY DEF PopCall
<1>3. popped.s \in [0 .. ValueSize - 1 -> Values]
  <2>1. top - n \in Nat /\ top - n + n <= ValueSize /\ locals \in Int
    BY <1>1
  <2> QED
    BY <1>1, <1>2, <2>1, MovedType, SMTT(30) DEF Inv, StacksInv
<1> HIDE DEF popped, n, run, locals
<1>4. CASE ends
  <2>1. run.origValue = locals
    <3>1. run.origStack + 1 = callTop
      BY <1>1, <1>4 DEF Runs
    <3> QED
      BY <1>1, <3>1 DEF locals
  <2>2. slots' \in [0 .. ValueSize - 1 -> Values]
    <3>1. /\ run.origValue \in Nat /\ run.origValue + n <= ValueSize
          /\ run.origValue - Types(run.fn) \in Int
      BY <1>1, <2>1, SizesNat DEF Runs
    <3>2. Moved(popped.s, run.origValue, run.origValue - Types(run.fn), n)
            \in [0 .. ValueSize - 1 -> Values]
      BY <1>1, <1>3, <3>1, MovedType
    <3> QED
      BY <1>0, <1>3, <1>4, <3>2 DEF PreparedResults
  <2>3. out' \in Seq(Values)
    <3>1. \A i \in 1 .. n : popped.t - n + i - 1 \in 0 .. ValueSize - 1
      BY <1>1, <1>2
    <3>2. [i \in 1 .. n |-> popped.s[popped.t - n + i - 1]] \in [1 .. n -> Values]
      BY <1>3, <3>1
    <3>3. \A t \in [1 .. n -> Values] : t \in Seq(Values)
      BY <1>1, SeqDef
    <3> QED
      BY <1>0, <1>4, <3>2, <3>3
  <2>4. top' = run.origValue /\ callTop' = run.origStack
    BY <1>0, <1>1, <1>2, <1>4, <2>1
  <2>5. currentFrame' \in 0 .. CallSize
    BY <1>0, <1>4 DEF Inv, StacksInv
  <2>6. PICK m \in Nat : m + 1 = Len(control)
    BY <1>1
  <2>7. m < Len(control) /\ run = control[m + 1] /\ control[m + 1].kind = "run"
    BY <1>1, <2>6 DEF Runs
  <2>8. /\ control' \in Seq(Calls) /\ Len(control') = m
        /\ \A k \in 1 .. m : control'[k] = control[k]
    <3>1. control \in Seq(Calls) /\ control # <<>>
      BY <1>0 DEF Inv, ControlInv, InGuest
    <3>2. Len(control) - 1 = m
      BY <2>6
    <3> QED
      BY <1>0, <1>4, <3>1, <3>2, FrontOfSeq
  <2> QED
    BY <1>0, <2>2, <2>3, <2>4, <2>5, <2>7, <2>8, Unwound
<1>5. CASE ~ends
  <2>1. /\ slots' = popped.s /\ top' = locals + n /\ callTop' = callTop - 1
        /\ currentFrame' = callTop - 1 /\ control' = control /\ out' = <<>>
    BY <1>0, <1>2, <1>5
  <2>2. run.origStack < callTop - 1 /\ callTop - 1 \in 1 .. CallSize
    BY <1>1, <1>5 DEF Runs
  <2>3. StacksInv'
    BY <2>1, <2>2, <1>0, <1>1, <1>3, EmptySeq DEF Inv, StacksInv
  <2>4. \A i \in 1 .. callTop - 1 :
          /\ i # callTop - 1 => Above(i)' = Above(i)
          /\ i = callTop - 1 => Above(i)' = locals + n /\ Above(i) = locals
    BY <1>0, <1>1, <2>1 DEF Above, locals
  <2>5. Stacked'
    <3> SUFFICES ASSUME NEW i \in 1 .. callTop - 1
                 PROVE  callStack[i].locals + Types(callStack[i].fn) <= Above(i)'
      BY <1>0, <2>1 DEF Stacked, Types
    <3>1. /\ callStack[i].locals \in Nat /\ Types(callStack[i].fn) \in Nat
          /\ callStack[i].locals + Types(callStack[i].fn) <= Above(i)
      <4>1. i \in 1 .. callTop
        BY <1>1
      <4>2. callStack[i] \in Frames
        BY <4>1 DEF Inv, StacksInv
      <4> QED
        BY <4>1, <4>2, SizesNat DEF Inv, Stacked, Frames
    <3> QED
      BY <3>1, <2>4, <1>1
  <2>6. ControlInv'
    <3>1. \A k \in 1 .. Len(control) :
            (IF control[k].kind = "run" THEN RunInv(control[k]) ELSE HostCallInv(control[k]))'
      <4> SUFFICES ASSUME NEW k \in 1 .. Len(control), NEW d \in Calls, d = control[k]
                   PROVE  IF d.kind = "run" THEN RunInv(d)' ELSE HostCallInv(d)'
        BY <2>1, CallsOf DEF Inv, RunInv, HostCallInv, Above
      <4>1. CASE d.kind = "run"
        <5>1. RunInv(d) /\ d \in Runs
          BY <4>1, CallsOf DEF Inv, ControlInv
        <5>2. d.origStack < callTop - 1
          <6>1. CASE k = Len(control)
            BY <6>1, <1>1, <2>2
          <6>2. CASE k # Len(control)
            <7>1. k + 1 \in 2 .. Len(control)
              BY <6>2, <1>1
            <7>2. Nested(control[(k + 1) - 1], control[k + 1])
              BY <7>1 DEF Inv, ControlInv
            <7>3. control[k + 1].kind = "host" /\ d.origStack < control[k + 1].at
              BY <4>1, <7>1, <7>2, CallsOf DEF Nested, Inv
            <7>4. control[k + 1].at <= run.origStack /\ control[k + 1].at \in Nat
              BY <7>1, <7>3, <1>0, HostsBelow, CallsOf DEF Inv, HostCalls, run
            <7> QED
              BY <5>1, <7>3, <7>4, <2>2, <1>1, SMTT(30) DEF Runs
          <6> QED
            BY <6>1, <6>2
        <5> QED
          BY <4>1, <5>1, <5>2, <1>0, <2>1 DEF RunInv
      <4>2. CASE d.kind # "run"
        <5>1. d \in HostCalls /\ HostCallInv(d) /\ d.kind = "host"
          BY <4>2, CallsOf DEF Inv, ControlInv
        <5>2. d.at <= run.origStack
          BY <5>1, <1>0, HostsBelow DEF run
        <5>3. d.at \in 1 .. callTop - 1 /\ d.at # callTop - 1
          BY <5>1, <5>2, <2>2, <1>1 DEF HostCalls, Runs
        <5> QED
          BY <4>2, <5>1, <5>3, <2>1, <2>4, <1>0 DEF HostCallInv, Types
      <4> QED
        BY <4>1, <4>2
    <3>2. control # <<>> /\ Last(control).kind = "run"
      BY <1>0 DEF InGuest
    <3> QED
      BY <2>1, <3>1, <3>2 DEF Inv, ControlInv
  <2> QED
    BY <2>3, <2>5, <2>6 DEF Inv
<1> QED
  BY <1>4, <1>5
-----------------------------------------------------------------------------
(* The theorems *)

LEMMA InitKeeps == Init => Inv
<1> SUFFICES ASSUME Init PROVE Inv
  OBVIOUS
<1> USE InterpAssumption DEF Init
<1>1. StacksInv
  BY EmptySeq DEF StacksInv
<1>2. Stacked
  BY DEF Stacked
<1>3. ControlInv
  <2>1. control \in Seq(Calls) /\ Len(control) = 0
    BY EmptySeq
  <2> QED
    BY <2>1 DEF ControlInv
<1> QED
  BY <1>1, <1>2, <1>3 DEF Inv

\* What the code relies on: functions that the guest calls declare no locals (Call
\* takes the room for them from the caller), and no frame returns before the loop has
\* picked it up again (PopCall would cut the stack at another frame's locals).
FramesKept == (\A f \in Callees : Declared[f] = 0) /\ StaleReturn = FALSE

LEMMA StepKeeps ==
  ASSUME FramesKept, Inv, [Next]_vars
  PROVE  Inv'
<1>1. CASE Operation
  BY <1>1, OperationKeeps
<1>2. CASE Transfer
  <2>1. ASSUME NEW f \in Callees, Call(f) PROVE Inv'
    BY <2>1, CallKeeps DEF FramesKept
  <2>2. ASSUME NEW h \in Hosts, CallHost(h) PROVE Inv'
    BY <2>2, CallHostKeeps
  <2>3. ASSUME Return PROVE Inv'
    <3>1. currentFrame = callTop
      BY <2>3 DEF Return, FramesKept
    <3> QED
      BY <2>3, <3>1, ReturnKeeps
  <2> QED
    BY <1>2, <2>1, <2>2, <2>3, TrapKeeps DEF Transfer
<1>3. CASE Host
  <2>1. ASSUME NEW f \in Funcs, NEW kind \in {"run", "prepare"}, NEW args \in Tuples(Params[f]),
               Enter(f, args, kind)
        PROVE  Inv'
    BY <2>1, EnterKeeps
  <2>2. ASSUME NEW f \in Funcs, NEW args \in Tuples(Params[f]), EnterTraps(f, args)
        PROVE  Inv'
    BY <2>2, EnterTrapsKeeps
  <2>3. ASSUME control # <<>>, NEW results \in Tuples(Results[Last(control).fn]),
               HostReturns(results)
        PROVE  Inv'
    BY <2>3, HostReturnsKeeps
  <2> QED
    BY <1>3, <2>1, <2>2, <2>3, HostTrapsKeeps DEF Host
<1>4. CASE UNCHANGED vars
  <2>1. UNCHANGED <<slots, top, callStack, callTop, currentFrame, control, out>>
    BY <1>4 DEF vars
  <2> QED
    BY <2>1 DEF Inv, StacksInv, Stacked, ControlInv, RunInv, HostCallInv, Above, Types
<1> QED
  BY <1>1, <1>2, <1>3, <1>4 DEF Next

\* What the invariant says of the property: where a frame has a pending host function
\* it is the only one of that frame, so that OpsEnd is where its arguments begin.
LEMMA OpsEnds ==
  ASSUME Inv, NEW i \in 1 .. callTop
  PROVE  /\ \A k \in HostCallsOf(i) : OpsEnd(i) = control[k].base
         /\ HostCallsOf(i) = {} => OpsEnd(i) = Above(i)
<1>1. DOMAIN control = 1 .. Len(control)
  BY LenProperties DEF Inv, ControlInv
<1>2. ASSUME NEW j \in HostCallsOf(i), NEW k \in HostCallsOf(i) PROVE j = k
  <2>1. /\ j \in 1 .. Len(control) /\ control[j].kind = "host" /\ control[j].at = i
        /\ k \in 1 .. Len(control) /\ control[k].kind = "host" /\ control[k].at = i
    BY <1>1 DEF HostCallsOf
  <2>2. ~(j < k) /\ ~(k < j)
    BY <2>1 DEF Inv, ControlInv, StacksInv
  <2> QED
    BY <2>1, <2>2
<1>3. ASSUME NEW k \in HostCallsOf(i) PROVE OpsEnd(i) = control[k].base
  <2>1. (CHOOSE j \in HostCallsOf(i) : TRUE) = k
    BY <1>2
  <2> QED
    BY <2>1 DEF OpsEnd
<1> QED
  BY <1>3 DEF OpsEnd, Above

LEMMA InvFramesStacked ==
  ASSUME Inv
  PROVE  FramesStacked
<1>1. TypeOK
  <2>1. DOMAIN control = 1 .. Len(control) /\ \A i \in 1 .. Len(control) : control[i] \in Runs \cup HostCalls
    BY LenProperties, ElementOfSeq DEF Inv, ControlInv, Calls
  <2> QED
    BY <2>1 DEF Inv, StacksInv, TypeOK, Frames
<1>2. ASSUME NEW i \in 1 .. callTop, NEW k \in HostCallsOf(i)
      PROVE  /\ callStack[i].locals + Types(callStack[i].fn) <= control[k].base
             /\ control[k].base + Params[control[k].fn] <= Above(i)
             /\ control[k].base <= Above(i)
  <2>1. k \in 1 .. Len(control) /\ control[k].kind = "host" /\ control[k].at = i
    BY LenProperties DEF HostCallsOf, Inv, ControlInv
  <2>2. HostCallInv(control[k]) /\ control[k] \in HostCalls
    BY <2>1, CallsOf DEF Inv, ControlInv
  <2>3. control[k].base \in Nat /\ Params[control[k].fn] \in Nat
    BY <2>2, SizesNat DEF HostCalls
  <2>4. Above(i) \in Nat
    <3>1. CASE i = callTop
      BY <3>1 DEF Above, Inv, StacksInv
    <3>2. CASE i # callTop
      <4>1. i + 1 \in 1 .. callTop
        BY <3>2 DEF Inv, StacksInv
      <4> QED
        BY <3>2, <4>1 DEF Above, Inv, StacksInv, Frames
    <3> QED
      BY <3>1, <3>2
  <2> QED
    BY <2>1, <2>2, <2>3, <2>4 DEF HostCallInv
<1>3. ASSUME NEW i \in 1 .. callTop
      PROVE  /\ callStack[i].locals + Types(callStack[i].fn) <= OpsEnd(i)
             /\ OpsEnd(i) <= Above(i)
             /\ \A k \in HostCallsOf(i) : control[k].base + Params[control[k].fn] <= Above(i)
  <2>1. CASE HostCallsOf(i) = {}
    <3>1. Above(i) \in Int
      BY SizesNat DEF Above, Inv, StacksInv, Frames
    <3> QED
      BY <2>1, <3>1, OpsEnds DEF Inv, Stacked
  <2>2. CASE HostCallsOf(i) # {}
    BY <2>2, <1>2, OpsEnds
  <2> QED
    BY <2>1, <2>2
<1>4. control = <<>> => top = 0 /\ callTop = 0
  BY DEF Inv, ControlInv
<1> QED
  BY <1>1, <1>3, <1>4 DEF FramesStacked, Above

\* Whatever the guest and the host do, the locals and operands of all activations and
\* the arguments of pending host functions lie one above the other within the arrays,
\* and nothing is left on the stacks when no call is under way (PushLocals, PushCall,
\* PopCall, StoreResult and the end of Run).
THEOREM StacksKept ==
  ASSUME FramesKept
  PROVE  Spec => []FramesStacked
<1>1. Init => Inv
  BY InitKeeps
<1>2. Inv /\ [Next]_vars => Inv'
  BY StepKeeps
<1>3. Inv => FramesStacked
  BY InvFramesStacked
<1> QED
  BY <1>1, <1>2, <1>3, PTL DEF Spec

-----------------------------------------------------------------------------
(* Slices of the value stack *)

LEMMA PartSeq ==
  ASSUME NEW s \in [0 .. ValueSize - 1 -> Values], NEW b \in Nat, NEW n \in Nat, b + n <= ValueSize
  PROVE  /\ Part(s, b, n) \in Seq(Values)
         /\ Len(Part(s, b, n)) = n
         /\ \A i \in 1 .. n : Part(s, b, n)[i] = s[b + i - 1]
<1>1. \A i \in 1 .. n : b + i - 1 \in 0 .. ValueSize - 1
  BY InterpAssumption
<1>2. Part(s, b, n) \in [1 .. n -> Values]
  BY <1>1 DEF Part
<1> QED
  BY <1>2, FunctionIsSeq DEF Part

\* A sequence is the part of the stack that has its elements.
LEMMA PartIs ==
  ASSUME NEW S, NEW t \in Seq(S), NEW s, NEW b \in Nat, NEW n \in Nat, Len(t) = n,
         \A i \in 1 .. n : t[i] = s[b + i - 1]
  PROVE  t = Part(s, b, n)
<1>1. t \in [1 .. n -> S]
  BY LenProperties
<1> QED
  BY <1>1 DEF Part

LEMMA PartKept ==
  ASSUME NEW s, NEW r, NEW b \in Nat, NEW n \in Nat,
         \A j \in b .. b + n - 1 : r[j] = s[j]
  PROVE  Part(r, b, n) = Part(s, b, n)
<1>1. \A i \in 1 .. n : b + i - 1 \in b .. b + n - 1
  OBVIOUS
<1> QED
  BY <1>1 DEF Part

\* A part of a part.
LEMMA PartOfPart ==
  ASSUME NEW s \in [0 .. ValueSize - 1 -> Values], NEW b \in Nat, NEW n \in Nat, b + n <= ValueSize,
         NEW j \in 1 .. n + 1, NEW k \in 0 .. n, j <= k + 1
  PROVE  SubSeq(Part(s, b, n), j, k) = Part(s, b + j - 1, k + 1 - j)
<1> DEFINE p == Part(s, b, n)
           t == SubSeq(p, j, k)
<1>1. p \in Seq(Values) /\ Len(p) = n /\ \A i \in 1 .. n : p[i] = s[b + i - 1]
  BY PartSeq
<1>2. /\ k + 1 - j \in Nat /\ b + j - 1 \in Nat /\ b + j - 1 + (k + 1 - j) <= ValueSize
      /\ \A i \in 1 .. k + 1 - j : j + i - 1 \in 1 .. n /\ b + (j + i - 1) - 1 = (b + j - 1) + i - 1
      /\ \A i \in 1 .. k + 1 - j : i \in 1 .. k - j + 1
  BY InterpAssumption
<1> HIDE DEF p
<1>3. t \in Seq(Values) /\ Len(t) = k + 1 - j /\ \A i \in 1 .. k + 1 - j : t[i] = p[j + i - 1]
  <2>1. t \in Seq(Values)
    BY <1>1, SubSeqProperties
  <2>2. Len(t) = IF j <= k THEN k - j + 1 ELSE 0
    BY <1>1, SubSeqProperties
  <2>3. \A i \in 1 .. k - j + 1 : t[i] = p[j + i - 1]
    BY <1>1, SubSeqProperties
  <2> QED
    BY <1>2, <2>1, <2>2, <2>3
<1>4. \A i \in 1 .. k + 1 - j : t[i] = s[(b + j - 1) + i - 1]
  BY <1>1, <1>2, <1>3
<1> HIDE DEF t
<1>5. t = Part(s, b + j - 1, k + 1 - j)
  BY <1>2, <1>3, <1>4, PartIs
<1> QED
  BY <1>5 DEF t, p

LEMMA PartFirst ==
  ASSUME NEW s \in [0 .. ValueSize - 1 -> Values], NEW b \in Nat, NEW n \in Nat, b + n <= ValueSize,
         NEW k \in 0 .. n
  PROVE  SubSeq(Part(s, b, n), 1, k) = Part(s, b, k)
<1>1. 1 \in 1 .. n + 1 /\ 1 <= k + 1 /\ b + 1 - 1 = b /\ k + 1 - 1 = k
  OBVIOUS
<1>2. SubSeq(Part(s, b, n), 1, k) = Part(s, b + 1 - 1, k + 1 - 1)
  BY <1>1, PartOfPart
<1> QED
  BY <1>1, <1>2

LEMMA PartLast ==
  ASSUME NEW s \in [0 .. ValueSize - 1 -> Values], NEW b \in Nat, NEW n \in Nat, b + n <= ValueSize,
         NEW k \in 0 .. n
  PROVE  SubSeq(Part(s, b, n), n - k + 1, n) = Part(s, b + n - k, k)
<1>1. /\ n - k + 1 \in 1 .. n + 1 /\ n \in 0 .. n /\ n - k + 1 <= n + 1
      /\ b + (n - k + 1) - 1 = b + n - k /\ n + 1 - (n - k + 1) = k
  OBVIOUS
<1>2. SubSeq(Part(s, b, n), n - k + 1, n) = Part(s, b + (n - k + 1) - 1, n + 1 - (n - k + 1))
  BY <1>1, PartOfPart
<1> QED
  BY <1>1, <1>2

\* Two parts, one after the other.
LEMMA PartsJoined ==
  ASSUME NEW s \in [0 .. ValueSize - 1 -> Values], NEW b \in Nat, NEW n \in Nat,
         NEW t \in Seq(Values), b + n + Len(t) <= ValueSize,
         \A i \in 1 .. Len(t) : t[i] = s[b + n + i - 1]
  PROVE  Part(s, b, n) \o t = Part(s, b, n + Len(t))
<1> DEFINE p == Part(s, b, n)
           m == Len(t)
           u == p \o t
<1>0. m \in Nat /\ b + n <= ValueSize
  BY LenProperties, InterpAssumption
<1>1. p \in Seq(Values) /\ Len(p) = n /\ \A i \in 1 .. n : p[i] = s[b + i - 1]
  BY <1>0, PartSeq
<1> HIDE DEF p
<1>2. u \in Seq(Values) /\ Len(u) = n + m
      /\ \A i \in 1 .. n + m : u[i] = IF i <= n THEN p[i] ELSE t[i - n]
  BY <1>1, ConcatProperties
<1>3. \A i \in 1 .. n + m : u[i] = s[b + i - 1]
  <2> SUFFICES ASSUME NEW i \in 1 .. n + m PROVE u[i] = s[b + i - 1]
    OBVIOUS
  <2>1. CASE i <= n
    BY <2>1, <1>1, <1>2
  <2>2. CASE ~(i <= n)
    <3>1. i - n \in 1 .. m /\ b + n + (i - n) - 1 = b + i - 1
      BY <2>2, <1>0
    <3> QED
      BY <2>2, <3>1, <1>2
  <2> QED
    BY <2>1, <2>2
<1> HIDE DEF u, m
<1>4. n + m \in Nat
  BY <1>0
<1>5. u = Part(s, b, n + m)
  BY <1>2, <1>3, <1>4, PartIs
<1> QED
  BY <1>5 DEF u, m, p

LEMMA PartAppended ==
  ASSUME NEW s \in [0 .. ValueSize - 1 -> Values], NEW b \in Nat, NEW n \in Nat,
         b + n + 1 <= ValueSize
  PROVE  Append(Part(s, b, n), s[b + n]) = Part(s, b, n + 1)
<1> DEFINE p == Part(s, b, n)
           v == s[b + n]
           u == Append(p, v)
<1>0. b + n <= ValueSize /\ v \in Values
  BY InterpAssumption
<1>1. p \in Seq(Values) /\ Len(p) = n /\ \A i \in 1 .. n : p[i] = s[b + i - 1]
  BY <1>0, PartSeq
<1> HIDE DEF p, v
<1>2. u \in Seq(Values) /\ Len(u) = n + 1 /\ (\A i \in 1 .. n : u[i] = p[i]) /\ u[n + 1] = v
  BY <1>0, <1>1, AppendProperties
<1>3. \A i \in 1 .. n + 1 : u[i] = s[b + i - 1]
  <2>1. \A i \in 1 .. n + 1 : i \in 1 .. n \/ i = n + 1
    OBVIOUS
  <2>2. b + (n + 1) - 1 = b + n
    OBVIOUS
  <2> QED
    BY <1>1, <1>2, <2>1, <2>2 DEF v
<1> HIDE DEF u
<1>4. n + 1 \in Nat
  OBVIOUS
<1>5. u = Part(s, b, n + 1)
  BY <1>2, <1>3, <1>4, PartIs
<1> QED
  BY <1>5 DEF u, p, v
-----------------------------------------------------------------------------
(* The mapping *)

Activations == [fn : Funcs, locals : Seq(Values), ops : Seq(Values)]
AbstractCalls == [kind : {"run", "host"}, at : Nat, fn : Funcs \cup Hosts, args : Seq(Values)]

\* Where the parts of a frame end.
LEMMA FrameBounds ==
  ASSUME Inv, NEW i \in 1 .. callTop
  PROVE  /\ callStack[i] \in Frames
         /\ callStack[i].locals \in Nat /\ Types(callStack[i].fn) \in Nat
         /\ OpsEnd(i) \in Nat /\ Above(i) \in Nat
         /\ callStack[i].locals + Types(callStack[i].fn) <= OpsEnd(i)
         /\ OpsEnd(i) <= Above(i)
         /\ Above(i) <= ValueSize
<1>0. ValueSize \in Nat /\ top \in 0 .. ValueSize /\ callTop \in Nat
  BY InterpAssumption DEF Inv, StacksInv
<1>1. /\ callStack[i] \in Frames
      /\ callStack[i].locals \in Nat /\ Types(callStack[i].fn) \in Nat
  BY SizesNat DEF Inv, StacksInv, Frames
<1>2. Above(i) \in Nat /\ Above(i) <= ValueSize
  <2>1. CASE i = callTop
    BY <2>1, <1>0 DEF Above
  <2>2. CASE i # callTop
    <3>1. i + 1 \in 1 .. callTop
      BY <2>2, <1>0
    <3>2. callStack[i + 1] \in Frames
      BY <3>1 DEF Inv, StacksInv
    <3> QED
      BY <2>2, <3>2, <1>0 DEF Above, Frames
  <2> QED
    BY <2>1, <2>2
<1>3. callStack[i].locals + Types(callStack[i].fn) <= Above(i)
  BY DEF Inv, Stacked
<1>4. CASE HostCallsOf(i) = {}
  BY <1>1, <1>2, <1>3, <1>4, OpsEnds
<1>5. CASE HostCallsOf(i) # {}
  <2>1. PICK k \in HostCallsOf(i) : OpsEnd(i) = control[k].base
    BY <1>5, OpsEnds
  <2>2. k \in 1 .. Len(control) /\ control[k].kind = "host" /\ control[k].at = i
    BY LenProperties DEF HostCallsOf, Inv, ControlInv
  <2>3. control[k] \in HostCalls /\ HostCallInv(control[k])
    BY <2>2, CallsOf DEF Inv, ControlInv
  <2>4. /\ control[k].base \in Nat /\ Params[control[k].fn] \in Nat
        /\ callStack[i].locals + Types(callStack[i].fn) <= control[k].base
        /\ control[k].base + Params[control[k].fn] <= Above(i)
    BY <2>2, <2>3, SizesNat DEF HostCalls, HostCallInv
  <2> QED
    BY <2>1, <2>4, <1>1, <1>2
<1> QED
  BY <1>4, <1>5

\* All of a frame lies below the frames after it.
LEMMA FramesOrdered ==
  ASSUME Inv, NEW i \in 1 .. callTop, NEW j \in i + 1 .. callTop
  PROVE  Above(i) <= callStack[j].locals
<1> DEFINE Bad == {n \in Nat : n \in i + 1 .. callTop /\ ~(Above(i) <= callStack[n].locals)}
<1>0. callTop \in Nat /\ i \in Nat /\ j \in Nat
  BY DEF Inv, StacksInv
<1>1. SUFFICES ASSUME Bad # {} PROVE FALSE
  BY <1>0
<1>2. PICK n \in Bad : \A m \in Bad : n <= m
  BY <1>1, LeastNatural
<1>3. n \in Nat /\ n \in i + 1 .. callTop /\ ~(Above(i) <= callStack[n].locals)
  BY <1>2
<1>4. CASE n = i + 1
  <2>1. i # callTop
    BY <1>0, <1>3
  <2>2. callStack[n].locals \in Nat
    BY <1>0, <1>3, FrameBounds
  <2> QED
    BY <1>3, <1>4, <2>1, <2>2 DEF Above
<1>5. CASE n # i + 1
  <2>1. n - 1 \in Nat /\ n - 1 \in i + 1 .. callTop /\ n - 1 \in 1 .. callTop /\ n \in 1 .. callTop
        /\ n - 1 # callTop /\ n - 1 < n
    BY <1>0, <1>3, <1>5
  <2>2. Above(i) <= callStack[n - 1].locals
    BY <2>1, <1>2
  <2>3. callStack[n - 1].locals + Types(callStack[n - 1].fn) <= Above(n - 1)
    BY <2>1 DEF Inv, Stacked
  <2>4. Above(n - 1) = callStack[n].locals
    BY <2>1 DEF Above
  <2>5. /\ callStack[n - 1].locals \in Nat /\ Types(callStack[n - 1].fn) \in Nat
        /\ callStack[n].locals \in Nat /\ Above(i) \in Nat
    BY <2>1, FrameBounds
  <2> QED
    BY <1>3, <2>2, <2>3, <2>4, <2>5
<1> QED
  BY <1>4, <1>5

\* The top of the stack is above all frames.
LEMMA FramesBelowTop ==
  ASSUME Inv, NEW i \in 1 .. callTop
  PROVE  Above(i) <= top
<1>0. callTop \in Nat /\ i \in Nat /\ top \in Nat
  BY DEF Inv, StacksInv
<1>1. CASE i = callTop
  BY <1>0, <1>1 DEF Above
<1>2. CASE i # callTop
  <2>1. callTop \in i + 1 .. callTop /\ callTop \in 1 .. callTop
    BY <1>0, <1>2
  <2>2. Above(i) <= callStack[callTop].locals
    BY <2>1, FramesOrdered
  <2>3. callStack[callTop].locals + Types(callStack[callTop].fn) <= Above(callTop)
    BY <2>1 DEF Inv, Stacked
  <2>4. Above(callTop) = top
    BY DEF Above
  <2>5. /\ callStack[callTop].locals \in Nat /\ Types(callStack[callTop].fn) \in Nat
        /\ Above(i) \in Nat
    BY <2>1, FrameBounds
  <2> QED
    BY <1>0, <2>2, <2>3, <2>4, <2>5
<1> QED
  BY <1>1, <1>2

LEMMA FrameAtType ==
  ASSUME Inv, NEW i \in 1 .. callTop
  PROVE  /\ FrameAt(i) \in Activations
         /\ FrameAt(i).fn = callStack[i].fn
         /\ FrameAt(i).locals = Part(slots, callStack[i].locals, Types(callStack[i].fn))
         /\ FrameAt(i).ops = Part(slots, callStack[i].locals + Types(callStack[i].fn),
                                  OpsEnd(i) - callStack[i].locals - Types(callStack[i].fn))
         /\ Len(FrameAt(i).locals) = Types(callStack[i].fn)
         /\ Len(FrameAt(i).ops) = OpsEnd(i) - callStack[i].locals - Types(callStack[i].fn)
<1> DEFINE b == callStack[i].locals
           n == Types(callStack[i].fn)
           e == OpsEnd(i)
<1>1. /\ b \in Nat /\ n \in Nat /\ e \in Nat /\ b + n <= e /\ e <= ValueSize /\ ValueSize \in Nat
      /\ callStack[i].fn \in Funcs
  BY FrameBounds, InterpAssumption DEF Frames
<1>2. slots \in [0 .. ValueSize - 1 -> Values]
  BY DEF Inv, StacksInv
<1>3. b + n \in Nat /\ e - b - n \in Nat /\ b + n + (e - b - n) <= ValueSize /\ b + n <= ValueSize
  BY <1>1
<1> HIDE DEF b, n, e
<1>4. Part(slots, b, n) \in Seq(Values) /\ Len(Part(slots, b, n)) = n
  BY <1>1, <1>2, <1>3, PartSeq
<1>5. Part(slots, b + n, e - b - n) \in Seq(Values) /\ Len(Part(slots, b + n, e - b - n)) = e - b - n
  BY <1>2, <1>3, PartSeq
<1>6. FrameAt(i) = [fn |-> callStack[i].fn, locals |-> Part(slots, b, n), ops |-> Part(slots, b + n, e - b - n)]
  BY DEF FrameAt, b, n, e
<1>7. [fn |-> callStack[i].fn, locals |-> Part(slots, b, n), ops |-> Part(slots, b + n, e - b - n)] \in Activations
  BY <1>1, <1>4, <1>5 DEF Activations
<1> QED
  BY <1>4, <1>5, <1>6, <1>7 DEF b, n, e

LEMMA ActivatedSeq ==
  ASSUME Inv
  PROVE  /\ Activated \in Seq(Activations)
         /\ Len(Activated) = callTop
         /\ \A i \in 1 .. callTop : Activated[i] = FrameAt(i)
         /\ callTop \in Nat
<1>1. callTop \in Nat
  BY DEF Inv, StacksInv
<1>2. Activated \in [1 .. callTop -> Activations]
  BY FrameAtType DEF Activated
<1> QED
  BY <1>1, <1>2, FunctionIsSeq DEF Activated

\* A pending host function's arguments are on the stack.
LEMMA HostCallBounds ==
  ASSUME Inv, NEW c \in HostCalls, HostCallInv(c)
  PROVE  /\ c.at \in 1 .. callTop
         /\ c.base \in Nat /\ Params[c.fn] \in Nat
         /\ c.base + Params[c.fn] <= Above(c.at)
         /\ c.base + Params[c.fn] <= ValueSize
<1>0. callTop \in Nat /\ ValueSize \in Nat
  BY InterpAssumption DEF Inv, StacksInv
<1>1. /\ c.at \in 1 .. callTop
      /\ c.base \in Nat /\ Params[c.fn] \in Nat
      /\ c.base + Params[c.fn] <= Above(c.at)
  BY <1>0, SizesNat DEF HostCalls, HostCallInv
<1>2. Above(c.at) \in Nat /\ Above(c.at) <= ValueSize
  BY <1>1, FrameBounds
<1> QED
  BY <1>0, <1>1, <1>2

LEMMA CallAtType ==
  ASSUME Inv, NEW c \in Calls, c.kind = "run" \/ HostCallInv(c)
  PROVE  CallAt(c) \in AbstractCalls
<1>1. CASE c.kind = "run"
  <2>1. c \in Runs
    BY <1>1 DEF Calls, Runs, HostCalls
  <2>2. c.origStack \in Nat /\ c.fn \in Funcs
    BY <2>1 DEF Runs
  <2>3. <<>> \in Seq(Values)
    BY EmptySeq
  <2>4. CallAt(c) = [kind |-> "run", at |-> c.origStack, fn |-> c.fn, args |-> <<>>]
    BY <1>1 DEF CallAt
  <2> QED
    BY <2>2, <2>3, <2>4 DEF AbstractCalls
<1>2. CASE c.kind # "run"
  <2>1. c \in HostCalls /\ HostCallInv(c)
    BY <1>2 DEF Calls, Runs, HostCalls
  <2>2. /\ c.at \in Nat /\ c.fn \in Hosts /\ c.base \in Nat /\ Params[c.fn] \in Nat
        /\ c.base + Params[c.fn] <= ValueSize
    BY <2>1, HostCallBounds DEF HostCalls
  <2>3. Part(slots, c.base, Params[c.fn]) \in Seq(Values)
    BY <2>2, PartSeq DEF Inv, StacksInv
  <2>4. CallAt(c) = [kind |-> "host", at |-> c.at, fn |-> c.fn, args |-> Part(slots, c.base, Params[c.fn])]
    BY <1>2 DEF CallAt
  <2> QED
    BY <2>2, <2>3, <2>4 DEF AbstractCalls
<1> QED
  BY <1>1, <1>2

LEMMA UnderWaySeq ==
  ASSUME Inv
  PROVE  /\ UnderWay \in Seq(AbstractCalls)
         /\ Len(UnderWay) = Len(control) /\ Len(control) \in Nat
         /\ \A k \in 1 .. Len(control) : UnderWay[k] = CallAt(control[k])
         /\ UnderWay = <<>> <=> control = <<>>
         /\ control # <<>> => Last(UnderWay) = CallAt(Last(control))
         /\ Machine!InGuest <=> InGuest
         /\ Machine!InHost <=> InHost
<1>1. Len(control) \in Nat /\ DOMAIN control = 1 .. Len(control)
  BY LenProperties DEF Inv, ControlInv
<1>2. \A k \in 1 .. Len(control) : CallAt(control[k]) \in AbstractCalls
  BY <1>1, CallsOf, CallAtType DEF Inv, ControlInv
<1>3. UnderWay \in [1 .. Len(control) -> AbstractCalls]
  BY <1>1, <1>2 DEF UnderWay
<1>4. UnderWay \in Seq(AbstractCalls) /\ Len(UnderWay) = Len(control)
  BY <1>1, <1>3, FunctionIsSeq
<1>5. \A k \in 1 .. Len(control) : UnderWay[k] = CallAt(control[k])
  BY <1>1 DEF UnderWay
<1>6. UnderWay = <<>> <=> control = <<>>
  BY <1>4, EmptySeq DEF Inv, ControlInv
<1>7. control # <<>> => Last(UnderWay) = CallAt(Last(control))
  BY <1>1, <1>4, <1>5, FrontOfSeq DEF Last, Inv, ControlInv
<1>8. \A c : CallAt(c).kind = "run" <=> c.kind = "run"
  BY DEF CallAt
<1>9. control # <<>> => (Last(control).kind = "run" \/ Last(control).kind = "host")
  <2> SUFFICES ASSUME control # <<>> PROVE Last(control).kind = "run" \/ Last(control).kind = "host"
    OBVIOUS
  <2>1. Len(control) \in 1 .. Len(control) /\ Last(control) = control[Len(control)]
    <3>1. control \in Seq(Calls)
      BY DEF Inv, ControlInv
    <3>2. Len(control) \in Nat \ {0} /\ Last(control) = control[Len(control)]
      BY <3>1, FrontOfSeq
    <3> QED
      BY <3>2
  <2> QED
    BY <2>1, CallsOf DEF Inv
<1>10. \A c : c.kind = "host" => CallAt(c).kind = "host"
  BY DEF CallAt
<1>11. Machine!Last(UnderWay) = Last(UnderWay)
  BY DEF Machine!Last, Last
<1>12. Machine!InGuest <=> InGuest
  BY <1>6, <1>7, <1>8, <1>11 DEF Machine!InGuest, InGuest
<1>13. Machine!InHost <=> InHost
  BY <1>6, <1>7, <1>8, <1>9, <1>10, <1>11 DEF Machine!InHost, InHost
<1> QED
  BY <1>1, <1>4, <1>5, <1>6, <1>7, <1>12, <1>13
-----------------------------------------------------------------------------
(* What a step leaves as it is *)

\* The slots below the place limit are what they were.
KeptBelow(limit) == \A j \in Nat : j < limit => slots'[j] = slots[j]

LEMMA PartBelow ==
  ASSUME NEW limit \in Nat, KeptBelow(limit), NEW b \in Nat, NEW n \in Nat, b + n <= limit
  PROVE  Part(slots', b, n) = Part(slots, b, n)
<1>1. \A i \in 1 .. n : b + i - 1 \in Nat /\ b + i - 1 < limit
  OBVIOUS
<1> QED
  BY <1>1 DEF Part, KeptBelow

\* A frame none of whose slots changes, and which waits for the same host function.
LEMMA FrameKept ==
  ASSUME Inv, NEW i \in 1 .. callTop, NEW limit \in Nat, KeptBelow(limit),
         OpsEnd(i) <= limit, OpsEnd(i)' = OpsEnd(i), callStack'[i] = callStack[i]
  PROVE  FrameAt(i)' = FrameAt(i)
<1> DEFINE b == callStack[i].locals
           n == Types(callStack[i].fn)
           e == OpsEnd(i)
<1>1. b \in Nat /\ n \in Nat /\ e \in Nat /\ b + n <= e
  BY FrameBounds
<1>2. e <= limit
  OBVIOUS
<1> HIDE DEF b, n, e
<1>3. /\ b + n \in Nat /\ e - b - n \in Nat
      /\ \A j \in b .. b + n - 1 : j \in Nat /\ j < limit
      /\ \A j \in b + n .. b + n + (e - b - n) - 1 : j \in Nat /\ j < limit
  BY <1>1, <1>2
<1>4. Part(slots', b, n) = Part(slots, b, n)
  <2>1. \A j \in b .. b + n - 1 : slots'[j] = slots[j]
    BY <1>3 DEF KeptBelow
  <2> QED
    BY <1>1, <2>1 DEF Part
<1>5. Part(slots', b + n, e - b - n) = Part(slots, b + n, e - b - n)
  BY <1>3, PartKept, SMTT(30) DEF KeptBelow
<1> QED
  BY <1>4, <1>5 DEF FrameAt, b, n, e, Types

LEMMA CallKept ==
  ASSUME Inv, NEW c \in Calls, c.kind = "run" \/ HostCallInv(c), NEW limit \in Nat, KeptBelow(limit),
         c.kind = "host" => c.base + Params[c.fn] <= limit
  PROVE  CallAt(c)' = CallAt(c)
<1>1. CASE c.kind = "run"
  BY <1>1 DEF CallAt
<1>2. CASE c.kind # "run"
  <2>1. c \in HostCalls /\ HostCallInv(c) /\ c.kind = "host"
    BY <1>2 DEF Calls, Runs, HostCalls
  <2>2. c.base \in Nat /\ Params[c.fn] \in Nat /\ c.base + Params[c.fn] <= limit
    BY <2>1, HostCallBounds
  <2>3. \A j \in c.base .. c.base + Params[c.fn] - 1 : j \in Nat /\ j < limit
    BY <2>2
  <2>4. Part(slots', c.base, Params[c.fn]) = Part(slots, c.base, Params[c.fn])
    <3> DEFINE b == c.base
               n == Params[c.fn]
    <3>1. b \in Nat /\ n \in Nat
      BY <2>2
    <3>2. \A j \in b .. b + n - 1 : slots'[j] = slots[j]
      BY <2>3 DEF KeptBelow
    <3> HIDE DEF b, n
    <3>3. Part(slots', b, n) = Part(slots, b, n)
      BY <3>1, <3>2, PartKept
    <3> QED
      BY <3>3 DEF b, n
  <2> QED
    BY <2>4, <1>2 DEF CallAt
<1> QED
  BY <1>1, <1>2

\* A frame's operands end where they did, if the same host function waits for it.
LEMMA EndKept ==
  ASSUME NEW i,
         \A k : k \in HostCallsOf(i) <=> k \in DOMAIN control' /\ control'[k].kind = "host" /\ control'[k].at = i,
         \A k \in HostCallsOf(i) : control'[k] = control[k],
         HostCallsOf(i) = {} => Above(i)' = Above(i)
  PROVE  OpsEnd(i)' = OpsEnd(i)
<1>1. HostCallsOf(i)' = HostCallsOf(i)
  BY DEF HostCallsOf
<1>2. CASE HostCallsOf(i) = {}
  BY <1>1, <1>2 DEF OpsEnd, Above
<1>3. CASE HostCallsOf(i) # {}
  BY <1>1, <1>3 DEF OpsEnd
<1> QED
  BY <1>2, <1>3

\* All but the last element of a sequence, and another last one.
LEMMA LastReplaced ==
  ASSUME NEW S, NEW s \in Seq(S), s # <<>>, NEW e \in S
  PROVE  /\ Append(Front(s), e) \in [1 .. Len(s) -> S]
         /\ \A i \in 1 .. Len(s) : Append(Front(s), e)[i] = IF i = Len(s) THEN e ELSE s[i]
<1> DEFINE n == Len(s)
           f == Front(s)
           u == Append(f, e)
<1>1. n \in Nat \ {0} /\ f \in Seq(S) /\ Len(f) = n - 1 /\ \A i \in 1 .. n - 1 : f[i] = s[i]
  BY FrontOfSeq
<1> HIDE DEF n, f
<1>2. u \in Seq(S) /\ Len(u) = (n - 1) + 1 /\ (\A i \in 1 .. n - 1 : u[i] = f[i]) /\ u[(n - 1) + 1] = e
  BY <1>1, AppendProperties
<1>3. (n - 1) + 1 = n
  BY <1>1
<1>4. u \in [1 .. n -> S]
  BY <1>2, <1>3, LenProperties
<1>5. \A i \in 1 .. n : u[i] = IF i = n THEN e ELSE s[i]
  <2>1. \A i \in 1 .. n : i = n \/ i \in 1 .. n - 1
    BY <1>1
  <2> QED
    BY <1>1, <1>2, <1>3, <2>1
<1> QED
  BY <1>4, <1>5 DEF f, n
-----------------------------------------------------------------------------
(* The opcodes of a frame *)

\* The frame in the opcode loop is the activation on top.
LEMMA LoopMapped ==
  ASSUME Inv, InGuest
  PROVE  /\ HostCallsOf(callTop) = {}
         /\ FrameAt(callTop) = [fn |-> Frame.fn,
                                locals |-> Part(slots, Frame.locals, Types(Frame.fn)),
                                ops |-> Part(slots, OpsBase, Height)]
         /\ Machine!Current = FrameAt(callTop)
         /\ Machine!InGuest
         /\ Frame.locals \in Nat /\ Types(Frame.fn) \in Nat /\ Frame.fn \in Funcs
         /\ OpsBase = Frame.locals + Types(Frame.fn)
         /\ Height \in Nat /\ OpsBase + Height = top
         /\ top \in Nat /\ ValueSize \in Nat /\ top <= ValueSize
         /\ callTop \in Nat \ {0}
<1>0. /\ callTop \in 1 .. CallSize /\ OpsBase \in 0 .. top /\ Height = top - OpsBase
      /\ Frame \in Frames /\ CallSize \in Nat
      /\ top \in 0 .. ValueSize /\ ValueSize \in Nat
  BY InLoop, InterpAssumption DEF Inv, StacksInv
<1>1. HostCallsOf(callTop) = {}
  <2> SUFFICES ASSUME NEW k \in HostCallsOf(callTop) PROVE FALSE
    OBVIOUS
  <2>1. k \in 1 .. Len(control) /\ control[k].kind = "host" /\ control[k].at = callTop
    BY LenProperties DEF HostCallsOf, Inv, ControlInv
  <2> QED
    BY <2>1, <1>0, HostsBelow
<1>2. callTop \in 1 .. callTop
  BY <1>0
<1>3. OpsEnd(callTop) = top
  BY <1>1, <1>2, OpsEnds DEF Above
<1>4. Frame.locals \in Nat /\ Types(Frame.fn) \in Nat /\ OpsBase = Frame.locals + Types(Frame.fn)
  BY <1>0, SizesNat DEF Frames, OpsBase
<1>5. OpsEnd(callTop) - Frame.locals - Types(Frame.fn) = Height
  BY <1>0, <1>3, <1>4
<1>6. FrameAt(callTop) = [fn |-> Frame.fn,
                          locals |-> Part(slots, Frame.locals, Types(Frame.fn)),
                          ops |-> Part(slots, OpsBase, Height)]
  BY <1>4, <1>5 DEF FrameAt, Frame
<1>7. Machine!Current = FrameAt(callTop)
  BY <1>2, ActivatedSeq DEF Machine!Current, Machine!Last
<1>8. Frame.fn \in Funcs /\ Height \in Nat /\ OpsBase + Height = top /\ top \in Nat
      /\ top <= ValueSize /\ callTop \in Nat \ {0}
  BY <1>0 DEF Frames
<1> QED
  BY <1>0, <1>1, <1>4, <1>6, <1>7, <1>8, UnderWaySeq

\* Below the locals of the running frame nothing changes: other frames and calls
\* keep all they have.
LEMMA FramesBelow ==
  ASSUME Inv, InGuest, KeptBelow(Frame.locals), NEW i \in 1 .. callTop, i # callTop,
         callStack'[i] = callStack[i], OpsEnd(i)' = OpsEnd(i)
  PROVE  FrameAt(i)' = FrameAt(i)
<1>0. callTop \in Nat /\ Frame.locals \in Nat
  BY LoopMapped
<1>1. callTop \in i + 1 .. callTop
  BY <1>0
<1>2. Above(i) <= Frame.locals
  BY <1>1, FramesOrdered DEF Frame
<1>3. OpsEnd(i) \in Nat /\ OpsEnd(i) <= Above(i) /\ Above(i) \in Nat
  BY FrameBounds
<1>4. OpsEnd(i) <= Frame.locals
  BY <1>0, <1>2, <1>3
<1> QED
  BY <1>0, <1>4, FrameKept

LEMMA CallsBelow ==
  ASSUME Inv, InGuest, KeptBelow(Frame.locals), NEW k \in 1 .. Len(control), NEW d \in Calls, d = control[k]
  PROVE  CallAt(d)' = CallAt(d)
<1>0. callTop \in Nat /\ Frame.locals \in Nat
  BY LoopMapped
<1>1. d.kind = "run" \/ (d.kind = "host" /\ d \in HostCalls /\ HostCallInv(d))
  BY CallsOf DEF Inv, ControlInv
<1>2. ASSUME d.kind = "host" PROVE d.base + Params[d.fn] <= Frame.locals
  <2>1. d \in HostCalls /\ HostCallInv(d) /\ d.at < callTop
    BY <1>1, <1>2, HostsBelow DEF Runs
  <2>2. /\ d.at \in 1 .. callTop /\ d.base \in Nat /\ Params[d.fn] \in Nat
        /\ d.base + Params[d.fn] <= Above(d.at)
    BY <2>1, HostCallBounds
  <2>3. callTop \in d.at + 1 .. callTop
    BY <2>1, <2>2, <1>0
  <2>4. Above(d.at) <= Frame.locals /\ Above(d.at) \in Nat
    BY <2>2, <2>3, FramesOrdered, FrameBounds DEF Frame
  <2> QED
    BY <2>2, <2>4, <1>0
<1> QED
  BY <1>0, <1>1, <1>2, CallKept

\* An opcode changes the running frame's locals and operands only.
LEMMA Operated ==
  ASSUME Inv, InGuest, Loop, KeptBelow(Frame.locals),
         slots' \in [0 .. ValueSize - 1 -> Values], top' \in Nat, OpsBase <= top', top' <= ValueSize,
         NEW frame,
         frame = [fn |-> Frame.fn,
                  locals |-> Part(slots', Frame.locals, Types(Frame.fn)),
                  ops |-> Part(slots', OpsBase, top' - OpsBase)]
  PROVE  Machine!Operate(frame)
<1>0. /\ UNCHANGED <<callStack, callTop, currentFrame, control>>
      /\ out' = <<>>
  BY DEF Loop
<1>1. /\ Frame.locals \in Nat /\ Types(Frame.fn) \in Nat /\ Frame.fn \in Funcs
      /\ OpsBase = Frame.locals + Types(Frame.fn)
      /\ callTop \in Nat \ {0} /\ Machine!InGuest /\ HostCallsOf(callTop) = {}
      /\ ValueSize \in Nat
  BY LoopMapped
<1>2. frame \in Activations
  <2>1. /\ Frame.locals + Types(Frame.fn) <= ValueSize
        /\ OpsBase \in Nat /\ top' - OpsBase \in Nat /\ OpsBase + (top' - OpsBase) <= ValueSize
    <3>1. \A l, n, t, v \in Nat : l + n <= t /\ t <= v =>
             l + n <= v /\ l + n \in Nat /\ t - (l + n) \in Nat /\ (l + n) + (t - (l + n)) <= v
      OBVIOUS
    <3> QED
      BY <1>1, <3>1
  <2>2. Part(slots', Frame.locals, Types(Frame.fn)) \in Seq(Values)
    BY <1>1, <2>1, PartSeq
  <2>3. Part(slots', OpsBase, top' - OpsBase) \in Seq(Values)
    BY <2>1, PartSeq
  <2> QED
    BY <1>1, <2>2, <2>3 DEF Activations
<1>3. ASSUME NEW i \in 1 .. callTop, i = callTop PROVE FrameAt(i)' = frame
  <2>1. HostCallsOf(i)' = {}
    BY <1>0, <1>1, <1>3 DEF HostCallsOf
  <2>2. OpsEnd(i)' = top'
    BY <1>0, <1>3, <2>1 DEF OpsEnd
  <2>3. top' - Frame.locals - Types(Frame.fn) = top' - OpsBase
    BY <1>1
  <2> QED
    BY <1>0, <1>1, <1>3, <2>2, <2>3 DEF FrameAt, Frame, Types
<1>4. ASSUME NEW i \in 1 .. callTop, i # callTop PROVE FrameAt(i)' = FrameAt(i)
  <2>1. OpsEnd(i)' = OpsEnd(i)
    BY <1>0, <1>4 DEF OpsEnd, HostCallsOf
  <2> QED
    BY <1>0, <1>4, <2>1, FramesBelow
<1>5. Activated' = Append(Front(Activated), frame)
  <2>1. /\ Activated \in Seq(Activations) /\ Len(Activated) = callTop /\ Activated # <<>>
        /\ \A i \in 1 .. callTop : Activated[i] = FrameAt(i)
    BY <1>1, ActivatedSeq, EmptySeq
  <2>2. Append(Front(Activated), frame) = [i \in 1 .. callTop |-> IF i = callTop THEN frame ELSE Activated[i]]
    <3> DEFINE u == Append(Front(Activated), frame)
    <3>1. /\ u \in [1 .. callTop -> Activations]
          /\ \A i \in 1 .. callTop : u[i] = IF i = callTop THEN frame ELSE Activated[i]
      BY <1>2, <2>1, LastReplaced
    <3> HIDE DEF u
    <3>2. u = [i \in 1 .. callTop |-> IF i = callTop THEN frame ELSE Activated[i]]
      BY <3>1
    <3> QED
      BY <3>2 DEF u
  <2>3. Activated' = [i \in 1 .. callTop' |-> FrameAt(i)']
    BY DEF Activated
  <2>4. \A i \in 1 .. callTop : FrameAt(i)' = IF i = callTop THEN frame ELSE Activated[i]
    BY <1>3, <1>4, <2>1
  <2> QED
    BY <1>0, <2>2, <2>3, <2>4
<1>6. UnderWay' = UnderWay
  <2>1. UnderWay' = [k \in DOMAIN control |-> CallAt(control[k])']
    BY <1>0 DEF UnderWay
  <2>2. ASSUME NEW k \in DOMAIN control PROVE CallAt(control[k])' = CallAt(control[k])
    <3>1. k \in 1 .. Len(control)
      BY LenProperties DEF Inv, ControlInv
    <3>2. PICK d \in Calls : d = control[k]
      BY <3>1, CallsOf DEF Inv
    <3>3. CallAt(d)' = CallAt(d)
      BY <3>1, <3>2, CallsBelow
    <3>4. control'[k] = d
      BY <1>0, <3>2
    <3> QED
      BY <3>2, <3>3, <3>4 DEF CallAt
  <2> QED
    BY <2>1, <2>2 DEF UnderWay
<1> QED
  BY <1>0, <1>1, <1>5, <1>6 DEF Machine!Operate, Machine!Front, Front

LEMMA WithOpsOf ==
  ASSUME NEW f, NEW p, NEW q, NEW s
  PROVE  Machine!WithOps([fn |-> f, locals |-> p, ops |-> q], s) = [fn |-> f, locals |-> p, ops |-> s]
BY DEF Machine!WithOps

LEMMA PushMapped ==
  ASSUME Inv, NEW v \in Values, Push(v)
  PROVE  Machine!Push(v)
<1>0. InGuest /\ Loop /\ top < ValueSize /\ slots' = [slots EXCEPT ![top] = v] /\ top' = top + 1
  BY DEF Push
<1> DEFINE l == Frame.locals
           n == Types(Frame.fn)
           b == OpsBase
           h == Height
<1>1. /\ l \in Nat /\ n \in Nat /\ b = l + n /\ h \in Nat /\ b + h = top
      /\ top \in Nat /\ ValueSize \in Nat /\ Machine!Current = FrameAt(callTop)
      /\ FrameAt(callTop) = [fn |-> Frame.fn, locals |-> Part(slots, l, n), ops |-> Part(slots, b, h)]
  BY <1>0, LoopMapped
<1>2. slots \in [0 .. ValueSize - 1 -> Values] /\ slots' \in [0 .. ValueSize - 1 -> Values]
  BY <1>0 DEF Inv, StacksInv
<1> HIDE DEF l, n, b, h
<1>3. /\ \A j \in Nat : j < top => slots'[j] = slots[j]
      /\ slots'[top] = v
      /\ b \in Nat /\ top + 1 \in Nat /\ b + h + 1 <= ValueSize /\ (top + 1) - b = h + 1
      /\ b <= top + 1 /\ top + 1 <= ValueSize
  BY <1>0, <1>1, <1>2
<1>4. Part(slots', l, n) = Part(slots, l, n) /\ Part(slots', b, h) = Part(slots, b, h)
  <2>1. KeptBelow(top) /\ l + n <= top /\ b + h <= top
    BY <1>1, <1>3 DEF KeptBelow
  <2> QED
    BY <1>1, <1>3, <2>1, PartBelow
<1>6. Append(Part(slots, b, h), v) = Part(slots', b, h + 1)
  <2>1. Append(Part(slots', b, h), slots'[b + h]) = Part(slots', b, h + 1)
    BY <1>1, <1>2, <1>3, PartAppended
  <2> QED
    BY <1>1, <1>3, <1>4, <2>1
<1> DEFINE frame == Machine!WithOps(Machine!Current, Append(Machine!Current.ops, v))
<1>7. frame = [fn |-> Frame.fn, locals |-> Part(slots', l, n), ops |-> Part(slots', b, top' - b)]
  <2>1. top' - b = h + 1
    BY <1>0, <1>3
  <2>2. frame = [fn |-> Frame.fn, locals |-> Part(slots, l, n), ops |-> Part(slots', b, h + 1)]
    <3>1. Machine!Current.ops = Part(slots, b, h)
      BY <1>1
    <3>2. frame = Machine!WithOps(Machine!Current, Part(slots', b, h + 1))
      BY <1>6, <3>1
    <3> QED
      BY <1>1, <3>2, WithOpsOf
  <2> QED
    BY <1>4, <2>1, <2>2
<1>8. KeptBelow(l)
  BY <1>1, <1>3 DEF KeptBelow
<1> HIDE DEF frame
<1>9. Machine!Operate(frame)
  BY <1>0, <1>2, <1>3, <1>7, <1>8, Operated DEF l, n, b
<1> QED
  BY <1>9 DEF Machine!Push, frame

\* The operands but the last one.
LEMMA PartFront ==
  ASSUME Inv, NEW b \in Nat, NEW h \in Nat, h - 1 \in 0 .. h, b + h <= ValueSize
  PROVE  Machine!Front(Part(slots, b, h)) = Part(slots, b, h - 1)
<1>1. slots \in [0 .. ValueSize - 1 -> Values]
  BY DEF Inv, StacksInv
<1>2. Len(Part(slots, b, h)) = h /\ SubSeq(Part(slots, b, h), 1, h - 1) = Part(slots, b, h - 1)
  BY <1>1, PartSeq, PartFirst
<1> QED
  BY <1>2 DEF Machine!Front

LEMMA DropMapped ==
  ASSUME Inv, Drop
  PROVE  Machine!Drop
<1>0. InGuest /\ Loop /\ Height >= 1 /\ slots' = slots /\ top' = top - 1
  BY DEF Drop
<1> DEFINE l == Frame.locals
           n == Types(Frame.fn)
           b == OpsBase
           h == Height
<1>1. /\ l \in Nat /\ n \in Nat /\ b = l + n /\ h \in Nat /\ b + h = top /\ h >= 1
      /\ top \in Nat /\ top <= ValueSize /\ ValueSize \in Nat /\ Machine!Current = FrameAt(callTop)
      /\ FrameAt(callTop) = [fn |-> Frame.fn, locals |-> Part(slots, l, n), ops |-> Part(slots, b, h)]
      /\ Machine!InGuest
  BY <1>0, LoopMapped
<1>2. slots \in [0 .. ValueSize - 1 -> Values] /\ slots' \in [0 .. ValueSize - 1 -> Values]
  BY <1>0 DEF Inv, StacksInv
<1> HIDE DEF l, n, b, h
<1>3. /\ b \in Nat /\ top - 1 \in Nat /\ (top - 1) - b = h - 1 /\ b <= top - 1 /\ top - 1 <= ValueSize
      /\ b + h <= ValueSize /\ h - 1 \in 0 .. h
  BY <1>1
<1>4. Part(slots, b, h) \in Seq(Values) /\ Len(Part(slots, b, h)) = h
  BY <1>1, <1>2, <1>3, PartSeq
<1>6. Part(slots, b, h) # <<>> /\ Machine!Front(Part(slots, b, h)) = Part(slots, b, h - 1)
  <2>1. Part(slots, b, h) # <<>>
    BY <1>1, <1>4, EmptySeq
  <2> QED
    BY <1>1, <1>3, <2>1, PartFront
<1> DEFINE frame == Machine!WithOps(Machine!Current, Machine!Front(Machine!Current.ops))
<1>7. frame = [fn |-> Frame.fn, locals |-> Part(slots', l, n), ops |-> Part(slots', b, top' - b)]
  BY <1>0, <1>1, <1>3, <1>6, WithOpsOf
<1>8. KeptBelow(l)
  BY <1>0 DEF KeptBelow
<1> HIDE DEF frame
<1>9. Machine!Operate(frame)
  BY <1>0, <1>2, <1>3, <1>7, <1>8, Operated DEF l, n, b
<1>10. Machine!Current.ops # <<>>
  BY <1>1, <1>6
<1> QED
  BY <1>1, <1>9, <1>10 DEF Machine!Drop, frame

\* What a local holds.
LEMMA LocalAt ==
  ASSUME Inv, InGuest, NEW i \in 0 .. Types(Frame.fn) - 1
  PROVE  /\ i + 1 \in DOMAIN Machine!Current.locals
         /\ Machine!Current.locals[i + 1] = slots[Frame.locals + i]
         /\ slots[Frame.locals + i] \in Values
         /\ Frame.locals + i \in 0 .. ValueSize - 1
<1> DEFINE l == Frame.locals
           n == Types(Frame.fn)
<1>1. /\ l \in Nat /\ n \in Nat /\ OpsBase = l + n /\ OpsBase + Height = top /\ Height \in Nat
      /\ top <= ValueSize /\ ValueSize \in Nat /\ top \in Nat
      /\ Machine!Current = FrameAt(callTop)
      /\ FrameAt(callTop) = [fn |-> Frame.fn, locals |-> Part(slots, l, n), ops |-> Part(slots, OpsBase, Height)]
  BY LoopMapped
<1>2. i \in 0 .. n - 1
  OBVIOUS
<1> HIDE DEF l, n
<1>3. Machine!Current.locals = Part(slots, l, n)
  BY <1>1
<1>4. /\ l + n <= ValueSize /\ i + 1 \in 1 .. n /\ l + (i + 1) - 1 = l + i
      /\ l + i \in 0 .. ValueSize - 1
  BY <1>1, <1>2
<1>5. Part(slots, l, n)[i + 1] = slots[l + i] /\ DOMAIN Part(slots, l, n) = 1 .. n
  BY <1>4 DEF Part
<1>6. slots[l + i] \in Values
  BY <1>4 DEF Inv, StacksInv
<1> QED
  BY <1>3, <1>4, <1>5, <1>6 DEF l

LEMMA GetLocalMapped ==
  ASSUME Inv, InGuest, NEW i \in 0 .. Types(Frame.fn) - 1, GetLocal(i)
  PROVE  Machine!GetLocal(i + 1)
<1>1. slots[Frame.locals + i] \in Values /\ Machine!Current.locals[i + 1] = slots[Frame.locals + i]
  BY LocalAt
<1>2. Machine!Push(slots[Frame.locals + i])
  BY <1>1, PushMapped DEF GetLocal
<1> QED
  BY <1>1, <1>2 DEF Machine!GetLocal

\* One local takes the value on top.
LEMMA LocalSet ==
  ASSUME Inv, InGuest, Height >= 1, NEW i \in 0 .. Types(Frame.fn) - 1,
         slots' = [slots EXCEPT ![Frame.locals + i] = slots[top - 1]]
  PROVE  /\ slots' \in [0 .. ValueSize - 1 -> Values]
         /\ KeptBelow(Frame.locals)
         /\ Part(slots', Frame.locals, Types(Frame.fn))
              = [Machine!Current.locals EXCEPT ![i + 1] = Machine!Last(Machine!Current.ops)]
         /\ Machine!Current.ops # <<>>
         /\ \A k \in 0 .. Height : Part(slots', OpsBase, k) = Part(slots, OpsBase, k)
<1> DEFINE l == Frame.locals
           n == Types(Frame.fn)
           b == OpsBase
           h == Height
           v == slots[top - 1]
<1>1. /\ l \in Nat /\ n \in Nat /\ b = l + n /\ h \in Nat /\ b + h = top /\ h >= 1
      /\ top \in Nat /\ top <= ValueSize /\ ValueSize \in Nat
  BY LoopMapped
<1>2. Machine!Current.locals = Part(slots, l, n) /\ Machine!Current.ops = Part(slots, b, h)
  BY LoopMapped
<1>3. slots \in [0 .. ValueSize - 1 -> Values]
  BY DEF Inv, StacksInv
<1>4. i \in 0 .. n - 1 /\ slots' = [slots EXCEPT ![l + i] = v] /\ v = slots[top - 1]
  OBVIOUS
<1> HIDE DEF l, n, b, h, v
<1>5. /\ top - 1 \in 0 .. ValueSize - 1 /\ l + i \in 0 .. ValueSize - 1 /\ b \in Nat /\ b + h <= ValueSize
      /\ l + i < b /\ i + 1 \in 1 .. n /\ b + h - 1 = top - 1
  BY <1>1, <1>4
<1>6. v \in Values
  BY <1>3, <1>4, <1>5
<1>7. slots' \in [0 .. ValueSize - 1 -> Values]
  BY <1>3, <1>4, <1>5, <1>6
<1>8. KeptBelow(l)
  BY <1>1, <1>3, <1>4 DEF KeptBelow
<1>9. Machine!Current.ops # <<>> /\ Machine!Last(Machine!Current.ops) = v
  <2>1. /\ Part(slots, b, h) \in Seq(Values) /\ Len(Part(slots, b, h)) = h
        /\ \A j \in 1 .. h : Part(slots, b, h)[j] = slots[b + j - 1]
    <3>1. b \in Nat /\ h \in Nat /\ b + h <= ValueSize
      BY <1>1, <1>5
    <3> QED
      BY <1>3, <3>1, PartSeq
  <2>2. Part(slots, b, h)[h] = v
    <3>1. h \in 1 .. h
      BY <1>1
    <3>2. Part(slots, b, h)[h] = slots[b + h - 1]
      BY <2>1, <3>1
    <3> QED
      BY <1>4, <1>5, <3>2
  <2> QED
    BY <1>1, <1>2, <2>1, <2>2, EmptySeq DEF Machine!Last
<1>10. Part(slots', l, n) = [Part(slots, l, n) EXCEPT ![i + 1] = v]
  <2>1. \A j \in 1 .. n : l + j - 1 \in 0 .. ValueSize - 1 /\ (l + j - 1 = l + i <=> j = i + 1)
    BY <1>1, <1>4
  <2>2. \A j \in 1 .. n : slots'[l + j - 1] = IF j = i + 1 THEN v ELSE slots[l + j - 1]
    BY <1>3, <1>4, <2>1
  <2> QED
    BY <1>5, <2>2 DEF Part
<1>11. ASSUME NEW k \in 0 .. h PROVE Part(slots', b, k) = Part(slots, b, k)
  <2>1. \A j \in 1 .. k : b + j - 1 \in 0 .. ValueSize - 1 /\ b + j - 1 # l + i
    BY <1>1, <1>4, <1>5
  <2>2. \A j \in 1 .. k : slots'[b + j - 1] = slots[b + j - 1]
    BY <1>3, <1>4, <2>1
  <2> QED
    BY <2>2 DEF Part
<1>12. [Part(slots, l, n) EXCEPT ![i + 1] = v] = [Machine!Current.locals EXCEPT ![i + 1] = Machine!Last(Machine!Current.ops)]
  BY <1>2, <1>9
<1> QED
  BY <1>7, <1>8, <1>9, <1>10, <1>11, <1>12 DEF l, n, b, h

LEMMA TeeLocalMapped ==
  ASSUME Inv, InGuest, NEW i \in 0 .. Types(Frame.fn) - 1, TeeLocal(i)
  PROVE  Machine!TeeLocal(i + 1)
<1>0. Loop /\ Height >= 1 /\ slots' = [slots EXCEPT ![Frame.locals + i] = slots[top - 1]] /\ top' = top
  BY DEF TeeLocal
<1> DEFINE q == [Machine!Current.locals EXCEPT ![i + 1] = Machine!Last(Machine!Current.ops)]
           frame == [Machine!Current EXCEPT !.locals = q]
<1>1. /\ slots' \in [0 .. ValueSize - 1 -> Values]
      /\ KeptBelow(Frame.locals)
      /\ Part(slots', Frame.locals, Types(Frame.fn)) = q
      /\ Machine!Current.ops # <<>>
      /\ \A k \in 0 .. Height : Part(slots', OpsBase, k) = Part(slots, OpsBase, k)
  BY <1>0, LocalSet
<1>2. /\ Height \in Nat /\ OpsBase + Height = top /\ top <= ValueSize /\ top \in Nat
      /\ Frame.locals \in Nat /\ Types(Frame.fn) \in Nat /\ OpsBase = Frame.locals + Types(Frame.fn)
      /\ Machine!Current = [fn |-> Frame.fn, locals |-> Part(slots, Frame.locals, Types(Frame.fn)),
                      ops |-> Part(slots, OpsBase, Height)]
  BY LoopMapped
<1> HIDE DEF q
<1>3. OpsBase <= top' /\ top' <= ValueSize /\ top' \in Nat /\ top' - OpsBase = Height /\ Height \in 0 .. Height
  BY <1>0, <1>2
<1>4. frame = [fn |-> Frame.fn, locals |-> q, ops |-> Part(slots, OpsBase, Height)]
  BY <1>2
<1>5. frame = [fn |-> Frame.fn, locals |-> Part(slots', Frame.locals, Types(Frame.fn)),
               ops |-> Part(slots', OpsBase, top' - OpsBase)]
  BY <1>1, <1>3, <1>4
<1> HIDE DEF frame
<1>6. Machine!Operate(frame)
  BY <1>0, <1>1, <1>3, <1>5, Operated
<1> QED
  BY <1>1, <1>6 DEF Machine!TeeLocal, frame, q

LEMMA SetLocalMapped ==
  ASSUME Inv, InGuest, NEW i \in 0 .. Types(Frame.fn) - 1, SetLocal(i)
  PROVE  Machine!SetLocal(i + 1)
<1>0. Loop /\ Height >= 1 /\ slots' = [slots EXCEPT ![Frame.locals + i] = slots[top - 1]] /\ top' = top - 1
  BY DEF SetLocal
<1> DEFINE q == [Machine!Current.locals EXCEPT ![i + 1] = Machine!Last(Machine!Current.ops)]
           frame == [Machine!Current EXCEPT !.locals = q, !.ops = Machine!Front(Machine!Current.ops)]
<1>1. /\ slots' \in [0 .. ValueSize - 1 -> Values]
      /\ KeptBelow(Frame.locals)
      /\ Part(slots', Frame.locals, Types(Frame.fn)) = q
      /\ Machine!Current.ops # <<>>
      /\ \A k \in 0 .. Height : Part(slots', OpsBase, k) = Part(slots, OpsBase, k)
  BY <1>0, LocalSet
<1>2. /\ Height \in Nat /\ OpsBase + Height = top /\ top <= ValueSize /\ top \in Nat /\ ValueSize \in Nat
      /\ Frame.locals \in Nat /\ Types(Frame.fn) \in Nat /\ OpsBase = Frame.locals + Types(Frame.fn)
      /\ Machine!Current = [fn |-> Frame.fn, locals |-> Part(slots, Frame.locals, Types(Frame.fn)),
                      ops |-> Part(slots, OpsBase, Height)]
  BY LoopMapped
<1> HIDE DEF q
<1>3. /\ OpsBase <= top' /\ top' <= ValueSize /\ top' \in Nat /\ top' - OpsBase = Height - 1
      /\ Height - 1 \in 0 .. Height /\ OpsBase \in Nat /\ OpsBase + Height <= ValueSize
  BY <1>0, <1>2
<1>4. Machine!Front(Machine!Current.ops) = Part(slots, OpsBase, Height - 1)
  BY <1>2, <1>3, PartFront
<1>5. frame = [fn |-> Frame.fn, locals |-> q, ops |-> Part(slots, OpsBase, Height - 1)]
  <2> DEFINE r == Machine!Front(Machine!Current.ops)
  <2>1. r = Part(slots, OpsBase, Height - 1)
    BY <1>4
  <2> HIDE DEF r
  <2>2. [Machine!Current EXCEPT !.locals = q, !.ops = r] = [fn |-> Frame.fn, locals |-> q, ops |-> r]
    <3> DEFINE x == Machine!Current
               y == [fn |-> Frame.fn, locals |-> q, ops |-> Part(slots, OpsBase, Height)]
    <3>1. y = [x EXCEPT !.locals = q]
      BY <1>2
    <3>2. [x EXCEPT !.locals = q, !.ops = r] = [[x EXCEPT !.locals = q] EXCEPT !.ops = r]
      OBVIOUS
    <3>3. [y EXCEPT !.ops = r] = [fn |-> Frame.fn, locals |-> q, ops |-> r]
      OBVIOUS
    <3> HIDE DEF x, y
    <3>4. [x EXCEPT !.locals = q, !.ops = r] = [fn |-> Frame.fn, locals |-> q, ops |-> r]
      BY <3>1, <3>2, <3>3
    <3> QED
      BY <3>4 DEF x
  <2> QED
    BY <2>1, <2>2 DEF r
<1>6. frame = [fn |-> Frame.fn, locals |-> Part(slots', Frame.locals, Types(Frame.fn)),
               ops |-> Part(slots', OpsBase, top' - OpsBase)]
  BY <1>1, <1>3, <1>5
<1> HIDE DEF frame
<1>7. Machine!Operate(frame)
  BY <1>0, <1>1, <1>3, <1>6, Operated
<1> QED
  BY <1>1, <1>7 DEF Machine!SetLocal, frame, q

\* The last n operands, and the others.
LEMMA OperandsSplit ==
  ASSUME NEW s \in [0 .. ValueSize - 1 -> Values], NEW b \in Nat, NEW h \in Nat, b + h <= ValueSize,
         NEW n \in 0 .. h
  PROVE  /\ Machine!LastOf(Part(s, b, h), n) = Part(s, b + h - n, n)
         /\ Machine!ButLast(Part(s, b, h), n) = Part(s, b, h - n)
         /\ Len(Part(s, b, h)) = h
<1>1. Len(Part(s, b, h)) = h
  BY PartSeq
<1>2. h - n \in 0 .. h
  OBVIOUS
<1>3. SubSeq(Part(s, b, h), 1, h - n) = Part(s, b, h - n)
  BY <1>2, PartFirst
<1>4. SubSeq(Part(s, b, h), h - n + 1, h) = Part(s, b + h - n, n)
  BY PartLast
<1> QED
  BY <1>1, <1>3, <1>4 DEF Machine!LastOf, Machine!ButLast

LEMMA EndBlockMapped ==
  ASSUME Inv, InGuest, NEW kept \in 0 .. Height, NEW n \in 0 .. Height, EndBlock(kept, n)
  PROVE  Machine!EndBlock(kept, n)
<1>0. /\ Loop /\ kept + n <= Height
      /\ slots' = Moved(slots, top - n, OpsBase + kept, n)
      /\ top' = OpsBase + kept + n
  BY DEF EndBlock, StoreResult
<1> DEFINE l == Frame.locals
           t == Types(Frame.fn)
           b == OpsBase
           h == Height
           ops == Part(slots, b, h)
<1>1. /\ l \in Nat /\ t \in Nat /\ b = l + t /\ h \in Nat /\ b + h = top
      /\ top \in Nat /\ top <= ValueSize /\ ValueSize \in Nat
      /\ Machine!Current = [fn |-> Frame.fn, locals |-> Part(slots, l, t), ops |-> ops]
      /\ kept \in 0 .. h /\ n \in 0 .. h /\ kept + n <= h
      /\ slots' = Moved(slots, top - n, b + kept, n)
      /\ top' = b + kept + n
  BY <1>0, LoopMapped
<1>2. slots \in [0 .. ValueSize - 1 -> Values]
  BY DEF Inv, StacksInv
<1>3. slots' \in [0 .. ValueSize - 1 -> Values] /\ top' \in b .. ValueSize
  BY <1>0, <1>1, StoreResultType DEF EndBlock
<1> HIDE DEF l, t, b, h
<1>4. /\ b \in Nat /\ b + h <= ValueSize /\ kept \in Nat /\ n \in Nat /\ kept + n \in Nat
      /\ b + h - n = top - n /\ top - n \in Nat /\ (top - n) + n <= ValueSize
      /\ b + kept + n <= ValueSize
      /\ top' - b = kept + n
      /\ h \in Nat /\ ValueSize \in Nat /\ kept \in 0 .. h /\ n \in 0 .. h
  BY <1>1
<1>5. /\ \A j \in Nat : j < b + kept => slots'[j] = slots[j]
      /\ \A i \in 1 .. n : slots'[b + kept + i - 1] = slots[(top - n) + i - 1]
  <2>1. \A j \in Nat : j < b + kept => j \in 0 .. ValueSize - 1 /\ ~(j \in b + kept .. b + kept + n - 1)
    BY <1>4
  <2>2. \A i \in 1 .. n : /\ b + kept + i - 1 \in 0 .. ValueSize - 1
                          /\ b + kept + i - 1 \in b + kept .. b + kept + n - 1
                          /\ (top - n) + (b + kept + i - 1) - (b + kept) = (top - n) + i - 1
    BY <1>4
  <2>3. DOMAIN slots = 0 .. ValueSize - 1
    BY <1>2
  <2> QED
    BY <1>1, <2>1, <2>2, <2>3 DEF Moved
<1>6. SubSeq(ops, 1, kept) = Part(slots', b, kept)
  <2>1. SubSeq(ops, 1, kept) = Part(slots, b, kept)
    BY <1>2, <1>4, PartFirst
  <2>2. b + kept \in Nat /\ KeptBelow(b + kept)
    BY <1>4, <1>5 DEF KeptBelow
  <2>3. Part(slots', b, kept) = Part(slots, b, kept)
    BY <1>4, <2>2, PartBelow
  <2> QED
    BY <2>1, <2>3
<1>7. Part(slots', l, t) = Part(slots, l, t) /\ KeptBelow(l)
  <2>1. b + kept \in Nat /\ KeptBelow(b + kept) /\ l + t <= b + kept
    BY <1>1, <1>4, <1>5 DEF KeptBelow
  <2>2. KeptBelow(l)
    BY <1>1, <2>1 DEF KeptBelow
  <2> QED
    BY <1>1, <2>1, <2>2, PartBelow
<1> DEFINE u == Machine!LastOf(ops, n)
<1>8. u = Part(slots, top - n, n) /\ Len(ops) = h
  <2>1. Machine!LastOf(Part(slots, b, h), n) = Part(slots, b + h - n, n)
    BY <1>2, <1>4, OperandsSplit
  <2>2. Len(Part(slots, b, h)) = h
    BY <1>2, <1>4, OperandsSplit
  <2> QED
    BY <1>4, <2>1, <2>2
<1> HIDE DEF u
<1>9. u \in Seq(Values) /\ Len(u) = n /\ \A i \in 1 .. n : u[i] = slots'[b + kept + i - 1]
  <2>1. /\ Part(slots, top - n, n) \in Seq(Values)
        /\ Len(Part(slots, top - n, n)) = n
        /\ \A i \in 1 .. n : Part(slots, top - n, n)[i] = slots[(top - n) + i - 1]
    BY <1>2, <1>4, PartSeq
  <2> QED
    BY <1>5, <1>8, <2>1
<1> HIDE DEF ops
<1>10. SubSeq(ops, 1, kept) \o u = Part(slots', b, kept + n)
  <2>0. /\ b + kept + Len(u) <= ValueSize
        /\ \A i \in 1 .. Len(u) : u[i] = slots'[b + kept + i - 1]
        /\ slots' \in [0 .. ValueSize - 1 -> Values]
        /\ b \in Nat /\ kept \in Nat /\ u \in Seq(Values)
    BY <1>3, <1>4, <1>9
  <2>1. Part(slots', b, kept) \o u = Part(slots', b, kept + Len(u))
    BY <2>0, PartsJoined
  <2> QED
    BY <1>6, <1>9, <2>1
<1> DEFINE frame == Machine!WithOps(Machine!Current, SubSeq(Machine!Current.ops, 1, kept) \o Machine!LastOf(Machine!Current.ops, n))
<1>11. frame = [fn |-> Frame.fn, locals |-> Part(slots', l, t), ops |-> Part(slots', b, top' - b)]
  <2>1. Machine!Current.ops = ops /\ Part(slots', b, top' - b) = Part(slots', b, kept + n)
    BY <1>1, <1>4
  <2>2. frame = Machine!WithOps([fn |-> Frame.fn, locals |-> Part(slots, l, t), ops |-> ops], SubSeq(ops, 1, kept) \o u)
    BY <1>1, <2>1 DEF u
  <2>3. frame = [fn |-> Frame.fn, locals |-> Part(slots, l, t), ops |-> SubSeq(ops, 1, kept) \o u]
    BY <2>2, WithOpsOf
  <2> HIDE DEF frame
  <2> QED
    BY <1>7, <1>10, <2>1, <2>3
<1>12. Machine!Current.ops = ops
  BY <1>1
<1> HIDE DEF frame
<1>13. top' \in Nat /\ b <= top' /\ top' <= ValueSize
  BY <1>3, <1>4
<1>14. Machine!Operate(frame)
  BY <1>0, <1>3, <1>7, <1>11, <1>13, Operated DEF l, t, b
<1>15. kept + n <= Len(Machine!Current.ops)
  BY <1>1, <1>8, <1>12
<1> QED
  BY <1>14, <1>15 DEF Machine!EndBlock, frame

LEMMA OperationMapped ==
  ASSUME Inv, Operation
  PROVE  Machine!Next
<1>1. ASSUME NEW v \in Values, Push(v) PROVE Machine!Next
  BY <1>1, PushMapped DEF Machine!Next
<1>2. ASSUME Drop PROVE Machine!Next
  BY <1>2, DropMapped DEF Machine!Next
<1>3. ASSUME InGuest, NEW i \in 0 .. Types(Frame.fn) - 1, GetLocal(i) \/ SetLocal(i) \/ TeeLocal(i)
      PROVE  Machine!Next
  <2>1. Machine!GetLocal(i + 1) \/ Machine!SetLocal(i + 1) \/ Machine!TeeLocal(i + 1)
    BY <1>3, GetLocalMapped, SetLocalMapped, TeeLocalMapped
  <2>2. i + 1 \in DOMAIN Machine!Current.locals
    BY <1>3, LocalAt
  <2>3. Machine!InGuest
    BY <1>3, LoopMapped
  <2> QED
    BY <2>1, <2>2, <2>3 DEF Machine!Next
<1>4. ASSUME InGuest, NEW kept \in 0 .. Height, NEW n \in 0 .. Height, EndBlock(kept, n)
      PROVE  Machine!Next
  <2>1. Machine!EndBlock(kept, n) /\ Machine!InGuest
    BY <1>4, EndBlockMapped, LoopMapped
  <2>2. kept \in 0 .. Len(Machine!Current.ops) /\ n \in 0 .. Len(Machine!Current.ops)
    <3>1. /\ OpsBase \in Nat /\ Height \in Nat /\ OpsBase + Height <= ValueSize
          /\ Machine!Current.ops = Part(slots, OpsBase, Height)
      BY <1>4, LoopMapped
    <3>2. slots \in [0 .. ValueSize - 1 -> Values]
      BY DEF Inv, StacksInv
    <3>3. Len(Part(slots, OpsBase, Height)) = Height
      BY <3>1, <3>2, PartSeq
    <3> QED
      BY <1>4, <3>1, <3>3
  <2> QED
    BY <2>1, <2>2 DEF Machine!Next
<1> QED
  BY <1>1, <1>2, <1>3, <1>4 DEF Operation
-----------------------------------------------------------------------------
(* Calls *)

LEMMA EmptyPart ==
  ASSUME NEW s, NEW b
  PROVE  Part(s, b, 0) = <<>>
BY DEF Part

LEMMA FrameAdded ==
  ASSUME NEW S, NEW s \in Seq(S), s # <<>>, NEW e \in S, NEW g \in S
  PROVE  /\ Append(Front(s), e) \o <<g>> \in [1 .. Len(s) + 1 -> S]
         /\ \A i \in 1 .. Len(s) + 1 :
              (Append(Front(s), e) \o <<g>>)[i] = IF i < Len(s) THEN s[i] ELSE IF i = Len(s) THEN e ELSE g
<1> DEFINE u == Append(Front(s), e)
           v == <<g>>
           n == Len(s)
<1>1. n \in Nat
  BY LenProperties
<1>2. u \in [1 .. n -> S] /\ \A i \in 1 .. n : u[i] = IF i = n THEN e ELSE s[i]
  BY LastReplaced
<1>3. v \in Seq(S) /\ Len(v) = 1 /\ v[1] = g
  OBVIOUS
<1> HIDE DEF u, v, n
<1>4. u \in Seq(S) /\ Len(u) = n
  BY <1>1, <1>2, FunctionIsSeq
<1>5. u \o v \in Seq(S) /\ Len(u \o v) = n + 1
      /\ \A i \in 1 .. n + 1 : (u \o v)[i] = IF i <= n THEN u[i] ELSE v[i - n]
  <2>1. /\ u \o v \in Seq(S) /\ Len(u \o v) = Len(u) + Len(v)
        /\ \A i \in 1 .. Len(u) + Len(v) : (u \o v)[i] = IF i <= Len(u) THEN u[i] ELSE v[i - Len(u)]
    BY <1>3, <1>4, ConcatProperties
  <2> QED
    BY <1>3, <1>4, <2>1
<1>6. u \o v \in [1 .. n + 1 -> S]
  BY <1>5, LenProperties
<1>7. ASSUME NEW i \in 1 .. n + 1
      PROVE  (u \o v)[i] = IF i < n THEN s[i] ELSE IF i = n THEN e ELSE g
  <2>1. CASE i <= n
    <3>1. i \in 1 .. n /\ (i < n <=> i # n)
      BY <1>1, <2>1
    <3> QED
      BY <1>2, <1>5, <2>1, <3>1
  <2>2. CASE ~(i <= n)
    <3>1. i - n = 1 /\ ~(i < n) /\ i # n
      BY <1>1, <2>2
    <3> QED
      BY <1>3, <1>5, <2>2, <3>1
  <2> QED
    BY <2>1, <2>2
<1> QED
  BY <1>6, <1>7 DEF u, v, n

\* A call within the guest moves the arguments from the caller's operands to the
\* callee's locals without touching a slot.
LEMMA CallMapped ==
  ASSUME Inv, NEW f \in Callees, Declared[f] = 0, Call(f)
  PROVE  Machine!Call(f)
<1> DEFINE m == Params[f]
           l == Frame.locals
           t == Types(Frame.fn)
           b == OpsBase
           h == Height
           ops == Part(slots, b, h)
<1>0. /\ InGuest /\ m <= h
      /\ callStack' = [callStack EXCEPT ![callTop + 1] = [fn |-> f, locals |-> top - Types(f)]]
      /\ callTop < CallSize
      /\ callTop' = callTop + 1
      /\ out' = <<>>
      /\ slots' = slots /\ top' = top /\ control' = control
  BY DEF Call, PushFrame
<1>1. f \in Funcs /\ m \in Nat /\ Types(f) = m
  BY InterpAssumption, SizesNat
<1>2. /\ l \in Nat /\ t \in Nat /\ b = l + t /\ h \in Nat /\ b + h = top
      /\ top \in Nat /\ top <= ValueSize /\ ValueSize \in Nat
      /\ Machine!Current = [fn |-> Frame.fn, locals |-> Part(slots, l, t), ops |-> ops]
      /\ HostCallsOf(callTop) = {} /\ callTop \in Nat \ {0} /\ Frame.fn \in Funcs
      /\ FrameAt(callTop) = Machine!Current /\ Machine!InGuest
  BY <1>0, LoopMapped
<1>3. slots \in [0 .. ValueSize - 1 -> Values] /\ callStack \in [1 .. CallSize -> Frames \cup {NoFrame}]
      /\ CallSize \in Nat
  BY InterpAssumption DEF Inv, StacksInv
<1>4. KeptBelow(l)
  BY <1>0 DEF KeptBelow
<1> HIDE DEF m, l, t, b, h
<1>5. /\ callTop + 1 \in 1 .. CallSize /\ callTop + 1 \in Nat
      /\ \A i \in 1 .. callTop : i \in 1 .. CallSize /\ i # callTop + 1 /\ i \in Nat
      /\ \A i \in 1 .. callTop : i # callTop => i + 1 \in 1 .. callTop
      /\ \A i \in 1 .. callTop + 1 : i \in 1 .. callTop \/ i = callTop + 1
  BY <1>0, <1>2, <1>3
<1>6. /\ \A i \in 1 .. callTop : callStack'[i] = callStack[i]
      /\ callStack'[callTop + 1] = [fn |-> f, locals |-> top - m]
  BY <1>0, <1>1, <1>3, <1>5
<1>7. /\ top - m \in Nat /\ (top - m) + m = top /\ m \in 0 .. h /\ b \in Nat /\ h - m \in Nat
      /\ b + h <= ValueSize /\ top - m - l - t = h - m /\ b + h - m = top - m
      /\ top - (top - m) - m = 0
  BY <1>0, <1>1, <1>2
<1> DEFINE caller == Machine!WithOps(Machine!Current, Machine!ButLast(ops, m))
           callee == Machine!Frame(f, Machine!LastOf(ops, m))
<1>8. /\ Machine!LastOf(ops, m) = Part(slots, top - m, m)
      /\ Machine!ButLast(ops, m) = Part(slots, b, h - m)
      /\ Len(ops) = h
  <2>1. /\ Machine!LastOf(Part(slots, b, h), m) = Part(slots, b + h - m, m)
        /\ Machine!ButLast(Part(slots, b, h), m) = Part(slots, b, h - m)
        /\ Len(Part(slots, b, h)) = h
    BY <1>2, <1>3, <1>7, OperandsSplit, SMTT(30)
  <2> QED
    BY <1>7, <2>1
<1>9. caller = [fn |-> Frame.fn, locals |-> Part(slots, l, t), ops |-> Part(slots, b, h - m)]
  BY <1>2, <1>8, WithOpsOf
<1>10. callee = [fn |-> f, ops |-> <<>>, locals |-> Part(slots, top - m, m)]
  <2>1. [i \in 1 .. Declared[f] |-> Zero] = <<>>
    OBVIOUS
  <2>2. Part(slots, top - m, m) \in Seq(Values)
    BY <1>1, <1>2, <1>3, <1>7, PartSeq
  <2>3. Part(slots, top - m, m) \o <<>> = Part(slots, top - m, m)
    BY <2>2, ConcatEmptySeq
  <2> QED
    BY <1>8, <2>1, <2>3 DEF Machine!Frame
<1> HIDE DEF caller, callee
<1>11. ASSUME NEW i \in 1 .. callTop, i # callTop PROVE FrameAt(i)' = FrameAt(i)
  <2>1. Above(i)' = Above(i)
    BY <1>0, <1>2, <1>5, <1>6, <1>11 DEF Above
  <2>2. OpsEnd(i)' = OpsEnd(i)
    BY <1>0, <2>1, EndKept DEF HostCallsOf
  <2> QED
    BY <1>0, <1>4, <1>6, <1>11, <2>2, FramesBelow DEF l
<1>12. ASSUME NEW i \in 1 .. callTop, i = callTop PROVE FrameAt(i)' = caller
  <2>1. HostCallsOf(i)' = {}
    BY <1>0, <1>2, <1>12 DEF HostCallsOf
  <2>2. OpsEnd(i)' = top - m
    BY <1>0, <1>2, <1>5, <1>6, <1>12, <2>1 DEF OpsEnd
  <2>3. callStack'[i].fn = Frame.fn /\ callStack'[i].locals = l
    BY <1>6, <1>12 DEF Frame, l
  <2>4. Types(Frame.fn) = t
    BY DEF t
  <2> QED
    BY <1>0, <1>2, <1>7, <1>9, <2>2, <2>3, <2>4 DEF FrameAt, Types
<1>13. ASSUME NEW i, i = callTop + 1 PROVE FrameAt(i)' = callee
  <2>1. HostCallsOf(i)' = {}
    <3> SUFFICES ASSUME NEW k \in HostCallsOf(i)' PROVE FALSE
      OBVIOUS
    <3>1. k \in 1 .. Len(control) /\ control[k].kind = "host" /\ control[k].at = callTop + 1
      BY <1>0, <1>13, LenProperties DEF HostCallsOf, Inv, ControlInv
    <3>2. control[k].at < callTop
      BY <1>0, <3>1, HostsBelow
    <3> QED
      BY <1>2, <3>1, <3>2
  <2>2. OpsEnd(i)' = top
    BY <1>0, <1>13, <2>1 DEF OpsEnd
  <2>3. callStack'[i].fn = f /\ callStack'[i].locals = top - m
    BY <1>6, <1>13
  <2>4. FrameAt(i)' = [fn |-> f, locals |-> Part(slots, top - m, m), ops |-> Part(slots, (top - m) + m, top - (top - m) - m)]
    BY <1>0, <1>1, <2>2, <2>3 DEF FrameAt, Types
  <2> QED
    BY <1>7, <1>10, <2>4, EmptyPart
<1>14. caller \in Activations /\ callee \in Activations
  <2>1. Part(slots, l, t) \in Seq(Values) /\ Part(slots, b, h - m) \in Seq(Values)
    <3>1. l + t <= ValueSize /\ b + (h - m) <= ValueSize
      <4>1. b <= ValueSize /\ b = l + t
        BY <1>2, <1>7
      <4>2. h - m <= h
        BY <1>1, <1>2
      <4> QED
        BY <1>2, <1>7, <4>1, <4>2
    <3> QED
      BY <1>2, <1>3, <1>7, <3>1, PartSeq
  <2>2. Part(slots, top - m, m) \in Seq(Values) /\ <<>> \in Seq(Values)
    BY <1>1, <1>2, <1>3, <1>7, PartSeq, EmptySeq
  <2> QED
    BY <1>1, <1>2, <1>9, <1>10, <2>1, <2>2 DEF Activations
<1>15. Activated' = Append(Machine!Front(Activated), caller) \o <<callee>>
  <2>1. Activated \in Seq(Activations) /\ Len(Activated) = callTop /\ Activated # <<>>
        /\ \A i \in 1 .. callTop : Activated[i] = FrameAt(i)
    BY <1>2, ActivatedSeq, EmptySeq
  <2> DEFINE u == Append(Front(Activated), caller) \o <<callee>>
  <2>2. u \in [1 .. callTop + 1 -> Activations]
        /\ \A i \in 1 .. callTop + 1 : u[i] = IF i < callTop THEN Activated[i] ELSE IF i = callTop THEN caller ELSE callee
    BY <1>14, <2>1, FrameAdded
  <2> HIDE DEF u
  <2>3. \A i \in 1 .. callTop + 1 : FrameAt(i)' = u[i]
    <3> SUFFICES ASSUME NEW CONSTANT i \in 1 .. callTop + 1 PROVE FrameAt(i)' = u[i]
      OBVIOUS
    <3>1. CASE i \in 1 .. callTop /\ i # callTop
      <4>1. i < callTop
        BY <1>2, <3>1
      <4> QED
        BY <1>11, <2>1, <2>2, <3>1, <4>1
    <3>2. CASE i \in 1 .. callTop /\ i = callTop
      BY <1>2, <1>12, <2>2, <3>2
    <3>3. CASE i = callTop + 1
      <4>1. ~(i < callTop) /\ i # callTop
        BY <1>2, <3>3
      <4> QED
        BY <1>13, <2>2, <3>3, <4>1
    <3> QED
      BY <1>5, <3>1, <3>2, <3>3
  <2>4. Activated' = u
    BY <1>0, <1>5, <2>2, <2>3 DEF Activated
  <2> QED
    BY <2>4 DEF u, Machine!Front, Front
<1>16. UnderWay' = UnderWay
  BY <1>0 DEF UnderWay, CallAt
<1>17. Machine!Current.ops = ops
  BY <1>2
<1> QED
  BY <1>0, <1>2, <1>8, <1>15, <1>16, <1>17 DEF Machine!Call, caller, callee, m

\* The innermost activation, and only that, becomes another one.
LEMMA TopReplaced ==
  ASSUME Inv, callTop # 0, callTop' = callTop, NEW e \in Activations,
         \A i \in 1 .. callTop : i # callTop => FrameAt(i)' = FrameAt(i),
         \A i \in 1 .. callTop : i = callTop => FrameAt(i)' = e
  PROVE  Activated' = Append(Machine!Front(Activated), e)
<1>1. callTop \in Nat /\ Activated \in Seq(Activations) /\ Len(Activated) = callTop /\ Activated # <<>>
      /\ \A i \in 1 .. callTop : Activated[i] = FrameAt(i)
  BY ActivatedSeq, EmptySeq
<1> DEFINE u == Append(Front(Activated), e)
<1>2. u \in [1 .. callTop -> Activations]
      /\ \A i \in 1 .. callTop : u[i] = IF i = callTop THEN e ELSE Activated[i]
  BY <1>1, LastReplaced
<1> HIDE DEF u
<1>3. \A i \in 1 .. callTop : FrameAt(i)' = u[i]
  BY <1>1, <1>2
<1>4. Activated' = u
  BY <1>1, <1>2, <1>3 DEF Activated
<1> QED
  BY <1>4 DEF u, Machine!Front, Front

\* Some of the activations are left, as they were.
LEMMA ActivatedCut ==
  ASSUME Inv, NEW CONSTANT n \in Nat, n <= callTop, callTop' = n,
         \A i \in 1 .. n : FrameAt(i)' = FrameAt(i)
  PROVE  Activated' = SubSeq(Activated, 1, n)
<1>1. callTop \in Nat /\ Activated \in Seq(Activations) /\ Len(Activated) = callTop
      /\ \A i \in 1 .. callTop : Activated[i] = FrameAt(i)
  BY ActivatedSeq
<1> DEFINE u == SubSeq(Activated, 1, n)
<1>2. u \in Seq(Activations) /\ Len(u) = n /\ \A i \in 1 .. n : u[i] = Activated[i]
  <2>1. \A i \in 1 .. n : i \in 1 .. Len(Activated)
    BY <1>1
  <2> QED
    BY <1>1, <2>1, SubSeqProperties
<1> HIDE DEF u
<1>3. u \in [1 .. n -> Activations]
  BY <1>2, LenProperties
<1>4. \A i \in 1 .. n : FrameAt(i)' = u[i]
  <2>1. \A i \in 1 .. n : i \in 1 .. callTop
    BY <1>1
  <2> QED
    BY <1>1, <1>2, <2>1
<1>5. Activated' = u
  BY <1>3, <1>4 DEF Activated
<1> QED
  BY <1>5 DEF u

\* Some of the calls are left.
LEMMA UnderWayCut ==
  ASSUME Inv, NEW CONSTANT n \in Nat, n <= Len(control), control' \in Seq(Calls), Len(control') = n,
         \A k \in 1 .. n : control'[k] = control[k],
         \A k \in 1 .. n : \A d \in Calls : d = control[k] => CallAt(d)' = CallAt(d)
  PROVE  UnderWay' = SubSeq(UnderWay, 1, n)
<1>1. Len(control) \in Nat /\ UnderWay \in Seq(AbstractCalls) /\ Len(UnderWay) = Len(control)
      /\ \A k \in 1 .. Len(control) : UnderWay[k] = CallAt(control[k])
  BY UnderWaySeq
<1> DEFINE u == SubSeq(UnderWay, 1, n)
<1>2. u \in Seq(AbstractCalls) /\ Len(u) = n /\ \A k \in 1 .. n : u[k] = UnderWay[k]
  <2>1. \A k \in 1 .. n : k \in 1 .. Len(UnderWay)
    BY <1>1
  <2> QED
    BY <1>1, <2>1, SubSeqProperties
<1> HIDE DEF u
<1>3. u \in [1 .. n -> AbstractCalls]
  BY <1>2, LenProperties
<1>4. ASSUME NEW k \in 1 .. n PROVE CallAt(control[k])' = u[k]
  <2>1. k \in 1 .. Len(control) /\ control[k] \in Calls
    BY <1>1, CallsOf DEF Inv
  <2>2. PICK d \in Calls : d = control[k]
    BY <2>1
  <2>3. CallAt(d)' = CallAt(d)
    BY <2>2
  <2>4. control'[k] = d
    BY <2>2
  <2>5. CallAt(control[k])' = CallAt(d)
    BY <2>3, <2>4 DEF CallAt
  <2> QED
    BY <1>1, <1>2, <2>1, <2>2, <2>5
<1>5. DOMAIN control' = 1 .. n
  BY LenProperties
<1>6. UnderWay' = u
  BY <1>3, <1>4, <1>5 DEF UnderWay
<1> QED
  BY <1>6 DEF u

\* One more call, on top of those that there are.
LEMMA UnderWayAppended ==
  ASSUME Inv, NEW CONSTANT c \in Calls, control' = Append(control, c),
         NEW e \in AbstractCalls, CallAt(c)' = e,
         \A k \in 1 .. Len(control) : \A d \in Calls : d = control[k] => CallAt(d)' = CallAt(d)
  PROVE  UnderWay' = Append(UnderWay, e)
<1> DEFINE n == Len(control)
<1>1. n \in Nat /\ UnderWay \in Seq(AbstractCalls) /\ Len(UnderWay) = n
      /\ \A k \in 1 .. n : UnderWay[k] = CallAt(control[k])
  BY UnderWaySeq
<1>2. /\ control' \in Seq(Calls) /\ Len(control') = n + 1
      /\ \A k \in 1 .. n : control'[k] = control[k]
      /\ control'[n + 1] = c
  BY AppendProperties DEF Inv, ControlInv
<1> DEFINE u == Append(UnderWay, e)
<1>3. u \in Seq(AbstractCalls) /\ Len(u) = n + 1 /\ (\A k \in 1 .. n : u[k] = UnderWay[k]) /\ u[n + 1] = e
  BY <1>1, AppendProperties
<1> HIDE DEF u
<1>4. u \in [1 .. n + 1 -> AbstractCalls]
  BY <1>3, LenProperties
<1>5. ASSUME NEW k \in 1 .. n PROVE CallAt(control[k])' = u[k]
  <2>1. control[k] \in Calls
    BY CallsOf DEF Inv
  <2>2. PICK d \in Calls : d = control[k]
    BY <2>1
  <2>3. CallAt(d)' = CallAt(d)
    BY <2>2
  <2>4. control'[k] = d
    BY <1>2, <2>2
  <2>5. CallAt(control[k])' = CallAt(d)
    BY <2>3, <2>4 DEF CallAt
  <2> QED
    BY <1>1, <1>3, <2>2, <2>5
<1>6. ASSUME NEW k, k = n + 1 PROVE CallAt(control[k])' = u[k]
  BY <1>2, <1>3, <1>6 DEF CallAt
<1>7. ASSUME NEW k \in 1 .. n + 1 PROVE CallAt(control[k])' = u[k]
  <2>1. k \in 1 .. n \/ k = n + 1
    BY <1>1
  <2> QED
    BY <1>5, <1>6, <2>1
<1>8. DOMAIN control' = 1 .. n + 1
  BY <1>2, LenProperties
<1>9. UnderWay' = u
  BY <1>4, <1>7, <1>8 DEF UnderWay
<1> QED
  BY <1>9 DEF u

\* A host function's arguments stay where they are, and are the caller's no more.
LEMMA CallHostMapped ==
  ASSUME Inv, NEW h \in Hosts, CallHost(h)
  PROVE  Machine!CallHost(h)
<1> DEFINE m == Params[h]
           l == Frame.locals
           t == Types(Frame.fn)
           b == OpsBase
           n == Height
           ops == Part(slots, b, n)
           new == [kind |-> "host", fn |-> h, newTop |-> top - m + Results[h], base |-> top - m, at |-> callTop]
           call == [kind |-> "host", at |-> callTop, fn |-> h, args |-> Part(slots, top - m, m)]
           caller == Machine!WithOps(Machine!Current, Machine!ButLast(ops, m))
<1>0. /\ InGuest /\ m <= n
      /\ top - m + Results[h] < ValueSize
      /\ control' = Append(control, new)
      /\ out' = <<>>
      /\ slots' = slots /\ top' = top /\ callStack' = callStack /\ callTop' = callTop
  BY DEF CallHost
<1>1. m \in Nat /\ Results[h] \in Nat
  BY SizesNat
<1>2. /\ l \in Nat /\ t \in Nat /\ b = l + t /\ n \in Nat /\ b + n = top
      /\ top \in Nat /\ top <= ValueSize /\ ValueSize \in Nat
      /\ Machine!Current = [fn |-> Frame.fn, locals |-> Part(slots, l, t), ops |-> ops]
      /\ HostCallsOf(callTop) = {} /\ callTop \in Nat \ {0} /\ Frame.fn \in Funcs
      /\ Machine!InGuest
  BY <1>0, LoopMapped
<1>3. slots \in [0 .. ValueSize - 1 -> Values] /\ callTop \in 0 .. CallSize /\ CallSize \in Nat
  BY InterpAssumption DEF Inv, StacksInv
<1>4. KeptBelow(l) /\ KeptBelow(ValueSize)
  BY <1>0 DEF KeptBelow
<1> HIDE DEF m, l, t, b, n
<1>5. /\ top - m \in Nat /\ (top - m) + m = top /\ m \in 0 .. n /\ b \in Nat /\ n - m \in Nat
      /\ b + n <= ValueSize /\ b + (n - m) <= ValueSize /\ b + n - m = top - m
      /\ top - m - l - t = n - m /\ l + t <= ValueSize
      /\ callTop \in 1 .. CallSize /\ top - m \in 0 .. ValueSize
      /\ top - m + Results[h] \in 0 .. ValueSize
  <2>1. l + t <= ValueSize /\ b + n <= ValueSize /\ top - m \in Nat
    BY <1>0, <1>1, <1>2
  <2> QED
    BY <1>0, <1>1, <1>2, <1>3, <2>1
<1>6. /\ Machine!LastOf(ops, m) = Part(slots, top - m, m)
      /\ Machine!ButLast(ops, m) = Part(slots, b, n - m)
      /\ Len(ops) = n
  <2>0. n \in Nat
    BY <1>2
  <2>1. /\ Machine!LastOf(Part(slots, b, n), m) = Part(slots, b + n - m, m)
        /\ Machine!ButLast(Part(slots, b, n), m) = Part(slots, b, n - m)
        /\ Len(Part(slots, b, n)) = n
    BY <1>3, <1>5, <2>0, OperandsSplit
  <2> QED
    BY <1>5, <2>1
<1>7. caller = [fn |-> Frame.fn, locals |-> Part(slots, l, t), ops |-> Part(slots, b, n - m)]
  BY <1>2, <1>6, WithOpsOf
<1>8. new \in HostCalls /\ new \in Calls
  BY <1>5 DEF HostCalls, Calls
<1>9. PICK c \in Calls : c = new
  BY <1>8
<1>10. /\ c.kind = "host" /\ c.at = callTop /\ c.base = top - m /\ c.fn = h
       /\ control' = Append(control, c)
  BY <1>0, <1>9
<1>11. /\ Len(control) \in Nat /\ DOMAIN control = 1 .. Len(control)
       /\ DOMAIN control' = 1 .. Len(control) + 1
       /\ \A k \in 1 .. Len(control) : control'[k] = control[k]
       /\ control'[Len(control) + 1] = c
  BY <1>10, AppendProperties, LenProperties DEF Inv, ControlInv
<1> HIDE DEF new, caller
<1>12. ASSUME NEW i \in 1 .. callTop, i # callTop PROVE FrameAt(i)' = FrameAt(i)
  <2>1. \A k : k \in HostCallsOf(i) <=> k \in DOMAIN control' /\ control'[k].kind = "host" /\ control'[k].at = i
    <3>1. \A k : k \in DOMAIN control' <=> k \in 1 .. Len(control) \/ k = Len(control) + 1
      BY <1>11
    <3> QED
      BY <1>10, <1>11, <1>12, <3>1 DEF HostCallsOf
  <2>2. \A k \in HostCallsOf(i) : control'[k] = control[k]
    BY <1>11 DEF HostCallsOf
  <2>3. Above(i)' = Above(i)
    BY <1>0 DEF Above
  <2>4. OpsEnd(i)' = OpsEnd(i)
    BY <2>1, <2>2, <2>3, EndKept
  <2> QED
    BY <1>0, <1>4, <1>12, <2>4, FramesBelow DEF l
<1>13. ASSUME NEW i \in 1 .. callTop, i = callTop PROVE FrameAt(i)' = caller
  <2>1. HostCallsOf(i)' = {Len(control) + 1}
    <3>1. \A k : k \in 1 .. Len(control) + 1 <=> k \in 1 .. Len(control) \/ k = Len(control) + 1
      BY <1>11
    <3>2. \A k \in 1 .. Len(control) : ~(control[k].kind = "host" /\ control[k].at = i)
      BY <1>2, <1>11, <1>13 DEF HostCallsOf
    <3>3. \A k : k \in HostCallsOf(i)' <=> k = Len(control) + 1
      BY <1>10, <1>11, <1>13, <3>1, <3>2 DEF HostCallsOf
    <3> QED
      BY <3>3
  <2>2. OpsEnd(i)' = top - m
    <3>1. \A y : (CHOOSE k \in {y} : TRUE) = y
      OBVIOUS
    <3>2. OpsEnd(i)' = control'[Len(control) + 1].base
      BY <2>1, <3>1 DEF OpsEnd
    <3> QED
      BY <1>10, <1>11, <3>2
  <2>3. callStack'[i].fn = Frame.fn /\ callStack'[i].locals = l
    BY <1>0, <1>13 DEF Frame, l
  <2>4. Types(Frame.fn) = t
    BY DEF t
  <2> QED
    BY <1>0, <1>2, <1>5, <1>7, <2>2, <2>3, <2>4 DEF FrameAt, Types
<1>14. caller \in Activations
  <2>1. Part(slots, l, t) \in Seq(Values) /\ Part(slots, b, n - m) \in Seq(Values)
    BY <1>2, <1>3, <1>5, PartSeq
  <2> QED
    BY <1>2, <1>7, <2>1 DEF Activations
<1>15. Activated' = Append(Machine!Front(Activated), caller)
  BY <1>0, <1>2, <1>12, <1>13, <1>14, TopReplaced
<1>16. call \in AbstractCalls
  <2>1. Part(slots, top - m, m) \in Seq(Values)
    BY <1>1, <1>2, <1>3, <1>5, PartSeq
  <2> QED
    BY <1>2, <2>1 DEF AbstractCalls
<1>17. CallAt(c)' = call
  BY <1>0, <1>10 DEF CallAt, m
<1> HIDE DEF call
<1>18. UnderWay' = Append(UnderWay, call)
  <2>1. \A d : CallAt(d)' = CallAt(d)
    BY <1>0 DEF CallAt
  <2> QED
    BY <1>10, <1>16, <1>17, <2>1, UnderWayAppended
<1>19. Machine!Current.ops = ops /\ Len(Activated) = callTop
  BY <1>2, ActivatedSeq
<1> QED
  BY <1>0, <1>2, <1>6, <1>15, <1>18, <1>19 DEF Machine!CallHost, caller, call, m

\* What memcpy and memmove leave where.
LEMMA WrittenAt ==
  ASSUME NEW s \in [0 .. ValueSize - 1 -> Values], NEW base \in Nat, NEW n \in Nat,
         NEW t \in [1 .. n -> Values], base + n <= ValueSize
  PROVE  /\ \A j \in Nat : j < base => Written(s, base, t)[j] = s[j]
         /\ \A i \in 1 .. n : Written(s, base, t)[base + i - 1] = t[i]
<1>1. \A j \in Nat : j < base => j \in 0 .. ValueSize - 1 /\ ~(j - base + 1 \in 1 .. n)
  BY InterpAssumption
<1>2. \A i \in 1 .. n : base + i - 1 \in 0 .. ValueSize - 1 /\ (base + i - 1) - base + 1 = i
  BY InterpAssumption
<1> QED
  BY <1>1, <1>2 DEF Written

\* The frame from which the running host function has been called: its operands
\* end where the arguments begin.
LEMMA HostCallMapped ==
  ASSUME Inv, InHost, control # <<>>
  PROVE  /\ callTop \in 1 .. callTop /\ callTop \in Nat
         /\ Last(control).base \in Nat
         /\ Last(control).base + Params[Last(control).fn] <= top /\ top \in Nat
         /\ Last(control).newTop = Last(control).base + Results[Last(control).fn]
         /\ Last(control).newTop \in 0 .. ValueSize
         /\ Frame \in Frames
         /\ Frame.locals \in Nat /\ Types(Frame.fn) \in Nat
         /\ OpsBase = Frame.locals + Types(Frame.fn)
         /\ OpsBase <= Last(control).base
         /\ OpsEnd(callTop) = Last(control).base
         /\ Machine!Current = [fn |-> Frame.fn,
                         locals |-> Part(slots, Frame.locals, Types(Frame.fn)),
                         ops |-> Part(slots, OpsBase, Last(control).base - OpsBase)]
         /\ HostCallsOf(callTop) = {Len(control)}
         /\ Len(control) \in Nat /\ Len(control) >= 2
         /\ Last(control) = control[Len(control)]
<1> DEFINE h == Last(control)
           n == Len(control)
<1>1. /\ n \in Nat /\ n >= 2 /\ h = control[n] /\ h \in HostCalls /\ HostCallInv(h)
      /\ h.at = callTop /\ callTop \in 1 .. CallSize
  BY InHostCall
<1>2. h.kind = "host" /\ h.fn \in Hosts /\ h.base \in Nat /\ h.newTop \in 0 .. ValueSize /\ h.fn \in Funcs \cup Hosts
  BY <1>1, InterpAssumption DEF HostCalls
<1> HIDE DEF h, n
<1>3. callTop \in Nat /\ callTop \in 1 .. callTop /\ top \in Nat
  BY <1>1, InterpAssumption DEF Inv, StacksInv
<1>4. /\ Frame \in Frames /\ Frame.locals \in Nat /\ Types(Frame.fn) \in Nat
      /\ OpsBase = Frame.locals + Types(Frame.fn)
  BY <1>3, FrameBounds DEF Frame, OpsBase
<1>5. /\ OpsBase <= h.base /\ h.base + Params[h.fn] <= top /\ h.newTop = h.base + Results[h.fn]
  BY <1>1, <1>4 DEF HostCallInv, Above, Frame
<1>6. HostCallsOf(callTop) = {n}
  <2>1. DOMAIN control = 1 .. n /\ n \in 1 .. n
    BY <1>1, LenProperties DEF Inv, ControlInv, n
  <2>2. ASSUME NEW k \in HostCallsOf(callTop) PROVE k = n
    <3>1. k \in 1 .. n /\ control[k].kind = "host" /\ control[k].at = callTop
      BY <2>1, <2>2 DEF HostCallsOf
    <3>2. k # n => k < n
      BY <1>1, <3>1
    <3>3. k < n => control[k].at < control[n].at
      BY <1>1, <1>2, <2>1, <3>1 DEF Inv, ControlInv, n
    <3> QED
      BY <1>1, <1>3, <3>1, <3>2, <3>3
  <2>3. n \in HostCallsOf(callTop)
    BY <1>1, <1>2, <2>1 DEF HostCallsOf
  <2> QED
    BY <2>2, <2>3
<1>7. OpsEnd(callTop) = h.base
  BY <1>1, <1>3, <1>6, OpsEnds
<1>8. Machine!Current = FrameAt(callTop)
  <2>1. Activated[callTop] = FrameAt(callTop) /\ Len(Activated) = callTop
    BY <1>3, ActivatedSeq
  <2> QED
    BY <2>1 DEF Machine!Current, Machine!Last
<1>9. h.base - Frame.locals - Types(Frame.fn) = h.base - OpsBase
  BY <1>2, <1>4
<1>10. Machine!Current = [fn |-> Frame.fn,
                    locals |-> Part(slots, Frame.locals, Types(Frame.fn)),
                    ops |-> Part(slots, OpsBase, h.base - OpsBase)]
  BY <1>4, <1>7, <1>8, <1>9 DEF FrameAt, Frame
<1> QED
  BY <1>1, <1>2, <1>3, <1>4, <1>5, <1>6, <1>7, <1>10 DEF h, n

\* What lies below the arguments of the running host function.
LEMMA FramesUnderHost ==
  ASSUME Inv, InHost, control # <<>>, KeptBelow(Last(control).base),
         NEW i \in 1 .. callTop, i # callTop, callStack'[i] = callStack[i], OpsEnd(i)' = OpsEnd(i)
  PROVE  FrameAt(i)' = FrameAt(i)
<1> DEFINE b == Last(control).base
<1>1. /\ callTop \in Nat /\ b \in Nat /\ OpsBase <= b /\ OpsBase = Frame.locals + Types(Frame.fn)
      /\ Frame.locals \in Nat /\ Types(Frame.fn) \in Nat
  BY HostCallMapped
<1> HIDE DEF b
<1>2. callTop \in i + 1 .. callTop
  BY <1>1
<1>3. Above(i) <= Frame.locals
  BY <1>2, FramesOrdered DEF Frame
<1>4. OpsEnd(i) \in Nat /\ OpsEnd(i) <= Above(i) /\ Above(i) \in Nat
  BY FrameBounds
<1>5. OpsEnd(i) <= b
  BY <1>1, <1>3, <1>4
<1> QED
  BY <1>1, <1>5, FrameKept DEF b

LEMMA CallsUnderHost ==
  ASSUME Inv, InHost, control # <<>>, KeptBelow(Last(control).base),
         NEW k \in 1 .. Len(control) - 1, NEW d \in Calls, d = control[k]
  PROVE  CallAt(d)' = CallAt(d)
<1> DEFINE h == Last(control)
           n == Len(control)
<1>1. /\ callTop \in Nat /\ h.base \in Nat /\ OpsBase <= h.base
      /\ OpsBase = Frame.locals + Types(Frame.fn)
      /\ Frame.locals \in Nat /\ Types(Frame.fn) \in Nat
      /\ n \in Nat /\ n >= 2 /\ h = control[n]
  BY HostCallMapped
<1>2. h.at = callTop /\ h \in HostCalls
  BY InHostCall
<1>3. k \in 1 .. n /\ n \in 1 .. n /\ k < n
  BY <1>1
<1>4. d.kind = "run" \/ (d.kind = "host" /\ d \in HostCalls /\ HostCallInv(d))
  BY <1>3, CallsOf DEF Inv, ControlInv
<1>5. ASSUME d.kind = "host" PROVE d.base + Params[d.fn] <= h.base
  <2>1. d \in HostCalls /\ HostCallInv(d)
    BY <1>4, <1>5 DEF Runs
  <2>2. d.at < callTop
    <3>1. h.kind = "host"
      BY <1>2 DEF HostCalls
    <3> QED
      BY <1>1, <1>2, <1>3, <1>5, <3>1 DEF Inv, ControlInv
  <2>3. /\ d.at \in 1 .. callTop /\ d.base \in Nat /\ Params[d.fn] \in Nat
        /\ d.base + Params[d.fn] <= Above(d.at)
    BY <2>1, HostCallBounds
  <2>4. callTop \in d.at + 1 .. callTop
    BY <1>1, <2>2, <2>3
  <2>5. Above(d.at) <= Frame.locals /\ Above(d.at) \in Nat
    BY <2>3, <2>4, FramesOrdered, FrameBounds DEF Frame
  <2>6. Frame.locals <= h.base
    BY <1>1
  <2> HIDE DEF h
  <2>7. \A p, q, x, y, z \in Nat : p + q <= x /\ x <= y /\ y <= z => p + q <= z
    OBVIOUS
  <2> QED
    BY <1>1, <2>3, <2>5, <2>6, <2>7
<1> QED
  BY <1>1, <1>4, <1>5, CallKept DEF Runs

LEMMA FrameNext ==
  ASSUME NEW CONSTANT i, NEW f, NEW x, NEW y, NEW e,
         OpsEnd(i)' = e, callStack'[i].fn = f, callStack'[i].locals = x, Types(f) = y
  PROVE  FrameAt(i)' = [fn |-> f, locals |-> Part(slots', x, y), ops |-> Part(slots', x + y, e - x - y)]
BY DEF FrameAt, Types

\* The results of a host function go on the caller's operands.
LEMMA HostReturnsMapped ==
  ASSUME Inv, control # <<>>, NEW results \in Tuples(Results[Last(control).fn]),
         HostReturns(results)
  PROVE  Machine!HostReturns(results)
<1> DEFINE h == Last(control)
           r == Results[h.fn]
           l == Frame.locals
           t == Types(Frame.fn)
           b == OpsBase
           ops == Part(slots, b, h.base - b)
           caller == Machine!WithOps(Machine!Current, Machine!Current.ops \o results)
<1>0. /\ InHost
      /\ slots' = Written(slots, h.base, results)
      /\ top' = h.newTop
      /\ control' = Front(control)
      /\ out' = <<>>
      /\ callStack' = callStack /\ callTop' = callTop
  BY DEF HostReturns
<1>1. /\ callTop \in 1 .. callTop /\ callTop \in Nat /\ h.base \in Nat
      /\ h.newTop = h.base + r /\ h.newTop \in 0 .. ValueSize
      /\ Frame \in Frames /\ l \in Nat /\ t \in Nat /\ b = l + t /\ b <= h.base
      /\ OpsEnd(callTop) = h.base
      /\ Machine!Current = [fn |-> Frame.fn, locals |-> Part(slots, l, t), ops |-> ops]
      /\ HostCallsOf(callTop) = {Len(control)}
      /\ Len(control) \in Nat /\ Len(control) >= 2 /\ h = control[Len(control)]
  BY <1>0, HostCallMapped
<1>2. h \in HostCalls /\ h.at = callTop
  BY <1>0, InHostCall
<1>3. r \in Nat
  BY <1>2, SizesNat DEF HostCalls
<1>4. slots \in [0 .. ValueSize - 1 -> Values] /\ ValueSize \in Nat /\ results \in [1 .. r -> Values]
  BY InterpAssumption DEF Inv, StacksInv, Tuples
<1>5. results \in Seq(Values) /\ Len(results) = r
  BY <1>3, <1>4, FunctionIsSeq
<1> HIDE DEF h, r, l, t, b
<1>6. slots' \in [0 .. ValueSize - 1 -> Values]
  <2>1. h.base \in Int
    BY <1>1
  <2> QED
    BY <1>0, <1>4, <1>5, <2>1, WrittenType
<1>7. /\ h.base + r <= ValueSize /\ h.base - b \in Nat /\ b + (h.base - b) = h.base /\ b \in Nat
      /\ h.base <= ValueSize /\ l + t <= h.base /\ (h.base + r) - l - t = (h.base - b) + r
      /\ b + (h.base - b) + r <= ValueSize /\ b + ((h.base - b) + r) <= ValueSize
      /\ (h.base - b) + r \in Nat /\ l + t <= ValueSize
  <2>1. \A x, y, z, p, q, v \in Nat :
           (y = p + q /\ y <= x /\ x + z \in 0 .. v)
             => /\ x + z <= v /\ x - y \in Nat /\ y + (x - y) = x
                /\ x <= v /\ p + q <= x /\ (x + z) - p - q = (x - y) + z
                /\ y + (x - y) + z <= v /\ y + ((x - y) + z) <= v
                /\ (x - y) + z \in Nat /\ p + q <= v
    <3> SUFFICES ASSUME NEW x \in Nat, NEW y \in Nat, NEW z \in Nat, NEW p \in Nat,
                        NEW q \in Nat, NEW v \in Nat, y = p + q, y <= x, x + z \in 0 .. v
                 PROVE  /\ x + z <= v /\ x - y \in Nat /\ y + (x - y) = x
                        /\ x <= v /\ p + q <= x /\ (x + z) - p - q = (x - y) + z
                        /\ y + (x - y) + z <= v /\ y + ((x - y) + z) <= v
                        /\ (x - y) + z \in Nat /\ p + q <= v
      OBVIOUS
    <3>1. x + z <= v /\ x - y \in Nat /\ y + (x - y) = x
      OBVIOUS
    <3>2. x <= v /\ p + q <= x /\ (x + z) - p - q = (x - y) + z
      OBVIOUS
    <3>3. y + (x - y) + z <= v /\ y + ((x - y) + z) <= v
      BY <3>1
    <3>4. (x - y) + z \in Nat /\ p + q <= v
      BY <3>1, <3>2
    <3> QED
      BY <3>1, <3>2, <3>3, <3>4
  <2>2. /\ h.base \in Nat /\ b \in Nat /\ r \in Nat /\ l \in Nat /\ t \in Nat /\ ValueSize \in Nat
        /\ b = l + t /\ b <= h.base /\ h.base + r \in 0 .. ValueSize
    BY <1>1, <1>3, <1>4
  <2> QED
    BY <2>1, <2>2, SMTT(30)
<1>8. KeptBelow(h.base) /\ \A i \in 1 .. r : slots'[h.base + i - 1] = results[i]
  <2>1. h.base \in Nat
    BY <1>1
  <2> DEFINE w == Written(slots, h.base, results)
  <2>2. /\ \A j \in Nat : j < h.base => w[j] = slots[j]
        /\ \A i \in 1 .. r : w[h.base + i - 1] = results[i]
    <3> HIDE DEF w
    <3>1. \A y \in Nat : y + r <= ValueSize =>
            /\ \A j \in Nat : j < y => Written(slots, y, results)[j] = slots[j]
            /\ \A i \in 1 .. r : Written(slots, y, results)[y + i - 1] = results[i]
      BY <1>3, <1>4, WrittenAt
    <3> QED
      BY <1>7, <2>1, <3>1 DEF w
  <2>3. slots' = w
    BY <1>0
  <2> HIDE DEF w
  <2> QED
    BY <2>2, <2>3 DEF KeptBelow
<1>9. Machine!Current.ops = ops
  BY <1>1
<1>10. Part(slots', l, t) = Part(slots, l, t) /\ Part(slots', b, h.base - b) = ops
  <2>1. h.base \in Nat /\ l \in Nat /\ t \in Nat
    BY <1>1
  <2>2. Part(slots', l, t) = Part(slots, l, t)
    BY <1>7, <1>8, <2>1, PartBelow
  <2>3. Part(slots', b, h.base - b) = Part(slots, b, h.base - b)
    <3>1. b + (h.base - b) <= h.base
      BY <1>7, <2>1
    <3> QED
      BY <1>7, <1>8, <2>1, <3>1, PartBelow
  <2> QED
    BY <2>2, <2>3
<1>11. ops \o results = Part(slots', b, (h.base - b) + r)
  <2>1. /\ b + (h.base - b) + Len(results) <= ValueSize
        /\ \A i \in 1 .. Len(results) : results[i] = slots'[b + (h.base - b) + i - 1]
    BY <1>5, <1>7, <1>8
  <2>2. Part(slots', b, h.base - b) \o results = Part(slots', b, (h.base - b) + Len(results))
    BY <1>5, <1>6, <1>7, <2>1, PartsJoined
  <2> QED
    BY <1>5, <1>10, <2>2
<1> HIDE DEF ops
<1>12. caller = [fn |-> Frame.fn, locals |-> Part(slots', l, t), ops |-> Part(slots', b, (h.base - b) + r)]
  <2>1. caller = Machine!WithOps([fn |-> Frame.fn, locals |-> Part(slots, l, t), ops |-> ops], ops \o results)
    BY <1>1, <1>9
  <2>2. caller = [fn |-> Frame.fn, locals |-> Part(slots, l, t), ops |-> ops \o results]
    BY <2>1, WithOpsOf
  <2> HIDE DEF caller
  <2> QED
    BY <1>10, <1>11, <2>2
<1> HIDE DEF caller
<1>13. PICK n \in Nat : n = Len(control) - 1
  <2>1. Len(control) - 1 \in Nat
    BY <1>1
  <2> QED
    BY <2>1
<1>14. /\ control' \in Seq(Calls) /\ Len(control') = n
       /\ (\A k \in 1 .. n : control'[k] = control[k])
       /\ DOMAIN control = 1 .. n + 1 /\ DOMAIN control' = 1 .. n
       /\ Len(control) = n + 1
  <2>1. control \in Seq(Calls)
    BY DEF Inv, ControlInv
  <2>2. Len(control) = n + 1
    BY <1>1, <1>13
  <2>3. /\ control' \in Seq(Calls) /\ Len(control') = n
        /\ (\A k \in 1 .. n : control'[k] = control[k])
    BY <1>0, <1>13, <2>1, FrontOfSeq
  <2> QED
    BY <2>1, <2>2, <2>3, LenProperties
<1>15. ASSUME NEW i \in 1 .. callTop, i # callTop PROVE FrameAt(i)' = FrameAt(i)
  <2>1. \A k : k \in 1 .. n + 1 <=> k \in 1 .. n \/ k = n + 1
    BY <1>13
  <2>2. \A k : k \in HostCallsOf(i) <=> k \in DOMAIN control' /\ control'[k].kind = "host" /\ control'[k].at = i
    BY <1>1, <1>2, <1>14, <1>15, <2>1 DEF HostCallsOf
  <2>3. \A k \in HostCallsOf(i) : control'[k] = control[k]
    BY <1>14, <2>2
  <2>4. Above(i)' = Above(i)
    BY <1>0, <1>15 DEF Above
  <2>5. OpsEnd(i)' = OpsEnd(i)
    BY <2>2, <2>3, <2>4, EndKept
  <2> QED
    BY <1>0, <1>8, <1>15, <2>5, FramesUnderHost DEF h
<1>16. ASSUME NEW i \in 1 .. callTop, i = callTop PROVE FrameAt(i)' = caller
  <2>1. HostCallsOf(i)' = {}
    <3> SUFFICES ASSUME NEW k \in HostCallsOf(i)' PROVE FALSE
      OBVIOUS
    <3>1. k \in 1 .. n /\ control[k].kind = "host" /\ control[k].at = callTop
      BY <1>14, <1>16 DEF HostCallsOf
    <3>2. k \in 1 .. n + 1
      BY <1>13, <3>1
    <3>3. k \in HostCallsOf(callTop)
      BY <1>14, <3>1, <3>2 DEF HostCallsOf
    <3> QED
      BY <1>1, <1>13, <1>14, <3>1, <3>3
  <2>2. OpsEnd(i)' = h.base + r
    BY <1>0, <1>1, <1>16, <2>1 DEF OpsEnd
  <2>3. callStack'[i].fn = Frame.fn /\ callStack'[i].locals = l
    BY <1>0, <1>16 DEF Frame, l
  <2>4. Types(Frame.fn) = t
    BY DEF t
  <2>5. FrameAt(i)' = [fn |-> Frame.fn, locals |-> Part(slots', l, t),
                       ops |-> Part(slots', l + t, (h.base + r) - l - t)]
    BY <2>2, <2>3, <2>4, FrameNext
  <2>6. b = l + t
    BY <1>1
  <2> QED
    BY <1>7, <1>12, <2>5, <2>6
<1>17. caller \in Activations
  <2>1. Part(slots', l, t) \in Seq(Values) /\ Part(slots', b, (h.base - b) + r) \in Seq(Values)
    <3>1. l \in Nat /\ t \in Nat
      BY <1>1
    <3> QED
      BY <1>6, <1>7, <3>1, PartSeq
  <2>2. Frame.fn \in Funcs
    BY <1>1 DEF Frames
  <2> QED
    BY <1>12, <2>1, <2>2 DEF Activations
<1>18. Activated' = Append(Machine!Front(Activated), caller)
  <2>1. callTop # 0
    BY <1>1
  <2> QED
    BY <1>0, <1>15, <1>16, <1>17, <2>1, TopReplaced
<1>19. UnderWay' = Machine!Front(UnderWay)
  <2>1. ASSUME NEW k \in 1 .. n, NEW d \in Calls, d = control[k] PROVE CallAt(d)' = CallAt(d)
    BY <1>0, <1>8, <1>13, <2>1, CallsUnderHost DEF h
  <2>2. n <= Len(control)
    BY <1>13, <1>14
  <2>3. UnderWay' = SubSeq(UnderWay, 1, n)
    BY <1>14, <2>1, <2>2, UnderWayCut
  <2>4. Len(UnderWay) = Len(control)
    BY UnderWaySeq
  <2> QED
    BY <1>13, <2>3, <2>4 DEF Machine!Front
<1>20. /\ UnderWay # <<>> /\ Machine!InHost /\ Machine!Last(UnderWay).fn = h.fn
  <2>1. UnderWay # <<>> /\ Last(UnderWay) = CallAt(h) /\ Machine!InHost
    BY <1>0, UnderWaySeq DEF h
  <2>2. CallAt(h).fn = h.fn
    BY DEF CallAt
  <2> QED
    BY <2>1, <2>2 DEF Machine!Last, Last
<1> QED
  BY <1>0, <1>5, <1>18, <1>19, <1>20 DEF Machine!HostReturns, caller, r

\* When the run after the n-th call ends, the frames it began with wait for the
\* host functions they waited for, and their operands end where they did.
LEMMA EndsUnwound ==
  ASSUME Inv, NEW CONSTANT n \in Nat, NEW CONSTANT p \in Nat, n < Len(control),
         control[n + 1].kind = "run", control[n + 1].origStack = p,
         control' \in Seq(Calls), Len(control') = n,
         \A k \in 1 .. n : control'[k] = control[k],
         callTop' = p, callStack' = callStack
  PROVE  \A i \in 1 .. p : i \in 1 .. callTop /\ i # callTop /\ OpsEnd(i)' = OpsEnd(i)
<1>1. /\ Len(control) \in Nat /\ DOMAIN control = 1 .. Len(control) /\ DOMAIN control' = 1 .. n
      /\ n + 1 \in 1 .. Len(control)
  BY LenProperties DEF Inv, ControlInv
<1>2. control[n + 1] \in Runs /\ RunInv(control[n + 1])
  BY <1>1, CallsOf DEF Inv, ControlInv
<1>3. p < callTop /\ callTop \in Nat /\ ValueSize \in Nat
  BY <1>2, InterpAssumption DEF RunInv, Inv, StacksInv
<1>4. \A i \in 1 .. p : i \in 1 .. callTop /\ i # callTop
  BY <1>3
<1>5. ASSUME NEW k \in 1 .. Len(control), control[k].kind = "host", control[k].at <= p
      PROVE  k \in 1 .. n
  <2>1. k # n + 1
    BY <1>5
  <2>2. CASE k > n + 1
    <3>1. n + 1 \in 1 .. k - 1
      BY <1>1, <2>2
    <3>2. p < control[k].at
      BY <1>5, <3>1, Below
    <3>3. control[k].at \in Nat
      BY <1>5, CallsOf DEF Inv, HostCalls
    <3> QED
      BY <1>5, <3>2, <3>3
  <2> QED
    BY <1>1, <2>1, <2>2
<1>6. ASSUME NEW i \in 1 .. p PROVE OpsEnd(i)' = OpsEnd(i)
  <2>1. \A k : k \in HostCallsOf(i) <=> k \in DOMAIN control' /\ control'[k].kind = "host" /\ control'[k].at = i
    <3>1. ASSUME NEW k \in HostCallsOf(i) PROVE k \in 1 .. n /\ control[k].kind = "host" /\ control[k].at = i
      <4>1. k \in 1 .. Len(control) /\ control[k].kind = "host" /\ control[k].at = i
        BY <1>1, <3>1 DEF HostCallsOf
      <4> QED
        BY <4>1, <1>5
    <3>2. \A k \in 1 .. n : k \in 1 .. Len(control)
      BY <1>1
    <3> QED
      BY <1>1, <3>1, <3>2 DEF HostCallsOf
  <2>2. \A k \in HostCallsOf(i) : control'[k] = control[k]
    BY <1>1, <2>1
  <2>3. ASSUME HostCallsOf(i) = {} PROVE Above(i)' = Above(i)
    <3>1. i # p
      <4> SUFFICES ASSUME i = p PROVE FALSE
        OBVIOUS
      <4>1. n # 0
        <5>1. control[1].origStack = 0
          BY <1>1, EmptySeq DEF Inv, ControlInv
        <5> QED
          BY <5>1
      <4>2. n \in 1 .. Len(control) /\ n + 1 > 1 /\ (n + 1) - 1 = n
        BY <1>1, <4>1
      <4>3. Nested(control[(n + 1) - 1], control[n + 1])
        BY <1>1, <4>2 DEF Inv, ControlInv
      <4>4. control[n].kind = "host" /\ control[n].at = p
        BY <4>2, <4>3 DEF Nested
      <4>5. n \in HostCallsOf(i)
        BY <1>1, <4>2, <4>4 DEF HostCallsOf
      <4> QED
        BY <2>3, <4>5
    <3> QED
      BY <1>4, <3>1 DEF Above
  <2> QED
    BY <2>1, <2>2, <2>3, EndKept
<1> QED
  BY <1>4, <1>6

\* The run after the n-th call ends by a trap: the activations it began with and
\* the calls before it are left.
LEMMA UnwoundMapped ==
  ASSUME Inv, NEW CONSTANT n \in Nat, NEW CONSTANT p \in Nat, n < Len(control),
         control[n + 1].kind = "run", control[n + 1].origStack = p,
         control' \in Seq(Calls), Len(control') = n,
         \A k \in 1 .. n : control'[k] = control[k],
         callTop' = p, slots' = slots, callStack' = callStack
  PROVE  /\ Activated' = SubSeq(Activated, 1, p)
         /\ UnderWay' = SubSeq(UnderWay, 1, n)
<1>1. Len(control) \in Nat /\ n + 1 \in 1 .. Len(control)
  BY LenProperties DEF Inv, ControlInv
<1>2. control[n + 1] \in Runs /\ RunInv(control[n + 1])
  BY <1>1, CallsOf DEF Inv, ControlInv
<1>3. p < callTop /\ callTop \in Nat /\ ValueSize \in Nat
  BY <1>2, InterpAssumption DEF RunInv, Inv, StacksInv
<1>4. \A i \in 1 .. p : i \in 1 .. callTop /\ OpsEnd(i)' = OpsEnd(i)
  BY EndsUnwound
<1>7. ASSUME NEW i \in 1 .. p PROVE FrameAt(i)' = FrameAt(i)
  <2>1. i \in 1 .. callTop
    BY <1>4
  <2>2. OpsEnd(i) <= ValueSize
    <3>1. OpsEnd(i) \in Nat /\ OpsEnd(i) <= Above(i) /\ Above(i) \in Nat /\ Above(i) <= ValueSize
      BY <2>1, FrameBounds
    <3> QED
      BY <1>3, <3>1
  <2>3. KeptBelow(ValueSize)
    BY DEF KeptBelow
  <2> QED
    BY <1>3, <1>4, <2>1, <2>2, <2>3, FrameKept
<1>8. Activated' = SubSeq(Activated, 1, p)
  <2>1. p <= callTop
    BY <1>3
  <2> QED
    BY <1>7, <2>1, ActivatedCut
<1>9. UnderWay' = SubSeq(UnderWay, 1, n)
  <2>1. \A d : CallAt(d)' = CallAt(d)
    BY DEF CallAt
  <2>2. n <= Len(control)
    BY <1>1
  <2> QED
    BY <2>1, <2>2, UnderWayCut
<1> QED
  BY <1>8, <1>9

LEMMA TrapMapped ==
  ASSUME Inv, Trap
  PROVE  Machine!Trap
<1>0. /\ InGuest /\ callTop' = Last(control).origStack
      /\ control' = Front(control) /\ out' = <<>>
      /\ slots' = slots /\ callStack' = callStack
  BY DEF Trap, Unwind
<1>1. /\ Len(control) \in Nat \ {0} /\ Last(control) = control[Len(control)]
      /\ Last(control) \in Runs
  BY <1>0, InLoop
<1>2. PICK n \in Nat : n + 1 = Len(control)
  <2>1. Len(control) - 1 \in Nat /\ (Len(control) - 1) + 1 = Len(control)
    BY <1>1
  <2> QED
    BY <2>1
<1>3. Last(control).origStack \in Nat /\ Last(control).kind = "run"
  BY <1>1, InterpAssumption DEF Runs
<1>4. PICK p \in Nat : p = Last(control).origStack
  BY <1>3
<1>5. /\ control' \in Seq(Calls) /\ Len(control') = n
      /\ \A k \in 1 .. n : control'[k] = control[k]
  <2>1. control \in Seq(Calls) /\ control # <<>>
    BY <1>0 DEF Inv, ControlInv, InGuest
  <2>2. Len(control) - 1 = n
    BY <1>2
  <2> QED
    BY <1>0, <2>1, <2>2, FrontOfSeq
<1>6. n < Len(control) /\ control[n + 1].kind = "run" /\ control[n + 1].origStack = p
  BY <1>1, <1>2, <1>3, <1>4
<1>7. Activated' = SubSeq(Activated, 1, p) /\ UnderWay' = SubSeq(UnderWay, 1, n)
  BY <1>0, <1>4, <1>5, <1>6, UnwoundMapped
<1>8. /\ Len(UnderWay) = n + 1 /\ UnderWay[n + 1] = CallAt(control[n + 1]) /\ Machine!InGuest
  <2>1. n + 1 \in 1 .. Len(control)
    BY <1>1, <1>2
  <2> QED
    BY <1>0, <1>2, <2>1, UnderWaySeq
<1>9. UnderWay[n + 1].at = p
  BY <1>6, <1>8 DEF CallAt
<1>10. /\ 1 \in {1, 2} \cap 1 .. Len(UnderWay)
       /\ Len(UnderWay) + 1 - 1 = n + 1 /\ Len(UnderWay) - 1 = n
  BY <1>8
<1> QED
  BY <1>0, <1>7, <1>8, <1>9, <1>10 DEF Machine!Trap, Machine!ButLast

LEMMA HostTrapsMapped ==
  ASSUME Inv, HostTraps
  PROVE  Machine!Trap
<1>0. /\ InHost /\ Len(control) >= 2 /\ callTop' = control[Len(control) - 1].origStack
      /\ control' = Front(Front(control)) /\ out' = <<>>
      /\ slots' = slots /\ callStack' = callStack
  BY DEF HostTraps, Unwind
<1>1. /\ control # <<>> /\ control \in Seq(Calls) /\ Len(control) \in Nat
      /\ control[Len(control) - 1] \in Runs
  <2>1. control # <<>> /\ control \in Seq(Calls)
    BY <1>0, EmptySeq DEF Inv, ControlInv
  <2> QED
    BY <1>0, <2>1, InHostCall
<1>2. PICK n \in Nat : n + 2 = Len(control)
  <2>1. Len(control) - 2 \in Nat /\ (Len(control) - 2) + 2 = Len(control)
    BY <1>0, <1>1
  <2> QED
    BY <2>1
<1>3. Len(control) - 1 = n + 1 /\ control[n + 1] \in Runs
  <2>1. Len(control) - 1 = n + 1
    BY <1>2
  <2> QED
    BY <1>1, <2>1
<1>4. PICK p \in Nat : p = control[n + 1].origStack
  BY <1>3, InterpAssumption DEF Runs
<1>5. /\ control' \in Seq(Calls) /\ Len(control') = n
      /\ \A k \in 1 .. n : control'[k] = control[k]
  <2>1. /\ Front(control) \in Seq(Calls) /\ Len(Front(control)) = n + 1
        /\ \A k \in 1 .. n + 1 : Front(control)[k] = control[k]
    BY <1>1, <1>3, FrontOfSeq
  <2>2. Front(control) # <<>>
    BY <2>1, EmptySeq
  <2>3. (n + 1) - 1 = n /\ \A k \in 1 .. n : k \in 1 .. n + 1
    OBVIOUS
  <2>4. /\ Front(Front(control)) \in Seq(Calls) /\ Len(Front(Front(control))) = n
        /\ \A k \in 1 .. n : Front(Front(control))[k] = Front(control)[k]
    <3> DEFINE w == Front(control)
    <3>1. w \in Seq(Calls) /\ w # <<>> /\ Len(w) = n + 1
      BY <2>1, <2>2
    <3> HIDE DEF w
    <3>2. /\ Front(w) \in Seq(Calls) /\ Len(Front(w)) = Len(w) - 1
          /\ \A k \in 1 .. Len(w) - 1 : Front(w)[k] = w[k]
      BY <3>1, FrontOfSeq
    <3>3. Len(w) - 1 = n
      BY <2>3, <3>1
    <3> QED
      BY <3>2, <3>3 DEF w
  <2> QED
    BY <1>0, <2>1, <2>3, <2>4
<1>6. n < Len(control) /\ control[n + 1].kind = "run" /\ control[n + 1].origStack = p
  BY <1>2, <1>3, <1>4 DEF Runs
<1>7. Activated' = SubSeq(Activated, 1, p) /\ UnderWay' = SubSeq(UnderWay, 1, n)
  BY <1>0, <1>3, <1>4, <1>5, <1>6, UnwoundMapped
<1>8. /\ Len(UnderWay) = n + 2 /\ UnderWay[n + 1] = CallAt(control[n + 1]) /\ Machine!InHost
      /\ UnderWay # <<>>
  <2>1. n + 1 \in 1 .. Len(control)
    BY <1>2
  <2> QED
    BY <1>0, <1>1, <1>2, <2>1, UnderWaySeq
<1>9. UnderWay[n + 1].at = p
  BY <1>6, <1>8 DEF CallAt
<1>10. /\ 2 \in {1, 2} \cap 1 .. Len(UnderWay)
       /\ Len(UnderWay) + 1 - 2 = n + 1 /\ Len(UnderWay) - 2 = n
  BY <1>8
<1>11. ~Machine!InGuest
  BY <1>8 DEF Machine!InHost, Machine!InGuest
<1> QED
  BY <1>0, <1>7, <1>8, <1>9, <1>10, <1>11 DEF Machine!Trap, Machine!ButLast

\* A run that the host begins, or cannot begin, writes above all that there is.
LEMMA EntryKeeps ==
  ASSUME Inv, InHost, KeptBelow(top),
         \A i \in 1 .. callTop : callStack'[i] = callStack[i],
         callTop' \in {callTop, callTop + 1},
         control' = control \/ \E c \in Calls : c.kind = "run" /\ control' = Append(control, c)
  PROVE  /\ \A i \in 1 .. callTop : FrameAt(i)' = FrameAt(i)
         /\ \A k \in 1 .. Len(control) : \A d \in Calls : d = control[k] => CallAt(d)' = CallAt(d)
<1>1. /\ callTop \in Nat /\ top \in Nat /\ control \in Seq(Calls)
      /\ Len(control) \in Nat /\ DOMAIN control = 1 .. Len(control)
  BY LenProperties DEF Inv, StacksInv, ControlInv
<1>2. /\ \A k \in DOMAIN control : k \in DOMAIN control' /\ control'[k] = control[k]
      /\ \A k \in DOMAIN control' : k \in DOMAIN control \/ control'[k].kind = "run"
  <2>1. CASE control' = control
    BY <2>1
  <2>2. CASE \E c \in Calls : c.kind = "run" /\ control' = Append(control, c)
    <3>1. PICK c \in Calls : c.kind = "run" /\ control' = Append(control, c)
      BY <2>2
    <3>2. /\ DOMAIN control' = 1 .. Len(control) + 1
          /\ \A k \in 1 .. Len(control) : control'[k] = control[k]
          /\ control'[Len(control) + 1] = c
      <4>1. /\ control' \in Seq(Calls) /\ Len(control') = Len(control) + 1
            /\ \A k \in 1 .. Len(control) : control'[k] = control[k]
            /\ control'[Len(control) + 1] = c
        <5> DEFINE u == Append(control, c)
        <5>1. /\ u \in Seq(Calls) /\ Len(u) = Len(control) + 1
              /\ (\A k \in 1 .. Len(control) : u[k] = control[k])
              /\ u[Len(control) + 1] = c
          BY <1>1, AppendProperties
        <5> HIDE DEF u
        <5>2. control' = u
          BY <3>1 DEF u
        <5> QED
          BY <5>1, <5>2
      <4> QED
        BY <4>1, LenProperties
    <3>3. \A k : k \in 1 .. Len(control) + 1 <=> k \in 1 .. Len(control) \/ k = Len(control) + 1
      BY <1>1
    <3> QED
      BY <1>1, <3>1, <3>2, <3>3
  <2> QED
    BY <2>1, <2>2
<1>3. ASSUME NEW i \in 1 .. callTop PROVE FrameAt(i)' = FrameAt(i)
  <2>1. \A k : k \in HostCallsOf(i) <=> k \in DOMAIN control' /\ control'[k].kind = "host" /\ control'[k].at = i
    BY <1>2 DEF HostCallsOf
  <2>2. \A k \in HostCallsOf(i) : control'[k] = control[k]
    BY <1>2 DEF HostCallsOf
  <2>3. ASSUME HostCallsOf(i) = {} PROVE Above(i)' = Above(i)
    <3>1. i # callTop
      <4> SUFFICES ASSUME i = callTop PROVE FALSE
        OBVIOUS
      <4>1. control # <<>>
        BY <1>1 DEF Inv, ControlInv
      <4>2. HostCallsOf(callTop) = {Len(control)}
        BY <4>1, HostCallMapped
      <4> QED
        BY <2>3, <4>2
    <3>2. i + 1 \in 1 .. callTop /\ i # callTop + 1
      BY <1>1, <3>1
    <3> QED
      BY <3>1, <3>2 DEF Above
  <2>4. OpsEnd(i)' = OpsEnd(i)
    BY <2>1, <2>2, <2>3, EndKept
  <2>5. OpsEnd(i) <= top
    <3>1. OpsEnd(i) \in Nat /\ OpsEnd(i) <= Above(i) /\ Above(i) \in Nat /\ Above(i) <= top
      BY FrameBounds, FramesBelowTop
    <3> QED
      BY <1>1, <3>1
  <2> QED
    BY <1>1, <2>4, <2>5, FrameKept
<1>4. ASSUME NEW k \in 1 .. Len(control), NEW d \in Calls, d = control[k] PROVE CallAt(d)' = CallAt(d)
  <2>1. d.kind = "run" \/ (d.kind = "host" /\ d \in HostCalls /\ HostCallInv(d))
    BY <1>4, CallsOf DEF Inv, ControlInv
  <2>2. ASSUME d.kind = "host" PROVE d.base + Params[d.fn] <= top
    <3>1. d \in HostCalls /\ HostCallInv(d)
      BY <2>1, <2>2 DEF Runs
    <3>2. /\ d.at \in 1 .. callTop /\ d.base \in Nat /\ Params[d.fn] \in Nat
          /\ d.base + Params[d.fn] <= Above(d.at)
      BY <3>1, HostCallBounds
    <3>3. Above(d.at) \in Nat /\ Above(d.at) <= top
      BY <3>2, FrameBounds, FramesBelowTop
    <3> QED
      BY <1>1, <3>2, <3>3
  <2> QED
    BY <1>1, <2>1, <2>2, CallKept
<1> QED
  BY <1>3, <1>4

\* The locals a run begins with.
LEMMA LocalsWritten ==
  ASSUME Inv, NEW f \in Funcs, NEW args \in Tuples(Params[f]), RoomFor(f), slots' = WithLocals(f, args)
  PROVE  /\ KeptBelow(top)
         /\ slots' \in [0 .. ValueSize - 1 -> Values]
         /\ Part(slots', top, Types(f)) = args \o [i \in 1 .. Declared[f] |-> Zero]
         /\ top \in Nat /\ Types(f) \in Nat /\ top + Types(f) <= ValueSize
<1> DEFINE zeros == [i \in 1 .. Declared[f] |-> Zero]
           z == args \o zeros
           t == Types(f)
<1>1. /\ top \in Nat /\ slots \in [0 .. ValueSize - 1 -> Values] /\ ValueSize \in Nat
      /\ Params[f] \in Nat /\ Declared[f] \in Nat /\ t = Params[f] + Declared[f] /\ t \in Nat
      /\ Results[f] \in Nat
  BY SizesNat, InterpAssumption DEF Inv, StacksInv
<1>2. top + t <= ValueSize
  BY <1>1 DEF RoomFor, Larger
<1>3. args \in Seq(Values) /\ Len(args) = Params[f]
  BY <1>1, FunctionIsSeq DEF Tuples
<1>4. zeros \in Seq(Values) /\ Len(zeros) = Declared[f]
  <2>1. zeros \in [1 .. Declared[f] -> Values]
    BY InterpAssumption
  <2> QED
    BY <1>1, <2>1, FunctionIsSeq
<1> HIDE DEF zeros
<1>5. z \in Seq(Values) /\ Len(z) = t
  <2>1. z \in Seq(Values) /\ Len(z) = Len(args) + Len(zeros)
    BY <1>3, <1>4, ConcatProperties
  <2> QED
    BY <1>1, <1>3, <1>4, <2>1
<1>6. z \in [1 .. t -> Values]
  BY <1>5, LenProperties
<1>7. slots' = Written(slots, top, z)
  BY DEF WithLocals, zeros
<1> HIDE DEF z, t
<1>8. slots' \in [0 .. ValueSize - 1 -> Values]
  <2>1. top \in Int
    BY <1>1
  <2> QED
    BY <1>1, <1>5, <1>7, <2>1, WrittenType
<1>9. KeptBelow(top) /\ \A i \in 1 .. t : slots'[top + i - 1] = z[i]
  <2> DEFINE w == Written(slots, top, z)
  <2>1. /\ \A j \in Nat : j < top => w[j] = slots[j]
        /\ \A i \in 1 .. t : w[top + i - 1] = z[i]
    <3>1. slots \in [0 .. ValueSize - 1 -> Values] /\ top \in Nat /\ t \in Nat
      BY <1>1
    <3> HIDE DEF w
    <3>2. /\ \A j \in Nat : j < top => Written(slots, top, z)[j] = slots[j]
          /\ \A i \in 1 .. t : Written(slots, top, z)[top + i - 1] = z[i]
      BY <1>2, <1>6, <3>1, WrittenAt
    <3> QED
      BY <3>2 DEF w
  <2> HIDE DEF w
  <2>2. slots' = w
    BY <1>7 DEF w
  <2> QED
    BY <2>1, <2>2 DEF KeptBelow
<1>10. z = Part(slots', top, t)
  <2>1. top \in Nat /\ t \in Nat
    BY <1>1
  <2> QED
    BY <1>5, <1>9, <2>1, PartIs, ZenonT(30)
<1> QED
  BY <1>1, <1>2, <1>8, <1>9, <1>10 DEF z, zeros, t

\* For a run that finds no room in the call stack nothing changes but the slots
\* above all that there is.
LEMMA EnterTrapsMapped ==
  ASSUME Inv, NEW f \in Funcs, NEW args \in Tuples(Params[f]), EnterTraps(f, args)
  PROVE  Machine!Refuse
<1>0. /\ InHost /\ RoomFor(f) /\ slots' = WithLocals(f, args)
      /\ callStack' = callStack /\ callTop' = callTop /\ control' = control /\ out' = <<>>
  BY DEF EnterTraps
<1>1. KeptBelow(top)
  BY <1>0, LocalsWritten
<1>2. callTop' \in {callTop, callTop + 1} /\ \A i \in 1 .. callTop : callStack'[i] = callStack[i]
  BY <1>0
<1>3. /\ \A i \in 1 .. callTop : FrameAt(i)' = FrameAt(i)
      /\ \A k \in 1 .. Len(control) : \A d \in Calls : d = control[k] => CallAt(d)' = CallAt(d)
  BY <1>0, <1>1, <1>2, EntryKeeps
<1>4. Activated' = Activated
  BY <1>0, <1>3 DEF Activated
<1>5. UnderWay' = UnderWay
  <2>1. DOMAIN control = 1 .. Len(control)
    BY LenProperties DEF Inv, ControlInv
  <2>2. ASSUME NEW k \in 1 .. Len(control) PROVE CallAt(control[k])' = CallAt(control[k])
    <3>1. PICK d \in Calls : d = control[k]
      BY CallsOf DEF Inv
    <3>2. control'[k] = d
      BY <1>0, <3>1
    <3> QED
      BY <1>3, <3>1, <3>2 DEF CallAt
  <2> QED
    BY <1>0, <2>1, <2>2 DEF UnderWay
<1>6. Machine!InHost
  BY <1>0, UnderWaySeq
<1> QED
  BY <1>0, <1>4, <1>5, <1>6 DEF Machine!Refuse

LEMMA EnterMapped ==
  ASSUME Inv, NEW f \in Funcs, NEW args \in Tuples(Params[f]), NEW kind, Enter(f, args, kind)
  PROVE  Machine!Enter(f, args)
<1> DEFINE t == Types(f)
           frame == Machine!Frame(f, args)
           call == [kind |-> "run", at |-> callTop, fn |-> f, args |-> <<>>]
<1>0. /\ InHost /\ RoomFor(f) /\ slots' = WithLocals(f, args) /\ top' = top + t
      /\ callTop < CallSize
      /\ callStack' = [callStack EXCEPT ![callTop + 1] = [fn |-> f, locals |-> top]]
      /\ callTop' = callTop + 1
      /\ control' = Append(control, Activation(kind, f))
      /\ out' = <<>>
  BY DEF Enter, PushFrame
<1>1. /\ callTop \in Nat /\ callTop \in 0 .. CallSize /\ top \in 0 .. ValueSize /\ CallSize \in Nat
      /\ callStack \in [1 .. CallSize -> Frames \cup {NoFrame}]
  BY InterpAssumption DEF Inv, StacksInv
<1>2. /\ KeptBelow(top) /\ slots' \in [0 .. ValueSize - 1 -> Values]
      /\ Part(slots', top, t) = args \o [i \in 1 .. Declared[f] |-> Zero]
      /\ top \in Nat /\ t \in Nat /\ top + t <= ValueSize
  BY <1>0, LocalsWritten
<1>3. Activation(kind, f) \in Runs /\ Activation(kind, f).kind = "run"
      /\ Activation(kind, f).origStack = callTop /\ Activation(kind, f).fn = f
  BY <1>1 DEF Activation, Runs
<1>4. PICK c \in Calls : c = Activation(kind, f)
  BY <1>3 DEF Calls
<1>5. c.kind = "run" /\ c.origStack = callTop /\ c.fn = f /\ control' = Append(control, c)
  BY <1>0, <1>3, <1>4
<1>6. /\ callTop + 1 \in 1 .. CallSize /\ callTop + 1 \in Nat
      /\ \A i \in 1 .. callTop : i \in 1 .. CallSize /\ i # callTop + 1
      /\ \A i \in 1 .. callTop + 1 : i \in 1 .. callTop \/ i = callTop + 1
  BY <1>0, <1>1
<1>7. /\ \A i \in 1 .. callTop : callStack'[i] = callStack[i]
      /\ callStack'[callTop + 1] = [fn |-> f, locals |-> top]
  BY <1>0, <1>1, <1>6
<1>8. /\ \A i \in 1 .. callTop : FrameAt(i)' = FrameAt(i)
      /\ \A k \in 1 .. Len(control) : \A d \in Calls : d = control[k] => CallAt(d)' = CallAt(d)
  <2>1. callTop' \in {callTop, callTop + 1}
    BY <1>0
  <2> QED
    BY <1>0, <1>2, <1>5, <1>7, <2>1, EntryKeeps
<1>9. frame = [fn |-> f, ops |-> <<>>, locals |-> Part(slots', top, t)]
  BY <1>2 DEF Machine!Frame
<1> HIDE DEF frame, call
<1>10. ASSUME NEW i, i = callTop + 1 PROVE FrameAt(i)' = frame
  <2>1. HostCallsOf(i)' = {}
    <3> SUFFICES ASSUME NEW k \in HostCallsOf(i)' PROVE FALSE
      OBVIOUS
    <3>1. /\ Len(control) \in Nat /\ DOMAIN control' = 1 .. Len(control) + 1
          /\ \A j \in 1 .. Len(control) : control'[j] = control[j]
          /\ control'[Len(control) + 1] = c
      BY <1>5, AppendProperties, LenProperties DEF Inv, ControlInv
    <3>2. k \in DOMAIN control' /\ control'[k].kind = "host" /\ control'[k].at = callTop + 1
      BY <1>10 DEF HostCallsOf
    <3>3. k \in 1 .. Len(control)
      BY <1>5, <3>1, <3>2
    <3>4. control[k].at = callTop + 1 /\ control[k].kind = "host"
      BY <3>1, <3>2, <3>3
    <3>5. control[k] \in HostCalls /\ HostCallInv(control[k])
      BY <3>3, <3>4, CallsOf DEF Inv, ControlInv
    <3> QED
      BY <1>1, <3>4, <3>5 DEF HostCallInv
  <2>2. OpsEnd(i)' = top + t
    BY <1>0, <1>10, <2>1 DEF OpsEnd
  <2>3. callStack'[i].fn = f /\ callStack'[i].locals = top
    BY <1>7, <1>10
  <2>4. Types(f) = t
    OBVIOUS
  <2> HIDE DEF t
  <2>5. FrameAt(i)' = [fn |-> f, locals |-> Part(slots', top, t), ops |-> Part(slots', top + t, (top + t) - top - t)]
    BY <2>2, <2>3, <2>4, FrameNext
  <2>6. (top + t) - top - t = 0
    BY <1>2
  <2> QED
    BY <1>9, <2>5, <2>6, EmptyPart
<1>11. frame \in Activations
  BY <1>2, <1>9, PartSeq, EmptySeq DEF Activations
<1>12. Activated' = Append(Activated, frame)
  <2>1. Activated \in Seq(Activations) /\ Len(Activated) = callTop
        /\ \A i \in 1 .. callTop : Activated[i] = FrameAt(i)
    BY ActivatedSeq
  <2> DEFINE u == Append(Activated, frame)
  <2>2. u \in Seq(Activations) /\ Len(u) = callTop + 1 /\ (\A i \in 1 .. callTop : u[i] = Activated[i])
        /\ u[callTop + 1] = frame
    BY <1>11, <2>1, AppendProperties
  <2> HIDE DEF u
  <2>3. u \in [1 .. callTop + 1 -> Activations]
    BY <2>2, LenProperties
  <2>4. ASSUME NEW i \in 1 .. callTop + 1 PROVE FrameAt(i)' = u[i]
    <3>1. CASE i \in 1 .. callTop
      BY <1>8, <2>1, <2>2, <3>1
    <3>2. CASE i = callTop + 1
      BY <1>10, <2>2, <3>2
    <3> QED
      BY <1>6, <3>1, <3>2
  <2>5. Activated' = u
    BY <1>0, <2>3, <2>4 DEF Activated
  <2> QED
    BY <2>5 DEF u
<1>13. UnderWay' = Append(UnderWay, call)
  <2>1. call \in AbstractCalls
    BY <1>1, EmptySeq DEF call, AbstractCalls
  <2>2. CallAt(c)' = call
    BY <1>5 DEF CallAt, call
  <2> QED
    BY <1>5, <1>8, <2>1, <2>2, UnderWayAppended
<1>14. Machine!InHost /\ Len(Activated) = callTop
  BY <1>0, UnderWaySeq, ActivatedSeq
<1> QED
  BY <1>0, <1>12, <1>13, <1>14 DEF Machine!Enter, frame, call

\* Prepare moves the results of its function to before the slots the function has
\* used (Thread.h:269), which overwrites what lies there.  It moves nothing when
\* there are no results, or no slots but theirs.
PreparedPlain == \A f \in Prepared : Types(f) = 0 \/ Results[f] = 0

\* The bottom frame of a run is that of the function it has been called with.
RunFunctions ==
    \A k \in DOMAIN control :
      control[k].kind = "run" =>
        /\ callStack[control[k].origStack + 1].fn = control[k].fn
        /\ control[k].prepared => control[k].fn \in Prepared

LEMMA NothingMoved ==
  ASSUME NEW s \in [0 .. ValueSize - 1 -> Values], NEW from \in Nat, NEW to \in Int
  PROVE  Moved(s, from, to, 0) = s
<1>1. \A i \in DOMAIN s : ~(i \in to .. to + 0 - 1)
  OBVIOUS
<1>2. s = [i \in DOMAIN s |-> s[i]]
  OBVIOUS
<1> QED
  BY <1>1, <1>2 DEF Moved

\* What a return does to the slots: the results go to where the frame began.
LEMMA ResultsMoved ==
  ASSUME Inv, InGuest, NEW n \in Nat, n <= Height, NEW s, s = Moved(slots, top - n, Frame.locals, n)
  PROVE  /\ s \in [0 .. ValueSize - 1 -> Values]
         /\ \A j \in Nat : j < Frame.locals => s[j] = slots[j]
         /\ Machine!LastOf(Machine!Current.ops, n) \in Seq(Values)
         /\ Len(Machine!LastOf(Machine!Current.ops, n)) = n
         /\ \A i \in 1 .. n : Machine!LastOf(Machine!Current.ops, n)[i] = s[Frame.locals + i - 1]
         /\ n <= Len(Machine!Current.ops)
         /\ Frame.locals + n <= ValueSize
<1> DEFINE l == Frame.locals
           b == OpsBase
           h == Height
           r == Machine!LastOf(Machine!Current.ops, n)
<1>1. /\ l \in Nat /\ Types(Frame.fn) \in Nat /\ b = l + Types(Frame.fn) /\ h \in Nat /\ b + h = top
      /\ top \in Nat /\ top <= ValueSize /\ ValueSize \in Nat /\ Machine!Current = FrameAt(callTop)
      /\ Machine!Current.ops = Part(slots, b, h)
  BY LoopMapped
<1>2. slots \in [0 .. ValueSize - 1 -> Values]
  BY DEF Inv, StacksInv
<1>3. n <= h /\ s = Moved(slots, top - n, l, n)
  OBVIOUS
<1> HIDE DEF l, b, h
<1>4. /\ b \in Nat /\ h \in Nat /\ b + h <= ValueSize /\ n \in 0 .. h /\ b + h - n = top - n
      /\ top - n \in Nat /\ (top - n) + n <= ValueSize /\ l \in Nat /\ l + n <= ValueSize
  BY <1>1, <1>3
<1>5. r = Part(slots, top - n, n) /\ Len(Part(slots, b, h)) = h
  <2>1. /\ Machine!LastOf(Part(slots, b, h), n) = Part(slots, b + h - n, n)
        /\ Len(Part(slots, b, h)) = h
    BY <1>2, <1>4, OperandsSplit
  <2> QED
    BY <1>1, <1>4, <2>1
<1> HIDE DEF r
<1>6. r \in Seq(Values) /\ Len(r) = n /\ \A i \in 1 .. n : r[i] = slots[(top - n) + i - 1]
  <2>1. /\ Part(slots, top - n, n) \in Seq(Values) /\ Len(Part(slots, top - n, n)) = n
        /\ \A i \in 1 .. n : Part(slots, top - n, n)[i] = slots[(top - n) + i - 1]
    BY <1>2, <1>4, PartSeq
  <2> QED
    BY <1>5, <2>1
<1>7. /\ \A j \in Nat : j < l => s[j] = slots[j]
      /\ \A i \in 1 .. n : s[l + i - 1] = slots[(top - n) + i - 1]
  <2>1. \A j \in Nat : j < l => j \in 0 .. ValueSize - 1 /\ ~(j \in l .. l + n - 1)
    BY <1>1, <1>4
  <2>2. \A i \in 1 .. n : /\ l + i - 1 \in 0 .. ValueSize - 1 /\ l + i - 1 \in l .. l + n - 1
                          /\ (top - n) + (l + i - 1) - l = (top - n) + i - 1
    BY <1>1, <1>4
  <2>3. DOMAIN slots = 0 .. ValueSize - 1
    BY <1>2
  <2> QED
    BY <1>3, <2>1, <2>2, <2>3 DEF Moved
<1>8. s \in [0 .. ValueSize - 1 -> Values]
  <2>1. l \in Int
    BY <1>4
  <2> QED
    BY <1>2, <1>3, <1>4, <2>1, MovedType
<1>9. n <= Len(Machine!Current.ops)
  BY <1>1, <1>3, <1>5
<1>10. \A i \in 1 .. n : r[i] = s[l + i - 1]
  BY <1>6, <1>7
<1> QED
  BY <1>4, <1>6, <1>7, <1>8, <1>9, <1>10 DEF l, r

\* The last return of a run gives the results to the host.
LEMMA LastReturnMapped ==
  ASSUME Inv, PreparedPlain, RunFunctions, Return, currentFrame = callTop,
         callTop - 1 = Last(control).origStack
  PROVE  Machine!Return
<1> DEFINE n == Results[Frame.fn]
           run == Last(control)
           l == Frame.locals
           s == Moved(slots, top - n, l, n)
           r == Machine!LastOf(Machine!Current.ops, n)
<1>0. /\ InGuest /\ n <= Height
      /\ callTop' = callTop - 1
      /\ slots' = PreparedResults(s, run, n)
      /\ control' = Front(control)
      /\ out' = [i \in 1 .. n |-> s[(l + n) - n + i - 1]]
      /\ callStack' = callStack
  BY DEF Return, PopCall, Frame
<1>1. /\ l \in Nat /\ Frame.fn \in Funcs /\ callTop \in Nat \ {0} /\ ValueSize \in Nat
      /\ Machine!InGuest /\ Machine!Current.fn = Frame.fn
  BY <1>0, LoopMapped
<1>2. n \in Nat
  BY <1>1, SizesNat
<1>3. /\ Len(control) \in Nat \ {0} /\ run = control[Len(control)] /\ run \in Runs /\ run.kind = "run"
      /\ callTop \in 1 .. CallSize
  BY <1>0, InLoop DEF InGuest
<1> HIDE DEF n, run, l, s, r
<1>4. /\ s \in [0 .. ValueSize - 1 -> Values]
      /\ \A j \in Nat : j < l => s[j] = slots[j]
      /\ r \in Seq(Values) /\ Len(r) = n
      /\ \A i \in 1 .. n : r[i] = s[l + i - 1]
      /\ n <= Len(Machine!Current.ops) /\ l + n <= ValueSize
  BY <1>0, <1>2, ResultsMoved DEF l, r, s
<1>5. slots' = s
  <2>1. run.origStack + 1 = callTop
    BY <1>1, <1>3 DEF run, Runs
  <2>2. Len(control) \in DOMAIN control
    BY <1>3, LenProperties DEF Inv, ControlInv
  <2>3. Frame.fn = run.fn /\ (run.prepared => run.fn \in Prepared)
    BY <1>3, <2>1, <2>2 DEF RunFunctions, Frame
  <2>4. CASE run.prepared /\ Types(run.fn) # 0
    <3>1. n = 0
      BY <2>3, <2>4 DEF PreparedPlain, n
    <3>2. run.origValue \in Nat /\ run.origValue - Types(run.fn) \in Int
      BY <1>3, SizesNat, InterpAssumption DEF Runs
    <3>3. Moved(s, run.origValue, run.origValue - Types(run.fn), 0) = s
      BY <1>4, <3>2, NothingMoved
    <3> QED
      BY <1>0, <2>4, <3>1, <3>3 DEF PreparedResults
  <2>5. CASE ~(run.prepared /\ Types(run.fn) # 0)
    BY <1>0, <2>5 DEF PreparedResults
  <2> QED
    BY <2>4, <2>5
<1>6. KeptBelow(l)
  BY <1>4, <1>5 DEF KeptBelow
<1>7. out' = r
  <2>1. \A i \in 1 .. n : (l + n) - n + i - 1 = l + i - 1
    BY <1>1, <1>2
  <2>2. out' = [i \in 1 .. n |-> r[i]]
    BY <1>0, <1>4, <2>1
  <2>3. r \in [1 .. n -> Values]
    BY <1>4, LenProperties
  <2> QED
    BY <2>2, <2>3
<1>8. PICK k \in Nat : k + 1 = Len(control) /\ k = Len(control) - 1
  <2>1. Len(control) - 1 \in Nat /\ (Len(control) - 1) + 1 = Len(control)
    BY <1>3
  <2> QED
    BY <2>1
<1>9. PICK p \in Nat : p = callTop - 1
  <2>1. callTop - 1 \in Nat
    BY <1>1
  <2> QED
    BY <2>1
<1>10. /\ control' \in Seq(Calls) /\ Len(control') = k
       /\ \A j \in 1 .. k : control'[j] = control[j]
  <2>1. control \in Seq(Calls) /\ control # <<>>
    BY <1>0 DEF Inv, ControlInv, InGuest
  <2> QED
    BY <1>0, <1>8, <2>1, FrontOfSeq
<1>11. k < Len(control) /\ control[k + 1].kind = "run" /\ control[k + 1].origStack = p
  BY <1>3, <1>8, <1>9 DEF run
<1>12. \A i \in 1 .. p : i \in 1 .. callTop /\ i # callTop /\ OpsEnd(i)' = OpsEnd(i)
  <2>1. callTop' = p
    BY <1>0, <1>9
  <2> QED
    BY <1>0, <1>10, <1>11, <2>1, EndsUnwound
<1>13. Activated' = SubSeq(Activated, 1, p)
  <2>1. ASSUME NEW i \in 1 .. p PROVE FrameAt(i)' = FrameAt(i)
    BY <1>0, <1>6, <1>12, FramesBelow DEF l
  <2>2. p <= callTop /\ callTop' = p
    BY <1>0, <1>1, <1>9
  <2> QED
    BY <2>1, <2>2, ActivatedCut
<1>14. UnderWay' = SubSeq(UnderWay, 1, k)
  <2>1. \A j \in 1 .. k : j \in 1 .. Len(control)
    BY <1>8
  <2>2. ASSUME NEW j \in 1 .. k, NEW d \in Calls, d = control[j] PROVE CallAt(d)' = CallAt(d)
    BY <1>0, <1>6, <2>1, <2>2, CallsBelow DEF l
  <2>3. k <= Len(control)
    BY <1>8
  <2> QED
    BY <1>10, <2>2, <2>3, UnderWayCut
<1>15. /\ Len(Activated) = callTop /\ callTop \in Nat
       /\ Len(UnderWay) = Len(control)
       /\ Machine!Front(Activated) = SubSeq(Activated, 1, p)
       /\ Machine!Front(UnderWay) = SubSeq(UnderWay, 1, k)
  BY <1>8, <1>9, ActivatedSeq, UnderWaySeq DEF Machine!Front
<1>16. Len(Machine!Front(Activated)) = p
  <2>1. Activated \in Seq(Activations)
    BY ActivatedSeq
  <2> QED
    BY <1>1, <1>9, <1>15, <2>1, SubSeqProperties
<1>17. Machine!Last(UnderWay).at = p
  <2>1. control # <<>>
    BY <1>0 DEF InGuest
  <2>2. Last(UnderWay) = CallAt(run)
    BY <2>1, UnderWaySeq DEF run
  <2>3. CallAt(run).at = run.origStack
    BY <1>3 DEF CallAt
  <2> QED
    BY <1>9, <2>2, <2>3 DEF Machine!Last, Last, run
<1> QED
  BY <1>0, <1>1, <1>4, <1>7, <1>13, <1>14, <1>15, <1>16, <1>17 DEF Machine!Return, r, n

\* A return to a frame of the guest gives that frame the results.
LEMMA InnerReturnMapped ==
  ASSUME Inv, Return, currentFrame = callTop, callTop - 1 # Last(control).origStack
  PROVE  Machine!Return
<1> DEFINE n == Results[Frame.fn]
           run == Last(control)
           l == Frame.locals
           s == Moved(slots, top - n, l, n)
           r == Machine!LastOf(Machine!Current.ops, n)
<1>0. /\ InGuest /\ n <= Height
      /\ callTop' = callTop - 1
      /\ slots' = s
      /\ top' = l + n
      /\ control' = control
      /\ out' = <<>>
      /\ callStack' = callStack
  BY DEF Return, PopCall, Frame
<1>1. /\ l \in Nat /\ Frame.fn \in Funcs /\ callTop \in Nat \ {0} /\ ValueSize \in Nat
      /\ Machine!InGuest /\ Machine!Current.fn = Frame.fn /\ HostCallsOf(callTop) = {}
  BY <1>0, LoopMapped
<1>2. n \in Nat
  BY <1>1, SizesNat
<1>3. /\ Len(control) \in Nat \ {0} /\ run = control[Len(control)] /\ run \in Runs /\ run.kind = "run"
      /\ run.origStack < callTop /\ run.origStack \in Nat
  BY <1>0, InLoop, InterpAssumption DEF InGuest, Runs
<1> HIDE DEF n, run, l, s, r
<1>4. /\ s \in [0 .. ValueSize - 1 -> Values]
      /\ \A j \in Nat : j < l => s[j] = slots[j]
      /\ r \in Seq(Values) /\ Len(r) = n
      /\ \A i \in 1 .. n : r[i] = s[l + i - 1]
      /\ n <= Len(Machine!Current.ops) /\ l + n <= ValueSize
  BY <1>0, <1>2, ResultsMoved DEF l, r, s
<1>5. KeptBelow(l) /\ slots' \in [0 .. ValueSize - 1 -> Values]
  BY <1>0, <1>4 DEF KeptBelow
<1>6. PICK p \in Nat : p = callTop - 1 /\ p + 1 = callTop /\ p # 0 /\ run.origStack < p
  <2>1. /\ callTop - 1 \in Nat /\ (callTop - 1) + 1 = callTop /\ callTop - 1 # 0 /\ run.origStack < callTop - 1
    BY <1>1, <1>3 DEF run
  <2> QED
    BY <2>1
<1>7. p \in 1 .. callTop /\ p # callTop /\ \A i \in 1 .. p : i \in 1 .. callTop /\ i # callTop
  BY <1>1, <1>6
<1> DEFINE g == callStack[p].fn
           x == callStack[p].locals
           y == Types(callStack[p].fn)
           caller == Machine!WithOps(FrameAt(p), FrameAt(p).ops \o r)
<1>8. HostCallsOf(p) = {}
  <2> SUFFICES ASSUME NEW k \in HostCallsOf(p) PROVE FALSE
    OBVIOUS
  <2>1. k \in 1 .. Len(control) /\ control[k].kind = "host" /\ control[k].at = p
    BY LenProperties DEF HostCallsOf, Inv, ControlInv
  <2>2. control[k].at <= run.origStack
    BY <1>0, <2>1, HostsBelow DEF run
  <2> QED
    BY <1>3, <1>6, <2>1, <2>2
<1>9. OpsEnd(p) = l /\ x \in Nat /\ y \in Nat /\ g \in Funcs /\ x + y <= l
  <2>1. OpsEnd(p) = l
    BY <1>6, <1>7, <1>8, OpsEnds DEF Above, Frame, l
  <2> QED
    BY <1>7, <2>1, FrameBounds DEF Frames
<1>10. FrameAt(p) = [fn |-> g, locals |-> Part(slots, x, y), ops |-> Part(slots, x + y, l - x - y)]
  BY <1>9 DEF FrameAt
<1> HIDE DEF g, x, y
<1>11. /\ x + y \in Nat /\ l - x - y \in Nat /\ (x + y) + (l - x - y) = l
       /\ (l + n) - x - y = (l - x - y) + n /\ (l - x - y) + n \in Nat
       /\ (x + y) + ((l - x - y) + n) <= ValueSize /\ x + y <= ValueSize
       /\ (x + y) + (l - x - y) + n <= ValueSize
  <2>1. \A i, j, k, m, v \in Nat : (i + j <= k /\ k + m <= v) =>
           /\ i + j \in Nat /\ k - i - j \in Nat /\ (i + j) + (k - i - j) = k
           /\ (k + m) - i - j = (k - i - j) + m /\ (k - i - j) + m \in Nat
           /\ (i + j) + ((k - i - j) + m) <= v /\ i + j <= v
           /\ (i + j) + (k - i - j) + m <= v
    OBVIOUS
  <2> QED
    BY <1>1, <1>2, <1>4, <1>9, <2>1
<1>12. /\ Part(slots', x, y) = Part(slots, x, y)
       /\ Part(slots', x + y, l - x - y) = Part(slots, x + y, l - x - y)
  <2>1. Part(slots', x, y) = Part(slots, x, y)
    BY <1>1, <1>5, <1>9, PartBelow
  <2>2. (x + y) + (l - x - y) <= l
    BY <1>1, <1>11
  <2>3. Part(slots', x + y, l - x - y) = Part(slots, x + y, l - x - y)
    BY <1>1, <1>5, <1>11, <2>2, PartBelow
  <2> QED
    BY <2>1, <2>3
<1>13. Part(slots, x + y, l - x - y) \o r = Part(slots', x + y, (l - x - y) + n)
  <2>1. /\ (x + y) + (l - x - y) + Len(r) <= ValueSize
        /\ \A i \in 1 .. Len(r) : r[i] = slots'[(x + y) + (l - x - y) + i - 1]
    BY <1>0, <1>4, <1>11
  <2>2. Part(slots', x + y, l - x - y) \o r = Part(slots', x + y, (l - x - y) + Len(r))
    BY <1>4, <1>5, <1>11, <2>1, PartsJoined
  <2> QED
    BY <1>4, <1>12, <2>2
<1>14. caller = [fn |-> g, locals |-> Part(slots', x, y), ops |-> Part(slots', x + y, (l - x - y) + n)]
  <2>1. FrameAt(p).ops = Part(slots, x + y, l - x - y)
    BY <1>10
  <2>2. caller = [fn |-> g, locals |-> Part(slots, x, y), ops |-> Part(slots, x + y, l - x - y) \o r]
    <3> DEFINE q == FrameAt(p).ops \o r
    <3>1. q = Part(slots, x + y, l - x - y) \o r
      BY <2>1
    <3> HIDE DEF q
    <3>2. Machine!WithOps(FrameAt(p), q) = [fn |-> g, locals |-> Part(slots, x, y), ops |-> q]
      BY <1>10, WithOpsOf
    <3> QED
      BY <3>1, <3>2 DEF q
  <2> HIDE DEF caller
  <2> QED
    BY <1>12, <1>13, <2>2
<1> HIDE DEF caller
<1>15. ASSUME NEW i \in 1 .. p, i # p PROVE FrameAt(i)' = FrameAt(i)
  <2>1. OpsEnd(i)' = OpsEnd(i)
    <3>1. Above(i)' = Above(i)
      BY <1>0, <1>6, <1>7, <1>15 DEF Above
    <3> QED
      BY <1>0, <3>1, EndKept DEF HostCallsOf
  <2> QED
    BY <1>0, <1>5, <1>7, <2>1, FramesBelow DEF l
<1>16. ASSUME NEW i \in 1 .. p, i = p PROVE FrameAt(i)' = caller
  <2>1. HostCallsOf(i)' = {}
    BY <1>0, <1>8, <1>16 DEF HostCallsOf
  <2>2. OpsEnd(i)' = l + n
    BY <1>0, <1>6, <1>16, <2>1 DEF OpsEnd
  <2>3. callStack'[i].fn = g /\ callStack'[i].locals = x /\ Types(g) = y
    BY <1>0, <1>16 DEF g, x, y
  <2>4. FrameAt(i)' = [fn |-> g, locals |-> Part(slots', x, y), ops |-> Part(slots', x + y, (l + n) - x - y)]
    BY <2>2, <2>3, FrameNext
  <2> QED
    BY <1>11, <1>14, <2>4
<1>17. caller \in Activations
  <2>1. Part(slots', x, y) \in Seq(Values)
    BY <1>5, <1>9, <1>11, PartSeq
  <2>2. Part(slots', x + y, (l - x - y) + n) \in Seq(Values)
    BY <1>5, <1>11, PartSeq
  <2> QED
    BY <1>9, <1>14, <2>1, <2>2 DEF Activations
<1> DEFINE below == SubSeq(Activated, 1, p)
<1>18. /\ below \in Seq(Activations) /\ Len(below) = p /\ below # <<>>
       /\ \A i \in 1 .. p : below[i] = FrameAt(i)
       /\ Machine!Front(Activated) = below
  <2>1. Activated \in Seq(Activations) /\ Len(Activated) = callTop
        /\ \A i \in 1 .. callTop : Activated[i] = FrameAt(i)
    BY ActivatedSeq
  <2>2. below \in Seq(Activations) /\ Len(below) = p /\ \A i \in 1 .. p : below[i] = Activated[i]
    <3>1. \A i \in 1 .. p : i \in 1 .. Len(Activated)
      BY <1>7, <2>1
    <3> QED
      BY <2>1, <3>1, SubSeqProperties
  <2>3. Machine!Front(Activated) = below
    BY <1>6, <2>1 DEF Machine!Front
  <2> HIDE DEF below
  <2> QED
    BY <1>6, <1>7, <2>1, <2>2, <2>3, EmptySeq
<1> HIDE DEF below
<1>19. Activated' = Append(Machine!Front(below), caller)
  <2> DEFINE u == Append(Front(below), caller)
  <2>1. u \in [1 .. p -> Activations] /\ \A i \in 1 .. p : u[i] = IF i = p THEN caller ELSE below[i]
    BY <1>17, <1>18, LastReplaced
  <2> HIDE DEF u
  <2>2. \A i \in 1 .. p : FrameAt(i)' = u[i]
    BY <1>15, <1>16, <1>18, <2>1
  <2>3. callTop' = p
    BY <1>0, <1>6
  <2>4. Activated' = u
    BY <2>1, <2>2, <2>3 DEF Activated
  <2> QED
    BY <2>4 DEF u, Machine!Front, Front
<1>20. UnderWay' = UnderWay
  <2>1. DOMAIN control = 1 .. Len(control)
    BY LenProperties DEF Inv, ControlInv
  <2>2. ASSUME NEW k \in 1 .. Len(control) PROVE CallAt(control[k])' = CallAt(control[k])
    <3>1. PICK d \in Calls : d = control[k]
      BY CallsOf DEF Inv
    <3>2. CallAt(d)' = CallAt(d)
      BY <1>0, <1>5, <3>1, CallsBelow DEF l
    <3>3. control'[k] = d
      BY <1>0, <3>1
    <3> QED
      BY <3>1, <3>2, <3>3 DEF CallAt
  <2> QED
    BY <1>0, <2>1, <2>2 DEF UnderWay
<1>21. /\ Machine!Last(below) = FrameAt(p)
       /\ Len(below) # Machine!Last(UnderWay).at
  <2>1. Machine!Last(below) = FrameAt(p)
    BY <1>6, <1>7, <1>18 DEF Machine!Last
  <2>2. control # <<>>
    BY <1>0 DEF InGuest
  <2>3. Last(UnderWay) = CallAt(run)
    BY <2>2, UnderWaySeq DEF run
  <2>4. CallAt(run).at = run.origStack
    BY <1>3 DEF CallAt
  <2> QED
    BY <1>3, <1>6, <1>18, <2>1, <2>3, <2>4 DEF Machine!Last, Last
<1> QED
  BY <1>0, <1>1, <1>4, <1>18, <1>19, <1>20, <1>21 DEF Machine!Return, r, n, caller
-----------------------------------------------------------------------------
(* Every step *)

\* No step but the beginning of a run changes what RunFunctions speaks of.
LEMMA RunFunctionsStay ==
  ASSUME Inv, RunFunctions,
         \A i \in 1 .. callTop : callStack'[i] = callStack[i],
         \A k \in DOMAIN control' :
           control'[k].kind = "run" => k \in DOMAIN control /\ control'[k] = control[k]
  PROVE  RunFunctions'
<1> SUFFICES ASSUME NEW k \in DOMAIN control', control'[k].kind = "run"
             PROVE  /\ callStack'[control'[k].origStack + 1].fn = control'[k].fn
                    /\ control'[k].prepared => control'[k].fn \in Prepared
  BY DEF RunFunctions
<1>1. k \in 1 .. Len(control) /\ k \in DOMAIN control /\ control'[k] = control[k]
  BY LenProperties DEF Inv, ControlInv
<1>2. control[k] \in Runs /\ RunInv(control[k])
  BY <1>1, CallsOf DEF Inv, ControlInv
<1>3. control[k].origStack + 1 \in 1 .. callTop
  <2>1. callTop \in Nat /\ control[k].origStack \in Nat /\ control[k].origStack < callTop
    BY <1>2, InterpAssumption DEF Inv, StacksInv, Runs, RunInv
  <2> QED
    BY <2>1
<1> QED
  BY <1>1, <1>3 DEF RunFunctions

LEMMA FrontKeepsRuns ==
  ASSUME Inv, control # <<>>
  PROVE  \A k \in DOMAIN Front(control) : k \in DOMAIN control /\ Front(control)[k] = control[k]
<1>1. control \in Seq(Calls) /\ Len(control) \in Nat /\ DOMAIN control = 1 .. Len(control)
  BY LenProperties DEF Inv, ControlInv
<1>2. /\ Front(control) \in Seq(Calls) /\ Len(Front(control)) = Len(control) - 1
      /\ \A k \in 1 .. Len(control) - 1 : Front(control)[k] = control[k]
  BY <1>1, FrontOfSeq
<1>3. DOMAIN Front(control) = 1 .. Len(control) - 1
  BY <1>2, LenProperties
<1>4. \A k \in 1 .. Len(control) - 1 : k \in 1 .. Len(control)
  BY <1>1
<1> QED
  BY <1>1, <1>2, <1>3, <1>4

LEMMA RunFunctionsKept ==
  ASSUME Inv, RunFunctions, Next
  PROVE  RunFunctions'
<1>0. callTop \in Nat /\ \A i \in 1 .. callTop : i # callTop + 1
  BY DEF Inv, StacksInv
<1>1. ASSUME UNCHANGED <<callStack, control>> PROVE RunFunctions'
  BY <1>1 DEF RunFunctions
<1>2. ASSUME UNCHANGED callStack, control # <<>>, control' = Front(control) PROVE RunFunctions'
  BY <1>2, FrontKeepsRuns, RunFunctionsStay
<1>3. CASE Operation
  BY <1>1, <1>3 DEF Operation, Push, Drop, GetLocal, SetLocal, TeeLocal, EndBlock, Loop
<1>4. ASSUME NEW f \in Callees, Call(f) PROVE RunFunctions'
  <2>1. control' = control /\ callStack' = [callStack EXCEPT ![callTop + 1] = [fn |-> f, locals |-> top - Types(f)]]
    BY <1>4 DEF Call, PushFrame
  <2>2. \A i \in 1 .. callTop : callStack'[i] = callStack[i]
    BY <1>0, <2>1 DEF Inv, StacksInv
  <2> QED
    BY <2>1, <2>2, RunFunctionsStay
<1>5. ASSUME NEW h \in Hosts, CallHost(h) PROVE RunFunctions'
  <2>1. PICK c : control' = Append(control, c) /\ c.kind = "host"
    BY <1>5 DEF CallHost
  <2>2. callStack' = callStack
    BY <1>5 DEF CallHost
  <2> DEFINE n == Len(control)
  <2>3. n \in Nat /\ DOMAIN control = 1 .. n /\ control \in Seq(Calls)
    BY LenProperties DEF Inv, ControlInv
  <2>4. /\ DOMAIN control' = 1 .. n + 1
        /\ \A k \in 1 .. n : control'[k] = control[k]
        /\ control'[n + 1] = c
    BY <2>1, <2>3
  <2>5. \A k \in 1 .. n + 1 : k \in 1 .. n \/ k = n + 1
    BY <2>3
  <2> QED
    BY <2>1, <2>2, <2>3, <2>4, <2>5, RunFunctionsStay
<1>6. CASE Return
  BY <1>1, <1>2, <1>6 DEF Return, InGuest
<1>7. CASE Trap
  BY <1>2, <1>7 DEF Trap, InGuest
<1>8. ASSUME NEW f \in Funcs, NEW kind \in {"run", "prepare"}, NEW args \in Tuples(Params[f]),
             Enter(f, args, kind)
      PROVE  RunFunctions'
  <2>1. PICK c : /\ control' = Append(control, c) /\ c.fn = f /\ c.origStack = callTop
                 /\ c.prepared => f \in Prepared
    <3>1. control' = Append(control, Activation(kind, f)) /\ kind = (IF f \in Prepared THEN "prepare" ELSE "run")
      BY <1>8 DEF Enter
    <3>2. Activation(kind, f).fn = f /\ Activation(kind, f).origStack = callTop
      BY DEF Activation
    <3>3. Activation(kind, f).prepared = (kind = "prepare")
      BY DEF Activation
    <3> QED
      BY <3>1, <3>2, <3>3
  <2>2. /\ callStack' = [callStack EXCEPT ![callTop + 1] = [fn |-> f, locals |-> top]]
        /\ callTop < CallSize
    BY <1>8 DEF Enter, PushFrame
  <2>3. /\ \A i \in 1 .. callTop : callStack'[i] = callStack[i]
        /\ callStack'[callTop + 1].fn = f
    <3>1. callTop + 1 \in 1 .. CallSize
      BY <1>0, <2>2, InterpAssumption
    <3> QED
      BY <1>0, <2>2, <3>1 DEF Inv, StacksInv
  <2> DEFINE n == Len(control)
  <2>4. n \in Nat /\ DOMAIN control = 1 .. n /\ control \in Seq(Calls)
    BY LenProperties DEF Inv, ControlInv
  <2>5. /\ DOMAIN control' = 1 .. n + 1
        /\ \A k \in 1 .. n : control'[k] = control[k]
        /\ control'[n + 1] = c
    BY <2>1, <2>4
  <2>6. ASSUME NEW k \in DOMAIN control', control'[k].kind = "run"
        PROVE  /\ callStack'[control'[k].origStack + 1].fn = control'[k].fn
               /\ control'[k].prepared => control'[k].fn \in Prepared
    <3>1. CASE k \in 1 .. n
      <4>1. control[k] \in Runs /\ RunInv(control[k]) /\ control'[k] = control[k]
        BY <2>5, <2>6, <3>1, CallsOf DEF Inv, ControlInv
      <4>2. control[k].origStack + 1 \in 1 .. callTop
        <5>1. control[k].origStack \in Nat /\ control[k].origStack < callTop
          BY <4>1, InterpAssumption DEF Runs, RunInv
        <5> QED
          BY <1>0, <5>1
      <4> QED
        BY <2>3, <2>4, <2>6, <3>1, <4>1, <4>2 DEF RunFunctions
    <3>2. CASE k = n + 1
      BY <2>1, <2>3, <2>5, <3>2
    <3> QED
      BY <2>4, <2>5, <3>1, <3>2
  <2> QED
    BY <2>6 DEF RunFunctions
<1>9. ASSUME NEW f \in Funcs, NEW args \in Tuples(Params[f]), EnterTraps(f, args) PROVE RunFunctions'
  BY <1>1, <1>9 DEF EnterTraps
<1>10. ASSUME control # <<>>, NEW results \in Tuples(Results[Last(control).fn]), HostReturns(results)
       PROVE  RunFunctions'
  BY <1>2, <1>10 DEF HostReturns
<1>11. CASE HostTraps
  <2>1. Len(control) >= 2 /\ control' = Front(Front(control)) /\ callStack' = callStack
    BY <1>11 DEF HostTraps
  <2>2. control \in Seq(Calls) /\ Len(control) \in Nat /\ control # <<>>
    BY <2>1, LenProperties, EmptySeq DEF Inv, ControlInv
  <2>3. /\ Front(control) \in Seq(Calls) /\ Len(Front(control)) = Len(control) - 1
        /\ \A k \in 1 .. Len(control) - 1 : Front(control)[k] = control[k]
    BY <2>2, FrontOfSeq
  <2>4. Front(control) # <<>>
    BY <2>1, <2>2, <2>3, EmptySeq
  <2>5. /\ Front(Front(control)) \in Seq(Calls) /\ Len(Front(Front(control))) = Len(control) - 1 - 1
        /\ \A k \in 1 .. Len(control) - 1 - 1 : Front(Front(control))[k] = Front(control)[k]
    BY <2>3, <2>4, FrontOfSeq
  <2>6. DOMAIN control' = 1 .. Len(control) - 1 - 1 /\ DOMAIN control = 1 .. Len(control)
    BY <2>1, <2>2, <2>5, LenProperties
  <2>7. \A k \in 1 .. Len(control) - 1 - 1 : k \in 1 .. Len(control) - 1 /\ k \in 1 .. Len(control)
    BY <2>2
  <2>8. \A k \in DOMAIN control' : k \in DOMAIN control /\ control'[k] = control[k]
    BY <2>1, <2>3, <2>5, <2>6, <2>7
  <2> QED
    BY <2>1, <2>8, RunFunctionsStay
<1> QED
  BY <1>3, <1>4, <1>5, <1>6, <1>7, <1>8, <1>9, <1>10, <1>11 DEF Next, Transfer, Host

LEMMA StepMapped ==
  ASSUME FramesKept, PreparedPlain, Inv, RunFunctions, Next
  PROVE  Machine!Next
<1>1. CASE Operation
  BY <1>1, OperationMapped
<1>2. ASSUME NEW f \in Callees, Call(f) PROVE Machine!Next
  BY <1>2, CallMapped DEF FramesKept, Machine!Next
<1>3. ASSUME NEW h \in Hosts, CallHost(h) PROVE Machine!Next
  BY <1>3, CallHostMapped DEF Machine!Next
<1>4. CASE Return
  <2>1. currentFrame = callTop
    BY <1>4 DEF Return, FramesKept
  <2>2. Machine!Return
    BY <1>4, <2>1, LastReturnMapped, InnerReturnMapped
  <2> QED
    BY <2>2 DEF Machine!Next
<1>5. CASE Trap
  BY <1>5, TrapMapped DEF Machine!Next
<1>6. ASSUME NEW f \in Funcs, NEW kind \in {"run", "prepare"}, NEW args \in Tuples(Params[f]),
             Enter(f, args, kind)
      PROVE  Machine!Next
  <2>1. Machine!Enter(f, args)
    BY <1>6, EnterMapped
  <2> QED
    BY <2>1 DEF Machine!Next, Machine!Tuples, Tuples
<1>7. ASSUME NEW f \in Funcs, NEW args \in Tuples(Params[f]), EnterTraps(f, args)
      PROVE  Machine!Next
  BY <1>7, EnterTrapsMapped DEF Machine!Next
<1>8. ASSUME control # <<>>, NEW results \in Tuples(Results[Last(control).fn]), HostReturns(results)
      PROVE  Machine!Next
  <2>1. Machine!HostReturns(results)
    BY <1>8, HostReturnsMapped
  <2>2. UnderWay # <<>> /\ Machine!Last(UnderWay).fn = Last(control).fn
    <3>1. UnderWay # <<>> /\ Last(UnderWay) = CallAt(Last(control))
      BY <1>8, UnderWaySeq
    <3>2. CallAt(Last(control)).fn = Last(control).fn
      BY DEF CallAt
    <3> QED
      BY <3>1, <3>2 DEF Machine!Last, Last
  <2>3. results \in Machine!Tuples(Results[Machine!Last(UnderWay).fn])
    BY <1>8, <2>2 DEF Machine!Tuples, Tuples
  <2> QED
    BY <2>1, <2>2, <2>3 DEF Machine!Next
<1>9. CASE HostTraps
  BY <1>9, HostTrapsMapped DEF Machine!Next
<1> QED
  BY <1>1, <1>2, <1>3, <1>4, <1>5, <1>6, <1>7, <1>8, <1>9 DEF Next, Transfer, Host

\* Whatever the functions are, and however large the stacks: every call keeps its
\* own locals, operands and arguments through calls, returns, block ends, traps and
\* calls back from host functions (ThreadUtils.cc and Thread.cpp), as long as guest
\* code calls functions without declared locals, a frame returns when the loop has
\* it, and Prepare is for functions without results or without locals.
THEOREM CallsImplemented ==
  ASSUME FramesKept, PreparedPlain
  PROVE  Spec => ImplementsMachine
<1> DEFINE J == Inv /\ RunFunctions
<1>1. Init => J
  BY InitKeeps DEF Init, RunFunctions
<1>2. J /\ [Next]_vars => J'
  <2> SUFFICES ASSUME J, [Next]_vars PROVE J'
    OBVIOUS
  <2>1. Inv'
    BY StepKeeps
  <2>2. CASE Next
    BY <2>1, <2>2, RunFunctionsKept
  <2>3. CASE UNCHANGED vars
    BY <2>1, <2>3 DEF vars, RunFunctions
  <2> QED
    BY <2>2, <2>3
<1>3. Init => Machine!Init
  <2> SUFFICES ASSUME Init PROVE Machine!Init
    OBVIOUS
  <2>1. Inv /\ callTop = 0 /\ control = <<>> /\ out = <<>>
    BY InitKeeps DEF Init
  <2>2. Activated = <<>>
    BY <2>1 DEF Activated
  <2>3. UnderWay = <<>>
    BY <2>1, UnderWaySeq
  <2> QED
    BY <2>1, <2>2, <2>3 DEF Machine!Init
<1>4. J /\ [Next]_vars => [Machine!Next]_(Machine!vars)
  <2> SUFFICES ASSUME J, [Next]_vars PROVE [Machine!Next]_(Machine!vars)
    OBVIOUS
  <2>1. CASE Next
    BY <2>1, StepMapped
  <2>2. CASE UNCHANGED vars
    <3>1. UNCHANGED <<Activated, UnderWay, out>>
      BY <2>2 DEF vars, Activated, UnderWay, FrameAt, CallAt, OpsEnd, HostCallsOf, Types, Part
    <3> QED
      BY <3>1 DEF Machine!vars
  <2> QED
    BY <2>1, <2>2
<1> HIDE DEF J
<1>5. QED
  BY <1>1, <1>2, <1>3, <1>4, PTL DEF Spec, ImplementsMachine, Machine!Spec
=============================================================================
