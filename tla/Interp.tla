------------------------------- MODULE Interp -------------------------------
(***************************************************************************)
(* One Thread of the interpreter (src/wasm/Thread.cpp, ThreadUtils.cc): a  *)
(* value stack that holds the locals and the operands of every activation, *)
(* a call stack of frames, and Run, which a host function may call again.  *)
(*                                                                         *)
(* The guest is any code the type checker accepts: an opcode that takes n  *)
(* operands runs only where the frame has them, and the jumps are left     *)
(* out, since a frame goes on with any opcode.  Opcodes that differ only   *)
(* in the value they compute are one action.  Locking is in ThreadSync.    *)
(***************************************************************************)
EXTENDS Integers, SequencesExt

CONSTANTS Funcs,       \* the guest's functions
          Hosts,       \* the host's functions, imported by the guest
          Callees,     \* the functions guest code calls
          Prepared,    \* the functions the host calls by Prepare, not by Run
          Params, Results,  \* [Funcs \cup Hosts -> Nat], sizes of sig's vectors
          Declared,    \* [Funcs -> Nat], types.size() - sig->params.size()
          Values, Zero,
          ValueSize,   \* _valueStack.size()
          CallSize,    \* _callStack.size()
          StaleReturn  \* may a frame return before the loop picks it up again
                       \*   after a host function has run guest code?

ASSUME InterpAssumption == /\ Funcs \cap Hosts = {}
                           /\ Callees \subseteq Funcs
                           /\ Prepared \subseteq Funcs
                           /\ Params \in [Funcs \cup Hosts -> Nat]
                           /\ Results \in [Funcs \cup Hosts -> Nat]
                           /\ Declared \in [Funcs -> Nat]
                           /\ Zero \in Values
                           /\ ValueSize \in Nat \ {0}
                           /\ CallSize \in Nat \ {0}
                           /\ StaleReturn \in BOOLEAN

VARIABLES slots,         \* _valueStack
          top,           \* _valueStackTop
          callStack,     \* _callStack: func and locals of each frame, the popped
                         \*   ones included
          callTop,       \* _callStackTop
          currentFrame,  \* _currentFrame, the index of the frame; 0 is nullptr
          control,       \* the calls of Run and of host functions under way
          out            \* the results Run has just copied to its caller, if any

vars == <<slots, top, callStack, callTop, currentFrame, control, out>>

Types(f) == Params[f] + Declared[f]
Larger(a, b) == IF a >= b THEN a ELSE b

\* memmove of n values.
Moved(s, from, to, n) == [i \in DOMAIN s |-> IF i \in to .. to + n - 1
                                               THEN s[from + i - to] ELSE s[i]]
\* memcpy of the tuple t to the slots from base on.
Written(s, base, t) == [i \in DOMAIN s |-> IF i - base + 1 \in DOMAIN t
                                             THEN t[i - base + 1] ELSE s[i]]
\* The n values of a stack from place base on.
Part(s, base, n) == [i \in 1 .. n |-> s[base + i - 1]]

NoFrame == [fn |-> "none", locals |-> 0]

\* init
Init == /\ slots = [i \in 0 .. ValueSize - 1 |-> Zero]
        /\ top = 0
        /\ callStack = [i \in 1 .. CallSize |-> NoFrame]
        /\ callTop = 0
        /\ currentFrame = 0
        /\ control = <<>>
        /\ out = <<>>

\* The thread is in the opcode loop, or in the host.
InGuest == control # <<>> /\ Last(control).kind = "run"
InHost == control # <<>> => Last(control).kind = "host"

\* The frame the loop executes: its local variables func and locals.
Frame == callStack[callTop]
OpsBase == Frame.locals + Types(Frame.fn)
Height == top - OpsBase
-----------------------------------------------------------------------------
(* Entering from the host *)

\* PushLocals: room for the locals and for the results.
RoomFor(f) == top + Larger(Types(f), Results[f]) <= ValueSize

\* Mutant: the declared locals keep what the stack has held.
LocalsNotCleared(f, args) == Written(slots, top, args)

\* The slots with the locals of f at the top of the stack.
WithLocals(f, args) ==
    Written(slots, top, args \o [i \in 1 .. Declared[f] |-> Zero])

Activation(kind, f) == [kind |-> "run", prepared |-> kind = "prepare", fn |-> f,
                        origStack |-> callTop, origValue |-> top]

PushFrame(f, locals) ==
    /\ callTop < CallSize
    /\ callStack' = [callStack EXCEPT ![callTop + 1] = [fn |-> f, locals |-> locals]]
    /\ callTop' = callTop + 1
    /\ currentFrame' = callTop + 1

\* Run (from the host) and Prepare: PushLocals, PushCall, and the loop picks the
\* new frame up.
Enter(f, args, kind) ==
    /\ InHost
    /\ RoomFor(f)
    /\ kind = (IF f \in Prepared THEN "prepare" ELSE "run")
    /\ slots' = WithLocals(f, args)
    /\ top' = top + Types(f)
    /\ PushFrame(f, top)
    /\ control' = Append(control, Activation(kind, f))
    /\ out' = <<>>

\* Run where PushCall traps: top is left above the locals.  (Where PushLocals
\* traps, and in Prepare, nothing has changed yet.)
EnterTraps(f, args) ==
    /\ InHost
    /\ f \notin Prepared
    /\ RoomFor(f)
    /\ callTop = CallSize
    /\ slots' = WithLocals(f, args)
    /\ top' = top + Types(f)
    /\ UNCHANGED <<callStack, callTop, currentFrame, control>>
    /\ out' = <<>>
-----------------------------------------------------------------------------
(* Opcodes on the frame's own locals and operands *)

Loop == /\ out' = <<>>
        /\ UNCHANGED <<callStack, callTop, currentFrame, control>>

\* Mutant: CHECK_STACK lets one value too many through.
PushPastEnd(v) == /\ InGuest
                  /\ top <= ValueSize
                  /\ slots' = [slots EXCEPT ![top] = v]
                  /\ top' = top + 1
                  /\ Loop

\* A constant, or any opcode that pushes its result.
Push(v) == /\ InGuest
           /\ top < ValueSize
           /\ slots' = [slots EXCEPT ![top] = v]
           /\ top' = top + 1
           /\ Loop

\* Drop, and any opcode that takes an operand.
Drop == /\ InGuest
        /\ Height >= 1
        /\ top' = top - 1
        /\ UNCHANGED slots
        /\ Loop

GetLocal(i) == Push(slots[Frame.locals + i])

SetLocal(i) == /\ InGuest
               /\ Height >= 1
               /\ slots' = [slots EXCEPT ![Frame.locals + i] = slots[top - 1]]
               /\ top' = top - 1
               /\ Loop

TeeLocal(i) == /\ InGuest
               /\ Height >= 1
               /\ slots' = [slots EXCEPT ![Frame.locals + i] = slots[top - 1]]
               /\ UNCHANGED top
               /\ Loop

\* Mutant: the results of a block go over the frame's locals.
StoreOverLocals(kept, n) == /\ slots' = Moved(slots, top - n, Frame.locals + kept, n)
                            /\ top' = Frame.locals + kept + n

StoreResult(kept, n) == /\ slots' = Moved(slots, top - n, OpsBase + kept, n)
                        /\ top' = OpsBase + kept + n

\* End of a block, where kept operands lie below its n results.
EndBlock(kept, n) == /\ InGuest
                     /\ kept + n <= Height
                     /\ StoreResult(kept, n)
                     /\ Loop
-----------------------------------------------------------------------------
(* Calls and returns *)

\* Call and CallIndirect to a guest function: the callee's locals start
\* types.size() below the top.  What a frame below the array does is left out.
Call(f) == /\ InGuest
           /\ Params[f] <= Height
           /\ Types(f) <= top
           /\ PushFrame(f, top - Types(f))
           /\ out' = <<>>
           /\ UNCHANGED <<slots, top, control>>

\* Call to a host function: its arguments stay on the stack while it runs.
CallHost(h) ==
    LET newTop == top - Params[h] + Results[h]
    IN /\ InGuest
       /\ Params[h] <= Height
       /\ newTop < ValueSize
       /\ control' = Append(control, [kind |-> "host", fn |-> h, newTop |-> newTop,
                                      base |-> top - Params[h], at |-> callTop])
       /\ out' = <<>>
       /\ UNCHANGED <<slots, top, callStack, callTop, currentFrame>>

\* Mutant: the stack keeps the host function's arguments.
HostKeepsArgs(results) ==
    /\ control # <<>>
    /\ InHost
    /\ slots' = Written(slots, top, results)
    /\ top' = top + Len(results)
    /\ control' = Front(control)
    /\ out' = <<>>
    /\ UNCHANGED <<callStack, callTop, currentFrame>>

\* The host function has written its results over its arguments and returns Ok;
\* the opcode loop goes on with the same frame, but _currentFrame may be that of
\* a Run the host function has made.
HostReturns(results) ==
    /\ control # <<>>
    /\ InHost
    /\ slots' = Written(slots, Last(control).base, results)
    /\ top' = Last(control).newTop
    /\ control' = Front(control)
    /\ out' = <<>>
    /\ UNCHANGED <<callStack, callTop, currentFrame>>

\* Mutant: PopCall cuts the stack but does not move the results down.
PopCallUnmoved(locals, n) == [s |-> slots, t |-> locals + n]

\* PopCall: the n results go to where the frame's locals were.
PopCall(locals, n) == [s |-> Moved(slots, top - n, locals, n), t |-> locals + n]

\* What Prepare does to the results of its function: it moves them to before the
\* slots it has used.
PreparedResults(s, run, n) ==
    LET to == run.origValue - Types(run.fn)
    IN IF run.prepared /\ Types(run.fn) # 0 THEN Moved(s, run.origValue, to, n) ELSE s

\* Return, and the end of a function's code.  PopCall takes the locals from
\* _currentFrame.  If this was the function Run has been called with, Run gives
\* the results to its caller.
Return ==
    LET n == Results[Frame.fn]
        run == Last(control)
        popped == PopCall(callStack[currentFrame].locals, n)
        ends == callTop - 1 = run.origStack
    IN /\ InGuest
       /\ n <= Height
       /\ StaleReturn \/ currentFrame = callTop
       /\ callTop' = callTop - 1
       /\ slots' = IF ends THEN PreparedResults(popped.s, run, n) ELSE popped.s
       /\ top' = IF ~ends THEN popped.t
                 ELSE IF run.prepared THEN run.origValue ELSE popped.t - n
       /\ currentFrame' = IF ends THEN currentFrame ELSE callTop - 1
       /\ control' = IF ends THEN Front(control) ELSE control
       /\ out' = IF ends THEN [i \in 1 .. n |-> popped.s[popped.t - n + i - 1]] ELSE <<>>
       /\ UNCHANGED callStack

\* Mutant: a trap leaves the values of the abandoned frames on the stack.
UnwindKeepsValues(run) == callTop' = run.origStack /\ UNCHANGED top

\* What Run does when its loop ends with a trap.
Unwind(run) == /\ callTop' = run.origStack
               /\ top' = run.origValue

\* Any trap of the loop: Unreachable, a push or a call without room, an access
\* out of bounds.
Trap == /\ InGuest
        /\ Unwind(Last(control))
        /\ control' = Front(control)
        /\ out' = <<>>
        /\ UNCHANGED <<slots, callStack, currentFrame>>

\* A host function returns an error: TrapHostTrapped ends the Run it is in.
HostTraps == /\ InHost
             /\ Len(control) >= 2
             /\ Unwind(control[Len(control) - 1])
             /\ control' = Front(Front(control))
             /\ out' = <<>>
             /\ UNCHANGED <<slots, callStack, currentFrame>>
-----------------------------------------------------------------------------
Tuples(n) == [1 .. n -> Values]

Operation == \/ \E v \in Values : Push(v)
             \/ Drop
             \/ /\ InGuest
                /\ \E i \in 0 .. Types(Frame.fn) - 1 :
                     GetLocal(i) \/ SetLocal(i) \/ TeeLocal(i)
             \/ /\ InGuest
                /\ \E kept, n \in 0 .. Height : EndBlock(kept, n)

Transfer == \/ \E f \in Callees : Call(f)
            \/ \E h \in Hosts : CallHost(h)
            \/ Return
            \/ Trap

Host == \/ \E f \in Funcs, kind \in {"run", "prepare"} : \E args \in Tuples(Params[f]) :
             Enter(f, args, kind)
        \/ \E f \in Funcs : \E args \in Tuples(Params[f]) : EnterTraps(f, args)
        \/ /\ control # <<>>
           /\ \E results \in Tuples(Results[Last(control).fn]) : HostReturns(results)
        \/ HostTraps

Next == Operation \/ Transfer \/ Host

Spec == Init /\ [][Next]_vars
-----------------------------------------------------------------------------
(* Properties *)

Runs == [kind : {"run"}, prepared : BOOLEAN, fn : Funcs,
         origStack : 0 .. CallSize, origValue : 0 .. ValueSize]
HostCalls == [kind : {"host"}, fn : Hosts, newTop : 0 .. ValueSize,
              base : 0 .. ValueSize, at : 1 .. CallSize]

\* The types, and the sizes of the two stacks: no push leaves the arrays.
TypeOK == /\ slots \in [0 .. ValueSize - 1 -> Values]
          /\ top \in 0 .. ValueSize
          /\ callStack \in [1 .. CallSize -> [fn : Funcs, locals : 0 .. ValueSize] \cup {NoFrame}]
          /\ callTop \in 0 .. CallSize
          /\ currentFrame \in 0 .. CallSize
          /\ \A i \in DOMAIN control : control[i] \in Runs \cup HostCalls
          /\ out \in Seq(Values)

\* The host call a frame waits for, if any, and where its operands end.
HostCallsOf(i) == {k \in DOMAIN control : control[k].kind = "host" /\ control[k].at = i}
OpsEnd(i) == IF HostCallsOf(i) # {}
             THEN control[CHOOSE k \in HostCallsOf(i) : TRUE].base
             ELSE IF i = callTop THEN top ELSE callStack[i + 1].locals

\* The frames lie one above the other on the value stack: the locals and operands
\* of a frame end before those of the next one begin, and the arguments of a
\* pending host function lie between them (PushCall, PopCall, StoreResult). When no
\* call is under way nothing is left on either stack, whatever traps, host functions
\* and calls back there have been (the end of Run).
FramesStacked ==
    /\ TypeOK
    /\ \A i \in 1 .. callTop :
         /\ callStack[i].locals + Types(callStack[i].fn) <= OpsEnd(i)
         /\ OpsEnd(i) <= (IF i = callTop THEN top ELSE callStack[i + 1].locals)
         /\ \A k \in HostCallsOf(i) :
              control[k].base + Params[control[k].fn]
                <= (IF i = callTop THEN top ELSE callStack[i + 1].locals)
    /\ control = <<>> => top = 0 /\ callTop = 0

\* A function's declared locals start at zero (PushLocals; the guest's own calls
\* make their frames in PushCall alone).
LocalsStartZero ==
    [][callTop' > callTop =>
         LET new == callStack'[callTop']
         IN \A i \in Params[new.fn] .. Types(new.fn) - 1 : slots'[new.locals + i] = Zero]_vars

\* The flat stacks implement activations with locals and operands of their own:
\* those of frame i, and what is to be seen of the call c of Run or of a host
\* function.
FrameAt(i) == LET fn == callStack[i].fn
                  base == callStack[i].locals
              IN [fn |-> fn,
                  locals |-> Part(slots, base, Types(fn)),
                  ops |-> Part(slots, base + Types(fn), OpsEnd(i) - base - Types(fn))]
CallAt(c) == IF c.kind = "run"
             THEN [kind |-> "run", at |-> c.origStack, fn |-> c.fn, args |-> <<>>]
             ELSE [kind |-> "host", at |-> c.at, fn |-> c.fn,
                   args |-> Part(slots, c.base, Params[c.fn])]

Activated == [i \in 1 .. callTop |-> FrameAt(i)]
UnderWay == [k \in DOMAIN control |-> CallAt(control[k])]

Machine == INSTANCE CallMachine WITH frames <- Activated, control <- UnderWay

\* Every step of the interpreter is a step of CallMachine or changes nothing a
\* function or a host can see: no call, return, block end, trap or call back from
\* a host function touches the locals, operands or arguments of another one.
ImplementsMachine == Machine!Spec
=============================================================================
