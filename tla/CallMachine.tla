---------------------------- MODULE CallMachine ----------------------------
(***************************************************************************)
(* What a call promises in WebAssembly: every activation of a function has *)
(* locals and operands of its own.  A call takes its arguments from the    *)
(* caller's operands, starts with its declared locals at zero and gives    *)
(* back its results; a trap ends every activation of the run it is in and  *)
(* leaves those of the runs below alone.  Interp is the implementation.    *)
(***************************************************************************)
EXTENDS Integers, SequencesExt

CONSTANTS Funcs, Hosts, Callees, Params, Declared, Results, Values, Zero

VARIABLES frames,   \* the activations: function, locals and operands of each
          control,  \* the runs and the host functions under way, innermost last
          out       \* what a run that has just ended gave to its caller

vars == <<frames, control, out>>

Init == frames = <<>> /\ control = <<>> /\ out = <<>>

Tuples(n) == [1 .. n -> Values]
LastOf(s, n) == SubSeq(s, Len(s) - n + 1, Len(s))
ButLast(s, n) == SubSeq(s, 1, Len(s) - n)

Frame(f, args) == [fn |-> f, ops |-> <<>>,
                   locals |-> args \o [i \in 1 .. Declared[f] |-> Zero]]

InGuest == control # <<>> /\ Last(control).kind = "run"
InHost == control # <<>> => Last(control).kind = "host"
Current == Last(frames)
WithOps(frame, s) == [frame EXCEPT !.ops = s]

Enter(f, args) ==
    /\ InHost
    /\ frames' = Append(frames, Frame(f, args))
    /\ control' = Append(control, [kind |-> "run", at |-> Len(frames), fn |-> f, args |-> <<>>])
    /\ out' = <<>>

\* A call from the host for which there is no room.
Refuse == /\ InHost
          /\ out' = <<>>
          /\ UNCHANGED <<frames, control>>

Operate(frame) == /\ InGuest
                  /\ frames' = Append(Front(frames), frame)
                  /\ out' = <<>>
                  /\ UNCHANGED control

Push(v) == Operate(WithOps(Current, Append(Current.ops, v)))

Drop == InGuest /\ Current.ops # <<>> /\ Operate(WithOps(Current, Front(Current.ops)))

GetLocal(i) == Push(Current.locals[i])

TeeLocal(i) == /\ Current.ops # <<>>
               /\ Operate([Current EXCEPT !.locals[i] = Last(Current.ops)])

SetLocal(i) == /\ Current.ops # <<>>
               /\ Operate([Current EXCEPT !.locals[i] = Last(Current.ops),
                                          !.ops = Front(Current.ops)])

EndBlock(kept, n) ==
    /\ kept + n <= Len(Current.ops)
    /\ Operate(WithOps(Current, SubSeq(Current.ops, 1, kept) \o LastOf(Current.ops, n)))

Call(f) ==
    LET ops == Current.ops
    IN /\ InGuest
       /\ Params[f] <= Len(ops)
       /\ frames' = Append(Front(frames), WithOps(Current, ButLast(ops, Params[f])))
                      \o <<Frame(f, LastOf(ops, Params[f]))>>
       /\ out' = <<>>
       /\ UNCHANGED control

CallHost(h) ==
    LET ops == Current.ops
    IN /\ InGuest
       /\ Params[h] <= Len(ops)
       /\ frames' = Append(Front(frames), WithOps(Current, ButLast(ops, Params[h])))
       /\ control' = Append(control, [kind |-> "host", at |-> Len(frames), fn |-> h,
                                      args |-> LastOf(ops, Params[h])])
       /\ out' = <<>>

HostReturns(results) ==
    /\ control # <<>>
    /\ InHost
    /\ Len(results) = Results[Last(control).fn]
    /\ frames' = Append(Front(frames), WithOps(Current, Current.ops \o results))
    /\ control' = Front(control)
    /\ out' = <<>>

Return ==
    LET results == LastOf(Current.ops, Results[Current.fn])
        below == Front(frames)
    IN /\ InGuest
       /\ Results[Current.fn] <= Len(Current.ops)
       /\ IF Len(below) = Last(control).at
          THEN frames' = below /\ control' = Front(control) /\ out' = results
          ELSE /\ frames' = Append(Front(below), WithOps(Last(below), Last(below).ops \o results))
               /\ out' = <<>>
               /\ UNCHANGED control

\* The innermost run is abandoned, with the host function it has called, if any.
Trap == \E k \in {1, 2} \cap 1 .. Len(control) :
          LET run == control[Len(control) + 1 - k]
          IN /\ k = (IF InGuest THEN 1 ELSE 2)
             /\ frames' = SubSeq(frames, 1, run.at)
             /\ control' = ButLast(control, k)
             /\ out' = <<>>

Next == \/ \E f \in Funcs : \E args \in Tuples(Params[f]) : Enter(f, args)
        \/ Refuse
        \/ \E v \in Values : Push(v)
        \/ Drop
        \/ /\ InGuest
           /\ \E i \in DOMAIN Current.locals : GetLocal(i) \/ SetLocal(i) \/ TeeLocal(i)
        \/ /\ InGuest
           /\ \E kept, n \in 0 .. Len(Current.ops) : EndBlock(kept, n)
        \/ \E f \in Callees : Call(f)
        \/ \E h \in Hosts : CallHost(h)
        \/ /\ control # <<>>
           /\ \E results \in Tuples(Results[Last(control).fn]) : HostReturns(results)
        \/ Return
        \/ Trap

Spec == Init /\ [][Next]_vars
=============================================================================
