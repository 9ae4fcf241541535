--------------------------- MODULE CompilerProofs ---------------------------
(***************************************************************************)
(* Proofs about FuncCompiler and BodyExec, for bodies of any length, over  *)
(* any locals, globals, operators and types of constructs.                 *)
(*                                                                         *)
(* While a body is read, the checker's stacks are sound and the compiler's *)
(* labels are in step with them (CompilerInv).  Of the opcodes there is a  *)
(* certificate (CodeInv): where the checker could reach an instruction,    *)
(* its opcode finds the operands the checker knew, takes of them what it   *)
(* takes, and leads to positions whose instructions the checker accepted   *)
(* with what is left.  A jump that has no target yet is awaited by an open *)
(* construct, which will be left with these operands; EndFunctionBody and  *)
(* OnElseExpr write the targets.  Every handler makes the certificate      *)
(* grow, and every opcode that is executed goes where it says (ExecInv).   *)
(*                                                                         *)
(* A branch back to a loop drops no operands, neither at compile time nor  *)
(* when it is executed: where one leaves operands of its own, the types    *)
(* are not those the loop was accepted with.  So the certificate, and what *)
(* is said of the execution, holds for CleanLoops; the rest does not need  *)
(* it.                                                                     *)
(***************************************************************************)
EXTENDS BodyExec, ProofLemmas
-----------------------------------------------------------------------------
(* What a check of the types says. *)

\* An operand has the type of a value, or none where the code cannot be reached.
Types == ValueTypes \cup {AnyType}
\* What the checker keeps of an open construct.
Constructs == [kind : LabelKinds, sig : Seq(ValueTypes), limit : Nat, unreachable : BOOLEAN]

\* The stacks of a checker, which the function's own construct is at the bottom of: each
\* construct stands on those around it, and Any is the type of an operand only where the
\* code of a construct around it cannot be reached.
Sound(c) ==
    /\ c.types \in Seq(Types)
    /\ c.labels \in Seq(Constructs) /\ c.labels # <<>>
    /\ c.labels[1].sig = Results /\ c.labels[1].limit = 0
    /\ \A k \in 1 .. Len(c.labels) : c.labels[k].kind = "Func" <=> k = 1
    /\ \A k \in 1 .. Len(c.labels) : \A j \in 1 .. k : c.labels[j].limit <= c.labels[k].limit
    /\ \A k \in 1 .. Len(c.labels) : c.labels[k].limit <= Len(c.types)
    /\ \A i \in 1 .. Len(c.types) : c.types[i] = AnyType =>
        \E k \in 1 .. Len(c.labels) : c.labels[k].unreachable /\ c.labels[k].limit < i

\* The outermost n constructs can be reached.
Live(c, n) == \A k \in 1 .. n : ~c.labels[k].unreachable
\* The code at hand can be reached.
AllLive(c) == Live(c, Len(c.labels))
\* The construct that was entered last.
Innermost(c) == c.labels[Len(c.labels)]

\* Two stacks agree on the lowest n, and end with the same.
Prefix(s, t, n) == \A i \in 1 .. n : s[i] = t[i]
EndsWith(s, t) == Len(s) >= Len(t) /\ \A i \in DOMAIN t : s[Len(s) - Len(t) + i] = t[i]

\* Of the outermost n constructs, d says what c says; the n-th may have been left.
Keeps(c, d, n) ==
    /\ n <= Len(c.labels) /\ n <= Len(d.labels)
    /\ \A k \in 1 .. n :
        /\ d.labels[k].sig = c.labels[k].sig /\ d.labels[k].limit = c.labels[k].limit
        /\ k < n => d.labels[k] = c.labels[k]
        /\ Prefix(d.types, c.types, c.labels[k].limit)
\* What an instruction does that neither opens nor closes a construct.
Follows(c, d) ==
    /\ Sound(d)
    /\ Len(d.labels) = Len(c.labels)
    /\ Keeps(c, d, Len(c.labels))
    /\ Innermost(d).kind = Innermost(c).kind
-----------------------------------------------------------------------------
(* What has been compiled. *)

\* All of it, now.
Code == [opcodes |-> opcodes, source |-> source, noted |-> noted, now |-> Note,
         ended |-> phase # "reading", labels |-> labels, labelStack |-> labelStack]

\* The records it is made of.
Notes == [types : Seq(Types), labels : Seq(Constructs)]
OpcodeRecs == [op : Opcodes \cup DOMAIN Operators, v1 : Int, v2 : Int, src : Nat]
LabelRecs == [results : Nat, stack : Nat, offset : Int, origin : Int]
Instructions == [op : Opcodes \cup DOMAIN Operators, sig : Seq(ValueTypes), depths : Seq(Nat), arg : Int]

\* Every opcode comes from an instruction, and a jump that has its target has one among
\* the opcodes or behind the last.
Emitted(C, rec) ==
    /\ rec.src \in 1 .. Len(C.source)
    /\ rec.op = "end" <=> C.source[rec.src].op = "end"
    /\ (rec.op \in Jumps /\ rec.v2 # kInvalidIndex) => rec.v2 \in 0 .. Len(C.opcodes) + 1
\* They are in the order of their instructions.
EmittedInv(C) ==
    /\ C.opcodes \in Seq(OpcodeRecs) /\ C.source \in Seq(Instructions)
    /\ C.noted \in Seq(Notes) /\ Len(C.noted) = Len(C.source)
    /\ \A i \in 1 .. Len(C.noted) : Sound(C.noted[i])
    /\ \A p \in 1 .. Len(C.opcodes) : Emitted(C, C.opcodes[p])
    /\ \A p \in 1 .. Len(C.opcodes) : \A q \in 1 .. p : C.opcodes[q].src <= C.opcodes[p].src

\* The compiler's labels: one for every open construct, which agrees with the checker's,
OpenLabels(C) ==
    /\ Len(C.labelStack) = Len(C.now.labels)
    /\ \A j, k \in 1 .. Len(C.labelStack) : C.labelStack[j] = C.labelStack[k] => j = k
    /\ \A k \in 1 .. Len(C.labelStack) :
        LET label     == C.labels[C.labelStack[k]]
            construct == C.now.labels[k]
        IN  /\ label.stack = construct.limit /\ label.results = Len(construct.sig)
            /\ label.offset = kInvalidIndex <=> construct.kind # "Loop"
            /\ construct.kind = "If" =>
                /\ label.origin \in 1 .. Len(C.opcodes)
                /\ C.opcodes[label.origin].op = "if" /\ C.opcodes[label.origin].v2 = kInvalidIndex
                /\ C.opcodes[label.origin].v1 = C.labelStack[k]
\* and those of the closed ones, which have their positions.
PlacedLabels(C) ==
    \A id \in 1 .. Len(C.labels) :
        /\ C.labels[id].offset \in {kInvalidIndex} \cup 1 .. Len(C.opcodes) + 1
        /\ C.labels[id].offset = kInvalidIndex => \E k \in 1 .. Len(C.labelStack) : C.labelStack[k] = id
\* A jump that has no target yet has a label; an If has one of its own.
JumpLabels(C) ==
    \A p \in 1 .. Len(C.opcodes) :
        LET rec == C.opcodes[p]
        IN  /\ (rec.op \in Jumps /\ rec.v2 = kInvalidIndex) => rec.v1 \in 1 .. Len(C.labels)
            /\ rec.op = "if" => rec.v1 \in 1 .. Len(C.labels) /\ C.labels[rec.v1].origin = p
\* The labels of a body that is being read.
LabelInv(C) ==
    /\ C.labels \in Seq(LabelRecs) /\ C.labelStack \in Seq(1 .. Len(C.labels))
    /\ OpenLabels(C) /\ PlacedLabels(C) /\ JumpLabels(C)

\* An access is compiled to an opcode that names its offset in v1, an atomic one in v2.
Accesses(rec, written) ==
    LET Class(classes) == rec.op \in DOMAIN Operators /\ Operators[rec.op].class \in classes
    IN  /\ Class({"load", "store"}) => rec.v2 = 0 /\ rec.v1 = written
        /\ Class({"atomic_load", "atomic_store", "atomic_rmw", "atomic_cmpxchg"}) => rec.v1 = 0 /\ rec.v2 = written
\* Every access that has been compiled.
AccessInv(C) == \A p \in 1 .. Len(C.opcodes) : Accesses(C.opcodes[p], C.source[C.opcodes[p].src].arg)
-----------------------------------------------------------------------------
(* Where the opcodes lead. *)

\* What the checker knew before the instruction at position q, and whether that is an end:
\* behind the last opcode stands what is read next, or the end of the body.
Known(C, q) == IF q \in 1 .. Len(C.opcodes) THEN C.noted[C.opcodes[q].src]
               ELSE IF C.ended THEN C.noted[Len(C.noted)] ELSE C.now
\* An opcode is that of an end; the end of the body has none.
AtEnd(C, q) == IF q \in 1 .. Len(C.opcodes) THEN C.opcodes[q].op = "end" ELSE C.ended

\* The first opcode of an instruction, or the position behind the last.
Starts(C, q) ==
    /\ q \in 1 .. Len(C.opcodes) + 1
    /\ q \in 1 .. Len(C.opcodes) => \A p \in 1 .. q - 1 : C.opcodes[p].src < C.opcodes[q].src

\* Operands of these types are enough for the end of the n-th construct: those from
\* before it and, on top, its results.
Closes(c, n, types) ==
    /\ Live(c, n - 1)
    /\ Len(types) >= c.labels[n].limit + Len(c.labels[n].sig)
    /\ Prefix(types, c.types, c.labels[n].limit)
    /\ EndsWith(types, c.labels[n].sig)
\* What is left of them behind it.
Closed(c) == SubSeq(c.types, 1, Innermost(c).limit) \o Innermost(c).sig

\* With operands of these types the opcode at q may be executed.
Arrives(C, q, types) ==
    /\ Starts(C, q)
    /\ IF AtEnd(C, q) THEN Closes(Known(C, q), Len(Known(C, q).labels), types)
       ELSE AllLive(Known(C, q)) /\ types = Known(C, q).types

\* An open construct will be left, or its If not taken, with these operands.
AwaitedAt(c, k, op, types) ==
    IF op = "if"
    THEN /\ c.labels[k].kind = "If" /\ Live(c, k - 1)
         /\ types = SubSeq(c.types, 1, c.labels[k].limit)
    ELSE Closes(c, k, types)
\* Such a construct, by the index of its label.
Awaits(C, id, op, types) ==
    \E k \in 1 .. Len(C.labelStack) : C.labelStack[k] = id /\ AwaitedAt(C.now, k, op, types)
\* Where the jump at p goes, once its label has a position and it is told.
Lands(C, p, types) ==
    LET rec == C.opcodes[p]
    IN  IF rec.v2 # kInvalidIndex THEN Arrives(C, rec.v2, types)
        ELSE IF C.labels[rec.v1].offset # kInvalidIndex THEN Arrives(C, C.labels[rec.v1].offset, types)
        ELSE Awaits(C, rec.v1, rec.op, types)

\* The opcode at p takes the top n of operands of these types, leaves new and goes on.
Passes(C, p, types, n, new) ==
    Len(types) >= n /\ Arrives(C, p + 1, SubSeq(types, 1, Len(types) - n) \o new)

\* Every opcode finds the operands it takes, and so does the one it leads to.
LeadsOn(C, p, rec, types) ==
    /\ rec.op \in DOMAIN Operators => Passes(C, p, types, Len(Operators[rec.op].params), Operators[rec.op].results)
    /\ rec.op = "const" => Passes(C, p, types, 0, C.source[rec.src].sig)
    /\ rec.op = "drop" => Passes(C, p, types, 1, <<>>)
    /\ rec.op = "select" =>
        /\ types[Len(types) - 2] = types[Len(types) - 1]
        /\ Passes(C, p, types, 3, <<types[Len(types) - 1]>>)
\* So does that of a variable, which has the type of its local or global.
VariableLeadsOn(C, p, rec, types) ==
    LET index == IF rec.op \in {"interp_get_stack", "interp_set_stack"} THEN StackPointer ELSE rec.v1
        Reads(type)  == Passes(C, p, types, 0, <<type>>)
        Writes(type) == EndsWith(types, <<type>>) /\ Passes(C, p, types, 1, <<>>)
    IN  /\ rec.op \in {"get_local", "set_local", "tee_local"} => index \in DOMAIN LocalTypes
        /\ rec.op \in {"get_global", "interp_get_stack", "set_global", "interp_set_stack"} => index \in DOMAIN Globals
        /\ rec.op = "get_local" => Reads(LocalTypes[index])
        /\ rec.op = "set_local" => Writes(LocalTypes[index])
        /\ rec.op = "tee_local" => EndsWith(types, <<LocalTypes[index]>>) /\ Arrives(C, p + 1, types)
        /\ rec.op \in {"get_global", "interp_get_stack"} => Reads(Globals[index].type)
        /\ rec.op \in {"set_global", "interp_set_stack"} => Writes(Globals[index].type)
\* Of a jump, every way that it may go.
JumpLeadsOn(C, p, rec, types) ==
    LET rest == SubSeq(types, 1, Len(types) - 1)
    IN  /\ rec.op \in {"br", "else"} => Lands(C, p, types)
        /\ rec.op \in {"br_if", "if"} => Passes(C, p, types, 1, <<>>) /\ Lands(C, p, rest)
        /\ rec.op = "br_table" =>
            /\ Len(types) >= 1 /\ rec.v1 \in Nat
            /\ \A i \in p + 1 .. p + rec.v1 + 1 :
                i \in 1 .. Len(C.opcodes) /\ C.opcodes[i].op = "br_table" /\ Lands(C, i, rest)
        /\ rec.op = "return" => rec.v1 = Len(Results) /\ EndsWith(types, Results)
\* The opcode at p, on the operands the checker knew.
Leads(C, p) ==
    LET rec   == C.opcodes[p]
        types == Known(C, p).types
    IN  LeadsOn(C, p, rec, types) /\ VariableLeadsOn(C, p, rec, types) /\ JumpLeadsOn(C, p, rec, types)
\* An End moves the results down; what is above them goes.
EndLeads(C, p) ==
    LET rec   == C.opcodes[p]
        known == Known(C, p)
    IN  /\ rec.v1 = Innermost(known).limit /\ rec.v2 = Len(Innermost(known).sig)
        /\ AllLive(known) => known.types = Closed(known)
        /\ Live(known, Len(known.labels) - 1) => Arrives(C, p + 1, Closed(known))

\* Where the code can be reached, every opcode leads on.
Certified(C, p) ==
    Starts(C, p) => IF AtEnd(C, p) THEN EndLeads(C, p) ELSE AllLive(Known(C, p)) => Leads(C, p)
\* A jump back to a loop finds what was there when the loop began.
LoopInv(C) ==
    \A k \in 1 .. Len(C.labelStack) :
        C.now.labels[k].kind = "Loop" /\ Live(C.now, k - 1) =>
            Arrives(C, C.labels[C.labelStack[k]].offset, SubSeq(C.now.types, 1, C.now.labels[k].limit))
\* The certificate of what has been compiled so far.
CodeInv(C) ==
    /\ Arrives(C, 1, <<>>)
    /\ \A p \in 1 .. Len(C.opcodes) : Certified(C, p)
    /\ ~C.ended => LoopInv(C)
-----------------------------------------------------------------------------
(* The invariants. *)

\* The checker, while it reads.
Checked == checker \in [types : Seq(Types), labels : Seq(Constructs), ok : {TRUE}] /\ Sound(checker)
\* What the last end of a body has seen.
BodyEnd ==
    LET known == noted[Len(noted)]
    IN  /\ source # <<>> /\ source[Len(source)].op = "end"
        /\ Len(known.labels) = 1
        /\ AllLive(known) => known.types = Results

\* Values that one of n instructions, or none, has made.
ValuesOf(n) == [type : ValueTypes, src : 0 .. n]
\* The values of the globals have the types of the globals.
GlobalsInv ==
    /\ globals \in [DOMAIN Globals -> ValuesOf(Len(source))]
    /\ \A g \in DOMAIN Globals : globals[g].type = Globals[g].type
\* So has every value on the stack a type, and an instruction that made it.
StackInv == stack \in Seq(ValuesOf(Len(source))) /\ GlobalsInv

\* While a body is read,
ReadInv ==
    /\ phase = "reading" /\ Checked
    /\ EmittedInv(Code) /\ LabelInv(Code) /\ AccessInv(Code)
\* once its last end has been,
LoadedInv ==
    /\ EmittedInv(Code) /\ AccessInv(Code) /\ checker.ok /\ BodyEnd
    /\ \A p \in DOMAIN opcodes : opcodes[p].op \in Jumps => opcodes[p].v2 # kInvalidIndex
\* and when it has been given up.
GivenUp == phase = "rejected" /\ checker.ok /\ source = <<>> /\ noted = <<>> /\ opcodes = <<>>

\* What is run has not been touched before.
Untouched ==
    /\ pc = 1 /\ stack = Values(LocalTypes, 0)
    /\ globals = [g \in DOMAIN Globals |-> Value(Globals[g].type, 0)]

\* The invariant of the compiler, phase by phase.
CompilerInv ==
    \/ (ReadInv \/ GivenUp) /\ Untouched
    \/ Loaded /\ LoadedInv

\* On these values are the locals and, above them, operands of these types.
Typed(values, types) ==
    /\ Len(values) = Len(LocalTypes) + Len(types)
    /\ \A i \in 1 .. Len(LocalTypes) : values[i].type = LocalTypes[i]
    /\ \A i \in 1 .. Len(types) : values[Len(LocalTypes) + i].type = types[i]
\* The operands have the types that lead on from here.
OperandsInv == \E types \in Seq(ValueTypes) : Typed(stack, types) /\ Arrives(Code, pc, types)
\* The invariant of what is executed, where branches leave loops clean.
ExecInv ==
    /\ phase # "rejected" => CodeInv(Code)
    /\ StackInv
    /\ phase = "running" => OperandsInv
    /\ phase = "returned" => TypesOf(stack) = Results
-----------------------------------------------------------------------------
(* The type checker. *)

\* A checker, which may have refused an instruction.
Checkers == [types : Seq(Types), labels : Seq(Constructs), ok : BOOLEAN]

\* The types of the stacks of a sound checker, and where its constructs stand.
LEMMA SoundStacks ==
  ASSUME NEW c, Sound(c)
  PROVE  /\ c.types \in Seq(Types) /\ c.labels \in Seq(Constructs)
         /\ Len(c.types) \in Nat /\ Len(c.labels) \in Nat \ {0}
         /\ Innermost(c) \in Constructs
         /\ Innermost(c) = Last(c.labels) /\ Innermost(c) = c.labels[Len(c.labels)]
         /\ Innermost(c).limit \in 0 .. Len(c.types)
         /\ \A k \in 1 .. Len(c.labels) :
              /\ c.labels[k] \in Constructs
              /\ c.labels[k].limit \in 0 .. Innermost(c).limit
<1>1. c.labels \in Seq(Constructs) /\ c.types \in Seq(Types) /\ c.labels # <<>>
  BY DEF Sound
<1>2. /\ Len(c.types) \in Nat /\ Len(c.labels) \in Nat \ {0}
      /\ Len(c.labels) \in 1 .. Len(c.labels)
      /\ \A k \in 1 .. Len(c.labels) : c.labels[k] \in Constructs
  BY <1>1
<1>3. \A k \in 1 .. Len(c.labels) : c.labels[k].limit \in Nat
  BY <1>2 DEF Constructs
<1>4. /\ c.labels[Len(c.labels)].limit <= Len(c.types)
      /\ \A k \in 1 .. Len(c.labels) : c.labels[k].limit <= c.labels[Len(c.labels)].limit
  BY <1>2 DEF Sound
<1>. QED  BY <1>1, <1>2, <1>3, <1>4 DEF Innermost, Last

\* Code that can be reached has no operand of an unknown type.
LEMMA LiveTypes ==
  ASSUME NEW c, Sound(c), AllLive(c)
  PROVE  c.types \in Seq(ValueTypes)
<1>1. \A i \in 1 .. Len(c.types) : c.types[i] # AnyType
  BY DEF Sound, AllLive, Live
<1>2. \A i \in 1 .. Len(c.types) : c.types[i] \in Types
  BY SoundStacks
<1>3. \A i \in 1 .. Len(c.types) : c.types[i] \in ValueTypes
  BY <1>1, <1>2 DEF Types
<1>. QED  BY <1>3, InSeqOf, SoundStacks

\* A checker with the same constructs and other operands above them.
LEMMA SameConstructs ==
  ASSUME NEW c, Sound(c), NEW d, d.labels = c.labels, d.types \in Seq(Types),
         Len(d.types) >= Innermost(c).limit,
         \A i \in 1 .. Innermost(c).limit : d.types[i] = c.types[i],
         \A i \in 1 .. Len(d.types) : d.types[i] = AnyType =>
            \/ i \in 1 .. Len(c.types) /\ c.types[i] = AnyType
            \/ \E k \in 1 .. Len(c.labels) : c.labels[k].unreachable /\ c.labels[k].limit < i
  PROVE  Follows(c, d)
<1>1. \A k \in 1 .. Len(d.labels) : d.labels[k].limit <= Len(d.types)
  BY SoundStacks
<1>2. \A i \in 1 .. Len(d.types) : d.types[i] = AnyType =>
        \E k \in 1 .. Len(d.labels) : d.labels[k].unreachable /\ d.labels[k].limit < i
  <2> SUFFICES ASSUME NEW i \in 1 .. Len(d.types), d.types[i] = AnyType
               PROVE  \E k \in 1 .. Len(d.labels) : d.labels[k].unreachable /\ d.labels[k].limit < i
    OBVIOUS
  <2>1. CASE i \in 1 .. Len(c.types) /\ c.types[i] = AnyType
    BY <2>1, Zenon DEF Sound
  <2>2. CASE \E k \in 1 .. Len(c.labels) : c.labels[k].unreachable /\ c.labels[k].limit < i
    BY <2>2
  <2>. QED  BY <2>1, <2>2
<1>3. Sound(d)
  BY <1>1, <1>2 DEF Sound
<1>4. Keeps(c, d, Len(c.labels))
  BY SoundStacks, SMTT(20) DEF Keeps, Prefix
<1>. QED  BY <1>3, <1>4 DEF Follows, Innermost

\* Dropping operands down to a height above the innermost construct.
LEMMA CutFollows ==
  ASSUME NEW c, Sound(c), NEW h \in Innermost(c).limit .. Len(c.types), NEW d,
         d.types = SubSeq(c.types, 1, h), d.labels = c.labels
  PROVE  Follows(c, d)
<1>1. h \in Nat /\ h <= Len(c.types)
  BY SoundStacks
<1>2. d.types \in Seq(Types) /\ Len(d.types) = h /\ \A i \in 1 .. h : d.types[i] = c.types[i]
  BY <1>1, SoundStacks
<1>3. /\ Len(d.types) >= Innermost(c).limit
      /\ \A i \in 1 .. Innermost(c).limit : d.types[i] = c.types[i]
  BY <1>1, <1>2, SoundStacks
<1>4. \A i \in 1 .. Len(d.types) : i \in 1 .. Len(c.types) /\ d.types[i] = c.types[i]
  BY <1>1, <1>2, SoundStacks
<1>. QED  BY <1>2, <1>3, <1>4, SameConstructs, Zenon

\* Operands may be pushed.
LEMMA PushFollows ==
  ASSUME NEW c, Sound(c), NEW sig \in Seq(ValueTypes), NEW d,
         d.types = c.types \o sig, d.labels = c.labels
  PROVE  Follows(c, d)
<1>1. sig \in Seq(Types)
  BY DEF Types
<1>2. /\ d.types \in Seq(Types) /\ Len(d.types) = Len(c.types) + Len(sig)
      /\ \A i \in 1 .. Len(c.types) : d.types[i] = c.types[i]
      /\ \A i \in 1 .. Len(d.types) : i > Len(c.types) => d.types[i] = sig[i - Len(c.types)]
  BY <1>1, SoundStacks
<1>3. \A i \in 1 .. Len(d.types) : d.types[i] = AnyType => i \in 1 .. Len(c.types)
  <2> SUFFICES ASSUME NEW i \in 1 .. Len(d.types), i > Len(c.types) PROVE d.types[i] # AnyType
    BY SoundStacks, <1>2
  <2>1. sig[i - Len(c.types)] \in ValueTypes
    BY <1>2, SoundStacks
  <2>. QED  BY <2>1, <1>2 DEF ValueTypes, AnyType
<1>4. /\ Len(d.types) >= Innermost(c).limit
      /\ \A i \in 1 .. Innermost(c).limit : d.types[i] = c.types[i]
  BY <1>2, SoundStacks
<1>. QED  BY <1>2, <1>3, <1>4, SameConstructs, Zenon

\* One instruction after another.
LEMMA FollowsOn ==
  ASSUME NEW c, NEW d, NEW e, Sound(c), Follows(c, d), Follows(d, e)
  PROVE  Follows(c, e)
<1>1. Sound(d) /\ Len(d.labels) = Len(c.labels) /\ Len(e.labels) = Len(c.labels)
  BY DEF Follows
<1>2. Keeps(c, e, Len(c.labels))
  BY <1>1 DEF Follows, Keeps, Prefix
<1>. QED  BY <1>1, <1>2 DEF Follows

\* After an unconditional branch the operands of its construct are gone.
LEMMA UnreachableFollows ==
  ASSUME NEW c \in Checkers, Sound(c)
  PROVE  /\ SetUnreachable(c) \in Checkers
         /\ SetUnreachable(c).ok = c.ok
         /\ Follows(c, SetUnreachable(c))
         /\ ~AllLive(SetUnreachable(c))
<1> DEFINE n == Len(c.labels)
           top == [c.labels[n] EXCEPT !.unreachable = TRUE]
           m == [c EXCEPT !.labels[Len(c.labels)].unreachable = TRUE]
           d == SetUnreachable(c)
<1>1. /\ n \in Nat \ {0} /\ n \in 1 .. n /\ Innermost(c) = c.labels[n]
      /\ c.labels[n].limit \in 0 .. Len(c.types) /\ c.labels[n] \in Constructs
      /\ c.labels \in Seq(Constructs)
  BY SoundStacks
<1>2. /\ top \in Constructs /\ top.kind = c.labels[n].kind /\ top.sig = c.labels[n].sig
      /\ top.limit = c.labels[n].limit /\ top.unreachable
  BY <1>1, Zenon DEF Constructs
<1>3. m = [types |-> c.types, labels |-> [c.labels EXCEPT ![n] = top], ok |-> c.ok]
  <2>1. c = [types |-> c.types, labels |-> c.labels, ok |-> c.ok]
    BY DEF Checkers
  <2>2. m = [c EXCEPT !.labels = [c.labels EXCEPT ![n] = top]]
    OBVIOUS
  <2> HIDE DEF top
  <2>3. [c EXCEPT !.labels = [c.labels EXCEPT ![n] = top]] =
          [types |-> c.types, labels |-> [c.labels EXCEPT ![n] = top], ok |-> c.ok]
    BY <2>1
  <2>. QED  BY <2>2, <2>3
<1> HIDE DEF top
<1>4. /\ m.labels \in Seq(Constructs) /\ Len(m.labels) = n /\ m.labels[n] = top
      /\ \A k \in 1 .. n : k < n => m.labels[k] = c.labels[k]
  <2>1. m.labels = [c.labels EXCEPT ![n] = top]
    BY <1>3
  <2> HIDE DEF m
  <2>2. DOMAIN c.labels = 1 .. n
    BY <1>1
  <2>3. m.labels \in Seq(Constructs) /\ Len(m.labels) = n
    BY <1>1, <1>2, <2>1
  <2>. QED  BY <1>1, <2>1, <2>2, <2>3
<1>5. m.types = c.types /\ m.ok = c.ok /\ m \in Checkers
  BY <1>3, <1>4, Zenon DEF Checkers
<1>6. \A k \in 1 .. n :
        /\ m.labels[k].kind = c.labels[k].kind /\ m.labels[k].sig = c.labels[k].sig
        /\ m.labels[k].limit = c.labels[k].limit
        /\ c.labels[k].unreachable => m.labels[k].unreachable
  BY <1>1, <1>2, <1>4
<1> HIDE DEF m
<1>7. Sound(m)
  <2>1. m.labels # <<>> /\ m.labels[1].sig = Results /\ m.labels[1].limit = 0
    BY <1>1, <1>4, <1>6 DEF Sound
  <2>2. \A k \in 1 .. n : m.labels[k].kind = "Func" <=> k = 1
    BY <1>6 DEF Sound
  <2>3. \A k \in 1 .. n : m.labels[k].limit <= Len(m.types)
    BY <1>5, <1>6 DEF Sound
  <2>4. \A k \in 1 .. n : \A j \in 1 .. k : m.labels[j].limit <= m.labels[k].limit
    BY <1>1, <1>6 DEF Sound
  <2>5. \A i \in 1 .. Len(m.types) : m.types[i] = AnyType =>
          \E k \in 1 .. n : m.labels[k].unreachable /\ m.labels[k].limit < i
    BY <1>5, <1>6, Zenon DEF Sound
  <2>6. m.types \in Seq(Types)
    BY <1>5, SoundStacks
  <2>. QED  BY <2>1, <2>2, <2>3, <2>4, <2>5, <2>6, <1>4 DEF Sound
<1>8. Follows(c, m)
  <2>1. Keeps(c, m, n)
    BY <1>1, <1>4, <1>5, <1>6 DEF Keeps, Prefix
  <2>. QED  BY <2>1, <1>1, <1>4, <1>6, <1>7 DEF Follows, Innermost
<1>9. d = [m EXCEPT !.types = SubSeq(m.types, 1, top.limit)]
  BY <1>4, Zenon DEF m, SetUnreachable, ResetTypeStackToLabel, TopLabel, Last
<1>10. /\ d.types = SubSeq(m.types, 1, top.limit) /\ d.labels = m.labels /\ d.ok = m.ok
       /\ SubSeq(m.types, 1, top.limit) \in Seq(Types)
  BY <1>1, <1>2, <1>5, <1>9, SoundStacks DEF Checkers
<1>11. d \in Checkers
  BY <1>5, <1>9, <1>10, Zenon DEF Checkers
<1>12. Follows(m, d)
  <2>1. Innermost(m) = top /\ top.limit \in Innermost(m).limit .. Len(m.types)
    BY <1>1, <1>2, <1>4, <1>5 DEF Innermost
  <2>. QED  BY <2>1, <1>7, <1>10, CutFollows
<1>13. ~AllLive(d)
  BY <1>1, <1>2, <1>4, <1>10 DEF AllLive, Live
<1>. QED  BY <1>5, <1>8, <1>10, <1>11, <1>12, <1>13, FollowsOn

\* DropTypes takes no operand of a construct around the innermost.
LEMMA DropFollows ==
  ASSUME NEW c \in Checkers, Sound(c), c.ok, NEW m \in Nat, DropTypes(c, m).ok
  PROVE  /\ DropTypes(c, m) \in Checkers
         /\ Follows(c, DropTypes(c, m))
         /\ DropTypes(c, m).labels = c.labels
         /\ AllLive(c) => /\ Len(c.types) >= m
                          /\ DropTypes(c, m).types = SubSeq(c.types, 1, Len(c.types) - m)
<1> DEFINE n == Len(c.labels)
           limit == Innermost(c).limit
           d == DropTypes(c, m)
<1>1. /\ n \in Nat \ {0} /\ Innermost(c) = c.labels[n] /\ TopLabel(c) = Innermost(c)
      /\ limit \in 0 .. Len(c.types) /\ Len(c.types) \in Nat
  BY SoundStacks DEF TopLabel, Last
<1>2. ASSUME NEW h \in limit .. Len(c.types), d = [c EXCEPT !.types = SubSeq(c.types, 1, h)]
      PROVE  /\ d \in Checkers /\ Follows(c, d) /\ d.labels = c.labels
             /\ d.types = SubSeq(c.types, 1, h)
  <2>1. SubSeq(c.types, 1, h) \in Seq(Types)
    BY <1>1, SoundStacks
  <2>2. d.types = SubSeq(c.types, 1, h) /\ d.labels = c.labels /\ d \in Checkers
    BY <1>2, <2>1, Zenon DEF Checkers
  <2> HIDE DEF d
  <2>. QED  BY <2>2, CutFollows
<1>3. CASE limit + m <= Len(c.types)
  <2>1. d = [c EXCEPT !.types = SubSeq(c.types, 1, Len(c.types) - m)]
    BY <1>1, <1>3 DEF DropTypes
  <2>2. Len(c.types) - m \in limit .. Len(c.types)
    BY <1>1, <1>3
  <2> DEFINE h == Len(c.types) - m
  <2>3. h \in limit .. Len(c.types) /\ d = [c EXCEPT !.types = SubSeq(c.types, 1, h)] /\ Len(c.types) >= m
    BY <1>1, <1>3, <2>1, <2>2
  <2> HIDE DEF d, h
  <2>4. d \in Checkers /\ Follows(c, d) /\ d.labels = c.labels /\ d.types = SubSeq(c.types, 1, h)
    BY <1>2, <2>3, Zenon
  <2>. QED  BY <2>3, <2>4 DEF h, d
<1>4. CASE ~(limit + m <= Len(c.types))
  <2>1. Innermost(c).unreachable
    BY <1>1, <1>4 DEF DropTypes, Fail, Checkers
  <2>2. d = [c EXCEPT !.types = SubSeq(c.types, 1, limit)]
    BY <1>1, <1>4, <2>1 DEF DropTypes, ResetTypeStackToLabel
  <2>3. ~AllLive(c)
    BY <1>1, <2>1 DEF AllLive, Live
  <2>4. limit \in limit .. Len(c.types)
    BY <1>1
  <2>. QED  BY <1>2, <2>2, <2>3, <2>4, Zenon
<1>. QED  BY <1>3, <1>4

\* A further condition.
LEMMA RequireIs ==
  ASSUME NEW c \in Checkers, NEW condition \in BOOLEAN
  PROVE  /\ Require(c, condition) \in Checkers
         /\ Require(c, condition).types = c.types /\ Require(c, condition).labels = c.labels
         /\ Require(c, condition).ok => c.ok /\ condition
<1>1. c.ok \in BOOLEAN /\ c = [types |-> c.types, labels |-> c.labels, ok |-> c.ok]
  BY DEF Checkers
<1>2. Require(c, condition) = [types |-> c.types, labels |-> c.labels, ok |-> (c.ok /\ condition)]
  BY <1>1 DEF Require
<1>3. Require(c, condition).ok = (c.ok /\ condition)
  BY <1>2
<1>. QED  BY <1>1, <1>2, <1>3 DEF Checkers

\* A check says yes or no.
LEMMA SignatureBoolean ==
  ASSUME NEW c, NEW sig
  PROVE  CheckSignature(c, sig) \in BOOLEAN
BY DEF CheckSignature

\* Where code can be reached, a signature that checks is that of the operands on top.
LEMMA CheckedSignature ==
  ASSUME NEW c, Sound(c), AllLive(c), NEW sig \in Seq(ValueTypes), CheckSignature(c, sig)
  PROVE  EndsWith(c.types, sig) /\ Len(c.types) >= Innermost(c).limit + Len(sig)
<1> DEFINE limit == Innermost(c).limit
           height == Len(c.types)
<1>1. /\ TopLabel(c) = Innermost(c) /\ limit \in Nat /\ height \in Nat /\ limit <= height
      /\ Len(sig) \in Nat /\ DOMAIN sig = 1 .. Len(sig)
  BY SoundStacks DEF TopLabel
<1>2. ~Innermost(c).unreachable
  BY SoundStacks DEF AllLive, Live
<1>3. ASSUME NEW i \in 1 .. Len(sig)
      PROVE  limit + (Len(sig) - i) < height /\ c.types[height - (Len(sig) - i)] = sig[i]
  <2>1. PeekAndCheckType(c, Len(sig) - i, sig[i])
    BY <1>1, <1>3 DEF CheckSignature
  <2>2. ~Below(c, Len(sig) - i)
    BY <1>1, <1>2, <2>1 DEF PeekAndCheckType
  <2>3. limit + (Len(sig) - i) < height
    BY <1>1, <1>3, <2>2 DEF Below
  <2>4. CheckType(c.types[height - (Len(sig) - i)], sig[i])
    BY <2>1, <2>2 DEF PeekAndCheckType, PeekType
  <2>5. sig[i] \in ValueTypes
    BY <1>1, <1>3
  <2>6. c.types[height - (Len(sig) - i)] \in ValueTypes
    <3>1. height - (Len(sig) - i) \in 1 .. height
      BY <1>1, <1>3, <2>3
    <3>. QED  BY <3>1, LiveTypes
  <2>7. AnyType \notin ValueTypes
    BY DEF AnyType, ValueTypes
  <2>. QED  BY <2>3, <2>4, <2>5, <2>6, <2>7 DEF CheckType
<1>4. height >= limit + Len(sig)
  <2>1. CASE Len(sig) = 0
    BY <1>1, <2>1
  <2>2. CASE Len(sig) # 0
    <3>1. 1 \in 1 .. Len(sig)
      BY <1>1, <2>2
    <3>2. limit + (Len(sig) - 1) < height
      BY <1>3, <3>1
    <3>. QED  BY <1>1, <3>2
  <2>. QED  BY <2>1, <2>2
<1>5. \A i \in 1 .. Len(sig) : c.types[height - Len(sig) + i] = sig[i]
  <2> SUFFICES ASSUME NEW i \in 1 .. Len(sig) PROVE c.types[height - Len(sig) + i] = sig[i]
    OBVIOUS
  <2>1. height - Len(sig) + i = height - (Len(sig) - i)
    BY <1>1
  <2>. QED  BY <1>3, <2>1
<1>. QED  BY <1>1, <1>4, <1>5 DEF EndsWith

\* DropTypes gives a checker.
LEMMA DropIs ==
  ASSUME NEW c \in Checkers, Sound(c), NEW m \in Nat
  PROVE  DropTypes(c, m) \in Checkers
<1>1. TopLabel(c) = Innermost(c) /\ Innermost(c).limit \in Nat /\ Len(c.types) \in Nat
  BY SoundStacks DEF TopLabel
<1>2. \A h \in Int : SubSeq(c.types, 1, h) \in Seq(Types) \/ h > Len(c.types)
  BY SoundStacks
<1>3. \A t \in Seq(Types) : [c EXCEPT !.types = t] \in Checkers
  BY Zenon DEF Checkers
<1>4. Fail(c) \in Checkers
  BY Zenon DEF Fail, Checkers
<1>5. Len(c.types) - m \in Int /\ Len(c.types) - m <= Len(c.types)
      /\ Innermost(c).limit \in Int /\ Innermost(c).limit <= Len(c.types)
  BY <1>1, SoundStacks
<1>6. SubSeq(c.types, 1, Len(c.types) - m) \in Seq(Types) /\ SubSeq(c.types, 1, Innermost(c).limit) \in Seq(Types)
  BY <1>1, <1>2, <1>5
<1>. QED  BY <1>1, <1>3, <1>4, <1>6, Zenon DEF DropTypes, ResetTypeStackToLabel

\* PopAndCheck gives a checker.
LEMMA PopIs ==
  ASSUME NEW c \in Checkers, Sound(c), NEW sig \in Seq(ValueTypes)
  PROVE  PopAndCheck(c, sig) \in Checkers
<1>1. Len(sig) \in Nat
  OBVIOUS
<1>. QED  BY <1>1, DropIs, RequireIs, SignatureBoolean DEF PopAndCheck

\* PopAndCheck takes operands of the types it is asked for.
LEMMA PopFollows ==
  ASSUME NEW c \in Checkers, Sound(c), NEW sig \in Seq(ValueTypes), c.ok, PopAndCheck(c, sig).ok
  PROVE  LET d == PopAndCheck(c, sig)
         IN  /\ d \in Checkers /\ Follows(c, d) /\ d.labels = c.labels
             /\ AllLive(c) => /\ EndsWith(c.types, sig)
                              /\ Len(c.types) >= Innermost(c).limit + Len(sig)
                              /\ d.types = SubSeq(c.types, 1, Len(c.types) - Len(sig))
<1> DEFINE e == DropTypes(c, Len(sig))
           d == PopAndCheck(c, sig)
<1>1. e \in Checkers
  BY DropIs
<1>2. d = Require(e, CheckSignature(c, sig))
  BY DEF PopAndCheck
<1>3. d \in Checkers /\ d.types = e.types /\ d.labels = e.labels /\ e.ok /\ CheckSignature(c, sig)
  BY <1>1, <1>2, RequireIs, SignatureBoolean
<1> HIDE DEF d
<1>4. /\ Follows(c, e) /\ e.labels = c.labels
      /\ AllLive(c) => /\ Len(c.types) >= Len(sig)
                       /\ e.types = SubSeq(c.types, 1, Len(c.types) - Len(sig))
  BY <1>3, DropFollows
<1> HIDE DEF e
<1>5. Follows(c, d)
  BY <1>3, <1>4 DEF Follows, Sound, Keeps, Prefix, Innermost
<1>6. AllLive(c) => EndsWith(c.types, sig) /\ Len(c.types) >= Innermost(c).limit + Len(sig)
  BY <1>3, CheckedSignature
<1>. QED  BY <1>3, <1>4, <1>5, <1>6 DEF d

\* PushTypes adds operands and leaves the rest.
LEMMA PushIs ==
  ASSUME NEW c \in Checkers, NEW sig \in Seq(ValueTypes)
  PROVE  /\ PushTypes(c, sig) \in Checkers
         /\ PushTypes(c, sig).types = c.types \o sig /\ PushTypes(c, sig).labels = c.labels
         /\ PushTypes(c, sig).ok = c.ok
<1>1. c.types \in Seq(Types) /\ sig \in Seq(Types)
  BY DEF Checkers, Types
<1>2. c.types \o sig \in Seq(Types)
  BY <1>1
<1>. QED  BY <1>2, Zenon DEF PushTypes, Checkers

\* CheckCall takes the parameters and leaves the results.
LEMMA CallFollows ==
  ASSUME NEW c \in Checkers, Sound(c), c.ok, NEW params \in Seq(ValueTypes), NEW results \in Seq(ValueTypes),
         CheckCall(c, params, results).ok
  PROVE  LET d == CheckCall(c, params, results)
         IN  /\ d \in Checkers /\ Follows(c, d) /\ d.labels = c.labels
             /\ AllLive(c) => /\ EndsWith(c.types, params)
                              /\ Len(c.types) >= Innermost(c).limit + Len(params)
                              /\ d.types = SubSeq(c.types, 1, Len(c.types) - Len(params)) \o results
<1> DEFINE e == PopAndCheck(c, params)
           d == CheckCall(c, params, results)
<1>1. d = PushTypes(e, results)
  BY DEF CheckCall
<1>2. d \in Checkers /\ d.types = e.types \o results /\ d.labels = e.labels /\ d.ok = e.ok
  <2>1. e \in Checkers
    BY PopIs
  <2> HIDE DEF d, e
  <2>. QED  BY <1>1, <2>1, PushIs, Zenon
<1>3. /\ Follows(c, e) /\ e.labels = c.labels
      /\ AllLive(c) => /\ EndsWith(c.types, params)
                       /\ Len(c.types) >= Innermost(c).limit + Len(params)
                       /\ e.types = SubSeq(c.types, 1, Len(c.types) - Len(params))
  <2>1. e.ok
    BY <1>2
  <2>. QED  BY <2>1, PopFollows
<1> HIDE DEF d, e
<1>4. Follows(e, d)
  BY <1>2, <1>3, PushFollows, Zenon DEF Follows
<1>5. Follows(c, d)
  BY <1>3, <1>4, FollowsOn
<1>. QED  BY <1>2, <1>3, <1>5, Zenon DEF d

\* OnSelect takes two operands of one type, below a condition, and leaves one of it.
LEMMA SelectFollows ==
  ASSUME NEW c \in Checkers, Sound(c), c.ok, OnSelect(c).ok
  PROVE  LET d == OnSelect(c)
             height == Len(c.types)
         IN  /\ d \in Checkers /\ Follows(c, d) /\ d.labels = c.labels
             /\ AllLive(c) => /\ height >= 3
                              /\ c.types[height - 2] = c.types[height - 1]
                              /\ d.types = SubSeq(c.types, 1, height - 3) \o <<c.types[height - 1]>>
<1> DEFINE d == OnSelect(c)
           e == DropTypes(c, 3)
           type == PeekType(c, 1)
           height == Len(c.types)
           limit == Innermost(c).limit
<1>1. /\ TopLabel(c) = Innermost(c) /\ limit \in Nat /\ height \in Nat /\ limit <= height
      /\ c.types \in Seq(Types) /\ Len(c.labels) \in 1 .. Len(c.labels)
      /\ Innermost(c) = c.labels[Len(c.labels)]
  BY SoundStacks DEF TopLabel
<1>2. type \in Types
  <2>1. CASE Below(c, 1)
    BY <2>1 DEF PeekType, Types
  <2>2. CASE ~Below(c, 1)
    <3>1. height - 1 \in 1 .. height
      BY <1>1, <2>2, SMTT(20) DEF Below
    <3>. QED  BY <1>1, <2>2, <3>1 DEF PeekType
  <2>. QED  BY <2>1, <2>2
<1>3. e \in Checkers
  BY DropIs
<1>4. PushTypes(e, <<type>>) \in Checkers /\ PushTypes(e, <<type>>).types = Append(e.types, type)
      /\ PushTypes(e, <<type>>).labels = e.labels /\ PushTypes(e, <<type>>).ok = e.ok
  <2>1. e.types \in Seq(Types)
    BY <1>3 DEF Checkers
  <2>2. e.types \o <<type>> = Append(e.types, type) /\ Append(e.types, type) \in Seq(Types)
    BY <1>2, <2>1
  <2> HIDE DEF e, type
  <2>. QED  BY <1>3, <2>2, Zenon DEF PushTypes, Checkers
<1> DEFINE checks == /\ PeekAndCheckType(c, 0, "i32")
                     /\ PeekAndCheckType(c, 1, AnyType)
                     /\ PeekAndCheckType(c, 2, type)
<1>5. d = Require(PushTypes(e, <<type>>), checks) /\ checks \in BOOLEAN
  BY DEF OnSelect, PeekAndCheckType
<1> HIDE DEF d, e, checks
<1>6. /\ d \in Checkers /\ d.types = Append(e.types, type) /\ d.labels = e.labels
      /\ e.ok /\ checks
  BY <1>4, <1>5, RequireIs DEF d
<1>7. /\ Follows(c, e) /\ e.labels = c.labels
      /\ AllLive(c) => height >= 3 /\ e.types = SubSeq(c.types, 1, height - 3)
  BY <1>6, DropFollows DEF e
<1>8. /\ Len(e.types) \in Nat /\ Len(e.types) >= limit /\ e.types \in Seq(Types) /\ Sound(e)
      /\ \A i \in 1 .. limit : e.types[i] = c.types[i]
  <2>1. Sound(e) /\ Prefix(e.types, c.types, limit) /\ Innermost(e) = Innermost(c)
    BY <1>1, <1>7 DEF Follows, Keeps, Innermost
  <2>. QED  BY <2>1, SoundStacks DEF Prefix
<1>9. type = AnyType => \E k \in 1 .. Len(c.labels) : c.labels[k].unreachable /\ c.labels[k].limit <= limit
  <2>1. CASE Below(c, 1)
    <3>1. Innermost(c).unreachable
      BY <1>1, <1>6, <2>1 DEF checks, PeekAndCheckType
    <3>. QED  BY <1>1, <3>1
  <2>2. CASE ~Below(c, 1)
    <3>1. type = c.types[height - 1] /\ height - 1 \in 1 .. height
      BY <1>1, <2>2, SMTT(20) DEF PeekType, Below
    <3>2. \A k \in 1 .. Len(c.labels) : c.labels[k].limit <= limit
      BY SoundStacks
    <3>. QED  BY <3>1, <3>2, Zenon DEF Sound
  <2>. QED  BY <2>1, <2>2
<1> HIDE DEF type
<1>10. Follows(c, d)
  <2>1. /\ d.types \in Seq(Types) /\ Len(d.types) = Len(e.types) + 1 /\ d.labels = c.labels
        /\ \A i \in 1 .. Len(e.types) : d.types[i] = e.types[i]
        /\ d.types[Len(e.types) + 1] = type
    BY <1>2, <1>6, <1>7, <1>8
  <2>2. Len(d.types) >= limit /\ \A i \in 1 .. limit : d.types[i] = c.types[i]
    BY <1>1, <1>8, <2>1
  <2>3. ASSUME NEW i \in 1 .. Len(d.types), d.types[i] = AnyType
        PROVE  \E k \in 1 .. Len(c.labels) : c.labels[k].unreachable /\ c.labels[k].limit < i
    <3>1. CASE i \in 1 .. Len(e.types)
      BY <1>7, <1>8, <2>1, <2>3, <3>1, Zenon DEF Sound
    <3>2. CASE i = Len(e.types) + 1
      <4>1. type = AnyType
        BY <2>1, <2>3, <3>2
      <4>2. PICK k \in 1 .. Len(c.labels) : c.labels[k].unreachable /\ c.labels[k].limit <= limit
        BY <1>9, <4>1
      <4>3. c.labels[k].limit \in Nat
        BY SoundStacks
      <4>. QED  BY <1>1, <1>8, <3>2, <4>2, <4>3
    <3>. QED  BY <1>8, <2>1, <3>1, <3>2
  <2>. QED  BY <2>1, <2>2, <2>3, SameConstructs
<1>11. ASSUME AllLive(c)
       PROVE  height >= 3 /\ c.types[height - 2] = c.types[height - 1] /\ type = c.types[height - 1]
  <2>1. ~Innermost(c).unreachable
    BY <1>1, <1>11 DEF AllLive, Live
  <2>2. ~Below(c, 1) /\ ~Below(c, 2) /\ CheckType(PeekType(c, 2), type)
    BY <1>1, <1>6, <2>1 DEF checks, PeekAndCheckType
  <2>3. type = c.types[height - 1] /\ PeekType(c, 2) = c.types[height - 2]
    BY <2>2 DEF type, PeekType
  <2>4. height >= 3
    BY <1>7, <1>11
  <2>5. c.types[height - 1] \in ValueTypes /\ c.types[height - 2] \in ValueTypes
    BY <1>1, <1>11, <2>4, LiveTypes
  <2>6. AnyType \notin ValueTypes
    BY DEF AnyType, ValueTypes
  <2>. QED  BY <2>2, <2>3, <2>4, <2>5, <2>6 DEF CheckType
<1>12. AllLive(c) => d.types = SubSeq(c.types, 1, height - 3) \o <<c.types[height - 1]>>
  <2> SUFFICES ASSUME AllLive(c) PROVE d.types = SubSeq(c.types, 1, height - 3) \o <<c.types[height - 1]>>
    BY Zenon
  <2>1. d.types = Append(SubSeq(c.types, 1, height - 3), c.types[height - 1])
    BY <1>6, <1>7, <1>11, Zenon
  <2>2. SubSeq(c.types, 1, height - 3) \in Seq(Types) /\ c.types[height - 1] \in Types
    BY <1>1, <1>2, <1>7, <1>11
  <2>3. \A s \in Seq(Types), x \in Types : Append(s, x) = s \o <<x>>
    OBVIOUS
  <2>. QED  BY <2>1, <2>2, <2>3, Zenon
<1>. QED  BY <1>6, <1>7, <1>10, <1>11, <1>12, Zenon DEF d

\* What a branch takes are types of values.
LEMMA BranchIs ==
  ASSUME NEW label \in Constructs
  PROVE  BranchTypes(label) \in Seq(ValueTypes)
BY DEF Constructs, BranchTypes

\* A depth that has a label names a construct.
LEMMA LabelIs ==
  ASSUME NEW c, Sound(c), NEW depth \in Nat, HasLabel(c, depth)
  PROVE  GetLabel(c, depth) \in Constructs /\ Len(c.labels) - depth \in 1 .. Len(c.labels)
<1>1. Len(c.labels) - depth \in 1 .. Len(c.labels)
  BY SoundStacks DEF HasLabel
<1>. QED  BY <1>1, SoundStacks DEF GetLabel

\* OnBr finds what the branch takes; the code after it cannot be reached.
LEMMA BrFollows ==
  ASSUME NEW c \in Checkers, Sound(c), c.ok, NEW depth \in Nat, OnBr(c, depth).ok
  PROVE  LET d == OnBr(c, depth)
             taken == BranchTypes(GetLabel(c, depth))
         IN  /\ HasLabel(c, depth) /\ d \in Checkers /\ Follows(c, d) /\ ~AllLive(d)
             /\ AllLive(c) => EndsWith(c.types, taken) /\ Len(c.types) >= Innermost(c).limit + Len(taken)
<1> DEFINE d == OnBr(c, depth)
           taken == BranchTypes(GetLabel(c, depth))
           e == SetUnreachable(c)
<1>1. HasLabel(c, depth)
  BY DEF OnBr, Fail, Checkers
<1>2. taken \in Seq(ValueTypes)
  BY <1>1, LabelIs, BranchIs
<1>3. d = Require(e, CheckSignature(c, taken))
  BY <1>1 DEF OnBr
<1>4. e \in Checkers /\ Follows(c, e) /\ ~AllLive(e)
  BY UnreachableFollows
<1> HIDE DEF e, taken
<1>5. d \in Checkers /\ d.types = e.types /\ d.labels = e.labels /\ CheckSignature(c, taken)
  BY <1>3, <1>4, RequireIs, SignatureBoolean
<1> HIDE DEF d
<1>6. Follows(c, d) /\ ~AllLive(d)
  BY <1>4, <1>5 DEF Follows, Sound, Keeps, Prefix, Innermost, AllLive, Live
<1>7. AllLive(c) => EndsWith(c.types, taken) /\ Len(c.types) >= Innermost(c).limit + Len(taken)
  BY <1>2, <1>5, CheckedSignature
<1>. QED  BY <1>1, <1>5, <1>6, <1>7 DEF d, taken

\* Sequences are equal that have the same elements.
LEMMA SameSequence ==
  ASSUME NEW S, NEW s \in Seq(S), NEW t \in Seq(S), Len(s) = Len(t),
         \A i \in 1 .. Len(s) : s[i] = t[i]
  PROVE  s = t
BY SeqEqual

\* What is below the operands on top, and what they are, is all there is.
LEMMA TopReplaced ==
  ASSUME NEW S, NEW s \in Seq(S), NEW t \in Seq(S), EndsWith(s, t)
  PROVE  SubSeq(s, 1, Len(s) - Len(t)) \o t = s
<1> DEFINE h == Len(s) - Len(t)
           w == SubSeq(s, 1, h) \o t
<1>1. Len(s) \in Nat /\ Len(t) \in Nat /\ h \in 0 .. Len(s)
  BY DEF EndsWith
<1>2. SubSeq(s, 1, h) \in Seq(S) /\ Len(SubSeq(s, 1, h)) = h /\ \A i \in 1 .. h : SubSeq(s, 1, h)[i] = s[i]
  BY <1>1
<1>3. w \in Seq(S) /\ Len(w) = Len(s)
  BY <1>1, <1>2
<1>4. ASSUME NEW i \in 1 .. Len(s) PROVE w[i] = s[i]
  <2>1. CASE i <= h
    BY <1>1, <1>2, <2>1
  <2>2. CASE i > h
    <3>1. i - h \in 1 .. Len(t) /\ i = Len(s) - Len(t) + (i - h)
      BY <1>1, <2>2
    <3>2. w[i] = t[i - h]
      BY <1>1, <1>2, <2>2
    <3>3. s[Len(s) - Len(t) + (i - h)] = t[i - h]
      BY <3>1 DEF EndsWith
    <3>. QED  BY <3>1, <3>2, <3>3
  <2>. QED  BY <1>1, <2>1, <2>2
<1>. QED  BY <1>3, <1>4, SameSequence, Zenon

\* The signature of a condition, and the empty one.
LEMMA I32 ==
  /\ <<"i32">> \in Seq(ValueTypes) /\ Len(<<"i32">>) = 1
  /\ <<>> \in Seq(ValueTypes) /\ Len(<<>>) = 0
BY DEF ValueTypes

\* The operand that says whether to branch goes; what a branch takes stays.
LEMMA BrIfFollows ==
  ASSUME NEW c \in Checkers, Sound(c), c.ok, NEW depth \in Nat, OnBrIf(c, depth).ok
  PROVE  LET d == OnBrIf(c, depth)
             taken == BranchTypes(GetLabel(c, depth))
         IN  /\ HasLabel(c, depth) /\ d \in Checkers /\ Follows(c, d) /\ d.labels = c.labels
             /\ AllLive(c) => /\ Len(c.types) >= 1
                              /\ d.types = SubSeq(c.types, 1, Len(c.types) - 1)
                              /\ EndsWith(d.types, taken) /\ Len(d.types) >= Innermost(c).limit + Len(taken)
<1> DEFINE d == OnBrIf(c, depth)
           taken == BranchTypes(GetLabel(c, depth))
           e == PopAndCheck(c, <<"i32">>)
<1>1. HasLabel(c, depth)
  BY DEF OnBrIf, Fail, Checkers
<1>2. taken \in Seq(ValueTypes)
  BY <1>1, LabelIs, BranchIs
<1>3. d = CheckCall(e, taken, taken)
  BY <1>1 DEF OnBrIf
<1>4. e \in Checkers
  BY PopIs, I32, Zenon
<1>5. e.ok
  <2> HIDE DEF e, taken
  <2>1. Require(DropTypes(e, Len(taken)), CheckSignature(e, taken)).ok
    <3>1. Sound(e) => PopAndCheck(e, taken) \in Checkers
      BY <1>2, <1>4, PopIs
    <3>. QED  BY <1>2, <1>3, <1>4 DEF CheckCall, PushTypes, PopAndCheck, Require
  <2>2. Len(taken) \in Nat
    BY <1>2
  <2>. QED  BY <1>4, <2>1 DEF DropTypes, ResetTypeStackToLabel, Fail, Require, Checkers
<1>6. /\ Follows(c, e) /\ e.labels = c.labels
      /\ AllLive(c) => /\ Len(c.types) >= 1
                       /\ e.types = SubSeq(c.types, 1, Len(c.types) - 1)
  <2> HIDE DEF d, taken
  <2>1. \A n \in Nat : n + 1 <= Len(c.types) => Len(c.types) >= 1
    BY SoundStacks
  <2>2. Innermost(c).limit \in Nat
    BY SoundStacks
  <2>3. /\ Follows(c, e) /\ e.labels = c.labels
        /\ AllLive(c) => /\ Len(c.types) >= Innermost(c).limit + Len(<<"i32">>)
                         /\ e.types = SubSeq(c.types, 1, Len(c.types) - Len(<<"i32">>))
    BY <1>5, PopFollows, I32, Zenon
  <2> HIDE DEF e
  <2>. QED  BY <2>1, <2>2, <2>3, I32
<1> HIDE DEF e, taken
<1>7. Sound(e)
  BY <1>6 DEF Follows
<1>8. /\ d \in Checkers /\ Follows(e, d) /\ d.labels = e.labels
      /\ AllLive(e) => /\ EndsWith(e.types, taken)
                       /\ Len(e.types) >= Innermost(e).limit + Len(taken)
                       /\ d.types = SubSeq(e.types, 1, Len(e.types) - Len(taken)) \o taken
  BY <1>2, <1>3, <1>4, <1>5, <1>7, CallFollows
<1>9. Follows(c, d)
  BY <1>6, <1>8, FollowsOn
<1>10. ASSUME AllLive(c)
       PROVE  d.types = e.types /\ EndsWith(e.types, taken) /\ Len(e.types) >= Innermost(c).limit + Len(taken)
  <2>1. AllLive(e) /\ Innermost(e) = Innermost(c)
    BY <1>6, <1>10 DEF AllLive, Live, Innermost
  <2>2. e.types \in Seq(ValueTypes)
    BY <1>7, <2>1, LiveTypes
  <2>. QED  BY <1>2, <1>8, <2>1, <2>2, TopReplaced, Zenon
<1>. QED  BY <1>1, <1>6, <1>8, <1>9, <1>10 DEF taken, e

\* SetUnreachable refuses nothing.
LEMMA UnreachableOk ==
  ASSUME NEW c \in Checkers
  PROVE  SetUnreachable(c).ok = c.ok /\ "ok" \in DOMAIN SetUnreachable(c)
BY DEF SetUnreachable, ResetTypeStackToLabel, Checkers

\* OnBrTable finds, below the key, what the branch to every target takes.
LEMMA BrTableFollows ==
  ASSUME NEW c \in Checkers, Sound(c), c.ok, NEW depths \in Seq(Nat), depths # <<>>, OnBrTable(c, depths).ok
  PROVE  LET d == OnBrTable(c, depths)
             rest == SubSeq(c.types, 1, Len(c.types) - 1)
         IN  /\ \A i \in DOMAIN depths : HasLabel(c, depths[i])
             /\ d \in Checkers /\ Follows(c, d) /\ ~AllLive(d)
             /\ AllLive(c) => /\ Len(c.types) >= 1
                              /\ \A i \in DOMAIN depths :
                                    LET taken == BranchTypes(GetLabel(c, depths[i]))
                                    IN  EndsWith(rest, taken) /\ Len(rest) >= Innermost(c).limit + Len(taken)
<1> DEFINE d == OnBrTable(c, depths)
           e == PopAndCheck(c, <<"i32">>)
           u == SetUnreachable(e)
           taken(i) == BranchTypes(GetLabel(c, depths[i]))
           checks == /\ \A i \in DOMAIN depths : CheckSignature(e, taken(i))
                     /\ \A i \in DOMAIN depths \ {1} : taken(i) = taken(i - 1)
<1>1. \A i \in DOMAIN depths : HasLabel(c, depths[i])
  BY Zenon DEF OnBrTable, Fail, Checkers
<1>2. \A i \in DOMAIN depths : depths[i] \in Nat /\ taken(i) \in Seq(ValueTypes)
  BY <1>1, LabelIs, BranchIs
<1>3. d = Require(u, checks) /\ checks \in BOOLEAN
  BY <1>1, Zenon DEF OnBrTable
<1>4. e \in Checkers
  BY PopIs, I32, Zenon
<1>5. e.ok
  <2>1. u.ok = e.ok /\ "ok" \in DOMAIN u
    BY <1>4, UnreachableOk
  <2> HIDE DEF u, e, checks
  <2>. QED  BY <1>3, <2>1, Zenon DEF Require
<1>6. /\ Follows(c, e) /\ e.labels = c.labels
      /\ AllLive(c) => /\ Len(c.types) >= 1
                       /\ e.types = SubSeq(c.types, 1, Len(c.types) - 1)
  <2> HIDE DEF d, u, checks
  <2>2. Innermost(c).limit \in Nat /\ Len(c.types) \in Nat
    BY SoundStacks
  <2>3. /\ Follows(c, e) /\ e.labels = c.labels
        /\ AllLive(c) => /\ Len(c.types) >= Innermost(c).limit + Len(<<"i32">>)
                         /\ e.types = SubSeq(c.types, 1, Len(c.types) - Len(<<"i32">>))
    BY <1>5, PopFollows, I32, Zenon
  <2> HIDE DEF e
  <2>. QED  BY <2>2, <2>3, I32
<1>7. Sound(e)
  BY <1>6 DEF Follows
<1>8. u \in Checkers /\ Follows(e, u) /\ ~AllLive(u)
  BY <1>4, <1>7, UnreachableFollows
<1>9. Follows(c, u)
  BY <1>6, <1>8, FollowsOn
<1> HIDE DEF u, e, checks
<1>10. d \in Checkers /\ d.types = u.types /\ d.labels = u.labels /\ checks
  BY <1>3, <1>8, RequireIs
<1> HIDE DEF d
<1>11. Follows(c, d) /\ ~AllLive(d)
  BY <1>8, <1>9, <1>10, SMTT(20) DEF Follows, Sound, Keeps, Prefix, Innermost, AllLive, Live
<1>12. ASSUME AllLive(c), NEW i \in DOMAIN depths
       PROVE  EndsWith(e.types, taken(i)) /\ Len(e.types) >= Innermost(c).limit + Len(taken(i))
  <2>1. AllLive(e) /\ Innermost(e) = Innermost(c)
    BY <1>6, <1>12, Zenon DEF AllLive, Live, Innermost
  <2>2. CheckSignature(e, taken(i)) /\ taken(i) \in Seq(ValueTypes)
    BY <1>2, <1>10, <1>12 DEF checks
  <2>. QED  BY <1>7, <2>1, <2>2, CheckedSignature
<1>. QED  BY <1>1, <1>6, <1>10, <1>11, <1>12, Zenon DEF d

\* OnReturn finds the results of the function.
LEMMA ReturnFollows ==
  ASSUME NEW c \in Checkers, Sound(c), c.ok, OnReturn(c).ok
  PROVE  /\ OnReturn(c) \in Checkers /\ Follows(c, OnReturn(c)) /\ ~AllLive(OnReturn(c))
         /\ AllLive(c) => EndsWith(c.types, Results)
<1> DEFINE e == PopAndCheck(c, Results)
           d == SetUnreachable(e)
<1>1. d = OnReturn(c) /\ Results \in Seq(ValueTypes)
  <2>1. Head(c.labels) = c.labels[1]
    BY SoundStacks
  <2>2. Results \in Seq(ValueTypes)
    BY ResultShape
  <2>. QED  BY <2>1, <2>2 DEF OnReturn, Sound
<1>2. e \in Checkers
  BY <1>1, PopIs
<1>3. d.ok = e.ok
  BY <1>2, UnreachableOk
<1>4. Follows(c, e) /\ (AllLive(c) => EndsWith(c.types, Results))
  <2>1. e.ok
    BY <1>1, <1>3
  <2>. QED  BY <1>1, <2>1, PopFollows
<1>5. Sound(e)
  BY <1>4 DEF Follows
<1>6. d \in Checkers /\ Follows(e, d) /\ ~AllLive(d)
  BY <1>2, <1>5, UnreachableFollows
<1> HIDE DEF d, e
<1>. QED  BY <1>1, <1>4, <1>6, FollowsOn

\* A construct that is opened can be reached where the code before it can.
LEMMA OpenedIs ==
  ASSUME NEW c \in Checkers, Sound(c), NEW kind \in LabelKinds \ {"Func"}, NEW sig \in Seq(ValueTypes)
  PROVE  LET d == PushLabel(c, kind, sig)
             n == Len(c.labels)
         IN  /\ d \in Checkers /\ Sound(d) /\ d.types = c.types /\ d.ok = c.ok
             /\ Len(d.labels) = n + 1 /\ \A k \in 1 .. n : d.labels[k] = c.labels[k]
             /\ d.labels[n + 1] = [kind |-> kind, sig |-> sig, limit |-> Len(c.types), unreachable |-> FALSE]
             /\ AllLive(c) => AllLive(d)
<1> DEFINE d == PushLabel(c, kind, sig)
           n == Len(c.labels)
           new == [kind |-> kind, sig |-> sig, limit |-> Len(c.types), unreachable |-> FALSE]
<1>1. n \in Nat \ {0} /\ Len(c.types) \in Nat /\ c.labels \in Seq(Constructs)
  BY SoundStacks
<1>2. new \in Constructs
  BY <1>1 DEF Constructs
<1>3. d = [c EXCEPT !.labels = Append(c.labels, new)]
  BY DEF PushLabel
<1> HIDE DEF new
<1>4. Append(c.labels, new) \in Seq(Constructs)
  BY <1>1, <1>2
<1>5. d \in Checkers /\ d.types = c.types /\ d.ok = c.ok /\ d.labels = Append(c.labels, new)
  BY <1>3, <1>4, Zenon DEF Checkers
<1> HIDE DEF d
<1>6. /\ Len(d.labels) = n + 1 /\ \A k \in 1 .. n : d.labels[k] = c.labels[k]
      /\ d.labels[n + 1] = new /\ d.labels \in Seq(Constructs)
  BY <1>1, <1>2, <1>5
<1>7. new.kind # "Func" /\ new.limit = Len(c.types) /\ new.unreachable = FALSE
  BY DEF new
<1>8. Sound(d)
  <2>1. d.types \in Seq(Types) /\ d.labels # <<>>
    BY <1>1, <1>5, <1>6, SoundStacks
  <2>2. d.labels[1].sig = Results /\ d.labels[1].limit = 0
    BY <1>1, <1>6 DEF Sound
  <2>3. \A k \in 1 .. n + 1 : d.labels[k].kind = "Func" <=> k = 1
    <3>1. \A k \in 1 .. n : c.labels[k].kind = "Func" <=> k = 1
      BY DEF Sound
    <3>2. \A k \in 1 .. n + 1 : k \in 1 .. n \/ (k = n + 1 /\ k # 1)
      BY <1>1
    <3>. QED  BY <1>6, <1>7, <3>1, <3>2, Zenon
  <2>4. \A k \in 1 .. n : c.labels[k].limit <= Len(c.types)
    BY DEF Sound
  <2>5. \A k \in 1 .. n + 1 : d.labels[k].limit <= Len(d.types)
    BY <1>1, <1>5, <1>6, <1>7, <2>4
  <2>6. \A k \in 1 .. n + 1 : \A j \in 1 .. k : d.labels[j].limit <= d.labels[k].limit
    <3>1. \A k \in 1 .. n : \A j \in 1 .. k : c.labels[j].limit <= c.labels[k].limit
      BY DEF Sound
    <3>2. ASSUME NEW k \in 1 .. n + 1, NEW j \in 1 .. k PROVE d.labels[j].limit <= d.labels[k].limit
      <4>1. CASE k \in 1 .. n
        <5>1. j \in 1 .. n
          BY <1>1, <4>1
        <5>. QED  BY <1>6, <3>1, <4>1, <5>1, Zenon
      <4>2. CASE k = n + 1 /\ j \in 1 .. n
        BY <1>1, <1>6, <1>7, <2>4, <4>2, Zenon
      <4>3. CASE k = n + 1 /\ j = n + 1
        BY <1>1, <1>6, <1>7, <4>3
      <4>. QED  BY <1>1, <4>1, <4>2, <4>3
    <3>. QED  BY <3>2
  <2>7. \A i \in 1 .. Len(d.types) : d.types[i] = AnyType =>
          \E k \in 1 .. n + 1 : d.labels[k].unreachable /\ d.labels[k].limit < i
    <3>1. \A i \in 1 .. Len(c.types) : c.types[i] = AnyType =>
            \E k \in 1 .. n : c.labels[k].unreachable /\ c.labels[k].limit < i
      BY Zenon DEF Sound
    <3>2. \A k \in 1 .. n : k \in 1 .. n + 1
      BY <1>1
    <3>. QED  BY <1>5, <1>6, <3>1, <3>2
  <2>. QED  BY <1>6, <2>1, <2>2, <2>3, <2>5, <2>6, <2>7 DEF Sound
<1>9. AllLive(c) => AllLive(d)
  BY <1>1, <1>6, <1>7, SMTT(20) DEF AllLive, Live
<1>. QED  BY <1>5, <1>6, <1>8, <1>9 DEF d, new

\* At the end of a construct there are its results and nothing else of its own.
LEMMA EndOfConstruct ==
  ASSUME NEW c \in Checkers, Sound(c), c.ok, NEW p, p = PopAndCheck(c, Innermost(c).sig), p.ok, CheckTypeStackEnd(p)
  PROVE  /\ p \in Checkers /\ p.labels = c.labels /\ Sound(p)
         /\ SubSeq(p.types, 1, Innermost(c).limit) = SubSeq(c.types, 1, Innermost(c).limit)
         /\ AllLive(c) => c.types = Closed(c)
<1> DEFINE limit == Innermost(c).limit
           sig == Innermost(c).sig
<1>1. /\ sig \in Seq(ValueTypes) /\ limit \in Nat /\ limit <= Len(c.types) /\ Len(c.types) \in Nat
      /\ c.types \in Seq(Types)
  BY SoundStacks DEF Constructs
<1>2. /\ p \in Checkers /\ Follows(c, p) /\ p.labels = c.labels
      /\ AllLive(c) => /\ EndsWith(c.types, sig)
                       /\ Len(c.types) >= limit + Len(sig)
                       /\ p.types = SubSeq(c.types, 1, Len(c.types) - Len(sig))
  BY <1>1, PopFollows, PopIs, Zenon
<1>3. Sound(p) /\ Innermost(p) = Innermost(c) /\ Len(p.types) = limit
  BY <1>2 DEF Follows, Innermost, CheckTypeStackEnd, TopLabel, Last
<1>4. p.types \in Seq(Types) /\ \A i \in 1 .. limit : p.types[i] = c.types[i]
  <2>1. Len(c.labels) \in 1 .. Len(c.labels) /\ Innermost(c) = c.labels[Len(c.labels)]
    BY SoundStacks
  <2>. QED  BY <1>2, <1>3, <2>1, SoundStacks DEF Follows, Keeps, Prefix
<1>5. SubSeq(p.types, 1, limit) = SubSeq(c.types, 1, limit)
  <2>1. /\ SubSeq(p.types, 1, limit) \in Seq(Types) /\ SubSeq(c.types, 1, limit) \in Seq(Types)
        /\ Len(SubSeq(p.types, 1, limit)) = limit /\ Len(SubSeq(c.types, 1, limit)) = limit
        /\ \A i \in 1 .. limit : SubSeq(p.types, 1, limit)[i] = p.types[i] /\ SubSeq(c.types, 1, limit)[i] = c.types[i]
    BY <1>1, <1>3, <1>4
  <2>. QED  BY <1>4, <2>1, SameSequence
<1>6. ASSUME AllLive(c) PROVE c.types = Closed(c)
  <2>1. Len(sig) \in Nat
    BY <1>1
  <2>2. Len(c.types) - Len(sig) = limit
    <3>1. Len(SubSeq(c.types, 1, Len(c.types) - Len(sig))) = Len(c.types) - Len(sig)
      <4>1. Len(c.types) >= limit + Len(sig)
        BY <1>2, <1>6
      <4> HIDE DEF limit, sig
      <4>2. Len(c.types) - Len(sig) \in 0 .. Len(c.types)
        BY <1>1, <2>1, <4>1
      <4>. QED  BY <1>1, <4>2
    <3>. QED  BY <1>2, <1>3, <1>6, <3>1, Zenon
  <2>3. sig \in Seq(Types)
    BY <1>1 DEF Types
  <2>. QED  BY <1>1, <1>2, <1>6, <2>2, <2>3, TopReplaced, Zenon DEF Closed
<1>. QED  BY <1>2, <1>3, <1>5, <1>6

\* The other branch of an If begins as the first one did.
LEMMA ElseIs ==
  ASSUME NEW c \in Checkers, Sound(c), c.ok, OnElse(c).ok
  PROVE  LET d == OnElse(c)
             n == Len(c.labels)
         IN  /\ d \in Checkers /\ Sound(d) /\ Len(d.labels) = n
             /\ d.types = SubSeq(c.types, 1, Innermost(c).limit)
             /\ \A k \in 1 .. n : k < n => d.labels[k] = c.labels[k]
             /\ d.labels[n].sig = c.labels[n].sig /\ d.labels[n].limit = c.labels[n].limit
             /\ c.labels[n].kind = "If" /\ d.labels[n].kind = "Else" /\ ~d.labels[n].unreachable
             /\ AllLive(c) => c.types = Closed(c)
<1> DEFINE d == OnElse(c)
           n == Len(c.labels)
           limit == Innermost(c).limit
           p == PopAndCheck(c, TopLabel(c).sig)
           r == ResetTypeStackToLabel(p)
           new == [c.labels[n] EXCEPT !.kind = "Else", !.unreachable = FALSE]
           m == [r EXCEPT !.labels[n].kind = "Else", !.labels[n].unreachable = FALSE]
           checks == TopLabel(c).kind = "If" /\ CheckTypeStackEnd(p)
<1>1. /\ n \in Nat \ {0} /\ n \in 1 .. n /\ Innermost(c) = c.labels[n] /\ TopLabel(c) = c.labels[n]
      /\ c.labels[n] \in Constructs /\ limit \in Nat /\ limit <= Len(c.types) /\ Len(c.types) \in Nat
      /\ c.types \in Seq(Types) /\ c.labels \in Seq(Constructs)
  BY SoundStacks DEF TopLabel
<1>2. c.labels[n].sig \in Seq(ValueTypes)
  BY <1>1 DEF Constructs
<1>3. p \in Checkers
  BY <1>1, <1>2, PopIs
<1>4. d = Require(m, checks) /\ checks \in BOOLEAN
  BY DEF OnElse, CheckTypeStackEnd
<1> HIDE DEF p
<1>5. r.ok = p.ok /\ r.labels = p.labels /\ "ok" \in DOMAIN r
  BY <1>3 DEF ResetTypeStackToLabel, Checkers
<1> HIDE DEF r
<1>6. m.ok = r.ok /\ "ok" \in DOMAIN m
  BY <1>5
<1> HIDE DEF m, checks
<1>7. p.ok /\ checks
  <2>1. d.ok = (m.ok /\ checks)
    BY <1>4, <1>6, Zenon DEF Require
  <2>. QED  BY <1>5, <1>6, <2>1, Zenon
<1>8. /\ p.labels = c.labels /\ Sound(p)
      /\ SubSeq(p.types, 1, limit) = SubSeq(c.types, 1, limit)
      /\ AllLive(c) => c.types = Closed(c)
  BY <1>1, <1>7, EndOfConstruct, Zenon DEF checks, p
<1>9. r = [types |-> SubSeq(c.types, 1, limit), labels |-> c.labels, ok |-> p.ok]
  <2>1. p = [types |-> p.types, labels |-> c.labels, ok |-> p.ok]
    BY <1>3, <1>8 DEF Checkers
  <2>2. TopLabel(p) = Innermost(c)
    BY <1>1, <1>8 DEF TopLabel, Last
  <2>3. r = [p EXCEPT !.types = SubSeq(p.types, 1, limit)]
    BY <2>2 DEF r, ResetTypeStackToLabel
  <2>. QED  BY <1>8, <2>1, <2>3, Zenon
<1>10. m = [types |-> SubSeq(c.types, 1, limit), labels |-> [c.labels EXCEPT ![n] = new], ok |-> p.ok]
  <2>1. m = [r EXCEPT !.labels = [[r.labels EXCEPT ![n] = [r.labels[n] EXCEPT !.kind = "Else"]]
                                    EXCEPT ![n] = [@ EXCEPT !.unreachable = FALSE]]]
    BY <1>9, Zenon DEF m
  <2>2. [[c.labels EXCEPT ![n] = [c.labels[n] EXCEPT !.kind = "Else"]]
            EXCEPT ![n] = [@ EXCEPT !.unreachable = FALSE]] = [c.labels EXCEPT ![n] = new]
    BY <1>1, Zenon
  <2> HIDE DEF new
  <2>. QED  BY <1>9, <2>1, <2>2, Zenon
<1>11. /\ new \in Constructs /\ new.kind = "Else" /\ new.unreachable = FALSE
       /\ new.sig = c.labels[n].sig /\ new.limit = c.labels[n].limit
  BY <1>1, Zenon DEF Constructs, LabelKinds
<1> HIDE DEF new
<1>12. /\ m.labels \in Seq(Constructs) /\ Len(m.labels) = n /\ m.labels[n] = new
       /\ \A k \in 1 .. n : k < n => m.labels[k] = c.labels[k]
  <2>1. m.labels = [c.labels EXCEPT ![n] = new]
    BY <1>10
  <2>. QED  BY <1>1, <1>11, <2>1
<1>13. /\ m.types = SubSeq(c.types, 1, limit) /\ m.types \in Seq(Types) /\ Len(m.types) = limit
       /\ \A i \in 1 .. limit : m.types[i] = c.types[i]
  BY <1>1, <1>10
<1>14. m \in Checkers
  BY <1>3, <1>10, <1>12, <1>13 DEF Checkers
<1>15. d \in Checkers /\ d.types = m.types /\ d.labels = m.labels
  BY <1>4, <1>14, RequireIs
<1> HIDE DEF d
<1>16. Sound(d)
  <2>1. d.labels[1].sig = Results /\ d.labels[1].limit = 0 /\ d.labels # <<>>
    BY <1>1, <1>11, <1>12, <1>15 DEF Sound
  <2>2. c.labels[n].kind = "If"
    BY <1>1, <1>7 DEF checks
  <2>3. \A k \in 1 .. n : d.labels[k].kind = "Func" <=> k = 1
    BY <1>1, <1>11, <1>12, <1>15, <2>2 DEF Sound
  <2>4. \A k \in 1 .. n : d.labels[k].limit = c.labels[k].limit
    BY <1>1, <1>11, <1>12, <1>15
  <2>5. \A k \in 1 .. n : \A j \in 1 .. k : d.labels[j].limit <= d.labels[k].limit
    BY <1>1, <2>4 DEF Sound
  <2>6. \A k \in 1 .. n : d.labels[k].limit <= Len(d.types)
    BY <1>1, <1>13, <1>15, <2>4, SoundStacks
  <2>7. ASSUME NEW i \in 1 .. limit, d.types[i] = AnyType
        PROVE  \E k \in 1 .. n : d.labels[k].unreachable /\ d.labels[k].limit < i
    <3>1. PICK k \in 1 .. n : c.labels[k].unreachable /\ c.labels[k].limit < i
      <4>1. i \in 1 .. Len(c.types) /\ c.types[i] = AnyType
        BY <1>1, <1>13, <1>15, <2>7
      <4>. QED  BY <4>1 DEF Sound
    <3>2. k < n
      BY <1>1, <3>1
    <3>. QED  BY <1>12, <1>15, <3>1, <3>2
  <2>. QED  BY <1>12, <1>13, <1>15, <2>1, <2>3, <2>5, <2>6, <2>7, Zenon DEF Sound
<1>. QED  BY <1>1, <1>7, <1>8, <1>11, <1>12, <1>13, <1>15, <1>16 DEF d, checks

\* A closed construct leaves its results on what was there before it.
LEMMA CloseIs ==
  ASSUME NEW c \in Checkers, Sound(c), c.ok, CloseLabel(c).ok
  PROVE  LET d == CloseLabel(c)
             n == Len(c.labels)
         IN  /\ d \in Checkers /\ d.types = Closed(c) /\ Len(d.labels) = n - 1
             /\ \A k \in 1 .. n - 1 : d.labels[k] = c.labels[k]
             /\ AllLive(c) => c.types = Closed(c)
             /\ n > 1 => Sound(d)
<1> DEFINE d == CloseLabel(c)
           n == Len(c.labels)
           limit == Innermost(c).limit
           sig == TopLabel(c).sig
           p == PopAndCheck(c, sig)
           r == ResetTypeStackToLabel(p)
           m == PopLabel(PushTypes(r, sig))
           checks == CheckTypeStackEnd(p)
<1>1. /\ n \in Nat \ {0} /\ n \in 1 .. n /\ Innermost(c) = c.labels[n] /\ TopLabel(c) = c.labels[n]
      /\ c.labels[n] \in Constructs /\ limit \in Nat /\ limit <= Len(c.types) /\ Len(c.types) \in Nat
      /\ c.types \in Seq(Types) /\ c.labels \in Seq(Constructs) /\ c.labels # <<>>
  BY SoundStacks DEF TopLabel
<1>2. sig \in Seq(ValueTypes) /\ sig \in Seq(Types)
  BY <1>1 DEF Constructs, Types
<1>3. p \in Checkers
  BY <1>2, PopIs
<1>4. d = Require(m, checks) /\ checks \in BOOLEAN
  BY DEF CloseLabel, CheckTypeStackEnd
<1> HIDE DEF p
<1>5. m.ok = p.ok /\ "ok" \in DOMAIN m
  BY <1>3 DEF ResetTypeStackToLabel, PopLabel, PushTypes, Checkers
<1> HIDE DEF m, checks, sig
<1>6. p.ok /\ checks
  <2>1. d.ok = (m.ok /\ checks)
    BY <1>4, <1>5 DEF Require
  <2>. QED  BY <1>5, <2>1, Zenon
<1>7. /\ p.labels = c.labels /\ Sound(p)
      /\ SubSeq(p.types, 1, limit) = SubSeq(c.types, 1, limit)
      /\ AllLive(c) => c.types = Closed(c)
  BY <1>1, <1>6, EndOfConstruct, Zenon DEF checks, p, sig
<1>8. m = [types |-> Closed(c), labels |-> Front(c.labels), ok |-> p.ok]
  <2>1. p = [types |-> p.types, labels |-> c.labels, ok |-> p.ok]
    BY <1>3, <1>7 DEF Checkers
  <2>2. TopLabel(p) = Innermost(c)
    BY <1>1, <1>7 DEF TopLabel, Last
  <2>3. r = [p EXCEPT !.types = SubSeq(p.types, 1, limit)]
    BY <2>2 DEF ResetTypeStackToLabel
  <2>4. r = [types |-> SubSeq(c.types, 1, limit), labels |-> c.labels, ok |-> p.ok]
    BY <1>7, <2>1, <2>3, Zenon
  <2> HIDE DEF r
  <2> HIDE DEF r
  <2>5. PushTypes(r, sig) = [types |-> SubSeq(c.types, 1, limit) \o sig, labels |-> c.labels, ok |-> p.ok]
    <3>1. PushTypes(r, sig) = [r EXCEPT !.types = r.types \o sig]
      BY DEF PushTypes
    <3>2. r.types = SubSeq(c.types, 1, limit)
      BY <2>4, Zenon
    <3> DEFINE below == SubSeq(c.types, 1, limit)
               new == below \o sig
    <3>3. r = [types |-> below, labels |-> c.labels, ok |-> p.ok] /\ PushTypes(r, sig) = [r EXCEPT !.types = new]
      BY <2>4, <3>1, <3>2
    <3> HIDE DEF below, new
    <3>4. PushTypes(r, sig) = [types |-> new, labels |-> c.labels, ok |-> p.ok]
      BY <3>3
    <3>. QED  BY <3>4 DEF new, below
  <2>6. Closed(c) = SubSeq(c.types, 1, limit) \o sig
    BY <1>1 DEF Closed, sig
  <2>7. m = [PushTypes(r, sig) EXCEPT !.labels = Front(PushTypes(r, sig).labels)]
    BY DEF m, PopLabel, r
  <2> DEFINE q == PushTypes(r, sig)
  <2>8. q = [types |-> Closed(c), labels |-> c.labels, ok |-> p.ok] /\ m = [q EXCEPT !.labels = Front(q.labels)]
    BY <2>5, <2>6, <2>7
  <2> HIDE DEF q
  <2>9. q.labels = c.labels
    BY <2>8
  <2>. QED  BY <2>8, <2>9
<1>9. /\ Front(c.labels) \in Seq(Constructs) /\ Len(Front(c.labels)) = n - 1
      /\ \A k \in 1 .. n - 1 : Front(c.labels)[k] = c.labels[k]
  BY <1>1, FrontOfSeq, ZenonT(30)
<1>10. /\ Closed(c) \in Seq(Types) /\ Len(Closed(c)) = limit + Len(sig) /\ Len(sig) \in Nat
       /\ \A i \in 1 .. limit : Closed(c)[i] = c.types[i]
       /\ \A i \in 1 .. Len(Closed(c)) : i > limit => Closed(c)[i] \in ValueTypes
  <2>1. Closed(c) = SubSeq(c.types, 1, limit) \o sig
    BY <1>1 DEF Closed, sig
  <2>2. /\ SubSeq(c.types, 1, limit) \in Seq(Types) /\ Len(SubSeq(c.types, 1, limit)) = limit
        /\ \A i \in 1 .. limit : SubSeq(c.types, 1, limit)[i] = c.types[i]
    BY <1>1
  <2>3. \A i \in 1 .. limit + Len(sig) : i > limit => i - limit \in 1 .. Len(sig) /\ sig[i - limit] \in ValueTypes
    BY <1>1, <1>2
  <2>. QED  BY <1>1, <1>2, <2>1, <2>2, <2>3, SMTT(30)
<1>11. m \in Checkers
  BY <1>3, <1>8, <1>9, <1>10 DEF Checkers
<1>12. d \in Checkers /\ d.types = Closed(c) /\ d.labels = Front(c.labels)
  BY <1>4, <1>8, <1>11, RequireIs
<1> HIDE DEF d
<1>13. ASSUME n > 1 PROVE Sound(d)
  <2>1. d.labels # <<>> /\ d.labels[1].sig = Results /\ d.labels[1].limit = 0
    BY <1>1, <1>9, <1>12, <1>13 DEF Sound
  <2>2. \A k \in 1 .. n - 1 : k \in 1 .. n /\ d.labels[k] = c.labels[k] /\ c.labels[k].limit \in Nat
    BY <1>1, <1>9, <1>12, SoundStacks
  <2>3. \A k \in 1 .. n - 1 : d.labels[k].kind = "Func" <=> k = 1
    BY <2>2 DEF Sound
  <2>4. \A k \in 1 .. n - 1 : \A j \in 1 .. k : d.labels[j].limit <= d.labels[k].limit
    <3>1. \A k \in 1 .. n - 1 : \A j \in 1 .. k : j \in 1 .. n - 1
      BY <1>1
    <3>. QED  BY <2>2, <3>1, Zenon DEF Sound
  <2>5. \A k \in 1 .. n - 1 : d.labels[k].limit <= Len(d.types)
    <3>1. \A k \in 1 .. n : c.labels[k].limit <= limit
      BY <1>1, SoundStacks
    <3>2. Len(d.types) \in Nat /\ limit <= Len(d.types)
      BY <1>1, <1>10, <1>12
    <3> HIDE DEF limit
    <3> SUFFICES ASSUME NEW k \in 1 .. n - 1 PROVE d.labels[k].limit <= Len(d.types)
      OBVIOUS
    <3>3. d.labels[k] = c.labels[k] /\ c.labels[k].limit \in Nat /\ c.labels[k].limit <= limit
      BY <2>2, <3>1
    <3>. QED  BY <1>1, <3>2, <3>3
  <2>6. ASSUME NEW i \in 1 .. Len(d.types), d.types[i] = AnyType
        PROVE  \E k \in 1 .. n - 1 : d.labels[k].unreachable /\ d.labels[k].limit < i
    <3>1. i <= limit
      <4>1. AnyType \notin ValueTypes
        BY DEF AnyType, ValueTypes
      <4>. QED  BY <1>1, <1>10, <1>12, <2>6, <4>1
    <3>2. i \in 1 .. Len(c.types) /\ c.types[i] = AnyType
      BY <1>1, <1>10, <1>12, <2>6, <3>1
    <3>3. PICK k \in 1 .. n : c.labels[k].unreachable /\ c.labels[k].limit < i
      BY <3>2 DEF Sound
    <3>4. k \in 1 .. n - 1
      <4>1. c.labels[k].limit \in Nat
        BY SoundStacks
      <4>. QED  BY <1>1, <3>1, <3>3, <4>1
    <3>. QED  BY <2>2, <3>3, <3>4, Zenon
  <2>7. d.types \in Seq(Types) /\ d.labels \in Seq(Constructs) /\ Len(d.labels) = n - 1
    BY <1>9, <1>10, <1>12
  <2>. QED  BY <2>1, <2>3, <2>4, <2>5, <2>6, <2>7 DEF Sound
<1>. QED  BY <1>7, <1>9, <1>12, <1>13 DEF d
-----------------------------------------------------------------------------
(* One more instruction: what has been compiled stays, and leads where it did. *)

\* The opcodes stay, but that a jump may be told its target.
OldOpcodes(C, D) ==
  \A p \in 1 .. Len(C.opcodes) :
    LET was == C.opcodes[p]
        is  == D.opcodes[p]
    IN /\ is.op = was.op /\ is.v1 = was.v1 /\ is.src = was.src
       /\ is.v2 = was.v2 \/ (was.op \in Jumps /\ was.v2 = kInvalidIndex /\ is.v2 \in 0 .. Len(D.opcodes) + 1)
\* Those that come are of the new instruction.
NewOpcodes(C, D, instr) ==
  \A p \in Len(C.opcodes) + 1 .. Len(D.opcodes) :
    LET rec == D.opcodes[p]
    IN /\ rec.src = Len(C.source) + 1
       /\ rec.op = "end" <=> instr.op = "end"
       /\ (rec.op \in Jumps /\ rec.v2 # kInvalidIndex) => rec.v2 \in 0 .. Len(D.opcodes) + 1
\* C becomes D by one more instruction.
Grows(C, D, instr) ==
  /\ ~C.ended /\ C.now \in Notes /\ Sound(C.now)
  /\ instr \in Instructions
  /\ D.source = Append(C.source, instr) /\ D.noted = Append(C.noted, C.now)
  /\ D.opcodes \in Seq(OpcodeRecs) /\ Len(D.opcodes) >= Len(C.opcodes)
  /\ OldOpcodes(C, D) /\ NewOpcodes(C, D, instr)

\* What stood behind the last opcode: the new instruction, or else what stands there now.
GoesOn(C, D, instr) ==
  /\ (instr.op = "end" /\ AllLive(C.now)) => C.now.types = Closed(C.now)
  /\ Len(D.opcodes) = Len(C.opcodes) =>
       IF D.ended THEN instr.op = "end"
       ELSE D.now.types = C.now.types /\ (AllLive(C.now) => AllLive(D.now))

\* What is where in the code that has grown.
LEMMA GrowthIs ==
  ASSUME NEW C, NEW D, NEW instr, EmittedInv(C), Grows(C, D, instr)
  PROVE  /\ Len(C.opcodes) \in Nat /\ Len(D.opcodes) \in Nat /\ Len(C.source) \in Nat
         /\ Len(C.noted) = Len(C.source) /\ Len(D.noted) = Len(C.source) + 1 /\ Len(D.source) = Len(C.source) + 1
         /\ D.noted[Len(C.source) + 1] = C.now /\ D.source[Len(C.source) + 1] = instr
         /\ \A i \in 1 .. Len(C.source) : D.noted[i] = C.noted[i] /\ D.source[i] = C.source[i]
         /\ \A p \in 1 .. Len(C.opcodes) :
              /\ p \in 1 .. Len(D.opcodes)
              /\ C.opcodes[p] \in OpcodeRecs /\ C.opcodes[p].src \in 1 .. Len(C.source)
<1>1. /\ C.opcodes \in Seq(OpcodeRecs) /\ C.source \in Seq(Instructions) /\ C.noted \in Seq(Notes)
      /\ Len(C.noted) = Len(C.source)
      /\ \A p \in 1 .. Len(C.opcodes) : C.opcodes[p].src \in 1 .. Len(C.source)
  BY DEF EmittedInv, Emitted
<1>2. /\ D.source = Append(C.source, instr) /\ D.noted = Append(C.noted, C.now)
      /\ D.opcodes \in Seq(OpcodeRecs) /\ Len(D.opcodes) >= Len(C.opcodes)
      /\ C.now \in Notes /\ instr \in Instructions
  BY DEF Grows
<1>. QED  BY <1>1, <1>2, SMTT(20)

\* The opcodes are in order still.
LEMMA EmittedGrows ==
  ASSUME NEW C, NEW D, NEW instr, EmittedInv(C), Grows(C, D, instr)
  PROVE  EmittedInv(D)
<1> DEFINE m == Len(C.opcodes)
           n == Len(D.opcodes)
           s == Len(C.source)
<1>1. /\ m \in Nat /\ n \in Nat /\ m <= n /\ s \in Nat
      /\ OldOpcodes(C, D) /\ NewOpcodes(C, D, instr)
  BY GrowthIs DEF Grows
<1>2. /\ D.opcodes \in Seq(OpcodeRecs) /\ D.source \in Seq(Instructions) /\ D.noted \in Seq(Notes)
      /\ Len(D.noted) = Len(D.source)
  <2>1. C.source \in Seq(Instructions) /\ C.noted \in Seq(Notes)
    BY DEF EmittedInv
  <2>. QED  BY <2>1, GrowthIs DEF Grows
<1>3. \A i \in 1 .. Len(D.noted) : Sound(D.noted[i])
  <2>1. \A i \in 1 .. s : Sound(C.noted[i])
    BY GrowthIs DEF EmittedInv
  <2>2. Sound(C.now)
    BY DEF Grows
  <2>3. \A i \in 1 .. s + 1 : i \in 1 .. s \/ i = s + 1
    BY <1>1
  <2>. QED  BY <2>1, <2>2, <2>3, GrowthIs
<1>4. ASSUME NEW p \in 1 .. n PROVE Emitted(D, D.opcodes[p])
  <2>1. CASE p \in 1 .. m
    <3>1. Emitted(C, C.opcodes[p])
      BY <2>1 DEF EmittedInv
    <3>2. D.opcodes[p].src = C.opcodes[p].src /\ D.opcodes[p].op = C.opcodes[p].op
      BY <1>1, <2>1 DEF OldOpcodes
    <3>3. D.opcodes[p].src \in 1 .. Len(D.source) /\ D.source[D.opcodes[p].src] = C.source[C.opcodes[p].src]
      BY <1>1, <2>1, <3>2, GrowthIs
    <3>4. (D.opcodes[p].op \in Jumps /\ D.opcodes[p].v2 # kInvalidIndex) => D.opcodes[p].v2 \in 0 .. n + 1
      <4>1. CASE D.opcodes[p].v2 = C.opcodes[p].v2
        <5>1. \A v \in 0 .. m + 1 : v \in 0 .. n + 1
          BY <1>1
        <5>. QED  BY <3>1, <3>2, <4>1, <5>1 DEF Emitted
      <4>2. CASE D.opcodes[p].v2 \in 0 .. n + 1
        BY <4>2
      <4>. QED  BY <1>1, <2>1, <4>1, <4>2 DEF OldOpcodes
    <3>. QED  BY <3>1, <3>2, <3>3, <3>4 DEF Emitted
  <2>2. CASE p \in m + 1 .. n
    BY <1>1, <2>2, GrowthIs, SMTT(20) DEF NewOpcodes, Emitted
  <2>. QED  BY <1>1, <2>1, <2>2
<1>5. ASSUME NEW p \in 1 .. n, NEW q \in 1 .. p PROVE D.opcodes[q].src <= D.opcodes[p].src
  <2>1. CASE p \in 1 .. m
    <3>1. q \in 1 .. m /\ C.opcodes[q].src <= C.opcodes[p].src
      BY <1>1, <2>1 DEF EmittedInv
    <3>. QED  BY <1>1, <2>1, <3>1 DEF OldOpcodes
  <2>2. CASE p \in m + 1 .. n /\ q \in 1 .. m
    <3>1. D.opcodes[q].src \in 1 .. s
      BY <1>1, <2>2, GrowthIs, Zenon DEF OldOpcodes
    <3>. QED  BY <1>1, <2>2, <3>1, SMTT(20) DEF NewOpcodes
  <2>3. CASE p \in m + 1 .. n /\ q \in m + 1 .. n
    BY <1>1, <2>3 DEF NewOpcodes
  <2>. QED  BY <1>1, <2>1, <2>2, <2>3
<1>. QED  BY <1>2, <1>3, <1>4, <1>5 DEF EmittedInv

\* The old opcodes are noted as they were, and start instructions if they did.
LEMMA OldKnown ==
  ASSUME NEW C, NEW D, NEW instr, EmittedInv(C), Grows(C, D, instr), NEW q \in 1 .. Len(C.opcodes)
  PROVE  Known(D, q) = Known(C, q) /\ AtEnd(D, q) = AtEnd(C, q) /\ Starts(D, q) = Starts(C, q)
<1>1. /\ q \in 1 .. Len(D.opcodes) /\ C.opcodes[q].src \in 1 .. Len(C.source)
      /\ D.noted[C.opcodes[q].src] = C.noted[C.opcodes[q].src]
      /\ \A p \in 1 .. q : D.opcodes[p].src = C.opcodes[p].src
      /\ D.opcodes[q].op = C.opcodes[q].op
  BY GrowthIs DEF Grows, OldOpcodes
<1>2. Known(D, q) = Known(C, q) /\ AtEnd(D, q) = AtEnd(C, q)
  BY <1>1 DEF Known, AtEnd
<1>3. /\ q \in 1 .. Len(D.opcodes) + 1 /\ q \in 1 .. Len(C.opcodes) + 1
      /\ \A p \in 1 .. q - 1 : p \in 1 .. q
  BY GrowthIs
<1>4. Starts(D, q) <=> Starts(C, q)
  BY <1>1, <1>3, GrowthIs DEF Starts
<1>. QED  BY <1>2, <1>4 DEF Starts

\* Two sequences, one behind the other.
LEMMA JoinedIs ==
  ASSUME NEW S, NEW s \in Seq(S), NEW t \in Seq(S)
  PROVE  /\ s \o t \in Seq(S) /\ Len(s \o t) = Len(s) + Len(t)
         /\ Len(s) \in Nat /\ Len(t) \in Nat
         /\ \A i \in 1 .. Len(s) : (s \o t)[i] = s[i]
         /\ \A i \in 1 .. Len(t) : (s \o t)[Len(s) + i] = t[i]
OBVIOUS

\* Operands that are just those of a closed construct are enough to close it.
LEMMA ClosesWhenClosed ==
  ASSUME NEW c, Sound(c), AllLive(c), c.types = Closed(c)
  PROVE  Closes(c, Len(c.labels), c.types)
<1> DEFINE limit == Innermost(c).limit
           sig == Innermost(c).sig
<1>1. /\ Len(c.labels) \in Nat \ {0} /\ c.labels[Len(c.labels)] = Innermost(c)
      /\ limit \in Nat /\ limit <= Len(c.types) /\ sig \in Seq(ValueTypes) /\ c.types \in Seq(Types)
  BY SoundStacks DEF Constructs
<1>2. sig \in Seq(Types) /\ Len(sig) \in Nat /\ DOMAIN sig = 1 .. Len(sig)
  BY <1>1 DEF Types
<1>3. /\ SubSeq(c.types, 1, limit) \in Seq(Types) /\ Len(SubSeq(c.types, 1, limit)) = limit
  BY <1>1
<1>4. Len(c.types) = limit + Len(sig) /\ \A i \in 1 .. Len(sig) : c.types[limit + i] = sig[i]
  <2>1. c.types = SubSeq(c.types, 1, limit) \o sig
    BY Zenon DEF Closed
  <2> DEFINE below == SubSeq(c.types, 1, limit)
  <2> HIDE DEF below
  <2>2. Len(below \o sig) = limit + Len(sig) /\ \A i \in 1 .. Len(sig) : (below \o sig)[limit + i] = sig[i]
    <3>1. below \in Seq(Types) /\ Len(below) = limit
      BY <1>3 DEF below
    <3> HIDE DEF limit, sig
    <3>2. /\ Len(below \o sig) = Len(below) + Len(sig)
          /\ \A i \in 1 .. Len(sig) : (below \o sig)[Len(below) + i] = sig[i]
      <4>1. below \in Seq(Types) /\ sig \in Seq(Types)
        BY <1>2, <3>1
      <4> HIDE DEF below
      <4>. QED  BY <4>1, JoinedIs
    <3>. QED  BY <3>1, <3>2
  <2>. QED  BY <2>1, <2>2, Zenon DEF below
<1>5. EndsWith(c.types, sig)
  BY <1>1, <1>2, <1>4, SMTT(20) DEF EndsWith
<1>. QED  BY <1>1, <1>2, <1>4, <1>5 DEF Closes, AllLive, Live, Prefix

\* Wherever operands could arrive they can still do so.
LEMMA ArrivesKept ==
  ASSUME NEW C, NEW D, NEW instr, EmittedInv(C), Grows(C, D, instr), GoesOn(C, D, instr),
         NEW q, NEW types, Arrives(C, q, types)
  PROVE  Arrives(D, q, types)
<1> DEFINE m == Len(C.opcodes)
           n == Len(D.opcodes)
<1>1. q \in 1 .. m + 1 /\ m \in Nat /\ n \in Nat /\ m <= n
  BY GrowthIs DEF Arrives, Starts, Grows
<1>2. CASE q \in 1 .. m
  BY <1>2, OldKnown DEF Arrives
<1>3. CASE q = m + 1
  <2>1. /\ ~AtEnd(C, q) /\ Known(C, q) = C.now
        /\ AllLive(C.now) /\ types = C.now.types
    BY <1>1, <1>3 DEF Arrives, AtEnd, Known, Grows
  <2>2. instr.op = "end" => Closes(C.now, Len(C.now.labels), types)
    BY <2>1, ClosesWhenClosed DEF GoesOn, Grows
  <2>3. CASE n > m
    <3>1. q \in 1 .. n /\ q \in m + 1 .. n
      BY <1>1, <1>3, <2>3
    <3>2. D.opcodes[q].src = Len(C.source) + 1 /\ (D.opcodes[q].op = "end" <=> instr.op = "end")
      BY <3>1, Zenon DEF Grows, NewOpcodes
    <3>3. Known(D, q) = C.now
      BY <3>1, <3>2, GrowthIs DEF Known
    <3>4. Starts(D, q)
      <4>1. \A p \in 1 .. q - 1 : p \in 1 .. m /\ D.opcodes[p].src = C.opcodes[p].src /\ C.opcodes[p].src \in 1 .. Len(C.source)
        BY <1>1, <1>3, GrowthIs DEF Grows, OldOpcodes
      <4>2. \A p \in 1 .. q - 1 : D.opcodes[p].src < D.opcodes[q].src
        BY <3>2, <4>1, GrowthIs, SMTT(20)
      <4>3. q \in 1 .. n + 1
        BY <1>1, <3>1
      <4>. QED  BY <4>2, <4>3 DEF Starts
    <3>. QED  BY <2>1, <2>2, <3>1, <3>2, <3>3, <3>4 DEF Arrives, AtEnd
  <2>4. CASE n = m
    <3>1. q \notin 1 .. n /\ q \in 1 .. n + 1
      BY <1>1, <1>3, <2>4
    <3>2. CASE D.ended
      <4>1. AtEnd(D, q) /\ Known(D, q) = C.now /\ instr.op = "end"
        BY <2>4, <3>1, <3>2, GrowthIs DEF AtEnd, Known, GoesOn
      <4>. QED  BY <2>2, <3>1, <4>1 DEF Arrives, Starts
    <3>3. CASE ~D.ended
      <4>1. ~AtEnd(D, q) /\ Known(D, q) = D.now /\ AllLive(D.now) /\ D.now.types = types
        BY <2>1, <2>4, <3>1, <3>3 DEF AtEnd, Known, GoesOn
      <4>. QED  BY <3>1, <4>1 DEF Arrives, Starts
    <3>. QED  BY <3>2, <3>3
  <2>. QED  BY <1>1, <2>3, <2>4
<1>. QED  BY <1>1, <1>2, <1>3

\* What is below a construct is the same after a change inside it.
LEMMA KeptBelow ==
  ASSUME NEW c, NEW d, Sound(c), Sound(d), NEW n \in Nat, Keeps(c, d, n), NEW k \in 1 .. n
  PROVE  /\ k \in 1 .. Len(c.labels) /\ k \in 1 .. Len(d.labels)
         /\ d.labels[k].sig = c.labels[k].sig /\ d.labels[k].limit = c.labels[k].limit
         /\ Live(d, k - 1) <=> Live(c, k - 1)
         /\ Prefix(d.types, c.types, c.labels[k].limit)
         /\ SubSeq(d.types, 1, d.labels[k].limit) = SubSeq(c.types, 1, c.labels[k].limit)
<1>1. /\ n <= Len(c.labels) /\ n <= Len(d.labels) /\ k \in 1 .. Len(c.labels) /\ k \in 1 .. Len(d.labels)
      /\ d.labels[k].sig = c.labels[k].sig /\ d.labels[k].limit = c.labels[k].limit
      /\ \A j \in 1 .. k - 1 : d.labels[j] = c.labels[j]
      /\ Prefix(d.types, c.types, c.labels[k].limit)
  BY SoundStacks DEF Keeps
<1>2. /\ c.labels[k].limit \in Nat /\ c.labels[k].limit <= Len(c.types) /\ c.labels[k].limit <= Len(d.types)
      /\ c.types \in Seq(Types) /\ d.types \in Seq(Types)
  <2>1. c.labels[k].limit \in 0 .. Innermost(c).limit /\ d.labels[k].limit \in 0 .. Innermost(d).limit
    BY <1>1, SoundStacks, Zenon
  <2>2. Innermost(c).limit \in 0 .. Len(c.types) /\ Innermost(d).limit \in 0 .. Len(d.types)
    BY SoundStacks
  <2>. QED  BY <1>1, <2>1, <2>2, SoundStacks
<1>3. Live(c, k - 1) <=> Live(d, k - 1)
  BY <1>1, Zenon DEF Live
<1>4. SubSeq(d.types, 1, c.labels[k].limit) = SubSeq(c.types, 1, c.labels[k].limit)
  <2> DEFINE h == c.labels[k].limit
  <2>1. /\ SubSeq(d.types, 1, h) \in Seq(Types) /\ SubSeq(c.types, 1, h) \in Seq(Types)
        /\ Len(SubSeq(d.types, 1, h)) = h /\ Len(SubSeq(c.types, 1, h)) = h
        /\ \A i \in 1 .. h : SubSeq(d.types, 1, h)[i] = d.types[i] /\ SubSeq(c.types, 1, h)[i] = c.types[i]
    BY <1>2
  <2>2. \A i \in 1 .. h : SubSeq(d.types, 1, h)[i] = SubSeq(c.types, 1, h)[i]
    BY <1>1, <2>1 DEF Prefix
  <2> HIDE DEF h
  <2> DEFINE s == SubSeq(d.types, 1, h)
             t == SubSeq(c.types, 1, h)
  <2>3. s \in Seq(Types) /\ t \in Seq(Types) /\ Len(s) = Len(t) /\ \A i \in 1 .. Len(s) : s[i] = t[i]
    BY <2>1, <2>2
  <2> HIDE DEF s, t
  <2>4. s = t
    BY <2>3, SameSequence
  <2>. QED  BY <2>4, Zenon DEF s, t, h
<1>. QED  BY <1>1, <1>3, <1>4, Zenon

\* A construct that has changed only inside is waited for as before.
LEMMA AwaitedKept ==
  ASSUME NEW c, NEW d, Sound(c), Sound(d), NEW n \in Nat, Keeps(c, d, n), NEW k \in 1 .. n, NEW op, NEW types,
         op = "if" => d.labels[k].kind = c.labels[k].kind,
         AwaitedAt(c, k, op, types)
  PROVE  AwaitedAt(d, k, op, types)
<1>1. /\ d.labels[k].sig = c.labels[k].sig /\ d.labels[k].limit = c.labels[k].limit
      /\ Live(d, k - 1) <=> Live(c, k - 1)
      /\ Prefix(d.types, c.types, c.labels[k].limit)
      /\ SubSeq(d.types, 1, d.labels[k].limit) = SubSeq(c.types, 1, c.labels[k].limit)
  BY KeptBelow, ZenonT(30)
<1>2. CASE op = "if"
  BY <1>1, <1>2, Zenon DEF AwaitedAt
<1>3. CASE op # "if"
  BY <1>1, <1>3 DEF AwaitedAt, Closes, Prefix
<1>. QED  BY <1>2, <1>3

\* The jumps land where they did.
JumpsLand(C, D) ==
  \A p \in 1 .. Len(C.opcodes) : \A types :
    C.opcodes[p].op \in Jumps /\ Lands(C, p, types) => Lands(D, p, types)

\* A label that has no position yet is still that of an open construct, or has got one
\* where all operands that it waited for arrive.
LEMMA LandsKept ==
  ASSUME NEW C, NEW D, NEW instr, EmittedInv(C), Grows(C, D, instr), GoesOn(C, D, instr),
         \A id \in 1 .. Len(C.labels) : C.labels[id].offset # kInvalidIndex => D.labels[id].offset = C.labels[id].offset,
         NEW p \in 1 .. Len(C.opcodes), NEW types, C.opcodes[p].op \in Jumps, Lands(C, p, types),
         C.opcodes[p].v2 = kInvalidIndex => C.opcodes[p].v1 \in 1 .. Len(C.labels),
         \/ D.opcodes[p].v2 = C.opcodes[p].v2
         \/ D.opcodes[p].v2 # kInvalidIndex /\ Arrives(D, D.opcodes[p].v2, types),
         (D.opcodes[p].v2 = kInvalidIndex /\ C.labels[C.opcodes[p].v1].offset = kInvalidIndex
              /\ Awaits(C, C.opcodes[p].v1, C.opcodes[p].op, types)) =>
            IF D.labels[C.opcodes[p].v1].offset = kInvalidIndex
            THEN Awaits(D, C.opcodes[p].v1, C.opcodes[p].op, types)
            ELSE Arrives(D, D.labels[C.opcodes[p].v1].offset, types)
  PROVE  Lands(D, p, types)
<1> DEFINE was == C.opcodes[p]
           is == D.opcodes[p]
<1>1. is.op = was.op /\ is.v1 = was.v1
  BY DEF Grows, OldOpcodes
<1>2. \A q : Arrives(C, q, types) => Arrives(D, q, types)
  BY ArrivesKept
<1>3. CASE is.v2 # kInvalidIndex
  <2>1. CASE is.v2 = was.v2
    BY <1>2, <1>3, <2>1 DEF Lands
  <2>2. CASE is.v2 # was.v2
    BY <1>3, <2>2 DEF Lands
  <2>. QED  BY <2>1, <2>2
<1>4. CASE is.v2 = kInvalidIndex
  <2>1. was.v2 = kInvalidIndex /\ was.v1 \in 1 .. Len(C.labels)
    BY <1>4, Zenon
  <2>2. CASE C.labels[was.v1].offset # kInvalidIndex
    <3>1. D.labels[was.v1].offset = C.labels[was.v1].offset /\ Arrives(C, C.labels[was.v1].offset, types)
      BY <2>1, <2>2, Zenon DEF Lands
    <3>2. Arrives(D, D.labels[was.v1].offset, types)
      BY <1>2, <3>1
    <3>. QED  BY <1>1, <1>4, <2>2, <3>1, <3>2, Zenon DEF Lands
  <2>3. CASE C.labels[was.v1].offset = kInvalidIndex
    <3>1. Awaits(C, was.v1, was.op, types)
      BY <2>1, <2>3 DEF Lands
    <3>. QED  BY <1>1, <1>4, <2>3, <3>1 DEF Lands
  <2>. QED  BY <2>2, <2>3
<1>. QED  BY <1>3, <1>4

\* What the old opcodes lead to.
LEMMA LeadsKept ==
  ASSUME NEW C, NEW D, NEW instr, EmittedInv(C), Grows(C, D, instr), GoesOn(C, D, instr), JumpsLand(C, D),
         NEW p \in 1 .. Len(C.opcodes), Leads(C, p)
  PROVE  Leads(D, p)
<1> DEFINE was == C.opcodes[p]
           is == D.opcodes[p]
           types == Known(C, p).types
<1>1. /\ is.op = was.op /\ is.v1 = was.v1 /\ is.src = was.src /\ Known(D, p) = Known(C, p)
      /\ was.src \in 1 .. Len(C.source) /\ D.source[was.src] = C.source[was.src]
  BY OldKnown, GrowthIs DEF Grows, OldOpcodes
<1>2. \A q, t : Arrives(C, q, t) => Arrives(D, q, t)
  BY ArrivesKept
<1>3. \A n, new : Passes(C, p, types, n, new) => Passes(D, p, types, n, new)
  BY <1>2 DEF Passes
<1>4. LeadsOn(C, p, was, types) /\ VariableLeadsOn(C, p, was, types) /\ JumpLeadsOn(C, p, was, types)
  BY DEF Leads
<1> HIDE DEF types
<1>5. LeadsOn(D, p, is, types)
  BY <1>1, <1>3, <1>4 DEF LeadsOn
<1>6. VariableLeadsOn(D, p, is, types)
  BY <1>1, <1>2, <1>3, <1>4 DEF VariableLeadsOn
<1>7. JumpLeadsOn(D, p, is, types)
  <2> DEFINE rest == SubSeq(types, 1, Len(types) - 1)
  <2> HIDE DEF rest
  <2>1. \A q \in 1 .. Len(C.opcodes) : \A t : C.opcodes[q].op \in Jumps /\ Lands(C, q, t) => Lands(D, q, t)
    BY DEF JumpsLand
  <2>2. is.op \in {"br", "else"} => Lands(D, p, types)
    BY <1>1, <1>4, <2>1 DEF JumpLeadsOn, Jumps
  <2>3. is.op \in {"br_if", "if"} => Passes(D, p, types, 1, <<>>) /\ Lands(D, p, rest)
    BY <1>1, <1>3, <1>4, <2>1 DEF JumpLeadsOn, Jumps, rest
  <2>4. ASSUME is.op = "br_table"
        PROVE  /\ Len(types) >= 1 /\ is.v1 \in Nat
               /\ \A i \in p + 1 .. p + is.v1 + 1 :
                    i \in 1 .. Len(D.opcodes) /\ D.opcodes[i].op = "br_table" /\ Lands(D, i, rest)
    <3>1. /\ Len(types) >= 1 /\ was.v1 \in Nat
          /\ \A i \in p + 1 .. p + was.v1 + 1 :
                i \in 1 .. Len(C.opcodes) /\ C.opcodes[i].op = "br_table" /\ Lands(C, i, rest)
      BY <1>1, <1>4, <2>4 DEF JumpLeadsOn, rest
    <3>2. \A i \in 1 .. Len(C.opcodes) : i \in 1 .. Len(D.opcodes) /\ D.opcodes[i].op = C.opcodes[i].op
      BY GrowthIs DEF Grows, OldOpcodes
    <3>. QED  BY <1>1, <2>1, <3>1, <3>2, Zenon DEF Jumps
  <2>5. is.op = "return" => is.v1 = Len(Results) /\ EndsWith(types, Results)
    BY <1>1, <1>4 DEF JumpLeadsOn
  <2>. QED  BY <2>2, <2>3, <2>4, <2>5 DEF JumpLeadsOn, rest
<1>. QED  BY <1>1, <1>5, <1>6, <1>7 DEF Leads, types

\* A certificate stays one when the code grows.
LEMMA CertifiedKept ==
  ASSUME NEW C, NEW D, NEW instr, EmittedInv(C), Grows(C, D, instr), GoesOn(C, D, instr), JumpsLand(C, D),
         NEW p \in 1 .. Len(C.opcodes), Certified(C, p)
  PROVE  Certified(D, p)
<1>1. Known(D, p) = Known(C, p) /\ AtEnd(D, p) = AtEnd(C, p) /\ Starts(D, p) = Starts(C, p)
  BY OldKnown
<1>2. EndLeads(C, p) /\ AtEnd(C, p) => EndLeads(D, p)
  <2> SUFFICES ASSUME EndLeads(C, p), AtEnd(C, p) PROVE EndLeads(D, p)
    OBVIOUS
  <2>1. C.opcodes[p].op = "end"
    BY DEF AtEnd
  <2>2. D.opcodes[p].v1 = C.opcodes[p].v1 /\ D.opcodes[p].v2 = C.opcodes[p].v2
    BY <2>1, Zenon DEF Grows, OldOpcodes, Jumps
  <2>3. \A q, t : Arrives(C, q, t) => Arrives(D, q, t)
    BY ArrivesKept
  <2>. QED  BY <1>1, <2>2, <2>3 DEF EndLeads
<1>3. Leads(C, p) => Leads(D, p)
  BY LeadsKept
<1>. QED  BY <1>1, <1>2, <1>3 DEF Certified

\* A loop that is still open can be entered anew as before.
LEMMA LoopKept ==
  ASSUME NEW C, NEW D, NEW instr, EmittedInv(C), Grows(C, D, instr), GoesOn(C, D, instr), LoopInv(C),
         NEW n \in Nat, Sound(C.now), Sound(D.now), Keeps(C.now, D.now, n), NEW k \in 1 .. n,
         k \in 1 .. Len(C.labelStack), D.labelStack[k] = C.labelStack[k],
         D.now.labels[k].kind = "Loop" =>
            /\ C.now.labels[k].kind = "Loop"
            /\ D.labels[D.labelStack[k]].offset = C.labels[C.labelStack[k]].offset,
         D.now.labels[k].kind = "Loop", Live(D.now, k - 1)
  PROVE  Arrives(D, D.labels[D.labelStack[k]].offset, SubSeq(D.now.types, 1, D.now.labels[k].limit))
<1> DEFINE t == SubSeq(D.now.types, 1, D.now.labels[k].limit)
           q == D.labels[D.labelStack[k]].offset
<1>1. /\ Live(C.now, k - 1) /\ t = SubSeq(C.now.types, 1, C.now.labels[k].limit)
      /\ C.now.labels[k].kind = "Loop" /\ q = C.labels[C.labelStack[k]].offset
  <2>1. Live(D.now, k - 1) <=> Live(C.now, k - 1)
    BY KeptBelow, ZenonT(60)
  <2>2. t = SubSeq(C.now.types, 1, C.now.labels[k].limit)
    BY KeptBelow, ZenonT(60)
  <2>3. C.now.labels[k].kind = "Loop" /\ q = C.labels[C.labelStack[k]].offset
    BY Zenon
  <2>. QED  BY <2>1, <2>2, <2>3, Zenon
<1>2. Arrives(C, q, t)
  BY <1>1, Zenon DEF LoopInv
<1>. QED  BY <1>2, ArrivesKept

\* Instructions that open and close no construct.
Emits(C, D, instr, recs) ==
  /\ ~C.ended /\ ~D.ended /\ C.now \in Notes /\ Sound(C.now) /\ Follows(C.now, D.now)
  /\ instr \in Instructions /\ instr.op # "end"
  /\ D.source = Append(C.source, instr) /\ D.noted = Append(C.noted, C.now)
  /\ recs \in Seq(OpcodeRecs) /\ recs # <<>> /\ D.opcodes = C.opcodes \o recs
  /\ \A i \in 1 .. Len(recs) :
       /\ recs[i].src = Len(C.source) + 1 /\ recs[i].op \notin {"if", "end"}
       /\ recs[i].op \in Jumps => \/ recs[i].v2 = 0
                                  \/ recs[i].v2 = kInvalidIndex /\ recs[i].v1 \in 1 .. Len(C.labels)
  /\ D.labels = C.labels /\ D.labelStack = C.labelStack

\* The new opcodes stand behind the old.
LEMMA EmitsIs ==
  ASSUME NEW C, NEW D, NEW instr, NEW recs, EmittedInv(C), Emits(C, D, instr, recs)
  PROVE  /\ Len(C.opcodes) \in Nat /\ Len(recs) \in Nat \ {0} /\ Len(D.opcodes) = Len(C.opcodes) + Len(recs)
         /\ D.opcodes \in Seq(OpcodeRecs)
         /\ \A p \in 1 .. Len(C.opcodes) : D.opcodes[p] = C.opcodes[p]
         /\ \A p \in Len(C.opcodes) + 1 .. Len(D.opcodes) :
              p - Len(C.opcodes) \in 1 .. Len(recs) /\ D.opcodes[p] = recs[p - Len(C.opcodes)]
<1>1. C.opcodes \in Seq(OpcodeRecs)
  BY DEF EmittedInv
<1>2. recs \in Seq(OpcodeRecs) /\ recs # <<>> /\ D.opcodes = C.opcodes \o recs
  BY DEF Emits
<1>. QED  BY <1>1, <1>2

\* Emitting makes the code grow, and no position lose its operands.
LEMMA EmitsGrows ==
  ASSUME NEW C, NEW D, NEW instr, NEW recs, EmittedInv(C), Emits(C, D, instr, recs)
  PROVE  Grows(C, D, instr) /\ GoesOn(C, D, instr)
<1>1. Len(D.opcodes) \in Nat /\ Len(D.opcodes) > Len(C.opcodes)
  BY EmitsIs
<1>2. OldOpcodes(C, D)
  BY EmitsIs DEF OldOpcodes
<1>3. NewOpcodes(C, D, instr)
  <2> SUFFICES ASSUME NEW p \in Len(C.opcodes) + 1 .. Len(D.opcodes)
               PROVE  /\ D.opcodes[p].src = Len(C.source) + 1
                      /\ D.opcodes[p].op = "end" <=> instr.op = "end"
                      /\ (D.opcodes[p].op \in Jumps /\ D.opcodes[p].v2 # kInvalidIndex)
                            => D.opcodes[p].v2 \in 0 .. Len(D.opcodes) + 1
    BY DEF NewOpcodes
  <2>1. PICK i \in 1 .. Len(recs) : D.opcodes[p] = recs[i]
    BY EmitsIs, SMTT(20)
  <2>. QED  BY <1>1, <2>1, SMTT(20) DEF Emits
<1>4. Grows(C, D, instr)
  <2>1. /\ ~C.ended /\ C.now \in Notes /\ Sound(C.now) /\ instr \in Instructions
        /\ D.source = Append(C.source, instr) /\ D.noted = Append(C.noted, C.now)
    BY DEF Emits
  <2>2. D.opcodes \in Seq(OpcodeRecs) /\ Len(D.opcodes) >= Len(C.opcodes)
    BY <1>1, EmitsIs
  <2>. QED  BY <1>2, <1>3, <2>1, <2>2 DEF Grows
<1>5. GoesOn(C, D, instr)
  BY <1>1, EmitsIs DEF GoesOn, Emits
<1>. QED  BY <1>4, <1>5

\* No two constructs share a label.
LEMMA OpenDistinct ==
  ASSUME NEW C, LabelInv(C), NEW j \in 1 .. Len(C.labelStack), NEW k \in 1 .. Len(C.labelStack),
         C.labelStack[j] = C.labelStack[k]
  PROVE  j = k
<1>1. OpenLabels(C)
  BY Zenon DEF LabelInv
<1>. QED  BY <1>1, Zenon DEF OpenLabels

\* The labels agree still.
LEMMA EmitsLabels ==
  ASSUME NEW C, NEW D, NEW instr, NEW recs, EmittedInv(C), LabelInv(C), Emits(C, D, instr, recs)
  PROVE  LabelInv(D)
<1>1. /\ D.labels = C.labels /\ D.labelStack = C.labelStack /\ D.labels \in Seq(LabelRecs)
      /\ D.labelStack \in Seq(1 .. Len(D.labels))
  BY DEF Emits, LabelInv
<1>2. /\ Len(D.now.labels) = Len(C.now.labels)
      /\ \A k \in 1 .. Len(C.now.labels) :
           /\ D.now.labels[k].limit = C.now.labels[k].limit /\ D.now.labels[k].sig = C.now.labels[k].sig
           /\ D.now.labels[k].kind = C.now.labels[k].kind
  <2>1. /\ Len(D.now.labels) = Len(C.now.labels) /\ Sound(C.now) /\ Keeps(C.now, D.now, Len(C.now.labels))
        /\ Innermost(D.now).kind = Innermost(C.now).kind
    <3>1. Follows(C.now, D.now) /\ Sound(C.now)
      BY Zenon DEF Emits
    <3>. QED  BY <3>1, Zenon DEF Follows
  <2>2. \A k \in 1 .. Len(C.now.labels) : k < Len(C.now.labels) \/ k = Len(C.now.labels)
    <3>1. Len(C.now.labels) \in Nat
      BY <2>1, SoundStacks
    <3>. QED  BY <3>1, SMTT(20)
  <2>. QED  BY <2>1, <2>2, Zenon DEF Keeps, Innermost
<1>3. OpenLabels(D)
  <2>1. OpenLabels(C)
    BY DEF LabelInv
  <2>2. \A p \in 1 .. Len(C.opcodes) : p \in 1 .. Len(D.opcodes) /\ D.opcodes[p] = C.opcodes[p]
    BY EmitsIs
  <2>3. Len(D.labelStack) = Len(D.now.labels) /\ Len(C.labelStack) = Len(C.now.labels)
    BY <1>1, <1>2, <2>1, Zenon DEF OpenLabels
  <2>4. \A j, k \in 1 .. Len(D.labelStack) : D.labelStack[j] = D.labelStack[k] => j = k
    BY <1>1, <2>1, Zenon DEF OpenLabels
  <2>5. ASSUME NEW k \in 1 .. Len(D.labelStack)
        PROVE  LET label     == D.labels[D.labelStack[k]]
                   construct == D.now.labels[k]
               IN  /\ label.stack = construct.limit /\ label.results = Len(construct.sig)
                   /\ label.offset = kInvalidIndex <=> construct.kind # "Loop"
                   /\ construct.kind = "If" =>
                        /\ label.origin \in 1 .. Len(D.opcodes)
                        /\ D.opcodes[label.origin].op = "if" /\ D.opcodes[label.origin].v2 = kInvalidIndex
                        /\ D.opcodes[label.origin].v1 = D.labelStack[k]
    <3> DEFINE label == C.labels[C.labelStack[k]]
               construct == C.now.labels[k]
    <3>1. k \in 1 .. Len(C.labelStack) /\ k \in 1 .. Len(C.now.labels)
      BY <1>1, <2>3, <1>2
    <3>2. /\ label.stack = construct.limit /\ label.results = Len(construct.sig)
          /\ label.offset = kInvalidIndex <=> construct.kind # "Loop"
          /\ construct.kind = "If" =>
               /\ label.origin \in 1 .. Len(C.opcodes)
               /\ C.opcodes[label.origin].op = "if" /\ C.opcodes[label.origin].v2 = kInvalidIndex
               /\ C.opcodes[label.origin].v1 = C.labelStack[k]
      BY <2>1, <3>1, Zenon DEF OpenLabels
    <3>. QED  BY <1>1, <1>2, <2>2, <3>1, <3>2, Zenon
  <2>. QED  BY <2>3, <2>4, <2>5, Zenon DEF OpenLabels
<1>4. PlacedLabels(D)
  <2>1. PlacedLabels(C)
    BY DEF LabelInv
  <2>2. \A v \in 1 .. Len(C.opcodes) + 1 : v \in 1 .. Len(D.opcodes) + 1
    BY EmitsIs
  <2>. QED  BY <1>1, <2>1, <2>2 DEF PlacedLabels
<1>5. JumpLabels(D)
  <2> SUFFICES ASSUME NEW p \in 1 .. Len(D.opcodes)
               PROVE  LET rec == D.opcodes[p]
                      IN  /\ (rec.op \in Jumps /\ rec.v2 = kInvalidIndex) => rec.v1 \in 1 .. Len(D.labels)
                          /\ rec.op = "if" => rec.v1 \in 1 .. Len(D.labels) /\ D.labels[rec.v1].origin = p
    BY DEF JumpLabels
  <2>1. CASE p \in 1 .. Len(C.opcodes)
    <3>1. JumpLabels(C) /\ D.opcodes[p] = C.opcodes[p]
      BY <2>1, EmitsIs DEF LabelInv
    <3>. QED  BY <1>1, <2>1, <3>1 DEF JumpLabels
  <2>2. CASE p \in Len(C.opcodes) + 1 .. Len(D.opcodes)
    <3>1. PICK i \in 1 .. Len(recs) : D.opcodes[p] = recs[i]
      BY <2>2, EmitsIs
    <3>. QED  BY <1>1, <3>1 DEF Emits, kInvalidIndex
  <2>. QED  BY <2>1, <2>2, EmitsIs
<1>. QED  BY <1>1, <1>3, <1>4, <1>5 DEF LabelInv

\* The accesses are as written still.
LEMMA EmitsAccess ==
  ASSUME NEW C, NEW D, NEW instr, NEW recs, EmittedInv(C), AccessInv(C), Emits(C, D, instr, recs),
         \A i \in 1 .. Len(recs) : Accesses(recs[i], instr.arg)
  PROVE  AccessInv(D)
<1> SUFFICES ASSUME NEW p \in 1 .. Len(D.opcodes)
             PROVE  Accesses(D.opcodes[p], D.source[D.opcodes[p].src].arg)
  BY DEF AccessInv
<1>1. Grows(C, D, instr)
  BY EmitsGrows
<1>2. CASE p \in 1 .. Len(C.opcodes)
  <2>1. D.opcodes[p] = C.opcodes[p] /\ D.source[C.opcodes[p].src] = C.source[C.opcodes[p].src]
    BY <1>1, <1>2, EmitsIs, GrowthIs
  <2>. QED  BY <1>2, <2>1 DEF AccessInv
<1>3. CASE p \in Len(C.opcodes) + 1 .. Len(D.opcodes)
  <2>1. PICK i \in 1 .. Len(recs) : D.opcodes[p] = recs[i]
    BY <1>3, EmitsIs
  <2>2. D.source[Len(C.source) + 1] = instr /\ recs[i].src = Len(C.source) + 1
    BY <1>1, GrowthIs DEF Emits
  <2>. QED  BY <2>1, <2>2
<1>. QED  BY <1>2, <1>3, EmitsIs

\* What a jump waits for has not changed.
LEMMA EmitsJumps ==
  ASSUME NEW C, NEW D, NEW instr, NEW recs, EmittedInv(C), LabelInv(C), Emits(C, D, instr, recs)
  PROVE  JumpsLand(C, D)
<1> SUFFICES ASSUME NEW p \in 1 .. Len(C.opcodes), NEW types, C.opcodes[p].op \in Jumps, Lands(C, p, types)
             PROVE  Lands(D, p, types)
  BY DEF JumpsLand
<1>1. D.opcodes[p] = C.opcodes[p] /\ D.labels = C.labels /\ D.labelStack = C.labelStack
  BY EmitsIs DEF Emits
<1>2. C.opcodes[p].v2 = kInvalidIndex => C.opcodes[p].v1 \in 1 .. Len(C.labels)
  BY DEF LabelInv, JumpLabels
<1>3. ASSUME D.opcodes[p].v2 = kInvalidIndex, Awaits(C, C.opcodes[p].v1, C.opcodes[p].op, types)
      PROVE  Awaits(D, C.opcodes[p].v1, C.opcodes[p].op, types)
  <2>1. PICK k \in 1 .. Len(C.labelStack) :
            C.labelStack[k] = C.opcodes[p].v1 /\ AwaitedAt(C.now, k, C.opcodes[p].op, types)
    BY <1>3, Zenon DEF Awaits
  <2>2. /\ Sound(C.now) /\ Sound(D.now) /\ Keeps(C.now, D.now, Len(C.now.labels))
        /\ k \in 1 .. Len(C.now.labels) /\ Len(C.now.labels) \in Nat
    BY SoundStacks, Zenon DEF Emits, Follows, LabelInv, OpenLabels
  <2>3. D.now.labels[k].kind = C.now.labels[k].kind
    <3>1. CASE k = Len(C.now.labels)
      BY <3>1 DEF Emits, Follows, Innermost
    <3>2. CASE k < Len(C.now.labels)
      BY <2>2, <3>2, Zenon DEF Keeps
    <3>. QED  BY <2>2, <3>1, <3>2
  <2>4. AwaitedAt(D.now, k, C.opcodes[p].op, types)
    BY <2>1, <2>2, <2>3, AwaitedKept
  <2>. QED  BY <1>1, <2>1, <2>4 DEF Awaits
<1>5. Grows(C, D, instr) /\ GoesOn(C, D, instr)
  BY EmitsGrows
<1>6. \A id \in 1 .. Len(C.labels) : C.labels[id].offset # kInvalidIndex => D.labels[id].offset = C.labels[id].offset
  BY <1>1
<1>7. (D.opcodes[p].v2 = kInvalidIndex /\ C.labels[C.opcodes[p].v1].offset = kInvalidIndex
          /\ Awaits(C, C.opcodes[p].v1, C.opcodes[p].op, types)) =>
         IF D.labels[C.opcodes[p].v1].offset = kInvalidIndex
         THEN Awaits(D, C.opcodes[p].v1, C.opcodes[p].op, types)
         ELSE Arrives(D, D.labels[C.opcodes[p].v1].offset, types)
  BY <1>1, <1>3
<1>8. D.opcodes[p].v2 = C.opcodes[p].v2
  BY <1>1
<1>. QED  BY <1>2, <1>5, <1>6, <1>7, <1>8, LandsKept

\* The certificate grows by the opcodes that have been emitted.
LEMMA EmitsCode ==
  ASSUME NEW C, NEW D, NEW instr, NEW recs, EmittedInv(C), LabelInv(C), CodeInv(C), Emits(C, D, instr, recs),
         AllLive(C.now) => Leads(D, Len(C.opcodes) + 1)
  PROVE  CodeInv(D)
<1> DEFINE m == Len(C.opcodes)
<1>1. Grows(C, D, instr) /\ GoesOn(C, D, instr) /\ JumpsLand(C, D)
  BY EmitsGrows, EmitsJumps
<1>2. Arrives(D, 1, <<>>)
  BY <1>1, ArrivesKept DEF CodeInv
<1>3. ASSUME NEW p \in 1 .. Len(D.opcodes) PROVE Certified(D, p)
  <2>1. CASE p \in 1 .. m
    BY <1>1, <2>1, CertifiedKept DEF CodeInv
  <2>2. CASE p = m + 1
    <3>1. Known(D, p) = C.now /\ ~AtEnd(D, p)
      <4>1. D.opcodes[p].src = Len(C.source) + 1 /\ D.opcodes[p].op # "end"
        <5>1. p \in Len(C.opcodes) + 1 .. Len(D.opcodes)
          BY <2>2, EmitsIs
        <5>2. p - Len(C.opcodes) \in 1 .. Len(recs) /\ D.opcodes[p] = recs[p - Len(C.opcodes)]
          BY <5>1, EmitsIs
        <5>. QED  BY <5>2, Zenon DEF Emits
      <4>. QED  BY <1>1, <4>1, GrowthIs DEF Known, AtEnd
    <3>. QED  BY <2>2, <3>1 DEF Certified
  <2>3. CASE p \in m + 2 .. Len(D.opcodes)
    <3>1. p \in m + 1 .. Len(D.opcodes) /\ p - 1 \in m + 1 .. Len(D.opcodes) /\ p - 1 \in 1 .. p - 1
      BY <2>3, EmitsIs
    <3>2. D.opcodes[p - 1].src = D.opcodes[p].src /\ D.opcodes[p].src \in Nat
      <4>1. NewOpcodes(C, D, instr) /\ Len(C.source) \in Nat
        BY <1>1, GrowthIs DEF Grows
      <4>2. D.opcodes[p - 1].src = Len(C.source) + 1 /\ D.opcodes[p].src = Len(C.source) + 1
        BY <3>1, <4>1 DEF NewOpcodes
      <4>. QED  BY <4>1, <4>2
    <3>3. ~Starts(D, p)
      BY <3>1, <3>2 DEF Starts
    <3>. QED  BY <3>3 DEF Certified
  <2>. QED  BY <2>1, <2>2, <2>3, EmitsIs
<1>4. LoopInv(D)
  <2> SUFFICES ASSUME NEW k \in 1 .. Len(D.labelStack), D.now.labels[k].kind = "Loop", Live(D.now, k - 1)
               PROVE  Arrives(D, D.labels[D.labelStack[k]].offset, SubSeq(D.now.types, 1, D.now.labels[k].limit))
    BY Zenon DEF LoopInv
  <2>1. /\ Sound(C.now) /\ Sound(D.now) /\ Keeps(C.now, D.now, Len(C.now.labels))
        /\ k \in 1 .. Len(C.now.labels) /\ Len(C.now.labels) \in Nat /\ k \in 1 .. Len(C.labelStack)
        /\ D.labels = C.labels /\ D.labelStack = C.labelStack
    BY SoundStacks, Zenon DEF Emits, Follows, LabelInv, OpenLabels
  <2>2. C.now.labels[k].kind = "Loop"
    <3>1. CASE k = Len(C.now.labels)
      BY <3>1, Zenon DEF Emits, Follows, Innermost
    <3>2. CASE k < Len(C.now.labels)
      BY <2>1, <3>2 DEF Keeps
    <3>. QED  BY <2>1, <3>1, <3>2
  <2>3. LoopInv(C)
    BY DEF CodeInv, Emits
  <2>. QED  BY <1>1, <2>1, <2>2, <2>3, LoopKept, Zenon
<1>. QED  BY <1>2, <1>3, <1>4 DEF CodeInv

\* Instructions that open a construct, on the operands that c says there are.
Added(C, D) == D.now.labels[Len(C.now.labels) + 1]
\* What an If emits.
IfRec(C) == [op |-> "if", v1 |-> Len(C.labels) + 1, v2 |-> kInvalidIndex, src |-> Len(C.source) + 1]
\* C becomes D by such an instruction.
Opens(C, D, instr, c, label) ==
  /\ ~C.ended /\ ~D.ended /\ C.now \in Notes /\ Sound(C.now) /\ Follows(C.now, c) /\ Sound(D.now)
  /\ instr \in Instructions /\ instr.op # "end"
  /\ D.source = Append(C.source, instr) /\ D.noted = Append(C.noted, C.now)
  /\ D.now.types = c.types /\ Len(D.now.labels) = Len(C.now.labels) + 1
  /\ \A k \in 1 .. Len(C.now.labels) : D.now.labels[k] = c.labels[k]
  /\ AllLive(c) => AllLive(D.now)
  /\ Added(C, D).limit = Len(c.types) /\ Added(C, D).kind \in {"Block", "Loop", "If"} /\ ~Added(C, D).unreachable
  /\ label \in LabelRecs /\ label.stack = Len(c.types) /\ label.results = Len(Added(C, D).sig)
  /\ D.labels = Append(C.labels, label) /\ D.labelStack = Append(C.labelStack, Len(C.labels) + 1)
  /\ label.offset = IF Added(C, D).kind = "Loop" THEN Len(C.opcodes) + 1 ELSE kInvalidIndex
  /\ Added(C, D).kind # "If" =>
       D.opcodes = C.opcodes /\ c.types = C.now.types /\ (AllLive(C.now) => AllLive(c))
  /\ Added(C, D).kind = "If" =>
       /\ label.origin = Len(C.opcodes) + 1
       /\ D.opcodes = Append(C.opcodes, IfRec(C))

\* The constructs around it stay what they are.
LEMMA OpensConstructs ==
  ASSUME NEW C, NEW D, NEW instr, NEW c, NEW label, LabelInv(C), Opens(C, D, instr, c, label)
  PROVE  /\ Len(C.now.labels) \in Nat \ {0} /\ Len(C.labelStack) = Len(C.now.labels)
         /\ Len(D.now.labels) = Len(C.now.labels) + 1
         /\ Keeps(C.now, D.now, Len(C.now.labels))
         /\ \A k \in 1 .. Len(C.now.labels) : D.now.labels[k].kind = C.now.labels[k].kind
<1> DEFINE n == Len(C.now.labels)
<1>1. n \in Nat \ {0} /\ Len(c.labels) = n /\ Len(D.now.labels) = n + 1 /\ Len(C.labelStack) = n
  BY SoundStacks, Zenon DEF Opens, Follows, LabelInv, OpenLabels
<1>2. Keeps(C.now, D.now, n)
  <2>1. Keeps(C.now, c, n) /\ D.now.types = c.types /\ \A k \in 1 .. n : D.now.labels[k] = c.labels[k]
    BY <1>1 DEF Opens, Follows
  <2> HIDE DEF n
  <2>. QED  BY <1>1, <2>1 DEF Keeps, Prefix
<1>3. \A k \in 1 .. n : D.now.labels[k].kind = C.now.labels[k].kind
  <2>1. /\ \A k \in 1 .. n : D.now.labels[k] = c.labels[k]
        /\ \A k \in 1 .. n : k < n => c.labels[k] = C.now.labels[k]
        /\ c.labels[n].kind = C.now.labels[n].kind
    BY <1>1, Zenon DEF Opens, Follows, Keeps, Innermost
  <2>2. \A k \in 1 .. n : k < n \/ k = n
    BY <1>1
  <2> HIDE DEF n
  <2>. QED  BY <2>1, <2>2
<1>. QED  BY <1>1, <1>2, <1>3

\* There is one label more.
LEMMA OpensLabel ==
  ASSUME NEW C, NEW D, NEW instr, NEW c, NEW label, LabelInv(C), Opens(C, D, instr, c, label)
  PROVE  /\ D.labels \in Seq(LabelRecs) /\ Len(C.labels) \in Nat /\ Len(D.labels) = Len(C.labels) + 1
         /\ D.labels[Len(C.labels) + 1] = label
         /\ \A id \in 1 .. Len(C.labels) : D.labels[id] = C.labels[id]
<1>1. D.labels = Append(C.labels, label) /\ label \in LabelRecs /\ C.labels \in Seq(LabelRecs)
  BY DEF Opens, LabelInv
<1>. QED  BY <1>1

\* It is the one of the new construct.
LEMMA OpensIs ==
  ASSUME NEW C, NEW D, NEW instr, NEW c, NEW label, LabelInv(C), Opens(C, D, instr, c, label)
  PROVE  /\ D.labelStack \in Seq(1 .. Len(D.labels)) /\ Len(D.labelStack) = Len(C.now.labels) + 1
         /\ D.labelStack[Len(C.now.labels) + 1] = Len(C.labels) + 1
         /\ \A k \in 1 .. Len(C.now.labels) :
              D.labelStack[k] = C.labelStack[k] /\ C.labelStack[k] \in 1 .. Len(C.labels)
<1>1. Len(C.now.labels) \in Nat /\ Len(C.labelStack) = Len(C.now.labels)
  BY OpensConstructs
<1>4. D.labelStack = Append(C.labelStack, Len(C.labels) + 1) /\ C.labelStack \in Seq(1 .. Len(C.labels))
  BY DEF Opens, LabelInv
<1>5. Len(C.labels) \in Nat /\ Len(D.labels) = Len(C.labels) + 1
  BY OpensLabel
<1>6. C.labelStack \in Seq(1 .. Len(D.labels)) /\ Len(C.labels) + 1 \in 1 .. Len(D.labels)
  <2>1. \A k \in 1 .. Len(C.labelStack) : C.labelStack[k] \in 1 .. Len(D.labels)
    BY <1>4, <1>5
  <2>. QED  BY <1>4, <1>5, <2>1, InSeqOf
<1>7. \A k \in 1 .. Len(C.labelStack) : C.labelStack[k] \in 1 .. Len(C.labels)
  BY <1>4
<1>8. /\ D.labelStack \in Seq(1 .. Len(D.labels)) /\ Len(D.labelStack) = Len(C.labelStack) + 1
      /\ D.labelStack[Len(C.labelStack) + 1] = Len(C.labels) + 1
      /\ \A k \in 1 .. Len(C.labelStack) : D.labelStack[k] = C.labelStack[k]
  <2> DEFINE S == 1 .. Len(D.labels)
             new == Len(C.labels) + 1
  <2>1. C.labelStack \in Seq(S) /\ new \in S /\ D.labelStack = Append(C.labelStack, new)
    BY <1>4, <1>6
  <2> HIDE DEF S, new
  <2>2. /\ D.labelStack \in Seq(S) /\ Len(D.labelStack) = Len(C.labelStack) + 1
        /\ D.labelStack[Len(C.labelStack) + 1] = new
        /\ \A k \in 1 .. Len(C.labelStack) : D.labelStack[k] = C.labelStack[k]
    BY <2>1
  <2>. QED  BY <2>2 DEF S, new
<1>. QED  BY <1>1, <1>7, <1>8

\* And an if emits the opcode that its label remembers.
LEMMA OpensOpcodes ==
  ASSUME NEW C, NEW D, NEW instr, NEW c, NEW label, EmittedInv(C), LabelInv(C), Opens(C, D, instr, c, label)
  PROVE  /\ Len(C.opcodes) \in Nat /\ D.opcodes \in Seq(OpcodeRecs)
         /\ \A p \in 1 .. Len(C.opcodes) : D.opcodes[p] = C.opcodes[p]
         /\ Added(C, D).kind # "If" => Len(D.opcodes) = Len(C.opcodes)
         /\ Added(C, D).kind = "If" => /\ Len(D.opcodes) = Len(C.opcodes) + 1
                                       /\ D.opcodes[Len(C.opcodes) + 1] = IfRec(C)
<1>1. C.opcodes \in Seq(OpcodeRecs)
  BY DEF EmittedInv
<1>2. IfRec(C) \in OpcodeRecs
  <2>1. Len(C.labels) + 1 \in Int
    BY OpensLabel
  <2>2. Len(C.source) + 1 \in Nat
    <3>1. C.source \in Seq(Instructions)
      BY DEF EmittedInv
    <3>. QED  BY <3>1
  <2>. QED  BY <2>1, <2>2 DEF OpcodeRecs, Opcodes, kInvalidIndex, IfRec
<1>3. /\ Added(C, D).kind # "If" => D.opcodes = C.opcodes
      /\ Added(C, D).kind = "If" => D.opcodes = Append(C.opcodes, IfRec(C))
  BY DEF Opens
<1>4. Len(C.opcodes) \in Nat
  BY <1>1
<1>5. CASE Added(C, D).kind # "If"
  BY <1>1, <1>3, <1>4, <1>5
<1>6. CASE Added(C, D).kind = "If"
  <2> DEFINE rec == IfRec(C)
  <2>1. rec \in OpcodeRecs /\ D.opcodes = Append(C.opcodes, rec)
    BY <1>2, <1>3, <1>6
  <2> HIDE DEF rec
  <2>2. /\ D.opcodes \in Seq(OpcodeRecs) /\ Len(D.opcodes) = Len(C.opcodes) + 1
        /\ D.opcodes[Len(C.opcodes) + 1] = rec /\ \A p \in 1 .. Len(C.opcodes) : D.opcodes[p] = C.opcodes[p]
    BY <1>1, <2>1
  <2>. QED  BY <1>4, <1>6, <2>2 DEF rec
<1>. QED  BY <1>5, <1>6

\* What has been compiled grows by it.
LEMMA OpensGrows ==
  ASSUME NEW C, NEW D, NEW instr, NEW c, NEW label, EmittedInv(C), LabelInv(C), Opens(C, D, instr, c, label)
  PROVE  Grows(C, D, instr) /\ GoesOn(C, D, instr)
<1> DEFINE m == Len(C.opcodes)
           n == Len(D.opcodes)
<1>1. m \in Nat /\ n \in Nat /\ D.opcodes \in Seq(OpcodeRecs) /\ n >= m /\ n <= m + 1
  BY OpensOpcodes
<1>2. OldOpcodes(C, D)
  <2>1. \A p \in 1 .. Len(C.opcodes) : D.opcodes[p] = C.opcodes[p]
    BY OpensOpcodes
  <2>. QED  BY <2>1 DEF OldOpcodes
<1>3. NewOpcodes(C, D, instr)
  <2> SUFFICES ASSUME NEW p \in m + 1 .. n
               PROVE  /\ D.opcodes[p].src = Len(C.source) + 1
                      /\ D.opcodes[p].op = "end" <=> instr.op = "end"
                      /\ (D.opcodes[p].op \in Jumps /\ D.opcodes[p].v2 # kInvalidIndex) => D.opcodes[p].v2 \in 0 .. n + 1
    BY DEF NewOpcodes
  <2>1. p = m + 1 /\ n = m + 1
    BY <1>1
  <2>2. Added(C, D).kind = "If"
    BY <1>1, <2>1, OpensOpcodes
  <2>3. D.opcodes[p] = IfRec(C)
    BY <2>1, <2>2, OpensOpcodes
  <2>4. D.opcodes[p].src = Len(C.source) + 1 /\ D.opcodes[p].op = "if" /\ D.opcodes[p].v2 = kInvalidIndex
    BY <2>3 DEF IfRec
  <2>. QED  BY <2>4 DEF Opens
<1>4. Grows(C, D, instr)
  <2>1. /\ ~C.ended /\ C.now \in Notes /\ Sound(C.now) /\ instr \in Instructions
        /\ D.source = Append(C.source, instr) /\ D.noted = Append(C.noted, C.now)
    BY DEF Opens
  <2>. QED  BY <1>1, <1>2, <1>3, <2>1 DEF Grows
<1>5. GoesOn(C, D, instr)
  <2>1. instr.op # "end" /\ ~D.ended
    BY DEF Opens
  <2>2. n = m => Added(C, D).kind # "If"
    BY <1>1, OpensOpcodes
  <2>3. Added(C, D).kind # "If" => D.now.types = C.now.types /\ (AllLive(C.now) => AllLive(D.now))
    BY DEF Opens
  <2>. QED  BY <2>1, <2>2, <2>3 DEF GoesOn
<1>. QED  BY <1>4, <1>5

\* Its label agrees with the construct it opens.
LEMMA OpensLabels ==
  ASSUME NEW C, NEW D, NEW instr, NEW c, NEW label, EmittedInv(C), LabelInv(C), Opens(C, D, instr, c, label)
  PROVE  LabelInv(D)
<1> DEFINE n == Len(C.now.labels)
           l == Len(C.labels)
           m == Len(C.opcodes)
           new == Added(C, D)
<1>1. /\ n \in Nat /\ Len(D.labelStack) = n + 1 /\ Len(D.now.labels) = n + 1 /\ Len(C.labelStack) = n
      /\ l \in Nat /\ Len(D.labels) = l + 1
  BY OpensIs, OpensLabel, OpensConstructs
<1>2. m \in Nat /\ Len(D.opcodes) \in Nat /\ m <= Len(D.opcodes)
  BY OpensOpcodes
<1>3. \A p \in 1 .. m : p \in 1 .. Len(D.opcodes) /\ D.opcodes[p] = C.opcodes[p]
  BY <1>2, OpensOpcodes
<1>4. /\ \A id \in 1 .. l : D.labels[id] = C.labels[id]
      /\ D.labels[l + 1] = label /\ D.labelStack[n + 1] = l + 1
      /\ \A k \in 1 .. n : D.labelStack[k] = C.labelStack[k] /\ C.labelStack[k] \in 1 .. l
  <2>1. \A id \in 1 .. l : D.labels[id] = C.labels[id]
    BY OpensLabel, SMTT(20)
  <2>2. D.labels[l + 1] = label
    BY OpensLabel, SMTT(20)
  <2>3. /\ D.labelStack[n + 1] = l + 1
        /\ \A k \in 1 .. n : D.labelStack[k] = C.labelStack[k] /\ C.labelStack[k] \in 1 .. l
    BY OpensIs, Zenon
  <2>. QED  BY <2>1, <2>2, <2>3, Zenon
<1>5. \A k \in 1 .. n :
        /\ D.now.labels[k].limit = C.now.labels[k].limit /\ D.now.labels[k].sig = C.now.labels[k].sig
        /\ D.now.labels[k].kind = C.now.labels[k].kind
  BY OpensConstructs DEF Keeps
<1>6. /\ label.stack = new.limit /\ label.results = Len(new.sig)
      /\ label.offset = IF new.kind = "Loop" THEN m + 1 ELSE kInvalidIndex
      /\ new.kind = "If" => label.origin = m + 1
  BY DEF Opens
<1>7. new.kind = "If" =>
        /\ m + 1 \in 1 .. Len(D.opcodes) /\ Len(D.opcodes) = m + 1
        /\ D.opcodes[m + 1].op = "if" /\ D.opcodes[m + 1].v2 = kInvalidIndex
        /\ D.opcodes[m + 1].v1 = l + 1
  <2>1. new.kind = "If" => Len(D.opcodes) = m + 1 /\ D.opcodes[m + 1] = IfRec(C)
    BY OpensOpcodes
  <2>. QED  BY <1>2, <2>1 DEF IfRec
<1>8. new.kind # "If" => Len(D.opcodes) = m
  BY OpensOpcodes
<1>9. new = D.now.labels[n + 1]
  BY DEF Added
<1>10. OpenLabels(C) /\ PlacedLabels(C) /\ JumpLabels(C)
  BY DEF LabelInv
<1> HIDE DEF n, l, m, new
<1>11. OpenLabels(D)
  <2>1. \A j, k \in 1 .. n + 1 : D.labelStack[j] = D.labelStack[k] => j = k
    <3>1. \A j, k \in 1 .. n : C.labelStack[j] = C.labelStack[k] => j = k
      BY <1>1, OpenDistinct, Zenon
    <3>2. \A k \in 1 .. n + 1 : k \in 1 .. n \/ k = n + 1
      BY <1>1
    <3>3. \A id \in 1 .. l : id # l + 1
      BY <1>1
    <3>. QED  BY <1>4, <3>1, <3>2, <3>3, Zenon
  <2>2. ASSUME NEW k \in 1 .. n + 1
        PROVE  /\ D.labels[D.labelStack[k]].stack = D.now.labels[k].limit
               /\ D.labels[D.labelStack[k]].results = Len(D.now.labels[k].sig)
               /\ D.labels[D.labelStack[k]].offset = kInvalidIndex <=> D.now.labels[k].kind # "Loop"
               /\ D.now.labels[k].kind = "If" =>
                    LET origin == D.labels[D.labelStack[k]].origin
                    IN  /\ origin \in 1 .. Len(D.opcodes)
                        /\ D.opcodes[origin].op = "if" /\ D.opcodes[origin].v2 = kInvalidIndex
                        /\ D.opcodes[origin].v1 = D.labelStack[k]
    <3>1. CASE k \in 1 .. n
      <4>1. D.labels[D.labelStack[k]] = C.labels[C.labelStack[k]] /\ D.labelStack[k] = C.labelStack[k]
        BY <1>4, <3>1
      <4>2. k \in 1 .. Len(C.labelStack)
        BY <1>1, <3>1, Zenon
      <4>3. /\ C.labels[C.labelStack[k]].stack = C.now.labels[k].limit
            /\ C.labels[C.labelStack[k]].results = Len(C.now.labels[k].sig)
            /\ C.labels[C.labelStack[k]].offset = kInvalidIndex <=> C.now.labels[k].kind # "Loop"
        BY <1>10, <4>2, ZenonT(30) DEF OpenLabels
      <4>4. ASSUME C.now.labels[k].kind = "If"
            PROVE  LET origin == C.labels[C.labelStack[k]].origin
                   IN  /\ origin \in 1 .. m
                       /\ C.opcodes[origin].op = "if" /\ C.opcodes[origin].v2 = kInvalidIndex
                       /\ C.opcodes[origin].v1 = C.labelStack[k]
        BY <1>10, <4>2, <4>4 DEF OpenLabels, m
      <4>5. /\ D.labels[D.labelStack[k]].stack = D.now.labels[k].limit
            /\ D.labels[D.labelStack[k]].results = Len(D.now.labels[k].sig)
            /\ D.labels[D.labelStack[k]].offset = kInvalidIndex <=> D.now.labels[k].kind # "Loop"
        BY <1>5, <3>1, <4>1, <4>3, Zenon
      <4>6. ASSUME D.now.labels[k].kind = "If"
            PROVE  LET origin == D.labels[D.labelStack[k]].origin
                   IN  /\ origin \in 1 .. Len(D.opcodes)
                       /\ D.opcodes[origin].op = "if" /\ D.opcodes[origin].v2 = kInvalidIndex
                       /\ D.opcodes[origin].v1 = D.labelStack[k]
        <5>1. C.now.labels[k].kind = "If"
          BY <1>5, <3>1, <4>6
        <5>. QED  BY <1>3, <4>1, <4>4, <5>1, Zenon
      <4>. QED  BY <4>5, <4>6, Zenon
    <3>2. CASE k = n + 1
      <4>1. D.labels[D.labelStack[k]] = label /\ D.labelStack[k] = l + 1 /\ D.now.labels[k] = new
        BY <1>4, <1>9, <3>2
      <4>2. m + 1 # kInvalidIndex
        BY <1>2 DEF kInvalidIndex
      <4>. QED  BY <1>6, <1>7, <4>1, <4>2
    <3>3. k \in 1 .. n \/ k = n + 1
      BY <1>1
    <3>. QED  BY <3>1, <3>2, <3>3, Zenon
  <2>. QED  BY <1>1, <2>1, <2>2, Zenon DEF OpenLabels
<1>12. PlacedLabels(D)
  <2> SUFFICES ASSUME NEW id \in 1 .. l + 1
               PROVE  /\ D.labels[id].offset \in {kInvalidIndex} \cup 1 .. Len(D.opcodes) + 1
                      /\ D.labels[id].offset = kInvalidIndex => \E k \in 1 .. n + 1 : D.labelStack[k] = id
    BY <1>1 DEF PlacedLabels
  <2>1. CASE id \in 1 .. l
    <3>1. /\ C.labels[id].offset \in {kInvalidIndex} \cup 1 .. m + 1
          /\ C.labels[id].offset = kInvalidIndex => \E k \in 1 .. n : C.labelStack[k] = id
      BY <1>1, <1>10, <2>1, Zenon DEF PlacedLabels, l, m
    <3>2. \A k \in 1 .. n : k \in 1 .. n + 1 /\ D.labelStack[k] = C.labelStack[k]
      BY <1>1, <1>4
    <3>3. \A v \in 1 .. m + 1 : v \in 1 .. Len(D.opcodes) + 1
      BY <1>2
    <3>. QED  BY <1>4, <2>1, <3>1, <3>2, <3>3
  <2>2. CASE id = l + 1
    <3>1. D.labels[id] = label /\ D.labelStack[n + 1] = id /\ n + 1 \in 1 .. n + 1
      BY <1>1, <1>4, <2>2
    <3>2. m + 1 \in 1 .. Len(D.opcodes) + 1
      BY <1>2
    <3>. QED  BY <1>6, <3>1, <3>2
  <2>. QED  BY <1>1, <2>1, <2>2
<1>13. JumpLabels(D)
  <2> SUFFICES ASSUME NEW p \in 1 .. Len(D.opcodes)
               PROVE  /\ (D.opcodes[p].op \in Jumps /\ D.opcodes[p].v2 = kInvalidIndex)
                            => D.opcodes[p].v1 \in 1 .. Len(D.labels)
                      /\ D.opcodes[p].op = "if" =>
                            D.opcodes[p].v1 \in 1 .. Len(D.labels) /\ D.labels[D.opcodes[p].v1].origin = p
    BY DEF JumpLabels
  <2>1. CASE p \in 1 .. m
    <3>1. \A id \in 1 .. l : id \in 1 .. Len(D.labels) /\ D.labels[id] = C.labels[id]
      BY <1>1, <1>4
    <3>. QED  BY <1>3, <1>10, <2>1, <3>1, ZenonT(30) DEF JumpLabels, l, m
  <2>2. CASE p \notin 1 .. m
    <3>1. p = m + 1 /\ new.kind = "If"
      BY <1>2, <1>7, <1>8, <2>2
    <3>2. l + 1 \in 1 .. Len(D.labels)
      BY <1>1
    <3>. QED  BY <1>4, <1>6, <1>7, <3>1, <3>2
  <2>. QED  BY <2>1, <2>2
<1>14. D.labels \in Seq(LabelRecs) /\ D.labelStack \in Seq(1 .. Len(D.labels))
  BY OpensIs, OpensLabel
<1>. QED  BY <1>11, <1>12, <1>13, <1>14 DEF LabelInv

\* What is read next can be executed after it.
LEMMA ArrivesNext ==
  ASSUME NEW D, D.opcodes \in Seq(OpcodeRecs), ~D.ended, AllLive(D.now)
  PROVE  Arrives(D, Len(D.opcodes) + 1, D.now.types)
<1>1. Len(D.opcodes) \in Nat
  OBVIOUS
<1>2. Len(D.opcodes) + 1 \notin 1 .. Len(D.opcodes) /\ Len(D.opcodes) + 1 \in 1 .. Len(D.opcodes) + 1
  BY <1>1
<1>. QED  BY <1>2 DEF Arrives, Starts, AtEnd, Known

\* A new opcode is noted with what was known before the instruction.
LEMMA NewKnown ==
  ASSUME NEW C, NEW D, NEW instr, EmittedInv(C), Grows(C, D, instr), NEW p \in Len(C.opcodes) + 1 .. Len(D.opcodes)
  PROVE  /\ p \in 1 .. Len(D.opcodes) /\ Known(D, p) = C.now
         /\ AtEnd(D, p) <=> instr.op = "end"
<1>1. D.opcodes[p].src = Len(C.source) + 1 /\ (D.opcodes[p].op = "end" <=> instr.op = "end")
  BY DEF Grows, NewOpcodes
<1>2. p \in 1 .. Len(D.opcodes) /\ D.noted[Len(C.source) + 1] = C.now
  BY GrowthIs
<1>. QED  BY <1>1, <1>2 DEF Known, AtEnd

\* A jump is no access, so it may be told where to go.
LEMMA AccessGrows ==
  ASSUME NEW C, NEW D, NEW instr, EmittedInv(C), AccessInv(C), Grows(C, D, instr),
         \A p \in Len(C.opcodes) + 1 .. Len(D.opcodes) : Accesses(D.opcodes[p], instr.arg)
  PROVE  AccessInv(D)
<1> SUFFICES ASSUME NEW p \in 1 .. Len(D.opcodes)
             PROVE  Accesses(D.opcodes[p], D.source[D.opcodes[p].src].arg)
  BY DEF AccessInv
<1>1. CASE p \in 1 .. Len(C.opcodes)
  <2> DEFINE was == C.opcodes[p]
             is == D.opcodes[p]
  <2>1. /\ is.op = was.op /\ is.v1 = was.v1 /\ is.src = was.src
        /\ is.v2 = was.v2 \/ was.op \in Jumps
    BY <1>1 DEF Grows, OldOpcodes
  <2>2. D.source[was.src] = C.source[was.src]
    BY <1>1, GrowthIs
  <2>3. Accesses(was, C.source[was.src].arg)
    BY <1>1 DEF AccessInv
  <2>4. was.op \in Jumps => was.op \notin DOMAIN Operators
    BY OperatorShape DEF Jumps, Opcodes
  <2>. QED  BY <2>1, <2>2, <2>3, <2>4 DEF Accesses
<1>2. CASE p \in Len(C.opcodes) + 1 .. Len(D.opcodes)
  <2>1. D.source[D.opcodes[p].src] = instr
    BY <1>2, GrowthIs DEF Grows, NewOpcodes
  <2>. QED  BY <1>2, <2>1
<1>. QED  BY <1>1, <1>2, GrowthIs

\* No access is among what has been emitted.
LEMMA OpensAccess ==
  ASSUME NEW C, NEW D, NEW instr, NEW c, NEW label, EmittedInv(C), LabelInv(C), AccessInv(C),
         Opens(C, D, instr, c, label)
  PROVE  AccessInv(D)
<1>1. Grows(C, D, instr)
  BY OpensGrows
<1>2. ASSUME NEW p \in Len(C.opcodes) + 1 .. Len(D.opcodes) PROVE Accesses(D.opcodes[p], instr.arg)
  <2>1. Len(C.opcodes) \in Nat /\ Len(D.opcodes) <= Len(C.opcodes) + 1
    BY OpensOpcodes
  <2>2. p = Len(C.opcodes) + 1 /\ Added(C, D).kind = "If"
    BY <2>1, OpensOpcodes
  <2>3. D.opcodes[p] = IfRec(C)
    BY <2>2, OpensOpcodes
  <2>4. D.opcodes[p].op = "if"
    BY <2>3 DEF IfRec
  <2>. QED  BY <2>4, OperatorShape DEF Accesses, Opcodes
<1>. QED  BY <1>1, <1>2, AccessGrows

\* The constructs around the new one are waited for as before.
LEMMA OpensJumps ==
  ASSUME NEW C, NEW D, NEW instr, NEW c, NEW label, EmittedInv(C), LabelInv(C), Opens(C, D, instr, c, label)
  PROVE  JumpsLand(C, D)
<1> SUFFICES ASSUME NEW p \in 1 .. Len(C.opcodes), NEW types, C.opcodes[p].op \in Jumps, Lands(C, p, types)
             PROVE  Lands(D, p, types)
  BY DEF JumpsLand
<1>1. D.opcodes[p].v2 = C.opcodes[p].v2
  BY OpensOpcodes
<1>2. C.opcodes[p].v2 = kInvalidIndex => C.opcodes[p].v1 \in 1 .. Len(C.labels)
  BY DEF LabelInv, JumpLabels
<1>3. ASSUME Awaits(C, C.opcodes[p].v1, C.opcodes[p].op, types)
      PROVE  Awaits(D, C.opcodes[p].v1, C.opcodes[p].op, types)
  <2>1. PICK k \in 1 .. Len(C.labelStack) :
            C.labelStack[k] = C.opcodes[p].v1 /\ AwaitedAt(C.now, k, C.opcodes[p].op, types)
    BY <1>3 DEF Awaits
  <2>2. /\ Len(C.now.labels) \in Nat /\ Len(C.labelStack) = Len(C.now.labels)
        /\ Keeps(C.now, D.now, Len(C.now.labels))
        /\ \A j \in 1 .. Len(C.now.labels) : D.now.labels[j].kind = C.now.labels[j].kind
    BY OpensConstructs, Zenon
  <2>6. Sound(C.now) /\ Sound(D.now)
    BY DEF Opens
  <2>3. k \in 1 .. Len(C.now.labels) /\ D.now.labels[k].kind = C.now.labels[k].kind
    BY <2>2
  <2>4. AwaitedAt(D.now, k, C.opcodes[p].op, types)
    BY <2>1, <2>2, <2>3, <2>6, AwaitedKept
  <2>5. k \in 1 .. Len(D.labelStack) /\ D.labelStack[k] = C.labelStack[k]
    BY <2>2, <2>3, OpensIs
  <2>. QED  BY <2>1, <2>4, <2>5 DEF Awaits
<1>4. \A id \in 1 .. Len(C.labels) : D.labels[id] = C.labels[id]
  BY OpensLabel
<1>5. Grows(C, D, instr) /\ GoesOn(C, D, instr)
  BY OpensGrows
<1>6. \A id \in 1 .. Len(C.labels) : C.labels[id].offset # kInvalidIndex => D.labels[id].offset = C.labels[id].offset
  BY <1>4
<1>7. (D.opcodes[p].v2 = kInvalidIndex /\ C.labels[C.opcodes[p].v1].offset = kInvalidIndex
          /\ Awaits(C, C.opcodes[p].v1, C.opcodes[p].op, types)) =>
         IF D.labels[C.opcodes[p].v1].offset = kInvalidIndex
         THEN Awaits(D, C.opcodes[p].v1, C.opcodes[p].op, types)
         ELSE Arrives(D, D.labels[C.opcodes[p].v1].offset, types)
  <2> SUFFICES ASSUME D.opcodes[p].v2 = kInvalidIndex, C.labels[C.opcodes[p].v1].offset = kInvalidIndex,
                      Awaits(C, C.opcodes[p].v1, C.opcodes[p].op, types)
               PROVE  /\ D.labels[C.opcodes[p].v1].offset = kInvalidIndex
                      /\ Awaits(D, C.opcodes[p].v1, C.opcodes[p].op, types)
    OBVIOUS
  <2>. QED  BY <1>1, <1>2, <1>3, <1>4
<1>. QED  BY <1>1, <1>2, <1>5, <1>6, <1>7, LandsKept

\* An if goes on into its branch, or to where its label will be; a loop can be entered anew.
LEMMA OpensCode ==
  ASSUME NEW C, NEW D, NEW instr, NEW c, NEW label, EmittedInv(C), LabelInv(C), CodeInv(C),
         Opens(C, D, instr, c, label), AllLive(C.now) => AllLive(c),
         (Added(C, D).kind = "If" /\ AllLive(C.now)) =>
            Len(C.now.types) >= 1 /\ c.types = SubSeq(C.now.types, 1, Len(C.now.types) - 1)
  PROVE  CodeInv(D)
<1> DEFINE m == Len(C.opcodes)
           n == Len(C.now.labels)
           l == Len(C.labels)
           new == Added(C, D)
<1>1. Grows(C, D, instr) /\ GoesOn(C, D, instr) /\ JumpsLand(C, D)
  BY OpensGrows, OpensJumps
<1>2. Arrives(D, 1, <<>>)
  BY <1>1, ArrivesKept DEF CodeInv
<1>3. /\ m \in Nat /\ D.opcodes \in Seq(OpcodeRecs)
      /\ new.kind # "If" => Len(D.opcodes) = m
      /\ new.kind = "If" => Len(D.opcodes) = m + 1 /\ D.opcodes[m + 1] = IfRec(C)
  BY OpensOpcodes
<1>4. /\ n \in Nat /\ Len(D.now.labels) = n + 1 /\ Keeps(C.now, D.now, n) /\ Len(C.labelStack) = n
      /\ \A k \in 1 .. n : D.now.labels[k].kind = C.now.labels[k].kind
      /\ Sound(C.now) /\ Sound(D.now) /\ D.now.types = c.types /\ c.types \in Seq(Types)
      /\ new = D.now.labels[n + 1] /\ new.limit = Len(c.types) /\ ~new.unreachable
  <2>1. /\ n \in Nat /\ Len(D.now.labels) = n + 1 /\ Keeps(C.now, D.now, n) /\ Len(C.labelStack) = n
        /\ \A k \in 1 .. n : D.now.labels[k].kind = C.now.labels[k].kind
    BY OpensConstructs
  <2>2. Sound(C.now) /\ Sound(D.now) /\ D.now.types = c.types /\ new.limit = Len(c.types) /\ ~new.unreachable
    BY DEF Opens
  <2>3. D.now.types \in Seq(Types)
    BY <2>2, SoundStacks
  <2>. QED  BY <2>1, <2>2, <2>3 DEF Added
<1>5. /\ l \in Nat /\ D.labels[l + 1] = label /\ Len(D.labelStack) = n + 1 /\ D.labelStack[n + 1] = l + 1
      /\ \A id \in 1 .. l : D.labels[id] = C.labels[id]
      /\ \A k \in 1 .. n : D.labelStack[k] = C.labelStack[k] /\ C.labelStack[k] \in 1 .. l
  BY OpensIs, OpensLabel
<1>6. label.offset = IF new.kind = "Loop" THEN m + 1 ELSE kInvalidIndex
  BY DEF Opens
<1>7. ~D.ended
  BY DEF Opens
<1>8. SubSeq(D.now.types, 1, new.limit) = c.types
  <2>1. SubSeq(c.types, 1, Len(c.types)) = c.types
    BY <1>4
  <2>. QED  BY <1>4, <2>1
<1>9. ASSUME AllLive(C.now) PROVE AllLive(D.now) /\ Arrives(D, Len(D.opcodes) + 1, c.types)
  <2>1. AllLive(D.now)
    BY <1>9 DEF Opens
  <2>. QED  BY <1>3, <1>4, <1>7, <2>1, ArrivesNext
<1>10. ASSUME new.kind = "If", AllLive(C.now) PROVE Leads(D, m + 1)
  <2> DEFINE types == C.now.types
             rest == SubSeq(types, 1, Len(types) - 1)
             rec == D.opcodes[m + 1]
  <2>1. Len(types) >= 1 /\ rest = c.types
    BY <1>10
  <2>2. Known(D, m + 1) = types \/ Known(D, m + 1).types = types
    <3>1. m + 1 \in m + 1 .. Len(D.opcodes)
      BY <1>3, <1>10
    <3>. QED  BY <1>1, <3>1, NewKnown
  <2>3. rec.op = "if" /\ rec.v1 = l + 1 /\ rec.v2 = kInvalidIndex
    BY <1>3, <1>10 DEF IfRec
  <2>4. Known(D, m + 1).types = types
    <3>1. m + 1 \in m + 1 .. Len(D.opcodes)
      BY <1>3, <1>10
    <3>. QED  BY <1>1, <3>1, NewKnown
  <2>5. Passes(D, m + 1, types, 1, <<>>)
    <3>1. SubSeq(types, 1, Len(types) - 1) \o <<>> = c.types
      BY <1>4, <2>1
    <3>2. Arrives(D, m + 1 + 1, c.types)
      BY <1>3, <1>9, <1>10, Zenon
    <3>. QED  BY <2>1, <3>1, <3>2, Zenon DEF Passes
  <2>6. Lands(D, m + 1, rest)
    <3>1. Live(D.now, n + 1 - 1)
      BY <1>4, <1>9, <1>10 DEF AllLive, Live
    <3>2. AwaitedAt(D.now, n + 1, "if", rest)
      BY <1>4, <1>8, <1>10, <2>1, <3>1 DEF AwaitedAt
    <3>3. n + 1 \in 1 .. Len(D.labelStack) /\ D.labelStack[n + 1] = l + 1
      BY <1>4, <1>5
    <3>4. Awaits(D, l + 1, "if", rest)
      BY <3>2, <3>3 DEF Awaits
    <3>5. D.labels[l + 1].offset = kInvalidIndex
      BY <1>5, <1>6, <1>10
    <3>. QED  BY <2>3, <3>4, <3>5 DEF Lands
  <2>7. "if" \notin DOMAIN Operators
    BY OperatorShape DEF Opcodes
  <2> HIDE DEF types, rest, rec
  <2>8. LeadsOn(D, m + 1, rec, types) /\ VariableLeadsOn(D, m + 1, rec, types)
    BY <2>3, <2>7 DEF LeadsOn, VariableLeadsOn
  <2>9. JumpLeadsOn(D, m + 1, rec, types)
    BY <2>3, <2>5, <2>6 DEF JumpLeadsOn, rest
  <2>. QED  BY <2>4, <2>8, <2>9 DEF Leads, rec
<1>11. ASSUME NEW p \in 1 .. Len(D.opcodes) PROVE Certified(D, p)
  <2>1. CASE p \in 1 .. m
    <3>1. Certified(C, p)
      BY <2>1 DEF CodeInv
    <3>. QED  BY <1>1, <2>1, <3>1, CertifiedKept
  <2>2. CASE p \notin 1 .. m
    <3>1. p = m + 1 /\ new.kind = "If"
      BY <1>3, <2>2
    <3>2. Known(D, p) = C.now /\ ~AtEnd(D, p)
      <4>1. p \in m + 1 .. Len(D.opcodes) /\ instr.op # "end"
        BY <1>3, <3>1 DEF Opens
      <4>. QED  BY <1>1, <4>1, NewKnown
    <3>. QED  BY <1>10, <3>1, <3>2 DEF Certified
  <2>. QED  BY <2>1, <2>2
<1>12. LoopInv(D)
  <2> SUFFICES ASSUME NEW k \in 1 .. Len(D.labelStack), D.now.labels[k].kind = "Loop", Live(D.now, k - 1)
               PROVE  Arrives(D, D.labels[D.labelStack[k]].offset, SubSeq(D.now.types, 1, D.now.labels[k].limit))
    BY DEF LoopInv
  <2>1. CASE k \in 1 .. n
    <3>1. LoopInv(C)
      BY DEF CodeInv, Opens
    <3>2. /\ k \in 1 .. Len(C.labelStack) /\ D.labelStack[k] = C.labelStack[k] /\ C.now.labels[k].kind = "Loop"
          /\ D.labels[D.labelStack[k]].offset = C.labels[C.labelStack[k]].offset
      BY <1>4, <1>5, <2>1, Zenon
    <3>. QED  BY <1>1, <1>4, <2>1, <3>1, <3>2, LoopKept, Zenon
  <2>2. CASE k = n + 1
    <3>1. AllLive(D.now)
      BY <1>4, <2>2 DEF AllLive, Live
    <3>2. new.kind = "Loop" /\ D.labels[D.labelStack[k]].offset = m + 1 /\ Len(D.opcodes) = m
      BY <1>3, <1>4, <1>5, <1>6, <2>2, Zenon
    <3>3. Arrives(D, m + 1, c.types)
      BY <1>3, <1>4, <1>7, <3>1, <3>2, ArrivesNext, Zenon
    <3>. QED  BY <1>4, <1>8, <2>2, <3>2, <3>3, Zenon
  <2>. QED  BY <1>4, <1>5, <2>1, <2>2, SMTT(20)
<1>. QED  BY <1>2, <1>11, <1>12 DEF CodeInv
-----------------------------------------------------------------------------
(* The else of an if. *)

\* What an Else emits.
ElseRec(C) == [op |-> "else", v1 |-> C.labelStack[Len(C.now.labels)], v2 |-> kInvalidIndex, src |-> Len(C.source) + 1]
\* Where the If of the innermost construct is.
IfAt(C) == C.labels[C.labelStack[Len(C.now.labels)]].origin
\* C becomes D by an Else.
Turns(C, D, instr) ==
  /\ ~C.ended /\ ~D.ended /\ C.now \in Notes /\ Sound(C.now) /\ Sound(D.now)
  /\ instr \in Instructions /\ instr.op # "end"
  /\ D.source = Append(C.source, instr) /\ D.noted = Append(C.noted, C.now)
  /\ Len(D.now.labels) = Len(C.now.labels)
  /\ D.now.types = SubSeq(C.now.types, 1, Innermost(C.now).limit)
  /\ \A k \in 1 .. Len(C.now.labels) : k < Len(C.now.labels) => D.now.labels[k] = C.now.labels[k]
  /\ Innermost(D.now).sig = Innermost(C.now).sig /\ Innermost(D.now).limit = Innermost(C.now).limit
  /\ Innermost(C.now).kind = "If" /\ Innermost(D.now).kind = "Else" /\ ~Innermost(D.now).unreachable
  /\ AllLive(C.now) => C.now.types = Closed(C.now)
  /\ D.opcodes = [Append(C.opcodes, ElseRec(C)) EXCEPT ![IfAt(C)].v2 = Len(C.opcodes) + 2]
  /\ D.labels = C.labels /\ D.labelStack = C.labelStack

\* What is known of the If and its label.
LEMMA TurnsIf ==
  ASSUME NEW C, NEW D, NEW instr, EmittedInv(C), LabelInv(C), Turns(C, D, instr)
  PROVE  /\ Len(C.now.labels) \in Nat \ {0} /\ Len(C.labelStack) = Len(C.now.labels)
         /\ C.labelStack[Len(C.now.labels)] \in 1 .. Len(C.labels)
         /\ C.labels[C.labelStack[Len(C.now.labels)]].offset = kInvalidIndex
         /\ IfAt(C) \in 1 .. Len(C.opcodes)
         /\ C.opcodes[IfAt(C)].op = "if" /\ C.opcodes[IfAt(C)].v2 = kInvalidIndex
         /\ C.opcodes[IfAt(C)].v1 = C.labelStack[Len(C.now.labels)]
<1> DEFINE n == Len(C.now.labels)
<1>1. n \in Nat \ {0} /\ n \in 1 .. n
  BY SoundStacks DEF Turns
<1>2. Len(C.labelStack) = n /\ C.labelStack \in Seq(1 .. Len(C.labels)) /\ C.now.labels[n].kind = "If"
  BY Zenon DEF LabelInv, OpenLabels, Turns, Innermost
<1>3. n \in 1 .. Len(C.labelStack) /\ C.labelStack[n] \in 1 .. Len(C.labels)
  BY <1>1, <1>2
<1>4. OpenLabels(C)
  BY DEF LabelInv
<1> HIDE DEF n
<1>5. /\ C.labels[C.labelStack[n]].offset = kInvalidIndex
      /\ C.labels[C.labelStack[n]].origin \in 1 .. Len(C.opcodes)
      /\ C.opcodes[C.labels[C.labelStack[n]].origin].op = "if"
      /\ C.opcodes[C.labels[C.labelStack[n]].origin].v2 = kInvalidIndex
      /\ C.opcodes[C.labels[C.labelStack[n]].origin].v1 = C.labelStack[n]
  BY <1>2, <1>3, <1>4, Zenon DEF OpenLabels
<1>. QED  BY <1>1, <1>2, <1>3, <1>5, Zenon DEF IfAt, n

\* The If has got its target, and the Else stands behind the rest.
LEMMA TurnsOpcodes ==
  ASSUME NEW C, NEW D, NEW instr, EmittedInv(C), LabelInv(C), Turns(C, D, instr)
  PROVE  /\ Len(C.opcodes) \in Nat /\ Len(D.opcodes) = Len(C.opcodes) + 1 /\ D.opcodes \in Seq(OpcodeRecs)
         /\ \A p \in 1 .. Len(C.opcodes) : p # IfAt(C) => D.opcodes[p] = C.opcodes[p]
         /\ /\ D.opcodes[IfAt(C)].op = "if" /\ D.opcodes[IfAt(C)].v1 = C.opcodes[IfAt(C)].v1
            /\ D.opcodes[IfAt(C)].src = C.opcodes[IfAt(C)].src
            /\ D.opcodes[IfAt(C)].v2 = Len(C.opcodes) + 2
         /\ D.opcodes[Len(C.opcodes) + 1] = ElseRec(C)
<1> DEFINE m == Len(C.opcodes)
           at == IfAt(C)
           rec == ElseRec(C)
           all == Append(C.opcodes, rec)
<1>1. C.opcodes \in Seq(OpcodeRecs) /\ m \in Nat
  BY DEF EmittedInv
<1>2. at \in 1 .. m /\ C.opcodes[at].op = "if"
  BY TurnsIf
<1>3. rec \in OpcodeRecs
  <2>1. C.labelStack[Len(C.now.labels)] \in Int
    BY TurnsIf
  <2>2. Len(C.source) + 1 \in Nat
    <3>1. C.source \in Seq(Instructions)
      BY DEF EmittedInv
    <3>. QED  BY <3>1
  <2>. QED  BY <2>1, <2>2 DEF OpcodeRecs, Opcodes, kInvalidIndex, ElseRec
<1> HIDE DEF at, rec
<1>4. /\ all \in Seq(OpcodeRecs) /\ Len(all) = m + 1 /\ all[m + 1] = rec
      /\ \A p \in 1 .. m : all[p] = C.opcodes[p]
  BY <1>1, <1>3
<1>5. D.opcodes = [all EXCEPT ![at].v2 = m + 2]
  BY DEF Turns, at, rec
<1> HIDE DEF all
<1>6. at \in 1 .. Len(all) /\ all[at] = C.opcodes[at] /\ C.opcodes[at] \in OpcodeRecs /\ m + 2 \in Int
  BY <1>1, <1>2, <1>4
<1>7. D.opcodes = [all EXCEPT ![at] = [C.opcodes[at] EXCEPT !.v2 = m + 2]]
  BY <1>5, <1>6
<1>8. [C.opcodes[at] EXCEPT !.v2 = m + 2] \in OpcodeRecs
  BY <1>6, Zenon DEF OpcodeRecs
<1> DEFINE told == [C.opcodes[at] EXCEPT !.v2 = m + 2]
<1>9. told.op = "if" /\ told.v1 = C.opcodes[at].v1 /\ told.src = C.opcodes[at].src /\ told.v2 = m + 2
  BY <1>2, <1>6 DEF OpcodeRecs
<1> HIDE DEF told
<1>10. told \in OpcodeRecs /\ D.opcodes = [all EXCEPT ![at] = told]
  BY <1>7, <1>8 DEF told
<1>11. /\ D.opcodes \in Seq(OpcodeRecs) /\ Len(D.opcodes) = m + 1 /\ D.opcodes[at] = told
       /\ \A p \in 1 .. m + 1 : p # at => D.opcodes[p] = all[p]
  <2>1. /\ D.opcodes \in Seq(OpcodeRecs) /\ Len(D.opcodes) = Len(all) /\ D.opcodes[at] = told
        /\ \A p \in 1 .. Len(all) : p # at => D.opcodes[p] = all[p]
    BY <1>4, <1>6, <1>10
  <2>. QED  BY <1>4, <2>1
<1>12. m + 1 # at /\ m + 1 \in 1 .. m + 1 /\ \A p \in 1 .. m : p \in 1 .. m + 1
  BY <1>1, <1>2
<1>. QED  BY <1>1, <1>4, <1>9, <1>11, <1>12 DEF at, rec

\* An Else makes the code grow.
LEMMA TurnsGrows ==
  ASSUME NEW C, NEW D, NEW instr, EmittedInv(C), LabelInv(C), Turns(C, D, instr)
  PROVE  Grows(C, D, instr) /\ GoesOn(C, D, instr)
<1> DEFINE m == Len(C.opcodes)
<1>1. m \in Nat /\ Len(D.opcodes) = m + 1 /\ D.opcodes \in Seq(OpcodeRecs)
  BY TurnsOpcodes
<1>2. OldOpcodes(C, D)
  <2> SUFFICES ASSUME NEW p \in 1 .. m
               PROVE  /\ D.opcodes[p].op = C.opcodes[p].op /\ D.opcodes[p].v1 = C.opcodes[p].v1
                      /\ D.opcodes[p].src = C.opcodes[p].src
                      /\ \/ D.opcodes[p].v2 = C.opcodes[p].v2
                         \/ /\ C.opcodes[p].op \in Jumps /\ C.opcodes[p].v2 = kInvalidIndex
                            /\ D.opcodes[p].v2 \in 0 .. Len(D.opcodes) + 1
    BY DEF OldOpcodes
  <2>1. CASE p # IfAt(C)
    BY <2>1, TurnsOpcodes
  <2>2. CASE p = IfAt(C)
    <3>1. C.opcodes[p].op = "if" /\ C.opcodes[p].v2 = kInvalidIndex
      BY <2>2, TurnsIf
    <3>2. /\ D.opcodes[p].op = "if" /\ D.opcodes[p].v1 = C.opcodes[p].v1 /\ D.opcodes[p].src = C.opcodes[p].src
          /\ D.opcodes[p].v2 = m + 2
      BY <2>2, TurnsOpcodes
    <3>3. m + 2 \in 0 .. Len(D.opcodes) + 1
      BY <1>1
    <3>. QED  BY <3>1, <3>2, <3>3 DEF Jumps
  <2>. QED  BY <2>1, <2>2
<1>3. NewOpcodes(C, D, instr)
  <2> SUFFICES ASSUME NEW p \in m + 1 .. Len(D.opcodes)
               PROVE  /\ D.opcodes[p].src = Len(C.source) + 1
                      /\ D.opcodes[p].op = "end" <=> instr.op = "end"
                      /\ (D.opcodes[p].op \in Jumps /\ D.opcodes[p].v2 # kInvalidIndex)
                            => D.opcodes[p].v2 \in 0 .. Len(D.opcodes) + 1
    BY DEF NewOpcodes
  <2>1. p = m + 1
    BY <1>1
  <2>2. D.opcodes[p] = ElseRec(C)
    BY <2>1, TurnsOpcodes
  <2>3. D.opcodes[p].src = Len(C.source) + 1 /\ D.opcodes[p].op = "else" /\ D.opcodes[p].v2 = kInvalidIndex
    BY <2>2 DEF ElseRec
  <2>. QED  BY <2>3 DEF Turns
<1>4. Grows(C, D, instr)
  <2>1. /\ ~C.ended /\ C.now \in Notes /\ Sound(C.now) /\ instr \in Instructions
        /\ D.source = Append(C.source, instr) /\ D.noted = Append(C.noted, C.now)
    BY DEF Turns
  <2>. QED  BY <1>1, <1>2, <1>3, <2>1 DEF Grows
<1>5. GoesOn(C, D, instr)
  <2>1. instr.op # "end"
    BY DEF Turns
  <2>. QED  BY <1>1, <2>1 DEF GoesOn
<1>. QED  BY <1>4, <1>5

\* The branch is left for the other one.
LEMMA TurnsConstructs ==
  ASSUME NEW C, NEW D, NEW instr, Turns(C, D, instr)
  PROVE  /\ Keeps(C.now, D.now, Len(C.now.labels))
         /\ \A k \in 1 .. Len(C.now.labels) :
              /\ D.now.labels[k].limit = C.now.labels[k].limit /\ D.now.labels[k].sig = C.now.labels[k].sig
              /\ k < Len(C.now.labels) => D.now.labels[k].kind = C.now.labels[k].kind
         /\ C.now.labels[Len(C.now.labels)].kind = "If" /\ D.now.labels[Len(C.now.labels)].kind = "Else"
         /\ Live(C.now, Len(C.now.labels) - 1) => AllLive(D.now)
<1> DEFINE n == Len(C.now.labels)
           limit == Innermost(C.now).limit
<1>1. /\ n \in Nat \ {0} /\ Len(D.now.labels) = n /\ C.now.types \in Seq(Types)
      /\ limit \in 0 .. Len(C.now.types)
      /\ \A k \in 1 .. n : C.now.labels[k].limit \in 0 .. limit
  BY SoundStacks, Zenon DEF Turns
<1>2. /\ \A k \in 1 .. n : k < n => D.now.labels[k] = C.now.labels[k]
      /\ D.now.labels[n].sig = C.now.labels[n].sig /\ D.now.labels[n].limit = C.now.labels[n].limit
      /\ C.now.labels[n].kind = "If" /\ D.now.labels[n].kind = "Else" /\ ~D.now.labels[n].unreachable
  BY DEF Turns, Innermost
<1>3. \A k \in 1 .. n : k < n \/ k = n
  BY <1>1
<1>4. \A k \in 1 .. n : D.now.labels[k].limit = C.now.labels[k].limit /\ D.now.labels[k].sig = C.now.labels[k].sig
  BY <1>2, <1>3
<1>5. \A i \in 1 .. limit : D.now.types[i] = C.now.types[i]
  <2>1. D.now.types = SubSeq(C.now.types, 1, limit)
    BY DEF Turns
  <2>. QED  BY <1>1, <2>1
<1>6. \A k \in 1 .. n : Prefix(D.now.types, C.now.types, C.now.labels[k].limit)
  BY <1>1, <1>5 DEF Prefix
<1>7. Live(C.now, n - 1) => AllLive(D.now)
  <2> SUFFICES ASSUME Live(C.now, n - 1), NEW k \in 1 .. n PROVE ~D.now.labels[k].unreachable
    BY <1>1 DEF AllLive, Live
  <2>1. CASE k = n
    BY <1>2, <2>1
  <2>2. CASE k < n
    <3>1. k \in 1 .. n - 1
      BY <1>1, <2>2
    <3>. QED  BY <1>2, <2>2, <3>1, Zenon DEF Live
  <2>. QED  BY <1>3, <2>1, <2>2
<1>8. Keeps(C.now, D.now, n)
  BY <1>1, <1>2, <1>4, <1>6 DEF Keeps
<1>. QED  BY <1>2, <1>4, <1>7, <1>8

\* The construct is that of an Else from now on, and its If has its target.
LEMMA TurnsLabels ==
  ASSUME NEW C, NEW D, NEW instr, EmittedInv(C), LabelInv(C), Turns(C, D, instr)
  PROVE  LabelInv(D)
<1> DEFINE n == Len(C.now.labels)
           m == Len(C.opcodes)
           id == C.labelStack[n]
<1>1. /\ n \in Nat \ {0} /\ Len(C.labelStack) = n /\ id \in 1 .. Len(C.labels)
      /\ C.labels[id].offset = kInvalidIndex /\ C.labels[id].origin = IfAt(C)
      /\ C.opcodes[IfAt(C)].v1 = id
  BY TurnsIf, Zenon DEF IfAt
<1>2. /\ m \in Nat /\ Len(D.opcodes) = m + 1
      /\ \A p \in 1 .. m : p # IfAt(C) => D.opcodes[p] = C.opcodes[p]
      /\ D.opcodes[m + 1] = ElseRec(C)
  BY TurnsOpcodes
<1>3. \A p \in 1 .. m : D.opcodes[p].op = C.opcodes[p].op /\ D.opcodes[p].v1 = C.opcodes[p].v1
  BY TurnsGrows DEF Grows, OldOpcodes
<1>4. D.labels = C.labels /\ D.labelStack = C.labelStack /\ Len(D.now.labels) = n
  BY DEF Turns
<1>5. \A k \in 1 .. n :
        /\ D.now.labels[k].limit = C.now.labels[k].limit /\ D.now.labels[k].sig = C.now.labels[k].sig
        /\ k < n => D.now.labels[k].kind = C.now.labels[k].kind
  BY TurnsConstructs
<1>6. C.now.labels[n].kind = "If" /\ D.now.labels[n].kind = "Else"
  BY TurnsConstructs
<1>7. OpenLabels(C) /\ PlacedLabels(C) /\ JumpLabels(C) /\ C.labels \in Seq(LabelRecs) /\ C.labelStack \in Seq(1 .. Len(C.labels))
  BY Zenon DEF LabelInv
<1> HIDE DEF n, m
<1>8. OpenLabels(D)
  <2>1. \A j, k \in 1 .. n : D.labelStack[j] = D.labelStack[k] => j = k
    BY <1>1, <1>4, <1>7, Zenon DEF OpenLabels
  <2>2. ASSUME NEW k \in 1 .. n
        PROVE  /\ D.labels[D.labelStack[k]].stack = D.now.labels[k].limit
               /\ D.labels[D.labelStack[k]].results = Len(D.now.labels[k].sig)
               /\ D.labels[D.labelStack[k]].offset = kInvalidIndex <=> D.now.labels[k].kind # "Loop"
               /\ D.now.labels[k].kind = "If" =>
                    LET origin == D.labels[D.labelStack[k]].origin
                    IN  /\ origin \in 1 .. Len(D.opcodes)
                        /\ D.opcodes[origin].op = "if" /\ D.opcodes[origin].v2 = kInvalidIndex
                        /\ D.opcodes[origin].v1 = D.labelStack[k]
    <3>1. k \in 1 .. Len(C.labelStack)
      BY <1>1
    <3>2. /\ C.labels[C.labelStack[k]].stack = C.now.labels[k].limit
          /\ C.labels[C.labelStack[k]].results = Len(C.now.labels[k].sig)
          /\ C.labels[C.labelStack[k]].offset = kInvalidIndex <=> C.now.labels[k].kind # "Loop"
      BY <1>7, <3>1, Zenon DEF OpenLabels
    <3>3. D.now.labels[k].kind # "Loop" <=> C.now.labels[k].kind # "Loop"
      <4>1. k < n \/ k = n
        BY <1>1, SMTT(20)
      <4>. QED  BY <1>5, <1>6, <4>1
    <3>4. ASSUME D.now.labels[k].kind = "If"
          PROVE  LET origin == D.labels[D.labelStack[k]].origin
                 IN  /\ origin \in 1 .. Len(D.opcodes)
                     /\ D.opcodes[origin].op = "if" /\ D.opcodes[origin].v2 = kInvalidIndex
                     /\ D.opcodes[origin].v1 = D.labelStack[k]
      <4> DEFINE origin == C.labels[C.labelStack[k]].origin
      <4>1. k # n /\ k < n
        BY <1>1, <1>6, <3>4
      <4>2. C.now.labels[k].kind = "If"
        BY <1>5, <3>4, <4>1, Zenon
      <4>3. /\ origin \in 1 .. m
            /\ C.opcodes[origin].op = "if" /\ C.opcodes[origin].v2 = kInvalidIndex
            /\ C.opcodes[origin].v1 = C.labelStack[k]
        BY <1>7, <3>1, <4>2, Zenon DEF OpenLabels, m
      <4>4. C.labelStack[k] # id /\ origin # IfAt(C)
        <5>1. n \in 1 .. n /\ D.labelStack[k] = C.labelStack[k] /\ D.labelStack[n] = C.labelStack[n]
          BY <1>1, <1>4
        <5>2. C.labelStack[k] # id
          BY <2>1, <4>1, <5>1, Zenon
        <5>. QED  BY <1>1, <4>3, <5>2, Zenon
      <4>5. D.opcodes[origin] = C.opcodes[origin] /\ origin \in 1 .. Len(D.opcodes)
        BY <1>2, <4>3, <4>4
      <4>. QED  BY <1>4, <4>3, <4>5
    <3>. QED  BY <1>4, <1>5, <3>2, <3>3, <3>4, Zenon
  <2>. QED  BY <1>1, <1>4, <2>1, <2>2, Zenon DEF OpenLabels
<1>9. PlacedLabels(D)
  <2>1. \A v \in 1 .. m + 1 : v \in 1 .. Len(D.opcodes) + 1
    BY <1>2
  <2>. QED  BY <1>4, <1>7, <2>1, Zenon DEF PlacedLabels, m
<1>10. JumpLabels(D)
  <2> SUFFICES ASSUME NEW p \in 1 .. Len(D.opcodes)
               PROVE  /\ (D.opcodes[p].op \in Jumps /\ D.opcodes[p].v2 = kInvalidIndex)
                            => D.opcodes[p].v1 \in 1 .. Len(D.labels)
                      /\ D.opcodes[p].op = "if" =>
                            D.opcodes[p].v1 \in 1 .. Len(D.labels) /\ D.labels[D.opcodes[p].v1].origin = p
    BY DEF JumpLabels
  <2>1. CASE p \in 1 .. m /\ p # IfAt(C)
    BY <1>2, <1>4, <1>7, <2>1, Zenon DEF JumpLabels, m
  <2>2. CASE p = IfAt(C)
    <3>1. p \in 1 .. m /\ D.opcodes[p].v1 = id
      BY <1>1, <1>3, <2>2, TurnsIf DEF m
    <3>. QED  BY <1>1, <1>4, <2>2, <3>1
  <2>3. CASE p = m + 1
    BY <1>1, <1>2, <1>4, <2>3 DEF ElseRec, n
  <2>. QED  BY <1>2, <2>1, <2>2, <2>3
<1>. QED  BY <1>4, <1>7, <1>8, <1>9, <1>10, Zenon DEF LabelInv

\* No access has changed.
LEMMA TurnsAccess ==
  ASSUME NEW C, NEW D, NEW instr, EmittedInv(C), LabelInv(C), AccessInv(C), Turns(C, D, instr)
  PROVE  AccessInv(D)
<1>1. Grows(C, D, instr)
  BY TurnsGrows
<1>2. ASSUME NEW p \in Len(C.opcodes) + 1 .. Len(D.opcodes) PROVE Accesses(D.opcodes[p], instr.arg)
  <2>1. p = Len(C.opcodes) + 1 /\ D.opcodes[Len(C.opcodes) + 1] = ElseRec(C)
    BY TurnsOpcodes
  <2>2. D.opcodes[p].op = "else"
    BY <2>1 DEF ElseRec
  <2>. QED  BY <2>2, OperatorShape DEF Accesses, Opcodes
<1>. QED  BY <1>1, <1>2, AccessGrows

\* The If is told to go behind the Else; the other jumps wait on for the end.
LEMMA TurnsJumps ==
  ASSUME NEW C, NEW D, NEW instr, EmittedInv(C), LabelInv(C), Turns(C, D, instr)
  PROVE  JumpsLand(C, D)
<1> SUFFICES ASSUME NEW p \in 1 .. Len(C.opcodes), NEW types, C.opcodes[p].op \in Jumps, Lands(C, p, types)
             PROVE  Lands(D, p, types)
  BY DEF JumpsLand
<1> DEFINE n == Len(C.now.labels)
           id == C.labelStack[n]
<1>1. /\ n \in Nat \ {0} /\ Len(C.labelStack) = n /\ id \in 1 .. Len(C.labels)
      /\ C.labels[id].offset = kInvalidIndex
      /\ C.opcodes[IfAt(C)].op = "if" /\ C.opcodes[IfAt(C)].v2 = kInvalidIndex /\ C.opcodes[IfAt(C)].v1 = id
  BY TurnsIf
<1>2. C.opcodes[p].v2 = kInvalidIndex => C.opcodes[p].v1 \in 1 .. Len(C.labels)
  BY DEF LabelInv, JumpLabels
<1>3. Grows(C, D, instr) /\ GoesOn(C, D, instr)
  BY TurnsGrows
<1>4. D.labels = C.labels /\ D.labelStack = C.labelStack /\ Sound(C.now) /\ Sound(D.now)
  BY Zenon DEF Turns
<1>5. \A k \in 1 .. n : C.labelStack[k] = id => k = n
  <2>1. n \in 1 .. Len(C.labelStack) /\ \A k \in 1 .. n : k \in 1 .. Len(C.labelStack)
    BY <1>1
  <2>. QED  BY <2>1, OpenDistinct, Zenon
<1>6. Keeps(C.now, D.now, n) /\ \A k \in 1 .. n : k < n => D.now.labels[k].kind = C.now.labels[k].kind
  BY TurnsConstructs
<1>7. CASE p # IfAt(C)
  <2>1. D.opcodes[p] = C.opcodes[p]
    BY <1>7, TurnsOpcodes
  <2>2. ASSUME Awaits(C, C.opcodes[p].v1, C.opcodes[p].op, types), D.opcodes[p].v2 = kInvalidIndex
        PROVE  Awaits(D, C.opcodes[p].v1, C.opcodes[p].op, types)
    <3>1. PICK k \in 1 .. n :
            C.labelStack[k] = C.opcodes[p].v1 /\ AwaitedAt(C.now, k, C.opcodes[p].op, types)
      BY <1>1, <2>2 DEF Awaits
    <3>2. C.opcodes[p].op = "if" => k < n
      <4> SUFFICES ASSUME C.opcodes[p].op = "if", k = n PROVE FALSE
        BY <1>1
      <4>1. C.labels[C.opcodes[p].v1].origin = p
        BY DEF LabelInv, JumpLabels
      <4>. QED  BY <1>7, <3>1, <4>1 DEF IfAt
    <3>3. AwaitedAt(D.now, k, C.opcodes[p].op, types)
      BY <1>1, <1>4, <1>6, <3>1, <3>2, AwaitedKept, Zenon
    <3>. QED  BY <1>1, <1>4, <3>1, <3>3 DEF Awaits
  <2>3. (D.opcodes[p].v2 = kInvalidIndex /\ C.labels[C.opcodes[p].v1].offset = kInvalidIndex
            /\ Awaits(C, C.opcodes[p].v1, C.opcodes[p].op, types)) =>
           IF D.labels[C.opcodes[p].v1].offset = kInvalidIndex
           THEN Awaits(D, C.opcodes[p].v1, C.opcodes[p].op, types)
           ELSE Arrives(D, D.labels[C.opcodes[p].v1].offset, types)
    BY <1>4, <2>2
  <2>4. \A i \in 1 .. Len(C.labels) : C.labels[i].offset # kInvalidIndex => D.labels[i].offset = C.labels[i].offset
    BY <1>4
  <2>5. D.opcodes[p].v2 = C.opcodes[p].v2
    BY <2>1
  <2>. QED  BY <1>2, <1>3, <2>3, <2>4, <2>5, LandsKept
<1>8. CASE p = IfAt(C)
  <2>1. Awaits(C, id, "if", types)
    BY <1>1, <1>8, Zenon DEF Lands
  <2>2. AwaitedAt(C.now, n, "if", types)
    BY <1>1, <1>5, <2>1 DEF Awaits
  <2>3. Live(C.now, n - 1) /\ types = D.now.types
    BY <2>2, Zenon DEF AwaitedAt, Turns, Innermost
  <2>4. AllLive(D.now) /\ ~D.ended
    BY <2>3, TurnsConstructs, Zenon DEF Turns
  <2>5. D.opcodes \in Seq(OpcodeRecs) /\ Len(D.opcodes) = Len(C.opcodes) + 1 /\ Len(C.opcodes) \in Nat
    BY TurnsOpcodes
  <2>6. D.opcodes[p].v2 = Len(D.opcodes) + 1
    BY <1>8, <2>5, TurnsOpcodes
  <2>7. Arrives(D, D.opcodes[p].v2, types)
    BY <2>3, <2>4, <2>5, <2>6, ArrivesNext, Zenon
  <2>8. D.opcodes[p].v2 # kInvalidIndex
    BY <2>5, <2>6 DEF kInvalidIndex
  <2>. QED  BY <2>7, <2>8 DEF Lands
<1>. QED  BY <1>7, <1>8

\* Behind the Else, the certificate goes on with what the If was entered with.
LEMMA TurnsCode ==
  ASSUME NEW C, NEW D, NEW instr, EmittedInv(C), LabelInv(C), CodeInv(C), Turns(C, D, instr)
  PROVE  CodeInv(D)
<1> DEFINE m == Len(C.opcodes)
           n == Len(C.now.labels)
           id == C.labelStack[n]
<1>1. Grows(C, D, instr) /\ GoesOn(C, D, instr) /\ JumpsLand(C, D)
  BY TurnsGrows, TurnsJumps
<1>2. Arrives(D, 1, <<>>)
  BY <1>1, ArrivesKept DEF CodeInv
<1>3. m \in Nat /\ Len(D.opcodes) = m + 1 /\ D.opcodes[m + 1] = ElseRec(C)
  BY TurnsOpcodes
<1>4. n \in Nat \ {0} /\ Len(C.labelStack) = n /\ C.labels[id].offset = kInvalidIndex
  BY TurnsIf
<1>5. Keeps(C.now, D.now, n)
  BY TurnsConstructs
<1>6. D.labels = C.labels /\ D.labelStack = C.labelStack /\ Sound(C.now) /\ Sound(D.now) /\ ~C.ended
  BY DEF Turns
<1>7. ASSUME AllLive(C.now) PROVE Leads(D, m + 1)
  <2> DEFINE types == C.now.types
             rec == D.opcodes[m + 1]
  <2>1. Closes(C.now, n, types)
    BY <1>6, <1>7, ClosesWhenClosed DEF Turns
  <2>2. AwaitedAt(C.now, n, "else", types)
    BY <2>1 DEF AwaitedAt
  <2>3. n \in 1 .. n
    BY <1>4
  <2>4. AwaitedAt(D.now, n, "else", types)
    BY <1>4, <1>5, <1>6, <2>2, <2>3, AwaitedKept
  <2>5. Awaits(D, id, "else", types)
    BY <1>4, <1>6, <2>3, <2>4 DEF Awaits
  <2>6. rec.op = "else" /\ rec.v1 = id /\ rec.v2 = kInvalidIndex
    BY <1>3 DEF ElseRec
  <2>7. Lands(D, m + 1, types)
    BY <1>4, <1>6, <2>5, <2>6 DEF Lands
  <2>8. Known(D, m + 1).types = types
    <3>1. m + 1 \in m + 1 .. Len(D.opcodes)
      BY <1>3
    <3>. QED  BY <1>1, <3>1, NewKnown
  <2>9. "else" \notin DOMAIN Operators
    BY OperatorShape DEF Opcodes
  <2> HIDE DEF types, rec
  <2>10. LeadsOn(D, m + 1, rec, types) /\ VariableLeadsOn(D, m + 1, rec, types)
    BY <2>6, <2>9 DEF LeadsOn, VariableLeadsOn
  <2>11. JumpLeadsOn(D, m + 1, rec, types)
    BY <2>6, <2>7 DEF JumpLeadsOn
  <2>. QED  BY <2>8, <2>10, <2>11 DEF Leads, rec
<1>8. ASSUME NEW p \in 1 .. Len(D.opcodes) PROVE Certified(D, p)
  <2>1. CASE p \in 1 .. m
    <3>1. Certified(C, p)
      BY <2>1 DEF CodeInv
    <3>. QED  BY <1>1, <2>1, <3>1, CertifiedKept
  <2>2. CASE p = m + 1
    <3>1. p \in m + 1 .. Len(D.opcodes) /\ instr.op # "end"
      BY <1>3, <2>2 DEF Turns
    <3>2. Known(D, p) = C.now /\ ~AtEnd(D, p)
      BY <1>1, <3>1, NewKnown
    <3>. QED  BY <1>7, <2>2, <3>2 DEF Certified
  <2>. QED  BY <1>3, <2>1, <2>2
<1>9. LoopInv(D)
  <2> SUFFICES ASSUME NEW k \in 1 .. Len(D.labelStack), D.now.labels[k].kind = "Loop", Live(D.now, k - 1)
               PROVE  Arrives(D, D.labels[D.labelStack[k]].offset, SubSeq(D.now.types, 1, D.now.labels[k].limit))
    BY DEF LoopInv
  <2>1. LoopInv(C) /\ k \in 1 .. n /\ D.labelStack[k] = C.labelStack[k]
    BY <1>4, <1>6 DEF CodeInv
  <2>2. k # n
    BY TurnsConstructs
  <2>3. D.now.labels[k].kind = C.now.labels[k].kind
    BY <1>4, <2>1, <2>2, TurnsConstructs
  <2>. QED  BY <1>1, <1>4, <1>5, <1>6, <2>1, <2>3, LoopKept, Zenon
<1>. QED  BY <1>2, <1>8, <1>9 DEF CodeInv
-----------------------------------------------------------------------------
(* The end of a construct. *)

\* The label of the innermost construct.
Innerlabel(C) == C.labelStack[Len(C.now.labels)]
\* What an End emits.
EndRec(C) == [op |-> "end", v1 |-> C.labels[Innerlabel(C)].stack, v2 |-> C.labels[Innerlabel(C)].results,
              src |-> Len(C.source) + 1]
\* The label that is left has a position from now on.
Placed(C) ==
  IF C.labels[Innerlabel(C)].offset = kInvalidIndex
  THEN [C.labels EXCEPT ![Innerlabel(C)].offset = Len(C.opcodes) + 1] ELSE C.labels
\* C becomes D by an End that is not the last.
Ends(C, D, instr) ==
  /\ ~C.ended /\ ~D.ended /\ C.now \in Notes /\ Sound(C.now) /\ Sound(D.now)
  /\ instr \in Instructions /\ instr.op = "end"
  /\ D.source = Append(C.source, instr) /\ D.noted = Append(C.noted, C.now)
  /\ Len(C.now.labels) > 1 /\ Len(D.now.labels) = Len(C.now.labels) - 1
  /\ D.now.types = Closed(C.now)
  /\ \A k \in 1 .. Len(C.now.labels) - 1 : D.now.labels[k] = C.now.labels[k]
  /\ Innermost(C.now).kind = "If" => Innermost(C.now).sig = <<>>
  /\ AllLive(C.now) => C.now.types = Closed(C.now)
  /\ D.opcodes = Append(C.opcodes, EndRec(C))
  /\ D.labels = Placed(C) /\ D.labelStack = Front(C.labelStack)

\* The innermost label is none of the others.
LEMMA InnerIs ==
  ASSUME NEW C, LabelInv(C), Sound(C.now)
  PROVE  /\ Len(C.now.labels) \in Nat \ {0} /\ Len(C.labelStack) = Len(C.now.labels)
         /\ C.labels \in Seq(LabelRecs) /\ C.labelStack \in Seq(1 .. Len(C.labels))
         /\ Innerlabel(C) \in 1 .. Len(C.labels) /\ C.labels[Innerlabel(C)] \in LabelRecs
         /\ C.labels[Innerlabel(C)].stack = Innermost(C.now).limit
         /\ C.labels[Innerlabel(C)].results = Len(Innermost(C.now).sig)
         /\ C.labels[Innerlabel(C)].offset = kInvalidIndex <=> Innermost(C.now).kind # "Loop"
         /\ \A k \in 1 .. Len(C.now.labels) :
              /\ C.labelStack[k] \in 1 .. Len(C.labels)
              /\ C.labelStack[k] = Innerlabel(C) => k = Len(C.now.labels)
<1> DEFINE n == Len(C.now.labels)
<1>1. n \in Nat \ {0} /\ n \in 1 .. n
  BY SoundStacks
<1>2. Len(C.labelStack) = n /\ C.labelStack \in Seq(1 .. Len(C.labels)) /\ C.labels \in Seq(LabelRecs) /\ OpenLabels(C)
  BY Zenon DEF LabelInv, OpenLabels
<1>3. \A k \in 1 .. n : C.labelStack[k] \in 1 .. Len(C.labels)
  BY <1>2
<1>4. Innerlabel(C) \in 1 .. Len(C.labels) /\ C.labels[Innerlabel(C)] \in LabelRecs
  BY <1>1, <1>2, <1>3 DEF Innerlabel
<1>5. \A k \in 1 .. n : C.labelStack[k] = Innerlabel(C) => k = n
  <2>1. Innerlabel(C) = C.labelStack[n]
    BY <1>1, <1>2 DEF Innerlabel
  <2>. QED  BY <1>1, <1>2, <2>1, OpenDistinct, Zenon
<1>6. /\ C.labels[Innerlabel(C)].stack = Innermost(C.now).limit
      /\ C.labels[Innerlabel(C)].results = Len(Innermost(C.now).sig)
      /\ C.labels[Innerlabel(C)].offset = kInvalidIndex <=> Innermost(C.now).kind # "Loop"
  <2>1. n \in 1 .. Len(C.labelStack)
    BY <1>1, <1>2, Zenon
  <2> HIDE DEF n
  <2>2. /\ C.labels[C.labelStack[n]].stack = C.now.labels[n].limit
        /\ C.labels[C.labelStack[n]].results = Len(C.now.labels[n].sig)
        /\ C.labels[C.labelStack[n]].offset = kInvalidIndex <=> C.now.labels[n].kind # "Loop"
    BY <1>2, <2>1, Zenon DEF OpenLabels
  <2>. QED  BY <2>2 DEF Innerlabel, Innermost, n
<1>. QED  BY <1>1, <1>2, <1>3, <1>4, <1>5, <1>6

\* Nothing else changes in the labels.
LEMMA PlacedIs ==
  ASSUME NEW C, EmittedInv(C), LabelInv(C), Sound(C.now)
  PROVE  /\ Placed(C) \in Seq(LabelRecs) /\ Len(Placed(C)) = Len(C.labels)
         /\ \A id \in 1 .. Len(C.labels) :
              /\ id # Innerlabel(C) => Placed(C)[id] = C.labels[id]
              /\ Placed(C)[id].origin = C.labels[id].origin
              /\ C.labels[id].offset # kInvalidIndex => Placed(C)[id].offset = C.labels[id].offset
         /\ C.labels[Innerlabel(C)].offset = kInvalidIndex => Placed(C)[Innerlabel(C)].offset = Len(C.opcodes) + 1
<1> DEFINE id == Innerlabel(C)
           new == [C.labels[id] EXCEPT !.offset = Len(C.opcodes) + 1]
<1>1. C.labels \in Seq(LabelRecs) /\ id \in 1 .. Len(C.labels) /\ C.labels[id] \in LabelRecs
  BY InnerIs
<1>2. Len(C.opcodes) \in Nat
  <2>1. C.opcodes \in Seq(OpcodeRecs)
    BY DEF EmittedInv
  <2>. QED  BY <2>1
<1>3. new \in LabelRecs /\ new.offset = Len(C.opcodes) + 1 /\ new.origin = C.labels[id].origin
  <2> DEFINE old == C.labels[id]
             position == Len(C.opcodes) + 1
  <2>1. old \in LabelRecs /\ position \in Int
    BY <1>1, <1>2
  <2> HIDE DEF old, position
  <2>2. [old EXCEPT !.offset = position] \in LabelRecs
    BY <2>1 DEF LabelRecs
  <2>3. [old EXCEPT !.offset = position].offset = position /\ [old EXCEPT !.offset = position].origin = old.origin
    BY <2>1 DEF LabelRecs
  <2>. QED  BY <2>2, <2>3 DEF old, position
<1>4. Placed(C) = IF C.labels[id].offset = kInvalidIndex THEN [C.labels EXCEPT ![id] = new] ELSE C.labels
  BY <1>1 DEF Placed
<1> HIDE DEF id, new
<1>5. CASE C.labels[id].offset = kInvalidIndex
  <2>1. Placed(C) = [C.labels EXCEPT ![id] = new]
    BY <1>4, <1>5
  <2>2. /\ Placed(C) \in Seq(LabelRecs) /\ Len(Placed(C)) = Len(C.labels) /\ Placed(C)[id] = new
        /\ \A j \in 1 .. Len(C.labels) : j # id => Placed(C)[j] = C.labels[j]
    BY <1>1, <1>3, <2>1
  <2>. QED  BY <1>3, <1>5, <2>2 DEF id
<1>6. CASE C.labels[id].offset # kInvalidIndex
  BY <1>1, <1>4, <1>6 DEF id
<1>. QED  BY <1>5, <1>6

\* The End stands behind the rest.
LEMMA EndsIs ==
  ASSUME NEW C, NEW D, NEW instr, EmittedInv(C), LabelInv(C), Ends(C, D, instr)
  PROVE  /\ Len(C.opcodes) \in Nat /\ D.opcodes \in Seq(OpcodeRecs) /\ Len(D.opcodes) = Len(C.opcodes) + 1
         /\ \A p \in 1 .. Len(C.opcodes) : D.opcodes[p] = C.opcodes[p]
         /\ D.opcodes[Len(C.opcodes) + 1] = EndRec(C)
<1> DEFINE rec == EndRec(C)
<1>1. C.opcodes \in Seq(OpcodeRecs) /\ D.opcodes = Append(C.opcodes, rec)
  BY DEF EmittedInv, Ends
<1>2. rec \in OpcodeRecs
  <2>1. C.labels[Innerlabel(C)] \in LabelRecs
    BY InnerIs DEF Ends
  <2>2. Len(C.source) + 1 \in Nat
    <3>1. C.source \in Seq(Instructions)
      BY DEF EmittedInv
    <3>. QED  BY <3>1
  <2>. QED  BY <2>1, <2>2 DEF OpcodeRecs, Opcodes, EndRec, LabelRecs
<1> HIDE DEF rec
<1>3. /\ Len(C.opcodes) \in Nat /\ D.opcodes \in Seq(OpcodeRecs) /\ Len(D.opcodes) = Len(C.opcodes) + 1
      /\ \A p \in 1 .. Len(C.opcodes) : D.opcodes[p] = C.opcodes[p]
      /\ D.opcodes[Len(C.opcodes) + 1] = rec
  BY <1>1, <1>2
<1>. QED  BY <1>3 DEF rec

\* An End makes the code grow.
LEMMA EndsGrows ==
  ASSUME NEW C, NEW D, NEW instr, EmittedInv(C), LabelInv(C), Ends(C, D, instr)
  PROVE  Grows(C, D, instr) /\ GoesOn(C, D, instr)
<1> DEFINE m == Len(C.opcodes)
<1>1. m \in Nat /\ Len(D.opcodes) = m + 1 /\ D.opcodes \in Seq(OpcodeRecs)
  BY EndsIs
<1>2. OldOpcodes(C, D)
  <2>1. \A p \in 1 .. Len(C.opcodes) : D.opcodes[p] = C.opcodes[p]
    BY EndsIs
  <2>. QED  BY <2>1 DEF OldOpcodes
<1>3. NewOpcodes(C, D, instr)
  <2> SUFFICES ASSUME NEW p \in m + 1 .. Len(D.opcodes)
               PROVE  /\ D.opcodes[p].src = Len(C.source) + 1
                      /\ D.opcodes[p].op = "end" /\ instr.op = "end" /\ D.opcodes[p].op \notin Jumps
    BY DEF NewOpcodes
  <2>1. p = m + 1
    BY <1>1
  <2>2. D.opcodes[p] = EndRec(C)
    BY <2>1, EndsIs
  <2>3. D.opcodes[p].src = Len(C.source) + 1 /\ D.opcodes[p].op = "end"
    BY <2>2 DEF EndRec
  <2>. QED  BY <2>3 DEF Ends, Jumps
<1>4. Grows(C, D, instr)
  <2>1. /\ ~C.ended /\ C.now \in Notes /\ Sound(C.now) /\ instr \in Instructions
        /\ D.source = Append(C.source, instr) /\ D.noted = Append(C.noted, C.now)
    BY DEF Ends
  <2>. QED  BY <1>1, <1>2, <1>3, <2>1 DEF Grows
<1>5. GoesOn(C, D, instr)
  <2>1. AllLive(C.now) => C.now.types = Closed(C.now)
    BY DEF Ends
  <2>. QED  BY <1>1, <2>1 DEF GoesOn
<1>. QED  BY <1>4, <1>5

\* What is around the construct stays as it was.
LEMMA EndsConstructs ==
  ASSUME NEW C, NEW D, NEW instr, Ends(C, D, instr)
  PROVE  /\ Len(C.now.labels) - 1 \in Nat /\ Len(D.now.labels) = Len(C.now.labels) - 1
         /\ Keeps(C.now, D.now, Len(C.now.labels) - 1)
         /\ Live(C.now, Len(C.now.labels) - 1) => AllLive(D.now)
<1> DEFINE n == Len(C.now.labels)
           limit == Innermost(C.now).limit
           sig == Innermost(C.now).sig
<1>1. /\ n \in Nat \ {0} /\ n > 1 /\ Len(D.now.labels) = n - 1 /\ C.now.types \in Seq(Types)
      /\ limit \in 0 .. Len(C.now.types) /\ sig \in Seq(ValueTypes)
      /\ \A k \in 1 .. n : C.now.labels[k].limit \in 0 .. limit
  BY SoundStacks, Zenon DEF Ends, Constructs
<1>2. \A k \in 1 .. n - 1 : D.now.labels[k] = C.now.labels[k]
  BY DEF Ends
<1>3. \A i \in 1 .. limit : D.now.types[i] = C.now.types[i]
  <2>1. D.now.types = SubSeq(C.now.types, 1, limit) \o sig
    BY DEF Ends, Closed
  <2> HIDE DEF limit, sig
  <2> DEFINE below == SubSeq(C.now.types, 1, limit)
  <2>2. below \in Seq(Types) /\ Len(below) = limit /\ \A i \in 1 .. limit : below[i] = C.now.types[i]
    BY <1>1
  <2>3. sig \in Seq(Types)
    BY <1>1 DEF Types
  <2> HIDE DEF below
  <2>4. \A i \in 1 .. Len(below) : (below \o sig)[i] = below[i]
    BY <2>2, <2>3, JoinedIs
  <2>. QED  BY <2>1, <2>2, <2>4 DEF below
<1>4. \A k \in 1 .. n : Prefix(D.now.types, C.now.types, C.now.labels[k].limit)
  BY <1>1, <1>3 DEF Prefix
<1>5. Keeps(C.now, D.now, n - 1)
  <2>1. \A k \in 1 .. n - 1 : k \in 1 .. n
    BY <1>1
  <2>2. n - 1 <= Len(C.now.labels) /\ n - 1 <= Len(D.now.labels)
    BY <1>1
  <2> HIDE DEF n
  <2>3. \A k \in 1 .. n - 1 :
          /\ D.now.labels[k].sig = C.now.labels[k].sig /\ D.now.labels[k].limit = C.now.labels[k].limit
          /\ D.now.labels[k] = C.now.labels[k]
          /\ Prefix(D.now.types, C.now.types, C.now.labels[k].limit)
    BY <1>2, <1>4, <2>1
  <2>. QED  BY <2>2, <2>3 DEF Keeps
<1>6. Live(C.now, n - 1) => AllLive(D.now)
  BY <1>1, <1>2, Zenon DEF AllLive, Live
<1>. QED  BY <1>1, <1>5, <1>6

\* The labels that are left agree with the constructs that are left.
LEMMA EndsLabels ==
  ASSUME NEW C, NEW D, NEW instr, EmittedInv(C), LabelInv(C), Ends(C, D, instr)
  PROVE  LabelInv(D)
<1> DEFINE n == Len(C.now.labels)
           m == Len(C.opcodes)
           id == Innerlabel(C)
<1>1. /\ n \in Nat \ {0} /\ n > 1 /\ Len(C.labelStack) = n /\ Len(D.now.labels) = n - 1
      /\ C.labels \in Seq(LabelRecs) /\ C.labelStack \in Seq(1 .. Len(C.labels))
      /\ id \in 1 .. Len(C.labels)
      /\ \A k \in 1 .. n : C.labelStack[k] \in 1 .. Len(C.labels) /\ (C.labelStack[k] = id => k = n)
  BY InnerIs DEF Ends
<1>2. /\ D.labels \in Seq(LabelRecs) /\ Len(D.labels) = Len(C.labels)
      /\ \A j \in 1 .. Len(C.labels) :
           /\ j # id => D.labels[j] = C.labels[j]
           /\ D.labels[j].origin = C.labels[j].origin
           /\ C.labels[j].offset # kInvalidIndex => D.labels[j].offset = C.labels[j].offset
      /\ C.labels[id].offset = kInvalidIndex => D.labels[id].offset = m + 1
  BY PlacedIs DEF Ends
<1>3. D.labelStack \in Seq(1 .. Len(D.labels)) /\ Len(D.labelStack) = n - 1 /\ \A k \in 1 .. n - 1 : D.labelStack[k] = C.labelStack[k]
  <2>1. D.labelStack = Front(C.labelStack) /\ C.labelStack # <<>>
    BY <1>1 DEF Ends
  <2>2. /\ Front(C.labelStack) \in Seq(1 .. Len(C.labels)) /\ Len(Front(C.labelStack)) = Len(C.labelStack) - 1
        /\ \A k \in 1 .. Len(C.labelStack) - 1 : Front(C.labelStack)[k] = C.labelStack[k]
    BY <1>1, <2>1, FrontOfSeq
  <2>. QED  BY <1>1, <1>2, <2>1, <2>2
<1>4. m \in Nat /\ Len(D.opcodes) = m + 1 /\ D.opcodes[m + 1] = EndRec(C) /\ \A p \in 1 .. m : D.opcodes[p] = C.opcodes[p]
  BY EndsIs
<1>5. \A k \in 1 .. n - 1 : k \in 1 .. n /\ D.now.labels[k] = C.now.labels[k]
  BY <1>1 DEF Ends
<1>6. OpenLabels(C) /\ PlacedLabels(C) /\ JumpLabels(C)
  BY Zenon DEF LabelInv
<1> HIDE DEF n, m, id
<1>7. OpenLabels(D)
  <2>1. \A j, k \in 1 .. n - 1 : D.labelStack[j] = D.labelStack[k] => j = k
    BY <1>1, <1>3, <1>5, <1>6, Zenon DEF OpenLabels
  <2>2. ASSUME NEW k \in 1 .. n - 1
        PROVE  /\ D.labels[D.labelStack[k]].stack = D.now.labels[k].limit
               /\ D.labels[D.labelStack[k]].results = Len(D.now.labels[k].sig)
               /\ D.labels[D.labelStack[k]].offset = kInvalidIndex <=> D.now.labels[k].kind # "Loop"
               /\ D.now.labels[k].kind = "If" =>
                    LET origin == D.labels[D.labelStack[k]].origin
                    IN  /\ origin \in 1 .. Len(D.opcodes)
                        /\ D.opcodes[origin].op = "if" /\ D.opcodes[origin].v2 = kInvalidIndex
                        /\ D.opcodes[origin].v1 = D.labelStack[k]
    <3>1. k \in 1 .. Len(C.labelStack) /\ C.labelStack[k] # id
      BY <1>1, <1>5
    <3>2. D.labels[D.labelStack[k]] = C.labels[C.labelStack[k]]
      BY <1>1, <1>2, <1>3, <3>1, Zenon
    <3>3. /\ C.labels[C.labelStack[k]].stack = C.now.labels[k].limit
          /\ C.labels[C.labelStack[k]].results = Len(C.now.labels[k].sig)
          /\ C.labels[C.labelStack[k]].offset = kInvalidIndex <=> C.now.labels[k].kind # "Loop"
      BY <1>6, <3>1, ZenonT(30) DEF OpenLabels
    <3>4. ASSUME D.now.labels[k].kind = "If"
          PROVE  LET origin == D.labels[D.labelStack[k]].origin
                 IN  /\ origin \in 1 .. Len(D.opcodes)
                     /\ D.opcodes[origin].op = "if" /\ D.opcodes[origin].v2 = kInvalidIndex
                     /\ D.opcodes[origin].v1 = D.labelStack[k]
      <4> DEFINE origin == C.labels[C.labelStack[k]].origin
      <4>1. C.now.labels[k].kind = "If"
        BY <1>5, <3>4, Zenon
      <4>2. /\ origin \in 1 .. m
            /\ C.opcodes[origin].op = "if" /\ C.opcodes[origin].v2 = kInvalidIndex
            /\ C.opcodes[origin].v1 = C.labelStack[k]
        BY <1>6, <3>1, <4>1, Zenon DEF OpenLabels, m
      <4>3. D.opcodes[origin] = C.opcodes[origin] /\ origin \in 1 .. Len(D.opcodes)
        BY <1>4, <4>2
      <4>. QED  BY <1>3, <3>2, <4>2, <4>3
    <3>. QED  BY <1>5, <3>2, <3>3, <3>4, Zenon
  <2>. QED  BY <1>1, <1>3, <2>1, <2>2, Zenon DEF OpenLabels
<1>8. PlacedLabels(D)
  <2> SUFFICES ASSUME NEW j \in 1 .. Len(C.labels)
               PROVE  /\ D.labels[j].offset \in {kInvalidIndex} \cup 1 .. Len(D.opcodes) + 1
                      /\ D.labels[j].offset = kInvalidIndex => \E k \in 1 .. n - 1 : D.labelStack[k] = j
    BY <1>2, <1>3, Zenon DEF PlacedLabels
  <2>1. /\ C.labels[j].offset \in {kInvalidIndex} \cup 1 .. m + 1
        /\ C.labels[j].offset = kInvalidIndex => \E k \in 1 .. n : C.labelStack[k] = j
    BY <1>1, <1>6 DEF PlacedLabels, m
  <2>2. \A v \in 1 .. m + 1 : v \in 1 .. Len(D.opcodes) + 1
    BY <1>4
  <2>3. CASE j = id
    <3>1. m + 1 \in 1 .. Len(D.opcodes) + 1 /\ m + 1 # kInvalidIndex
      BY <1>4 DEF kInvalidIndex
    <3>. QED  BY <1>2, <2>1, <2>2, <2>3, <3>1, Zenon
  <2>4. CASE j # id
    <3>1. D.labels[j] = C.labels[j]
      BY <1>2, <2>4
    <3>2. ASSUME C.labels[j].offset = kInvalidIndex PROVE \E k \in 1 .. n - 1 : D.labelStack[k] = j
      <4>1. PICK k \in 1 .. n : C.labelStack[k] = j
        BY <2>1, <3>2
      <4>2. k # n
        BY <2>4, <4>1 DEF id, Innerlabel, n
      <4>3. k \in 1 .. n - 1
        BY <1>1, <4>2
      <4>. QED  BY <1>3, <4>1, <4>3
    <3>. QED  BY <2>1, <2>2, <3>1, <3>2
  <2>. QED  BY <2>3, <2>4
<1>9. JumpLabels(D)
  <2> SUFFICES ASSUME NEW p \in 1 .. Len(D.opcodes)
               PROVE  /\ (D.opcodes[p].op \in Jumps /\ D.opcodes[p].v2 = kInvalidIndex)
                            => D.opcodes[p].v1 \in 1 .. Len(D.labels)
                      /\ D.opcodes[p].op = "if" =>
                            D.opcodes[p].v1 \in 1 .. Len(D.labels) /\ D.labels[D.opcodes[p].v1].origin = p
    BY DEF JumpLabels
  <2>1. CASE p \in 1 .. m
    <3>1. /\ (C.opcodes[p].op \in Jumps /\ C.opcodes[p].v2 = kInvalidIndex) => C.opcodes[p].v1 \in 1 .. Len(C.labels)
          /\ C.opcodes[p].op = "if" => C.opcodes[p].v1 \in 1 .. Len(C.labels) /\ C.labels[C.opcodes[p].v1].origin = p
      BY <1>6, <2>1 DEF JumpLabels, m
    <3>2. D.opcodes[p] = C.opcodes[p]
      BY <1>4, <2>1
    <3>. QED  BY <1>2, <3>1, <3>2
  <2>2. CASE p = m + 1
    BY <1>4, <2>2 DEF EndRec, Jumps
  <2>. QED  BY <1>4, <2>1, <2>2
<1>. QED  BY <1>2, <1>3, <1>7, <1>8, <1>9 DEF LabelInv

\* No access has changed.
LEMMA EndsAccess ==
  ASSUME NEW C, NEW D, NEW instr, EmittedInv(C), LabelInv(C), AccessInv(C), Ends(C, D, instr)
  PROVE  AccessInv(D)
<1>1. Grows(C, D, instr)
  BY EndsGrows
<1>2. ASSUME NEW p \in Len(C.opcodes) + 1 .. Len(D.opcodes) PROVE Accesses(D.opcodes[p], instr.arg)
  <2>1. p = Len(C.opcodes) + 1 /\ D.opcodes[Len(C.opcodes) + 1] = EndRec(C)
    BY EndsIs
  <2>2. D.opcodes[p].op = "end"
    BY <2>1 DEF EndRec
  <2>. QED  BY <2>2, OperatorShape DEF Accesses, Opcodes
<1>. QED  BY <1>1, <1>2, AccessGrows

\* What waited for the end of the construct finds it there.
LEMMA ArrivesAtEnd ==
  ASSUME NEW c, Sound(c), NEW n \in Nat, n = Len(c.labels), Innermost(c).kind = "If" => Innermost(c).sig = <<>>,
         NEW op, NEW types, AwaitedAt(c, n, op, types)
  PROVE  Closes(c, n, types)
<1>1. CASE op # "if"
  BY <1>1 DEF AwaitedAt
<1>2. CASE op = "if"
  <2> DEFINE limit == c.labels[n].limit
  <2>1. c.labels[n].sig = <<>> /\ Live(c, n - 1) /\ types = SubSeq(c.types, 1, limit)
    BY <1>2 DEF AwaitedAt, Innermost
  <2>2. limit \in Nat /\ limit <= Len(c.types) /\ c.types \in Seq(Types)
    BY SoundStacks
  <2>3. Len(types) = limit /\ \A i \in 1 .. limit : types[i] = c.types[i]
    BY <2>1, <2>2
  <2>4. Len(<<>>) = 0 /\ DOMAIN <<>> = {}
    OBVIOUS
  <2> HIDE DEF limit
  <2>5. Len(types) >= limit + Len(<<>>) /\ EndsWith(types, <<>>)
    BY <2>2, <2>3, <2>4 DEF EndsWith
  <2>6. Prefix(types, c.types, limit)
    BY <2>3 DEF Prefix
  <2>. QED  BY <2>1, <2>5, <2>6, Zenon DEF Closes, limit
<1>. QED  BY <1>1, <1>2

\* The jumps to the construct land on its end.
LEMMA EndsJumps ==
  ASSUME NEW C, NEW D, NEW instr, EmittedInv(C), LabelInv(C), Ends(C, D, instr)
  PROVE  JumpsLand(C, D)
<1> SUFFICES ASSUME NEW p \in 1 .. Len(C.opcodes), NEW types, C.opcodes[p].op \in Jumps, Lands(C, p, types)
             PROVE  Lands(D, p, types)
  BY DEF JumpsLand
<1> DEFINE n == Len(C.now.labels)
           m == Len(C.opcodes)
           id == Innerlabel(C)
           was == C.opcodes[p]
<1>1. /\ n \in Nat \ {0} /\ Len(C.labelStack) = n /\ id \in 1 .. Len(C.labels)
      /\ \A k \in 1 .. n : C.labelStack[k] \in 1 .. Len(C.labels) /\ (C.labelStack[k] = id => k = n)
  BY InnerIs, Zenon DEF Ends
<1>2. /\ \A j \in 1 .. Len(C.labels) :
           /\ j # id => D.labels[j] = C.labels[j]
           /\ C.labels[j].offset # kInvalidIndex => D.labels[j].offset = C.labels[j].offset
      /\ C.labels[id].offset = kInvalidIndex => D.labels[id].offset = m + 1
  BY PlacedIs DEF Ends
<1>3. Grows(C, D, instr) /\ GoesOn(C, D, instr)
  BY EndsGrows
<1>4. D.opcodes[p] = was /\ m \in Nat /\ Len(D.opcodes) = m + 1
  BY EndsIs
<1>5. was.v2 = kInvalidIndex => was.v1 \in 1 .. Len(C.labels)
  BY DEF LabelInv, JumpLabels
<1>6. /\ n - 1 \in Nat /\ Keeps(C.now, D.now, n - 1) /\ Sound(C.now) /\ Sound(D.now)
      /\ \A k \in 1 .. n - 1 : D.now.labels[k] = C.now.labels[k] /\ D.labelStack[k] = C.labelStack[k]
      /\ Len(D.labelStack) = n - 1
  <2>1. Sound(C.now) /\ Sound(D.now) /\ \A k \in 1 .. n - 1 : D.now.labels[k] = C.now.labels[k]
    BY DEF Ends
  <2>2. n - 1 \in Nat /\ Keeps(C.now, D.now, n - 1)
    BY EndsConstructs
  <2>3. C.labelStack \in Seq(1 .. Len(C.labels)) /\ D.labelStack = Front(C.labelStack) /\ C.labelStack # <<>>
    BY <1>1 DEF LabelInv, Ends
  <2>4. /\ Len(Front(C.labelStack)) = Len(C.labelStack) - 1
        /\ \A k \in 1 .. Len(C.labelStack) - 1 : Front(C.labelStack)[k] = C.labelStack[k]
    BY <2>3, FrontOfSeq, Zenon
  <2>. QED  BY <1>1, <2>1, <2>2, <2>3, <2>4, Zenon
<1>7. ASSUME was.v2 = kInvalidIndex, C.labels[was.v1].offset = kInvalidIndex, Awaits(C, was.v1, was.op, types)
      PROVE  IF D.labels[was.v1].offset = kInvalidIndex
             THEN Awaits(D, was.v1, was.op, types)
             ELSE Arrives(D, D.labels[was.v1].offset, types)
  <2>1. PICK k \in 1 .. n : C.labelStack[k] = was.v1 /\ AwaitedAt(C.now, k, was.op, types)
    BY <1>1, <1>7 DEF Awaits
  <2>2. CASE k = n
    <3>1. was.v1 = id
      BY <2>1, <2>2 DEF Innerlabel
    <3>2. D.labels[was.v1].offset = m + 1 /\ m + 1 # kInvalidIndex
      BY <1>2, <1>4, <1>7, <3>1 DEF kInvalidIndex
    <3>3. Closes(C.now, n, types)
      BY <1>1, <1>6, <2>1, <2>2, ArrivesAtEnd, Zenon DEF Ends
    <3>4. m + 1 \in m + 1 .. Len(D.opcodes) /\ instr.op = "end"
      BY <1>4 DEF Ends
    <3>5. Known(D, m + 1) = C.now /\ AtEnd(D, m + 1)
      BY <1>3, <3>4, NewKnown
    <3>6. Starts(D, m + 1)
      <4>1. \A q \in 1 .. m + 1 - 1 : D.opcodes[q].src \in 1 .. Len(C.source)
        <5>1. \A q \in 1 .. m : D.opcodes[q] = C.opcodes[q]
          BY EndsIs
        <5>2. \A q \in 1 .. m : C.opcodes[q].src \in 1 .. Len(C.source)
          BY <1>3, GrowthIs
        <5>3. \A q \in 1 .. m + 1 - 1 : q \in 1 .. m
          BY <1>4
        <5>. QED  BY <5>1, <5>2, <5>3
      <4>2. D.opcodes[m + 1].src = Len(C.source) + 1 /\ Len(C.source) \in Nat
        BY <1>3, <3>4, GrowthIs, Zenon DEF Grows, NewOpcodes
      <4>3. m + 1 \in 1 .. Len(D.opcodes) + 1
        BY <1>4
      <4>. QED  BY <4>1, <4>2, <4>3 DEF Starts
    <3>7. Arrives(D, m + 1, types)
      BY <3>3, <3>5, <3>6 DEF Arrives
    <3>. QED  BY <3>2, <3>7
  <2>3. CASE k # n
    <3>1. k \in 1 .. n - 1 /\ was.v1 # id /\ was.v1 \in 1 .. Len(C.labels)
      BY <1>1, <2>1, <2>3, SMTT(20)
    <3>2. D.labels[was.v1].offset = kInvalidIndex
      BY <1>2, <1>7, <3>1
    <3>3. AwaitedAt(D.now, k, was.op, types)
      BY <1>6, <2>1, <3>1, AwaitedKept, Zenon
    <3>4. Awaits(D, was.v1, was.op, types)
      BY <1>6, <2>1, <3>1, <3>3 DEF Awaits
    <3>. QED  BY <3>2, <3>4
  <2>. QED  BY <2>2, <2>3
<1>8. \A j \in 1 .. Len(C.labels) : C.labels[j].offset # kInvalidIndex => D.labels[j].offset = C.labels[j].offset
  BY <1>2
<1>9. D.opcodes[p].v2 = C.opcodes[p].v2
  BY <1>4
<1>10. (D.opcodes[p].v2 = kInvalidIndex /\ C.labels[C.opcodes[p].v1].offset = kInvalidIndex
            /\ Awaits(C, C.opcodes[p].v1, C.opcodes[p].op, types)) =>
           IF D.labels[C.opcodes[p].v1].offset = kInvalidIndex
           THEN Awaits(D, C.opcodes[p].v1, C.opcodes[p].op, types)
           ELSE Arrives(D, D.labels[C.opcodes[p].v1].offset, types)
  BY <1>7, <1>9
<1>. QED  BY <1>3, <1>5, <1>8, <1>9, <1>10, LandsKept

\* The certificate grows by the End, where all jumps to its construct land.
LEMMA EndsCode ==
  ASSUME NEW C, NEW D, NEW instr, EmittedInv(C), LabelInv(C), CodeInv(C), Ends(C, D, instr)
  PROVE  CodeInv(D)
<1> DEFINE m == Len(C.opcodes)
           n == Len(C.now.labels)
<1>1. Grows(C, D, instr) /\ GoesOn(C, D, instr) /\ JumpsLand(C, D)
  BY EndsGrows, EndsJumps
<1>2. Arrives(D, 1, <<>>)
  BY <1>1, ArrivesKept DEF CodeInv
<1>3. m \in Nat /\ Len(D.opcodes) = m + 1 /\ D.opcodes[m + 1] = EndRec(C) /\ D.opcodes \in Seq(OpcodeRecs)
  BY EndsIs
<1>4. n \in Nat \ {0} /\ Len(C.labelStack) = n
  BY InnerIs DEF Ends
<1>5. Keeps(C.now, D.now, n - 1) /\ n - 1 \in Nat /\ Len(D.now.labels) = n - 1
  BY EndsConstructs
<1>6. Sound(C.now) /\ Sound(D.now) /\ ~C.ended /\ ~D.ended
  BY DEF Ends
<1>7. EndLeads(D, m + 1)
  <2>1. Known(D, m + 1) = C.now
    <3>1. m + 1 \in m + 1 .. Len(D.opcodes)
      BY <1>3
    <3>. QED  BY <1>1, <3>1, NewKnown
  <2>2. /\ D.opcodes[m + 1].v1 = Innermost(C.now).limit
        /\ D.opcodes[m + 1].v2 = Len(Innermost(C.now).sig)
    BY <1>3, <1>6, InnerIs DEF EndRec
  <2>3. AllLive(C.now) => C.now.types = Closed(C.now)
    BY DEF Ends
  <2>4. ASSUME Live(C.now, n - 1) PROVE Arrives(D, m + 1 + 1, Closed(C.now))
    <3>1. AllLive(D.now) /\ D.now.types = Closed(C.now)
      BY <2>4, EndsConstructs, Zenon DEF Ends
    <3>2. Arrives(D, Len(D.opcodes) + 1, D.now.types)
      BY <1>3, <1>6, <3>1, ArrivesNext
    <3>. QED  BY <1>3, <3>1, <3>2
  <2>. QED  BY <2>1, <2>2, <2>3, <2>4 DEF EndLeads
<1>8. ASSUME NEW p \in 1 .. Len(D.opcodes) PROVE Certified(D, p)
  <2>1. CASE p \in 1 .. m
    <3>1. Certified(C, p)
      BY <2>1 DEF CodeInv
    <3>. QED  BY <1>1, <2>1, <3>1, CertifiedKept
  <2>2. CASE p = m + 1
    <3>1. p \in m + 1 .. Len(D.opcodes) /\ instr.op = "end"
      BY <1>3, <2>2 DEF Ends
    <3>2. AtEnd(D, p)
      BY <1>1, <3>1, NewKnown
    <3>. QED  BY <1>7, <2>2, <3>2 DEF Certified
  <2>. QED  BY <1>3, <2>1, <2>2
<1>9. LoopInv(D)
  <2> SUFFICES ASSUME NEW k \in 1 .. Len(D.labelStack), D.now.labels[k].kind = "Loop", Live(D.now, k - 1)
               PROVE  Arrives(D, D.labels[D.labelStack[k]].offset, SubSeq(D.now.types, 1, D.now.labels[k].limit))
    BY DEF LoopInv
  <2>1. C.labelStack \in Seq(1 .. Len(C.labels)) /\ D.labelStack = Front(C.labelStack) /\ C.labelStack # <<>>
    BY <1>4 DEF LabelInv, Ends
  <2>2. /\ Len(Front(C.labelStack)) = Len(C.labelStack) - 1
        /\ \A j \in 1 .. Len(C.labelStack) - 1 : Front(C.labelStack)[j] = C.labelStack[j]
    BY <2>1, FrontOfSeq, Zenon
  <2>3. k \in 1 .. n - 1 /\ k \in 1 .. Len(C.labelStack) /\ D.labelStack[k] = C.labelStack[k]
    BY <1>4, <2>1, <2>2
  <2>4. C.now.labels[k].kind = "Loop"
    BY <2>3, Zenon DEF Ends
  <2>5. D.labels[D.labelStack[k]].offset = C.labels[C.labelStack[k]].offset
    <3>1. C.labelStack[k] \in 1 .. Len(C.labels) /\ C.labels[C.labelStack[k]].offset # kInvalidIndex
      BY <2>1, <2>3, <2>4, SMTT(20) DEF LabelInv, OpenLabels
    <3>. QED  BY <1>6, <2>3, <3>1, PlacedIs, SMTT(20) DEF Ends
  <2>6. LoopInv(C)
    BY <1>6 DEF CodeInv
  <2>. QED  BY <1>1, <1>5, <1>6, <2>3, <2>4, <2>5, <2>6, LoopKept, Zenon
<1>. QED  BY <1>2, <1>8, <1>9 DEF CodeInv

-----------------------------------------------------------------------------
(* The end of the body. *)

\* A jump that had no target gets that of its label.
PatchedRec(C, rec) ==
  IF rec.op \in Jumps /\ rec.v2 = kInvalidIndex THEN [rec EXCEPT !.v2 = Placed(C)[rec.v1].offset] ELSE rec
\* C becomes D by the last end.
Finishes(C, D, instr) ==
  /\ ~C.ended /\ D.ended /\ C.now \in Notes /\ Sound(C.now)
  /\ instr \in Instructions /\ instr.op = "end"
  /\ D.source = Append(C.source, instr) /\ D.noted = Append(C.noted, C.now)
  /\ Len(C.now.labels) = 1
  /\ AllLive(C.now) => C.now.types = Closed(C.now)
  /\ D.opcodes = [p \in 1 .. Len(C.opcodes) |-> PatchedRec(C, C.opcodes[p])]

\* Every label has a position now.
LEMMA FinishesPlaces ==
  ASSUME NEW C, NEW D, NEW instr, EmittedInv(C), LabelInv(C), Finishes(C, D, instr), NEW id \in 1 .. Len(C.labels)
  PROVE  Placed(C)[id].offset \in 1 .. Len(C.opcodes) + 1 /\ Placed(C)[id].offset # kInvalidIndex
<1>1. /\ Len(C.labelStack) = 1 /\ Innerlabel(C) = C.labelStack[1]
  BY InnerIs DEF Finishes, Innerlabel
<1>2. /\ C.labels[id].offset \in {kInvalidIndex} \cup 1 .. Len(C.opcodes) + 1
      /\ C.labels[id].offset = kInvalidIndex => id = Innerlabel(C)
  BY <1>1 DEF LabelInv, PlacedLabels
<1>3. /\ C.labels[id].offset # kInvalidIndex => Placed(C)[id].offset = C.labels[id].offset
      /\ C.labels[Innerlabel(C)].offset = kInvalidIndex => Placed(C)[Innerlabel(C)].offset = Len(C.opcodes) + 1
  BY PlacedIs DEF Finishes
<1>4. Len(C.opcodes) \in Nat
  <2>1. C.opcodes \in Seq(OpcodeRecs)
    BY DEF EmittedInv
  <2>. QED  BY <2>1
<1>5. Placed(C)[id].offset \in 1 .. Len(C.opcodes) + 1
  BY <1>2, <1>3, <1>4
<1>. QED  BY <1>4, <1>5 DEF kInvalidIndex

\* The opcodes are those there were, but for the targets of jumps.
LEMMA FinishesIs ==
  ASSUME NEW C, NEW D, NEW instr, EmittedInv(C), LabelInv(C), Finishes(C, D, instr)
  PROVE  /\ Len(C.opcodes) \in Nat /\ D.opcodes \in Seq(OpcodeRecs) /\ Len(D.opcodes) = Len(C.opcodes)
         /\ \A p \in 1 .. Len(C.opcodes) :
              /\ D.opcodes[p].op = C.opcodes[p].op /\ D.opcodes[p].v1 = C.opcodes[p].v1
              /\ D.opcodes[p].src = C.opcodes[p].src
              /\ D.opcodes[p].v2 = IF C.opcodes[p].op \in Jumps /\ C.opcodes[p].v2 = kInvalidIndex
                                   THEN Placed(C)[C.opcodes[p].v1].offset ELSE C.opcodes[p].v2
<1> DEFINE m == Len(C.opcodes)
<1>1. C.opcodes \in Seq(OpcodeRecs) /\ m \in Nat /\ \A p \in 1 .. m : C.opcodes[p] \in OpcodeRecs
  BY DEF EmittedInv
<1>2. ASSUME NEW p \in 1 .. m
      PROVE  LET rec == PatchedRec(C, C.opcodes[p])
             IN  /\ rec \in OpcodeRecs
                 /\ rec.op = C.opcodes[p].op /\ rec.v1 = C.opcodes[p].v1 /\ rec.src = C.opcodes[p].src
                 /\ rec.v2 = IF C.opcodes[p].op \in Jumps /\ C.opcodes[p].v2 = kInvalidIndex
                             THEN Placed(C)[C.opcodes[p].v1].offset ELSE C.opcodes[p].v2
  <2> DEFINE was == C.opcodes[p]
  <2>1. was \in OpcodeRecs
    BY <1>1
  <2>2. CASE was.op \in Jumps /\ was.v2 = kInvalidIndex
    <3> DEFINE position == Placed(C)[was.v1].offset
    <3>1. was.v1 \in 1 .. Len(C.labels)
      BY <2>2 DEF LabelInv, JumpLabels
    <3>2. position \in Int
      BY <1>1, <3>1, FinishesPlaces
    <3>3. PatchedRec(C, was) = [was EXCEPT !.v2 = position]
      BY <2>2 DEF PatchedRec
    <3> HIDE DEF was, position
    <3>4. LET rec == [was EXCEPT !.v2 = position]
          IN  rec \in OpcodeRecs /\ rec.op = was.op /\ rec.v1 = was.v1 /\ rec.src = was.src /\ rec.v2 = position
      BY <2>1, <3>2 DEF OpcodeRecs
    <3>. QED  BY <2>2, <3>3, <3>4 DEF was, position
  <2>3. CASE ~(was.op \in Jumps /\ was.v2 = kInvalidIndex)
    BY <2>1, <2>3 DEF PatchedRec
  <2>. QED  BY <2>2, <2>3
<1>3. D.opcodes = [p \in 1 .. m |-> PatchedRec(C, C.opcodes[p])]
  BY DEF Finishes
<1>4. D.opcodes \in Seq(OpcodeRecs) /\ Len(D.opcodes) = m
  <2>1. D.opcodes \in [1 .. m -> OpcodeRecs]
    BY <1>2, <1>3
  <2>2. D.opcodes \in Seq(OpcodeRecs)
    BY <1>1, <2>1, SeqDef, Zenon
  <2>. QED  BY <1>1, <2>1, <2>2, LenProperties
<1>. QED  BY <1>1, <1>2, <1>3, <1>4

\* The last end makes the source grow and emits nothing.
LEMMA FinishesGrows ==
  ASSUME NEW C, NEW D, NEW instr, EmittedInv(C), LabelInv(C), Finishes(C, D, instr)
  PROVE  Grows(C, D, instr) /\ GoesOn(C, D, instr)
<1> DEFINE m == Len(C.opcodes)
<1>1. m \in Nat /\ Len(D.opcodes) = m /\ D.opcodes \in Seq(OpcodeRecs)
  BY FinishesIs
<1>2. OldOpcodes(C, D)
  <2> SUFFICES ASSUME NEW p \in 1 .. m
               PROVE  /\ D.opcodes[p].op = C.opcodes[p].op /\ D.opcodes[p].v1 = C.opcodes[p].v1
                      /\ D.opcodes[p].src = C.opcodes[p].src
                      /\ \/ D.opcodes[p].v2 = C.opcodes[p].v2
                         \/ /\ C.opcodes[p].op \in Jumps /\ C.opcodes[p].v2 = kInvalidIndex
                            /\ D.opcodes[p].v2 \in 0 .. Len(D.opcodes) + 1
    BY DEF OldOpcodes
  <2>1. /\ D.opcodes[p].op = C.opcodes[p].op /\ D.opcodes[p].v1 = C.opcodes[p].v1
        /\ D.opcodes[p].src = C.opcodes[p].src
        /\ D.opcodes[p].v2 = IF C.opcodes[p].op \in Jumps /\ C.opcodes[p].v2 = kInvalidIndex
                             THEN Placed(C)[C.opcodes[p].v1].offset ELSE C.opcodes[p].v2
    BY FinishesIs
  <2>2. ASSUME C.opcodes[p].op \in Jumps, C.opcodes[p].v2 = kInvalidIndex
        PROVE  Placed(C)[C.opcodes[p].v1].offset \in 0 .. Len(D.opcodes) + 1
    <3>1. C.opcodes[p].v1 \in 1 .. Len(C.labels)
      BY <2>2 DEF LabelInv, JumpLabels
    <3>2. Placed(C)[C.opcodes[p].v1].offset \in 1 .. m + 1
      BY <3>1, FinishesPlaces
    <3>. QED  BY <1>1, <3>2
  <2>. QED  BY <2>1, <2>2
<1>3. NewOpcodes(C, D, instr)
  BY <1>1 DEF NewOpcodes
<1>4. Grows(C, D, instr)
  <2>1. /\ ~C.ended /\ C.now \in Notes /\ Sound(C.now) /\ instr \in Instructions
        /\ D.source = Append(C.source, instr) /\ D.noted = Append(C.noted, C.now)
    BY DEF Finishes
  <2>. QED  BY <1>1, <1>2, <1>3, <2>1 DEF Grows
<1>5. GoesOn(C, D, instr)
  BY DEF GoesOn, Finishes
<1>. QED  BY <1>4, <1>5

\* No jump is left without a target.
LEMMA FinishesTargets ==
  ASSUME NEW C, NEW D, NEW instr, EmittedInv(C), LabelInv(C), Finishes(C, D, instr),
         NEW p \in 1 .. Len(D.opcodes), D.opcodes[p].op \in Jumps
  PROVE  D.opcodes[p].v2 # kInvalidIndex
<1>1. p \in 1 .. Len(C.opcodes)
  BY FinishesIs
<1>2. /\ D.opcodes[p].op = C.opcodes[p].op
      /\ D.opcodes[p].v2 = IF C.opcodes[p].op \in Jumps /\ C.opcodes[p].v2 = kInvalidIndex
                           THEN Placed(C)[C.opcodes[p].v1].offset ELSE C.opcodes[p].v2
  BY <1>1, FinishesIs
<1>3. CASE C.opcodes[p].v2 = kInvalidIndex
  <2>1. C.opcodes[p].v1 \in 1 .. Len(C.labels)
    BY <1>1, <1>2, <1>3 DEF LabelInv, JumpLabels
  <2>2. Placed(C)[C.opcodes[p].v1].offset # kInvalidIndex
    BY <2>1, FinishesPlaces
  <2>. QED  BY <1>2, <1>3, <2>2
<1>. QED  BY <1>2, <1>3

\* Those to the function's own label go behind the last opcode.
LEMMA FinishesJumps ==
  ASSUME NEW C, NEW D, NEW instr, EmittedInv(C), LabelInv(C), Finishes(C, D, instr)
  PROVE  JumpsLand(C, D)
<1> SUFFICES ASSUME NEW p \in 1 .. Len(C.opcodes), NEW types, C.opcodes[p].op \in Jumps, Lands(C, p, types)
             PROVE  Lands(D, p, types)
  BY DEF JumpsLand
<1> DEFINE was == C.opcodes[p]
           m == Len(C.opcodes)
<1>1. Grows(C, D, instr) /\ GoesOn(C, D, instr) /\ m \in Nat /\ Len(D.opcodes) = m
  BY FinishesGrows, FinishesIs
<1>2. \A q : Arrives(C, q, types) => Arrives(D, q, types)
  BY <1>1, ArrivesKept
<1>3. D.opcodes[p].v2 # kInvalidIndex
  BY <1>1, FinishesTargets, FinishesIs
<1>4. D.opcodes[p].v2 = IF was.v2 = kInvalidIndex THEN Placed(C)[was.v1].offset ELSE was.v2
  BY FinishesIs
<1>5. CASE was.v2 # kInvalidIndex
  <2>1. Arrives(C, was.v2, types)
    BY <1>5 DEF Lands
  <2>. QED  BY <1>2, <1>3, <1>4, <1>5, <2>1 DEF Lands
<1>6. CASE was.v2 = kInvalidIndex
  <2>1. was.v1 \in 1 .. Len(C.labels)
    BY <1>6 DEF LabelInv, JumpLabels
  <2>2. CASE C.labels[was.v1].offset # kInvalidIndex
    <3>1. Arrives(C, C.labels[was.v1].offset, types)
      BY <1>6, <2>2 DEF Lands
    <3>2. Placed(C)[was.v1].offset = C.labels[was.v1].offset
      BY <2>1, <2>2, PlacedIs DEF Finishes
    <3>. QED  BY <1>2, <1>3, <1>4, <1>6, <3>1, <3>2 DEF Lands
  <2>3. CASE C.labels[was.v1].offset = kInvalidIndex
    <3>1. Awaits(C, was.v1, was.op, types)
      BY <1>6, <2>3 DEF Lands
    <3>2. Len(C.labelStack) = 1 /\ Len(C.now.labels) = 1
      BY InnerIs DEF Finishes
    <3>3. C.labelStack[1] = was.v1 /\ AwaitedAt(C.now, 1, was.op, types)
      BY <3>1, <3>2 DEF Awaits
    <3>4. Placed(C)[was.v1].offset = m + 1
      <4>1. was.v1 = Innerlabel(C)
        BY <3>2, <3>3 DEF Innerlabel
      <4>. QED  BY <2>3, <4>1, PlacedIs DEF Finishes
    <3>5. Closes(C.now, 1, types)
      <4>1. C.now.labels[1].kind = "Func" /\ Innermost(C.now) = C.now.labels[1]
        BY <3>2 DEF Finishes, Sound, Innermost
      <4>2. Sound(C.now)
        BY DEF Finishes
      <4>. QED  BY <3>2, <3>3, <4>1, <4>2, ArrivesAtEnd, Zenon
    <3>6. m + 1 \notin 1 .. Len(D.opcodes) /\ m + 1 \in 1 .. Len(D.opcodes) + 1
      BY <1>1
    <3>7. Known(D, m + 1) = C.now /\ AtEnd(D, m + 1) /\ Starts(D, m + 1)
      <4>1. D.ended
        BY DEF Finishes
      <4>2. D.noted[Len(D.noted)] = C.now
        BY <1>1, GrowthIs
      <4>. QED  BY <3>6, <4>1, <4>2 DEF Known, AtEnd, Starts
    <3>8. Arrives(D, m + 1, types)
      BY <3>2, <3>5, <3>7, Zenon DEF Arrives
    <3>. QED  BY <1>3, <1>4, <1>6, <3>4, <3>8 DEF Lands
  <2>. QED  BY <2>2, <2>3
<1>. QED  BY <1>5, <1>6

\* The certificate of the body is complete.
LEMMA FinishesCode ==
  ASSUME NEW C, NEW D, NEW instr, EmittedInv(C), LabelInv(C), CodeInv(C), Finishes(C, D, instr)
  PROVE  CodeInv(D)
<1>1. Grows(C, D, instr) /\ GoesOn(C, D, instr) /\ JumpsLand(C, D)
  BY FinishesGrows, FinishesJumps
<1>2. Arrives(D, 1, <<>>)
  BY <1>1, ArrivesKept DEF CodeInv
<1>3. ASSUME NEW p \in 1 .. Len(D.opcodes) PROVE Certified(D, p)
  <2>1. p \in 1 .. Len(C.opcodes)
    BY FinishesIs
  <2>2. Certified(C, p)
    BY <2>1 DEF CodeInv
  <2>. QED  BY <1>1, <2>1, <2>2, CertifiedKept
<1>4. D.ended
  BY DEF Finishes
<1>. QED  BY <1>2, <1>3, <1>4 DEF CodeInv

\* No access has changed.
LEMMA FinishesAccess ==
  ASSUME NEW C, NEW D, NEW instr, EmittedInv(C), LabelInv(C), AccessInv(C), Finishes(C, D, instr)
  PROVE  AccessInv(D)
<1>1. Grows(C, D, instr)
  BY FinishesGrows
<1>2. Len(C.opcodes) \in Nat /\ Len(D.opcodes) = Len(C.opcodes)
  BY FinishesIs
<1>3. \A p \in Len(C.opcodes) + 1 .. Len(D.opcodes) : FALSE
  BY <1>2
<1>. QED  BY <1>1, <1>3, AccessGrows
-----------------------------------------------------------------------------
(* The handlers that emit opcodes and leave the constructs alone. *)

\* What is noted of a checker.
NoteOf(c) == [types |-> c.types, labels |-> c.labels]
\* It says of the stacks what the checker says.
LEMMA NoteIs ==
  ASSUME NEW c
  PROVE  /\ NoteOf(c).types = c.types /\ NoteOf(c).labels = c.labels
         /\ Sound(NoteOf(c)) <=> Sound(c)
         /\ AllLive(NoteOf(c)) <=> AllLive(c)
         /\ Innermost(NoteOf(c)) = Innermost(c) /\ Closed(NoteOf(c)) = Closed(c)
<1> DEFINE n == NoteOf(c)
<1>1. n.types = c.types /\ n.labels = c.labels
  BY DEF NoteOf
<1> HIDE DEF n
<1>2. Sound(n) <=> Sound(c)
  BY <1>1 DEF Sound
<1>3. AllLive(n) <=> AllLive(c)
  BY <1>1 DEF AllLive, Live
<1>4. Innermost(n) = Innermost(c) /\ Closed(n) = Closed(c)
  BY <1>1 DEF Innermost, Closed
<1>. QED  BY <1>1, <1>2, <1>3, <1>4 DEF n

\* And it follows what the checker follows.
LEMMA NoteFollows ==
  ASSUME NEW c, NEW d, Follows(c, d)
  PROVE  Follows(NoteOf(c), NoteOf(d))
<1> DEFINE m == NoteOf(c)
           n == NoteOf(d)
<1>1. m.types = c.types /\ m.labels = c.labels /\ n.types = d.types /\ n.labels = d.labels
  BY NoteIs
<1>2. Sound(n) /\ Innermost(m) = Innermost(c) /\ Innermost(n) = Innermost(d)
  BY NoteIs DEF Follows
<1> HIDE DEF m, n
<1>3. Keeps(m, n, Len(m.labels))
  BY <1>1 DEF Keeps, Follows
<1>. QED  BY <1>1, <1>2, <1>3 DEF Follows, m, n

\* What a handler leads to that does not give up.
Advances ==
  /\ phase' = "reading" /\ Checked'
  /\ EmittedInv(Code') /\ LabelInv(Code') /\ AccessInv(Code')
  /\ (CleanLoops /\ CodeInv(Code)) => CodeInv(Code')

\* The parts of the code, now
LEMMA CodeIs ==
  /\ Code.opcodes = opcodes /\ Code.source = source /\ Code.noted = noted /\ Code.now = NoteOf(checker)
  /\ Code.labels = labels /\ Code.labelStack = labelStack
  /\ Code.ended <=> phase # "reading"
BY Zenon DEF Code, Note, NoteOf

\* and after the step.
LEMMA CodeWillBe ==
  /\ Code'.opcodes = opcodes' /\ Code'.source = source' /\ Code'.noted = noted' /\ Code'.now = NoteOf(checker')
  /\ Code'.labels = labels' /\ Code'.labelStack = labelStack'
  /\ Code'.ended <=> phase' # "reading"
BY Zenon DEF Code, Note, NoteOf

\* The checker, while a body is read.
LEMMA ReadingIs ==
  ASSUME ReadInv
  PROVE  /\ checker \in Checkers /\ checker.ok /\ Sound(checker)
         /\ Code.now \in Notes /\ Sound(Code.now) /\ ~Code.ended
<1>1. checker \in [types : Seq(Types), labels : Seq(Constructs), ok : {TRUE}] /\ Sound(checker) /\ phase = "reading"
  BY Zenon DEF ReadInv, Checked
<1>2. checker \in Checkers /\ checker.ok
  BY <1>1, Zenon DEF Checkers
<1>3. NoteOf(checker) \in Notes
  BY <1>1 DEF NoteOf, Notes
<1>. QED  BY <1>1, <1>2, <1>3, CodeIs, NoteIs

\* A handler that emits opcodes and leaves the constructs alone.
LEMMA EmitStep ==
  ASSUME ReadInv, NEW instr \in Instructions, instr.op # "end",
         NEW recs \in Seq(OpcodeRecs), recs # <<>>,
         \A i \in 1 .. Len(recs) :
           /\ recs[i].src = Len(source) + 1 /\ recs[i].op \notin {"if", "end"}
           /\ recs[i].op \in Jumps => \/ recs[i].v2 = 0
                                      \/ recs[i].v2 = kInvalidIndex /\ recs[i].v1 \in 1 .. Len(labels),
         \A i \in 1 .. Len(recs) : Accesses(recs[i], instr.arg),
         NEW checked, checked.ok => checked \in Checkers /\ Follows(checker, checked),
         (checked.ok /\ AllLive(checker) /\ CleanLoops /\ CodeInv(Code)
            /\ Emits(Code, Code', instr, recs) /\ Code'.now = NoteOf(checked)) => Leads(Code', Len(opcodes) + 1),
         Emit(instr, checked, recs)
  PROVE  GiveUp \/ Advances
<1> SUFFICES ASSUME ~GiveUp PROVE Advances
  OBVIOUS
<1>1. /\ checked.ok /\ checker' = checked /\ opcodes' = opcodes \o recs /\ labels' = labels /\ labelStack' = labelStack
      /\ source' = Append(source, instr) /\ noted' = Append(noted, Note) /\ phase' = phase
  BY DEF Emit, Handle
<1>2. checked \in Checkers /\ Follows(checker, checked) /\ Sound(checked)
  BY <1>1 DEF Follows
<1>3. Checked'
  <2>1. checked \in [types : Seq(Types), labels : Seq(Constructs), ok : {TRUE}]
    BY <1>1, <1>2, Zenon DEF Checkers
  <2>. QED  BY <1>1, <1>2, <2>1, Zenon DEF Checked
<1>4. Code'.now = NoteOf(checked) /\ Follows(Code.now, Code'.now)
  BY <1>1, <1>2, CodeIs, CodeWillBe, NoteFollows
<1>5. Emits(Code, Code', instr, recs)
  <2>1. ~Code.ended /\ ~Code'.ended /\ Code.now \in Notes /\ Sound(Code.now)
    BY <1>1, ReadingIs, CodeWillBe DEF ReadInv
  <2>2. /\ Code'.source = Append(Code.source, instr) /\ Code'.noted = Append(Code.noted, Code.now)
        /\ Code'.opcodes = Code.opcodes \o recs /\ Code'.labels = Code.labels /\ Code'.labelStack = Code.labelStack
    BY <1>1, CodeIs, CodeWillBe DEF Note, NoteOf
  <2>3. \A i \in 1 .. Len(recs) :
           /\ recs[i].src = Len(Code.source) + 1 /\ recs[i].op \notin {"if", "end"}
           /\ recs[i].op \in Jumps => \/ recs[i].v2 = 0
                                      \/ recs[i].v2 = kInvalidIndex /\ recs[i].v1 \in 1 .. Len(Code.labels)
    BY CodeIs
  <2>. QED  BY <1>4, <2>1, <2>2, <2>3 DEF Emits
<1>6. EmittedInv(Code) /\ LabelInv(Code) /\ AccessInv(Code)
  BY DEF ReadInv
<1>7. EmittedInv(Code') /\ LabelInv(Code') /\ AccessInv(Code')
  <2>1. Grows(Code, Code', instr)
    BY <1>5, <1>6, EmitsGrows
  <2>. QED  BY <1>5, <1>6, <2>1, EmittedGrows, EmitsLabels, EmitsAccess
<1>8. ASSUME CleanLoops, CodeInv(Code) PROVE CodeInv(Code')
  <2>1. AllLive(Code.now) => Leads(Code', Len(Code.opcodes) + 1)
    BY <1>1, <1>4, <1>5, <1>8, CodeIs, NoteIs
  <2>. QED  BY <1>5, <1>6, <1>8, <2>1, EmitsCode
<1>. QED  BY <1>1, <1>3, <1>7, <1>8 DEF Advances, ReadInv

\* One opcode, which goes on to the next.
Goes(c, d, k, new) ==
  AllLive(d) /\ Len(c.types) >= k /\ d.types = SubSeq(c.types, 1, Len(c.types) - k) \o new

\* One opcode makes the code longer by one.
LEMMA EmitsOne ==
  ASSUME NEW C, NEW D, NEW instr, NEW recs, Len(recs) = 1, EmittedInv(C), Emits(C, D, instr, recs)
  PROVE  Len(C.opcodes) \in Nat /\ Len(D.opcodes) = Len(C.opcodes) + 1 /\ D.opcodes \in Seq(OpcodeRecs)
<1>1. Len(C.opcodes) \in Nat
  BY DEF EmittedInv
<1>2. Len(D.opcodes) = Len(C.opcodes) + Len(recs)
  <2>1. C.opcodes \in Seq(OpcodeRecs) /\ recs \in Seq(OpcodeRecs) /\ D.opcodes = C.opcodes \o recs
    BY DEF EmittedInv, Emits
  <2>. QED  BY <2>1, JoinedIs
<1>3. D.opcodes \in Seq(OpcodeRecs)
  BY EmitsIs
<1>. QED  BY <1>1, <1>2, <1>3

\* The new opcode goes on to the end of the code, where the checker's operands are.
LEMMA PassesOn ==
  ASSUME NEW C, NEW D, NEW instr, NEW rec, EmittedInv(C), Emits(C, D, instr, <<rec>>),
         NEW k, NEW new, NEW c, NEW d, C.now = NoteOf(c), D.now = NoteOf(d), Goes(c, d, k, new)
  PROVE  Passes(D, Len(C.opcodes) + 1, c.types, k, new)
<1>1. Len(C.opcodes) \in Nat /\ Len(D.opcodes) = Len(C.opcodes) + 1 /\ D.opcodes \in Seq(OpcodeRecs)
  <2> DEFINE recs == <<rec>>
  <2>1. Len(recs) = 1 /\ Emits(C, D, instr, recs)
    OBVIOUS
  <2> HIDE DEF recs
  <2>. QED  BY <2>1, EmitsOne
<1>2. ~D.ended /\ AllLive(D.now) /\ D.now.types = d.types
  BY NoteIs, Zenon DEF Goes, Emits
<1>3. Arrives(D, Len(D.opcodes) + 1, d.types)
  BY <1>1, <1>2, ArrivesNext, Zenon
<1>. QED  BY <1>1, <1>3 DEF Goes, Passes

\* A handler that emits one opcode.
LEMMA EmitOne ==
  ASSUME ReadInv, NEW instr \in Instructions, instr.op # "end", NEW rec \in OpcodeRecs,
         rec.src = Len(source) + 1, rec.op \notin {"if", "end"},
         rec.op \in Jumps => rec.v2 = kInvalidIndex /\ rec.v1 \in 1 .. Len(labels),
         Accesses(rec, instr.arg),
         NEW checked, checked.ok => checked \in Checkers /\ Follows(checker, checked),
         (checked.ok /\ AllLive(checker) /\ CleanLoops /\ CodeInv(Code)
            /\ Emits(Code, Code', instr, <<rec>>) /\ Code'.now = NoteOf(checked)) =>
            /\ LeadsOn(Code', Len(opcodes) + 1, rec, checker.types)
            /\ VariableLeadsOn(Code', Len(opcodes) + 1, rec, checker.types)
            /\ JumpLeadsOn(Code', Len(opcodes) + 1, rec, checker.types),
         Emit(instr, checked, <<rec>>)
  PROVE  GiveUp \/ Advances
<1> DEFINE recs == <<rec>>
<1>1. recs \in Seq(OpcodeRecs) /\ recs # <<>> /\ Len(recs) = 1 /\ recs[1] = rec
  OBVIOUS
<1>2. \A i \in 1 .. Len(recs) : recs[i] = rec
  BY <1>1
<1> HIDE DEF recs
<1>3. ASSUME checked.ok, AllLive(checker), CleanLoops, CodeInv(Code), Emits(Code, Code', instr, recs),
             Code'.now = NoteOf(checked)
      PROVE  Leads(Code', Len(opcodes) + 1)
  <2>1. EmittedInv(Code) /\ Code.opcodes = opcodes /\ Code.now = NoteOf(checker)
    BY CodeIs DEF ReadInv
  <2>2. Len(opcodes) \in Nat /\ Len(Code'.opcodes) = Len(opcodes) + 1
    BY <1>1, <1>3, <2>1, EmitsIs, SMTT(20)
  <2>3. Len(opcodes) + 1 \in Len(opcodes) + 1 .. Len(Code'.opcodes)
    BY <2>2
  <2>4. Code'.opcodes[Len(opcodes) + 1] = rec
    <3>1. Code'.opcodes[Len(opcodes) + 1] = recs[Len(opcodes) + 1 - Len(opcodes)]
      BY <1>3, <2>1, <2>3, EmitsIs
    <3>2. Len(opcodes) + 1 - Len(opcodes) = 1
      BY <2>2
    <3>. QED  BY <1>1, <3>1, <3>2
  <2>5. Known(Code', Len(opcodes) + 1) = NoteOf(checker)
    <3>1. Grows(Code, Code', instr)
      BY <1>3, <2>1, EmitsGrows
    <3>. QED  BY <2>1, <2>3, <3>1, NewKnown
  <2>6. Known(Code', Len(opcodes) + 1).types = checker.types
    BY <2>5, NoteIs
  <2>7. /\ LeadsOn(Code', Len(opcodes) + 1, rec, checker.types)
        /\ VariableLeadsOn(Code', Len(opcodes) + 1, rec, checker.types)
        /\ JumpLeadsOn(Code', Len(opcodes) + 1, rec, checker.types)
    BY <1>3 DEF recs
  <2>. QED  BY <2>4, <2>6, <2>7 DEF Leads
<1>4. Emit(instr, checked, recs)
  BY DEF recs
<1>. QED  BY <1>1, <1>2, <1>3, <1>4, EmitStep, Zenon

\* The record of an opcode.
LEMMA RecordIs ==
  ASSUME ReadInv, NEW op \in Opcodes \cup DOMAIN Operators, NEW v1 \in Int, NEW v2 \in Int
  PROVE  /\ OpcodeRec(op, v1, v2) \in OpcodeRecs
         /\ OpcodeRec(op, v1, v2).op = op /\ OpcodeRec(op, v1, v2).v1 = v1 /\ OpcodeRec(op, v1, v2).v2 = v2
         /\ OpcodeRec(op, v1, v2).src = Len(source) + 1
<1>1. source \in Seq(Instructions)
  BY CodeIs DEF ReadInv, EmittedInv
<1>2. Len(source) + 1 \in Nat
  BY <1>1
<1>. QED  BY <1>2 DEF OpcodeRec, OpcodeRecs

\* An opcode that is no operator is none of the accesses.
LEMMA PlainAccess ==
  ASSUME NEW rec, rec.op \in Opcodes, NEW arg
  PROVE  Accesses(rec, arg) /\ rec.op \notin DOMAIN Operators
BY OperatorShape DEF Accesses

\* A handler that emits one opcode, which goes on to the next.
LEMMA GoStep ==
  ASSUME ReadInv, NEW instr \in Instructions, instr.op # "end", NEW rec \in OpcodeRecs, rec.src = Len(source) + 1,
         rec.op \notin Jumps \cup {"return", "end"}, Accesses(rec, instr.arg),
         NEW checked, checked.ok => checked \in Checkers /\ Follows(checker, checked),
         NEW k, NEW new, (checked.ok /\ AllLive(checker)) => Goes(checker, checked, k, new),
         (checked.ok /\ AllLive(checker) /\ Code'.source[rec.src] = instr
            /\ Passes(Code', Len(opcodes) + 1, checker.types, k, new)) =>
            /\ LeadsOn(Code', Len(opcodes) + 1, rec, checker.types)
            /\ VariableLeadsOn(Code', Len(opcodes) + 1, rec, checker.types),
         Emit(instr, checked, <<rec>>)
  PROVE  GiveUp \/ Advances
<1> DEFINE p == Len(opcodes) + 1
           recs == <<rec>>
<1>1. ASSUME checked.ok, AllLive(checker), CleanLoops, CodeInv(Code), Emits(Code, Code', instr, recs),
             Code'.now = NoteOf(checked)
      PROVE  LeadsOn(Code', p, rec, checker.types) /\ VariableLeadsOn(Code', p, rec, checker.types)
             /\ JumpLeadsOn(Code', p, rec, checker.types)
  <2>1. Goes(checker, checked, k, new)
    BY <1>1
  <2>2. EmittedInv(Code) /\ Code.now = NoteOf(checker) /\ Code.opcodes = opcodes /\ Code.source = source
    BY CodeIs DEF ReadInv
  <2>3. Passes(Code', p, checker.types, k, new)
    BY <1>1, <2>1, <2>2, PassesOn
  <2> HIDE DEF recs
  <2>4. Code'.source[rec.src] = instr
    <3>1. Grows(Code, Code', instr)
      BY <1>1, <2>2, EmitsGrows
    <3>. QED  BY <2>2, <3>1, GrowthIs
  <2>5. JumpLeadsOn(Code', p, rec, checker.types)
    BY DEF JumpLeadsOn, Jumps
  <2>. QED  BY <1>1, <2>3, <2>4, <2>5
<1>2. rec.op \notin Jumps /\ rec.op \notin {"if", "end"}
  BY DEF Jumps
<1>. QED  BY <1>1, <1>2, EmitOne

\* OnConstExpr
LEMMA ConstStep ==
  ASSUME ReadInv, NEW type \in ConstTypes, OnConstExpr(type)
  PROVE  GiveUp \/ Advances
<1> DEFINE instr == Instr("const", <<type>>, <<>>, 0)
           checked == PushTypes(checker, <<type>>)
           rec == OpcodeRec("const", 0, 0)
           p == Len(opcodes) + 1
<1>1. <<type>> \in Seq(ValueTypes) /\ <<>> \in Seq(Nat) /\ "const" \in Opcodes
  BY ValueShape DEF Opcodes
<1>2. instr \in Instructions /\ instr.op = "const" /\ instr.sig = <<type>>
  BY <1>1 DEF Instr, Instructions
<1>3. rec \in OpcodeRecs /\ rec.op = "const" /\ rec.src = Len(source) + 1
  BY <1>1, RecordIs
<1>4. /\ checked \in Checkers /\ Follows(checker, checked) /\ checked.labels = checker.labels
      /\ checked.types = checker.types \o <<type>>
  BY <1>1, ReadingIs, PushIs, PushFollows, ZenonT(30)
<1>5. Emit(instr, checked, <<rec>>)
  BY DEF OnConstExpr
<1> HIDE DEF instr, checked, rec
<1>6. ASSUME checked.ok, AllLive(checker) PROVE Goes(checker, checked, 0, <<type>>)
  <2>1. AllLive(checked)
    BY <1>4, <1>6 DEF AllLive, Live
  <2>2. checker.types \in Seq(Types)
    BY ReadingIs, SoundStacks
  <2>3. SubSeq(checker.types, 1, Len(checker.types) - 0) = checker.types /\ Len(checker.types) >= 0
    BY <2>2
  <2>. QED  BY <1>4, <2>1, <2>3, Zenon DEF Goes
<1>7. Accesses(rec, instr.arg) /\ rec.op \notin DOMAIN Operators /\ rec.op \notin Jumps \cup {"return", "end"}
  BY <1>1, <1>3, PlainAccess DEF Jumps
<1>8. ASSUME Passes(Code', p, checker.types, 0, <<type>>), Code'.source[rec.src] = instr
      PROVE  LeadsOn(Code', p, rec, checker.types) /\ VariableLeadsOn(Code', p, rec, checker.types)
  <2> HIDE DEF p
  <2>. QED  BY <1>2, <1>3, <1>7, <1>8 DEF LeadsOn, VariableLeadsOn
<1>. QED  BY <1>2, <1>3, <1>4, <1>5, <1>6, <1>7, <1>8, GoStep, Zenon

\* OnDropExpr
LEMMA DropStep ==
  ASSUME ReadInv, OnDropExpr
  PROVE  GiveUp \/ Advances
<1> DEFINE instr == Plain("drop")
           checked == DropTypes(checker, 1)
           rec == OpcodeRec("drop", 0, 0)
           p == Len(opcodes) + 1
<1>1. "drop" \in Opcodes /\ <<>> \in Seq(ValueTypes) /\ <<>> \in Seq(Nat)
  BY DEF Opcodes
<1>2. instr \in Instructions /\ instr.op = "drop"
  BY <1>1 DEF Instr, Instructions, Plain
<1>3. rec \in OpcodeRecs /\ rec.op = "drop" /\ rec.src = Len(source) + 1
  BY <1>1, RecordIs
<1>4. checked.ok => /\ checked \in Checkers /\ Follows(checker, checked) /\ checked.labels = checker.labels
                    /\ AllLive(checker) => /\ Len(checker.types) >= 1
                                           /\ checked.types = SubSeq(checker.types, 1, Len(checker.types) - 1)
  BY ReadingIs, DropFollows
<1>5. Emit(instr, checked, <<rec>>)
  BY DEF OnDropExpr
<1> HIDE DEF instr, checked, rec
<1>6. ASSUME checked.ok, AllLive(checker) PROVE Goes(checker, checked, 1, <<>>)
  <2>1. AllLive(checked)
    BY <1>4, <1>6 DEF AllLive, Live
  <2>2. checked.types \in Seq(Types)
    BY <1>4, <1>6 DEF Checkers
  <2>3. checked.types = checked.types \o <<>>
    BY <2>2
  <2>. QED  BY <1>4, <1>6, <2>1, <2>3 DEF Goes
<1>7. Accesses(rec, instr.arg) /\ rec.op \notin DOMAIN Operators /\ rec.op \notin Jumps \cup {"return", "end"}
  BY <1>1, <1>3, PlainAccess DEF Jumps
<1>8. ASSUME Passes(Code', p, checker.types, 1, <<>>), Code'.source[rec.src] = instr
      PROVE  LeadsOn(Code', p, rec, checker.types) /\ VariableLeadsOn(Code', p, rec, checker.types)
  <2> HIDE DEF p
  <2>. QED  BY <1>2, <1>3, <1>7, <1>8 DEF LeadsOn, VariableLeadsOn
<1>. QED  BY <1>2, <1>3, <1>4, <1>5, <1>6, <1>7, <1>8, GoStep, Zenon

\* OnSelectExpr
LEMMA SelectStep ==
  ASSUME ReadInv, OnSelectExpr
  PROVE  GiveUp \/ Advances
<1> DEFINE instr == Plain("select")
           checked == OnSelect(checker)
           rec == OpcodeRec("select", 0, 0)
           p == Len(opcodes) + 1
           height == Len(checker.types)
           type == checker.types[height - 1]
<1>1. "select" \in Opcodes /\ <<>> \in Seq(ValueTypes) /\ <<>> \in Seq(Nat)
  BY DEF Opcodes
<1>2. instr \in Instructions /\ instr.op = "select"
  BY <1>1 DEF Instr, Instructions, Plain
<1>3. rec \in OpcodeRecs /\ rec.op = "select" /\ rec.src = Len(source) + 1
  BY <1>1, RecordIs
<1>4. checked.ok => /\ checked \in Checkers /\ Follows(checker, checked) /\ checked.labels = checker.labels
                    /\ AllLive(checker) => /\ height >= 3
                                           /\ checker.types[height - 2] = type
                                           /\ checked.types = SubSeq(checker.types, 1, height - 3) \o <<type>>
  BY ReadingIs, SelectFollows, Zenon
<1>5. Emit(instr, checked, <<rec>>)
  BY DEF OnSelectExpr
<1> HIDE DEF instr, checked, rec
<1>6. ASSUME checked.ok, AllLive(checker) PROVE Goes(checker, checked, 3, <<type>>)
  <2>1. AllLive(checked)
    BY <1>4, <1>6, Zenon DEF AllLive, Live
  <2>. QED  BY <1>4, <1>6, <2>1, Zenon DEF Goes
<1>7. Accesses(rec, instr.arg) /\ rec.op \notin DOMAIN Operators /\ rec.op \notin Jumps \cup {"return", "end"}
  BY <1>1, <1>3, PlainAccess DEF Jumps
<1>8. ASSUME checked.ok, AllLive(checker), Passes(Code', p, checker.types, 3, <<type>>), Code'.source[rec.src] = instr
      PROVE  LeadsOn(Code', p, rec, checker.types) /\ VariableLeadsOn(Code', p, rec, checker.types)
  <2> HIDE DEF p
  <2>. QED  BY <1>2, <1>3, <1>4, <1>7, <1>8 DEF LeadsOn, VariableLeadsOn
<1>. QED  BY <1>2, <1>3, <1>4, <1>5, <1>6, <1>7, <1>8, GoStep, Zenon

\* A condition more says nothing of the operands.
LEMMA RequireFollows ==
  ASSUME NEW c, NEW d \in Checkers, Follows(c, d), NEW condition \in BOOLEAN
  PROVE  Follows(c, Require(d, condition))
<1> DEFINE e == Require(d, condition)
<1>1. e.types = d.types /\ e.labels = d.labels
  BY RequireIs
<1> HIDE DEF e
<1>2. Sound(e)
  BY <1>1 DEF Follows, Sound
<1>3. Keeps(c, e, Len(c.labels))
  BY <1>1 DEF Follows, Keeps
<1>. QED  BY <1>1, <1>2, <1>3 DEF Follows, Innermost, e

\* What the handlers of operators share.
LEMMA ApplyStep ==
  ASSUME ReadInv, NEW name \in DOMAIN Operators, NEW condition \in BOOLEAN, NEW v1 \in Nat, NEW v2 \in Nat,
         Accesses(OpcodeRec(name, v1, v2), v1 + v2), Apply(name, condition, v1, v2)
  PROVE  GiveUp \/ Advances
<1> DEFINE params == Operators[name].params
           results == Operators[name].results
           instr == Instr(name, results, <<>>, v1 + v2)
           called == CheckCall(checker, params, results)
           checked == Require(called, condition)
           rec == OpcodeRec(name, v1, v2)
           p == Len(opcodes) + 1
<1>1. name \notin Opcodes /\ params \in Seq(ValueTypes) /\ results \in Seq(ValueTypes)
  BY OperatorShape
<1>2. instr \in Instructions /\ instr.op = name /\ instr.arg = v1 + v2
  <2>1. <<>> \in Seq(Nat) /\ v1 + v2 \in Int
    OBVIOUS
  <2>2. /\ Instr(name, results, <<>>, v1 + v2) \in Instructions
        /\ Instr(name, results, <<>>, v1 + v2).op = name /\ Instr(name, results, <<>>, v1 + v2).arg = v1 + v2
    BY <1>1, <2>1 DEF Instr, Instructions
  <2>. QED  BY <2>2
<1>3. rec \in OpcodeRecs /\ rec.op = name /\ rec.src = Len(source) + 1
  <2>1. name \in Opcodes \cup DOMAIN Operators /\ v1 \in Int /\ v2 \in Int
    OBVIOUS
  <2>. QED  BY <2>1, RecordIs
<1>4. called \in Checkers
  BY <1>1, ReadingIs, PopIs, PushIs DEF CheckCall
<1>5. ASSUME checked.ok
      PROVE  /\ checked \in Checkers /\ Follows(checker, checked) /\ checked.labels = checker.labels
             /\ AllLive(checker) => /\ Len(checker.types) >= Len(params)
                                    /\ checked.types = SubSeq(checker.types, 1, Len(checker.types) - Len(params)) \o results
  <2>1. /\ checked \in Checkers /\ checked.types = called.types /\ checked.labels = called.labels
        /\ called.ok
    BY <1>4, <1>5, RequireIs
  <2>2. /\ Follows(checker, called) /\ called.labels = checker.labels
        /\ AllLive(checker) => /\ Len(checker.types) >= Innermost(checker).limit + Len(params)
                               /\ called.types = SubSeq(checker.types, 1, Len(checker.types) - Len(params)) \o results
    BY <1>1, <2>1, ReadingIs, CallFollows
  <2>3. Follows(checker, checked)
    BY <1>4, <2>2, RequireFollows
  <2>4. Len(params) \in Nat /\ Innermost(checker).limit \in Nat /\ Len(checker.types) \in Nat
    BY <1>1, ReadingIs, SoundStacks
  <2> HIDE DEF called, checked, params, results
  <2>. QED  BY <2>1, <2>2, <2>3, <2>4
<1>6. Emit(instr, checked, <<rec>>)
  BY DEF Apply
<1>7. Accesses(rec, instr.arg)
  BY <1>2
<1>8. instr.op # "end" /\ rec.op \notin Jumps \cup {"return", "end"}
  BY <1>1, <1>2, <1>3 DEF Jumps, Opcodes
<1>9. ASSUME Passes(Code', p, checker.types, Len(params), results)
      PROVE  LeadsOn(Code', p, rec, checker.types) /\ VariableLeadsOn(Code', p, rec, checker.types)
  <2>1. Passes(Code', p, checker.types, Len(Operators[name].params), Operators[name].results)
    BY <1>9
  <2> HIDE DEF p, rec
  <2>2. rec.op = name /\ name \notin Opcodes
    BY <1>1, <1>3
  <2>3. LeadsOn(Code', p, rec, checker.types)
    BY <2>1, <2>2 DEF LeadsOn, Opcodes
  <2>4. VariableLeadsOn(Code', p, rec, checker.types)
    BY <2>2 DEF VariableLeadsOn, Opcodes
  <2>. QED  BY <2>3, <2>4
<1> HIDE DEF instr, called, checked, rec, params, results
<1>10. ASSUME checked.ok, AllLive(checker) PROVE Goes(checker, checked, Len(params), results)
  <2>1. AllLive(checked)
    BY <1>5, <1>10, Zenon DEF AllLive, Live
  <2>. QED  BY <1>5, <1>10, <2>1 DEF Goes
<1>. QED  BY <1>2, <1>3, <1>5, <1>6, <1>7, <1>8, <1>9, <1>10, GoStep

\* ReadOperator and ReadAccess
LEMMA OperatorStep ==
  ASSUME ReadInv, ReadOperator \/ ReadAccess
  PROVE  GiveUp \/ Advances
<1>1. ASSUME NEW name \in DOMAIN Operators, NEW v1, NEW v2, NEW condition, condition \in BOOLEAN, v1 \in Nat, v2 \in Nat,
             Apply(name, condition, v1, v2),
             Is(name, "load") \/ Is(name, "store") => v2 = 0,
             (\/ Is(name, "atomic_load") \/ Is(name, "atomic_store")
              \/ Is(name, "atomic_rmw") \/ Is(name, "atomic_cmpxchg")) => v1 = 0
      PROVE  GiveUp \/ Advances
  <2>1. /\ OpcodeRec(name, v1, v2).op = name
        /\ OpcodeRec(name, v1, v2).v1 = v1 /\ OpcodeRec(name, v1, v2).v2 = v2
    <3>1. name \in Opcodes \cup DOMAIN Operators /\ v1 \in Int /\ v2 \in Int
      BY <1>1
    <3>. QED  BY <3>1, RecordIs
  <2>2. Accesses(OpcodeRec(name, v1, v2), v1 + v2)
    BY <1>1, <2>1 DEF Accesses, Is
  <2>. QED  BY <1>1, <2>2, ApplyStep
<1>2. CASE ReadOperator
  <2>1. PICK name \in DOMAIN Operators :
            \/ OnUnaryExpr(name) \/ OnBinaryExpr(name) \/ OnCompareExpr(name) \/ OnConvertExpr(name)
            \/ OnCurrentMemoryExpr(name) \/ OnGrowMemoryExpr(name) \/ OnCallExpr(name) \/ OnCallIndirectExpr(name)
    BY <1>2 DEF ReadOperator
  <2>2. /\ Is(name, "load") \/ Is(name, "store") => 0 = 0
        /\ HasMemory \in BOOLEAN /\ HasTable \in BOOLEAN /\ 0 \in Nat /\ TRUE \in BOOLEAN
    BY ModuleShape
  <2>3. \E condition \in BOOLEAN : Apply(name, condition, 0, 0)
    BY <2>1, <2>2, Zenon DEF OnUnaryExpr, OnBinaryExpr, OnCompareExpr, OnConvertExpr, OnCurrentMemoryExpr, OnGrowMemoryExpr,
                      OnCallExpr, OnCallIndirectExpr
  <2>. QED  BY <1>1, <2>3
<1>3. CASE ReadAccess
  <2>1. PICK name \in DOMAIN Operators, aligned \in BOOLEAN :
        \/ \E offset \in Offsets :
            OnLoadExpr(name, aligned, offset) \/ OnStoreExpr(name, aligned, offset)
        \/ \E offset \in AtomicOffsets :
            \/ OnAtomicLoadExpr(name, aligned, offset) \/ OnAtomicStoreExpr(name, aligned, offset)
            \/ OnAtomicRmwExpr(name, aligned, offset) \/ OnAtomicRmwCmpxchgExpr(name, aligned, offset)
    BY <1>3 DEF ReadAccess
  <2>2. (HasMemory /\ aligned) \in BOOLEAN /\ 0 \in Nat
    OBVIOUS
  <2>3. CASE \E offset \in Offsets : OnLoadExpr(name, aligned, offset) \/ OnStoreExpr(name, aligned, offset)
    <3>1. PICK offset \in Offsets : OnLoadExpr(name, aligned, offset) \/ OnStoreExpr(name, aligned, offset)
      BY <2>3
    <3>2. Apply(name, HasMemory /\ aligned, offset, 0) /\ (Is(name, "load") \/ Is(name, "store")) /\ offset \in Nat
      BY <3>1, ImmediateShape DEF OnLoadExpr, OnStoreExpr
    <3>3. ~Is(name, "atomic_load") /\ ~Is(name, "atomic_store") /\ ~Is(name, "atomic_rmw") /\ ~Is(name, "atomic_cmpxchg")
      BY <3>2 DEF Is
    <3>. QED  BY <1>1, <2>2, <3>2, <3>3, Zenon
  <2>4. CASE \E offset \in AtomicOffsets :
               \/ OnAtomicLoadExpr(name, aligned, offset) \/ OnAtomicStoreExpr(name, aligned, offset)
               \/ OnAtomicRmwExpr(name, aligned, offset) \/ OnAtomicRmwCmpxchgExpr(name, aligned, offset)
    <3>1. PICK offset \in AtomicOffsets :
               \/ OnAtomicLoadExpr(name, aligned, offset) \/ OnAtomicStoreExpr(name, aligned, offset)
               \/ OnAtomicRmwExpr(name, aligned, offset) \/ OnAtomicRmwCmpxchgExpr(name, aligned, offset)
      BY <2>4
    <3>2. Apply(name, HasMemory /\ aligned, 0, offset) /\ ~Is(name, "load") /\ ~Is(name, "store") /\ offset \in Nat
      BY <3>1, ImmediateShape DEF OnAtomicLoadExpr, OnAtomicStoreExpr, OnAtomicRmwExpr, OnAtomicRmwCmpxchgExpr,
                                  ApplyAtomic, Is
    <3>. QED  BY <1>1, <2>2, <3>2, Zenon
  <2>. QED  BY <2>1, <2>3, <2>4
<1>. QED  BY <1>2, <1>3

\* An index of no local or global is refused.
LEMMA NoSuchStep ==
  ASSUME ReadInv, NEW op, NEW index, NoSuch(op, index)
  PROVE  GiveUp
<1> DEFINE failed == Fail(checker)
<1>1. ~failed.ok
  BY ReadingIs DEF Checkers, Fail
<1> HIDE DEF failed
<1>2. \E instr, recs : Emit(instr, failed, recs)
  BY DEF NoSuch, Variable, failed
<1>. QED  BY <1>1, <1>2 DEF Emit, Handle

\* The opcodes of variables, and those of the user stack pointer.
VariableOps == {"get_local", "set_local", "tee_local", "get_global", "set_global"}
StackOps == {"interp_get_stack", "interp_set_stack"}

\* The instruction and the opcode of a variable.
LEMMA VariableIs ==
  ASSUME ReadInv, NEW op \in VariableOps, NEW index \in Nat
  PROVE  /\ Instr(op, <<>>, <<>>, index) \in Instructions
         /\ Instr(op, <<>>, <<>>, index).op = op /\ op # "end"
<1>1. <<>> \in Seq(ValueTypes) /\ <<>> \in Seq(Nat) /\ op \in Opcodes /\ index \in Int
  BY DEF VariableOps, Opcodes
<1>. QED  BY <1>1 DEF Instr, Instructions, VariableOps

\* A handler of a variable, which takes k operands and leaves new ones.
LEMMA VariableStep ==
  ASSUME ReadInv, NEW op \in VariableOps, NEW index \in Nat, NEW other \in VariableOps \cup StackOps, NEW v1 \in Int,
         NEW checked, checked.ok => checked \in Checkers /\ Follows(checker, checked) /\ checked.labels = checker.labels,
         NEW k \in Nat, NEW new,
         (checked.ok /\ AllLive(checker)) =>
            Len(checker.types) >= k /\ checked.types = SubSeq(checker.types, 1, Len(checker.types) - k) \o new,
         NEW rec, rec = OpcodeRec(other, v1, 0),
         (checked.ok /\ AllLive(checker) /\ Passes(Code', Len(opcodes) + 1, checker.types, k, new)) =>
            VariableLeadsOn(Code', Len(opcodes) + 1, rec, checker.types),
         Emit(Instr(op, <<>>, <<>>, index), checked, <<rec>>)
  PROVE  GiveUp \/ Advances
<1> DEFINE instr == Instr(op, <<>>, <<>>, index)
           p == Len(opcodes) + 1
<1>1. instr \in Instructions /\ instr.op # "end"
  BY VariableIs
<1>2. other \in Opcodes /\ other \in Opcodes \cup DOMAIN Operators
  BY DEF VariableOps, StackOps, Opcodes
<1>3. rec \in OpcodeRecs /\ rec.op = other /\ rec.src = Len(source) + 1
  BY <1>2, RecordIs
<1>4. Accesses(rec, instr.arg) /\ rec.op \notin DOMAIN Operators
  BY <1>2, <1>3, PlainAccess
<1>5. /\ rec.op \notin Jumps \cup {"return", "end"} /\ rec.op \notin {"const", "drop", "select"}
  BY <1>3 DEF Jumps, VariableOps, StackOps
<1>6. ASSUME checked.ok, AllLive(checker) PROVE Goes(checker, checked, k, new)
  <2>1. AllLive(checked)
    BY <1>6 DEF AllLive, Live
  <2>. QED  BY <1>6, <2>1 DEF Goes
<1>7. LeadsOn(Code', p, rec, checker.types)
  BY <1>4, <1>5 DEF LeadsOn
<1> HIDE DEF instr, p
<1>8. (checked.ok /\ AllLive(checker) /\ Code'.source[rec.src] = instr /\ Passes(Code', p, checker.types, k, new)) =>
            LeadsOn(Code', p, rec, checker.types) /\ VariableLeadsOn(Code', p, rec, checker.types)
  BY <1>7 DEF p
<1>9. Emit(instr, checked, <<rec>>)
  BY DEF instr
<1>. QED  BY <1>1, <1>3, <1>4, <1>5, <1>6, <1>8, <1>9, GoStep, Zenon DEF p

\* Reading a variable, and writing one.
LEMMA ReadsFollow ==
  ASSUME ReadInv, NEW type \in ValueTypes
  PROVE  LET d == PushTypes(checker, <<type>>)
         IN  /\ d \in Checkers /\ Follows(checker, d) /\ d.labels = checker.labels
             /\ Len(checker.types) >= 0 /\ d.types = SubSeq(checker.types, 1, Len(checker.types) - 0) \o <<type>>
<1>1. <<type>> \in Seq(ValueTypes) /\ checker \in Checkers /\ Sound(checker)
  BY ReadingIs
<1>2. checker.types \in Seq(Types)
  BY <1>1, SoundStacks
<1>3. SubSeq(checker.types, 1, Len(checker.types) - 0) = checker.types /\ Len(checker.types) >= 0
  BY <1>2
<1> DEFINE d == PushTypes(checker, <<type>>)
<1>4. d \in Checkers /\ d.types = checker.types \o <<type>> /\ d.labels = checker.labels
  BY <1>1, PushIs, Zenon
<1> HIDE DEF d
<1>5. Follows(checker, d)
  BY <1>1, <1>4, PushFollows, Zenon
<1>. QED  BY <1>3, <1>4, <1>5 DEF d

\* One operand of the type of the variable is taken.
LEMMA WritesFollow ==
  ASSUME ReadInv, NEW type \in ValueTypes, PopAndCheck(checker, <<type>>).ok
  PROVE  LET d == PopAndCheck(checker, <<type>>)
         IN  /\ d \in Checkers /\ Follows(checker, d) /\ d.labels = checker.labels
             /\ AllLive(checker) =>
                  /\ Len(checker.types) >= 1 /\ EndsWith(checker.types, <<type>>)
                  /\ d.types = SubSeq(checker.types, 1, Len(checker.types) - 1) \o <<>>
<1> DEFINE d == PopAndCheck(checker, <<type>>)
<1>1. <<type>> \in Seq(ValueTypes) /\ Len(<<type>>) = 1 /\ checker \in Checkers /\ Sound(checker) /\ checker.ok
  BY ReadingIs
<1>2. /\ d \in Checkers /\ Follows(checker, d) /\ d.labels = checker.labels
      /\ AllLive(checker) => /\ EndsWith(checker.types, <<type>>)
                             /\ Len(checker.types) >= Innermost(checker).limit + Len(<<type>>)
                             /\ d.types = SubSeq(checker.types, 1, Len(checker.types) - Len(<<type>>))
  BY <1>1, PopFollows, Zenon
<1>3. Innermost(checker).limit \in Nat /\ Len(checker.types) \in Nat
  BY <1>1, SoundStacks
<1> HIDE DEF d
<1>4. d.types \in Seq(Types)
  BY <1>2 DEF Checkers
<1>5. d.types \o <<>> = d.types
  BY <1>4
<1>6. AllLive(checker) => Len(checker.types) >= 1 /\ EndsWith(checker.types, <<type>>)
                          /\ d.types = SubSeq(checker.types, 1, Len(checker.types) - 1) \o <<>>
  BY <1>1, <1>2, <1>3, <1>5
<1>. QED  BY <1>2, <1>6 DEF d

\* OnGetLocalExpr
LEMMA GetLocalStep ==
  ASSUME ReadInv, NEW index \in Nat, OnGetLocalExpr(index)
  PROVE  GiveUp \/ Advances
<1>1. CASE index \notin DOMAIN LocalTypes
  BY <1>1, NoSuchStep DEF OnGetLocalExpr
<1>2. CASE index \in DOMAIN LocalTypes
  <2> DEFINE type == LocalTypes[index]
             checked == PushTypes(checker, <<type>>)
             rec == OpcodeRec("get_local", index, 0)
             p == Len(opcodes) + 1
  <2>1. type \in ValueTypes
    BY <1>2, ValueShape
  <2>2. /\ checked \in Checkers /\ Follows(checker, checked) /\ checked.labels = checker.labels
        /\ Len(checker.types) >= 0 /\ checked.types = SubSeq(checker.types, 1, Len(checker.types) - 0) \o <<type>>
    BY <2>1, ReadsFollow
  <2>3. Emit(Instr("get_local", <<>>, <<>>, index), checked, <<rec>>)
    BY <1>2 DEF OnGetLocalExpr, Variable
  <2>4. rec.op = "get_local" /\ rec.v1 = index
    BY DEF OpcodeRec
  <2>5. ASSUME Passes(Code', p, checker.types, 0, <<type>>) PROVE VariableLeadsOn(Code', p, rec, checker.types)
    <3> HIDE DEF p, rec
    <3>. QED  BY <1>2, <2>4, <2>5 DEF VariableLeadsOn
  <2>6. "get_local" \in VariableOps /\ index \in Int /\ 0 \in Nat
    BY DEF VariableOps
  <2> HIDE DEF checked, rec, type
  <2>. QED  BY <2>2, <2>3, <2>5, <2>6, VariableStep, Zenon DEF rec
<1>. QED  BY <1>1, <1>2

\* OnSetLocalExpr
LEMMA SetLocalStep ==
  ASSUME ReadInv, NEW index \in Nat, OnSetLocalExpr(index)
  PROVE  GiveUp \/ Advances
<1>1. CASE index \notin DOMAIN LocalTypes
  BY <1>1, NoSuchStep DEF OnSetLocalExpr
<1>2. CASE index \in DOMAIN LocalTypes
  <2> DEFINE type == LocalTypes[index]
             checked == PopAndCheck(checker, <<type>>)
             rec == OpcodeRec("set_local", index, 0)
             p == Len(opcodes) + 1
  <2>1. type \in ValueTypes
    BY <1>2, ValueShape
  <2>2. checked.ok => /\ checked \in Checkers /\ Follows(checker, checked) /\ checked.labels = checker.labels
                      /\ AllLive(checker) =>
                           /\ Len(checker.types) >= 1 /\ EndsWith(checker.types, <<type>>)
                           /\ checked.types = SubSeq(checker.types, 1, Len(checker.types) - 1) \o <<>>
    BY <2>1, WritesFollow
  <2>3. Emit(Instr("set_local", <<>>, <<>>, index), checked, <<rec>>)
    BY <1>2 DEF OnSetLocalExpr, Variable
  <2>4. rec.op = "set_local" /\ rec.v1 = index
    BY DEF OpcodeRec
  <2>5. ASSUME checked.ok, AllLive(checker), Passes(Code', p, checker.types, 1, <<>>)
        PROVE  VariableLeadsOn(Code', p, rec, checker.types)
    <3> HIDE DEF p, rec, checked
    <3>. QED  BY <1>2, <2>2, <2>4, <2>5 DEF VariableLeadsOn
  <2>6. "set_local" \in VariableOps /\ index \in Int /\ 1 \in Nat
    BY DEF VariableOps
  <2> HIDE DEF checked, rec, type
  <2>. QED  BY <2>2, <2>3, <2>5, <2>6, VariableStep, Zenon DEF rec
<1>. QED  BY <1>1, <1>2

\* OnTeeLocalExpr
LEMMA TeeLocalStep ==
  ASSUME ReadInv, NEW index \in Nat, OnTeeLocalExpr(index)
  PROVE  GiveUp \/ Advances
<1>1. CASE index \notin DOMAIN LocalTypes
  BY <1>1, NoSuchStep DEF OnTeeLocalExpr
<1>2. CASE index \in DOMAIN LocalTypes
  <2> DEFINE sig == <<LocalTypes[index]>>
             checked == CheckCall(checker, sig, sig)
             rec == OpcodeRec("tee_local", index, 0)
             p == Len(opcodes) + 1
  <2>1. sig \in Seq(ValueTypes) /\ Len(sig) = 1
    BY <1>2, ValueShape
  <2>2. checked.ok => /\ checked \in Checkers /\ Follows(checker, checked) /\ checked.labels = checker.labels
                      /\ AllLive(checker) =>
                           /\ Len(checker.types) >= 1 /\ EndsWith(checker.types, sig)
                           /\ checked.types = SubSeq(checker.types, 1, Len(checker.types) - 1) \o sig
    <3> HIDE DEF sig
    <3>1. Innermost(checker).limit \in Nat /\ Len(checker.types) \in Nat
      BY ReadingIs, SoundStacks
    <3>2. checked.ok => /\ checked \in Checkers /\ Follows(checker, checked) /\ checked.labels = checker.labels
                        /\ AllLive(checker) =>
                             /\ Len(checker.types) >= Innermost(checker).limit + Len(sig) /\ EndsWith(checker.types, sig)
                             /\ checked.types = SubSeq(checker.types, 1, Len(checker.types) - Len(sig)) \o sig
      BY <2>1, ReadingIs, CallFollows, Zenon
    <3> HIDE DEF checked
    <3>. QED  BY <2>1, <3>1, <3>2
  <2>3. Emit(Instr("tee_local", <<>>, <<>>, index), checked, <<rec>>)
    BY <1>2 DEF OnTeeLocalExpr, Variable
  <2>4. rec.op = "tee_local" /\ rec.v1 = index
    BY DEF OpcodeRec
  <2>5. ASSUME checked.ok, AllLive(checker), Passes(Code', p, checker.types, 1, sig)
        PROVE  VariableLeadsOn(Code', p, rec, checker.types)
    <3>1. checker.types \in Seq(ValueTypes)
      BY <2>5, ReadingIs, LiveTypes
    <3> HIDE DEF p, rec, checked, sig
    <3>2. SubSeq(checker.types, 1, Len(checker.types) - 1) \o sig = checker.types
      BY <2>1, <2>2, <2>5, <3>1, TopReplaced, Zenon
    <3>3. Arrives(Code', p + 1, checker.types)
      BY <2>5, <3>2, Zenon DEF Passes
    <3>4. EndsWith(checker.types, <<LocalTypes[index]>>)
      BY <2>2, <2>5 DEF sig
    <3>. QED  BY <1>2, <2>4, <3>3, <3>4 DEF VariableLeadsOn
  <2>6. "tee_local" \in VariableOps /\ index \in Int /\ 1 \in Nat
    BY DEF VariableOps
  <2> HIDE DEF checked, rec, sig
  <2>. QED  BY <2>2, <2>3, <2>5, <2>6, VariableStep, Zenon DEF rec
<1>. QED  BY <1>1, <1>2

\* The elements of a sequence.
LEMMA ElementIs ==
  ASSUME NEW S, NEW s \in Seq(S), NEW i \in DOMAIN s
  PROVE  s[i] \in S
OBVIOUS

\* The globals of the module.
LEMMA GlobalIs ==
  ASSUME NEW index \in DOMAIN Globals
  PROVE  Globals[index].type \in ValueTypes /\ Globals[index].mutable \in BOOLEAN
<1>1. Globals \in Seq([type : ValueTypes, mutable : BOOLEAN])
  BY ValueShape
<1>2. Globals[index] \in [type : ValueTypes, mutable : BOOLEAN]
  BY <1>1, ElementIs, Zenon
<1>. QED  BY <1>2

\* OnGetGlobalExpr
LEMMA GetGlobalStep ==
  ASSUME ReadInv, NEW index \in Nat, OnGetGlobalExpr(index)
  PROVE  GiveUp \/ Advances
<1>1. CASE index \notin DOMAIN Globals
  BY <1>1, NoSuchStep DEF OnGetGlobalExpr
<1>2. CASE index \in DOMAIN Globals
  <2> DEFINE type == Globals[index].type
             checked == PushTypes(checker, <<type>>)
             other == IF index = StackPointer THEN "interp_get_stack" ELSE "get_global"
             v1 == IF index = StackPointer THEN 0 ELSE index
             rec == OpcodeRec(other, v1, 0)
             p == Len(opcodes) + 1
  <2>1. type \in ValueTypes
    BY <1>2, GlobalIs
  <2>2. /\ checked \in Checkers /\ Follows(checker, checked) /\ checked.labels = checker.labels
        /\ Len(checker.types) >= 0 /\ checked.types = SubSeq(checker.types, 1, Len(checker.types) - 0) \o <<type>>
    BY <2>1, ReadsFollow
  <2>3. Emit(Instr("get_global", <<>>, <<>>, index), checked, <<rec>>)
    BY <1>2 DEF OnGetGlobalExpr, GlobalRec
  <2>4. rec.op = other /\ rec.v1 = v1
    BY DEF OpcodeRec
  <2>5. ASSUME Passes(Code', p, checker.types, 0, <<type>>) PROVE VariableLeadsOn(Code', p, rec, checker.types)
    <3> HIDE DEF p, rec
    <3>1. CASE index = StackPointer
      BY <1>2, <2>4, <2>5, <3>1 DEF VariableLeadsOn
    <3>2. CASE index # StackPointer
      BY <1>2, <2>4, <2>5, <3>2 DEF VariableLeadsOn
    <3>. QED  BY <3>1, <3>2
  <2>6. "get_global" \in VariableOps /\ other \in VariableOps \cup StackOps /\ v1 \in Int /\ 0 \in Nat
    BY DEF VariableOps, StackOps
  <2> HIDE DEF checked, rec, type, other, v1
  <2>. QED  BY <2>2, <2>3, <2>5, <2>6, VariableStep, Zenon DEF rec
<1>. QED  BY <1>1, <1>2

\* OnSetGlobalExpr
LEMMA SetGlobalStep ==
  ASSUME ReadInv, NEW index \in Nat, OnSetGlobalExpr(index)
  PROVE  GiveUp \/ Advances
<1>1. CASE index \notin DOMAIN Globals
  BY <1>1, NoSuchStep DEF OnSetGlobalExpr
<1>2. CASE index \in DOMAIN Globals
  <2> DEFINE type == Globals[index].type
             mutable == Globals[index].mutable
             popped == PopAndCheck(checker, <<type>>)
             checked == Require(popped, mutable)
             other == IF index = StackPointer THEN "interp_set_stack" ELSE "set_global"
             v1 == IF index = StackPointer THEN 0 ELSE index
             rec == OpcodeRec(other, v1, 0)
             p == Len(opcodes) + 1
  <2>1. type \in ValueTypes /\ mutable \in BOOLEAN /\ <<type>> \in Seq(ValueTypes)
    BY <1>2, GlobalIs
  <2>2. popped.ok => /\ popped \in Checkers /\ Follows(checker, popped) /\ popped.labels = checker.labels
                     /\ AllLive(checker) =>
                           /\ Len(checker.types) >= 1 /\ EndsWith(checker.types, <<type>>)
                           /\ popped.types = SubSeq(checker.types, 1, Len(checker.types) - 1) \o <<>>
    BY <2>1, WritesFollow
  <2>3. Emit(Instr("set_global", <<>>, <<>>, index), checked, <<rec>>)
    BY <1>2 DEF OnSetGlobalExpr, GlobalRec
  <2>4. rec.op = other /\ rec.v1 = v1
    BY DEF OpcodeRec
  <2>5. popped \in Checkers
    BY <2>1, ReadingIs, PopIs, Zenon
  <2> HIDE DEF popped
  <2>6. /\ checked \in Checkers /\ checked.types = popped.types /\ checked.labels = popped.labels
        /\ checked.ok => popped.ok
    BY <2>1, <2>5, RequireIs
  <2>7. checked.ok => Follows(checker, checked)
    BY <2>1, <2>2, <2>5, <2>6, RequireFollows
  <2> HIDE DEF checked
  <2>8. ASSUME checked.ok, AllLive(checker), Passes(Code', p, checker.types, 1, <<>>)
        PROVE  VariableLeadsOn(Code', p, rec, checker.types)
    <3>1. EndsWith(checker.types, <<type>>)
      BY <2>2, <2>6, <2>8
    <3> HIDE DEF p, rec
    <3>2. CASE index = StackPointer
      BY <1>2, <2>4, <2>8, <3>1, <3>2 DEF VariableLeadsOn
    <3>3. CASE index # StackPointer
      BY <1>2, <2>4, <2>8, <3>1, <3>3 DEF VariableLeadsOn
    <3>. QED  BY <3>2, <3>3
  <2>9. "set_global" \in VariableOps /\ other \in VariableOps \cup StackOps /\ v1 \in Int /\ 1 \in Nat
    BY DEF VariableOps, StackOps
  <2> HIDE DEF rec, type, other, v1
  <2>. QED  BY <2>2, <2>3, <2>6, <2>7, <2>8, <2>9, VariableStep, Zenon DEF rec
<1>. QED  BY <1>1, <1>2

\* ReadOperands
LEMMA OperandsStep ==
  ASSUME ReadInv, ReadOperands
  PROVE  GiveUp \/ Advances
<1>1. \A index : index \in Indices(LocalTypes) \/ index \in Indices(Globals) => index \in Nat
  BY ValueShape DEF Indices
<1>2. CASE OnDropExpr \/ OnSelectExpr
  BY <1>2, DropStep, SelectStep
<1>3. CASE \E type \in ConstTypes : OnConstExpr(type)
  BY <1>3, ConstStep
<1>4. CASE \E index \in Indices(LocalTypes) : OnGetLocalExpr(index) \/ OnSetLocalExpr(index) \/ OnTeeLocalExpr(index)
  BY <1>1, <1>4, GetLocalStep, SetLocalStep, TeeLocalStep
<1>5. CASE \E index \in Indices(Globals) : OnGetGlobalExpr(index) \/ OnSetGlobalExpr(index)
  BY <1>1, <1>5, GetGlobalStep, SetGlobalStep
<1>. QED  BY <1>2, <1>3, <1>4, <1>5 DEF ReadOperands

-----------------------------------------------------------------------------
(* The handlers that emit branches. *)

\* A branch is a jump and no If.
LEMMA NotIf ==
  ASSUME NEW op, op \in {"br", "br_if", "br_table"}
  PROVE  op # "if" /\ op \in Jumps
BY DEF Jumps

\* Below the innermost construct these operands are those the checker knows, and they end
\* with what the branch takes; a loop is left with nothing of its own.
Taken(c, k, types) ==
  LET taken == BranchTypes(c.labels[k])
  IN  /\ types \in Seq(Types)
      /\ EndsWith(types, taken) /\ Len(types) >= Innermost(c).limit + Len(taken)
      /\ Prefix(types, c.types, Innermost(c).limit)
      /\ c.labels[k].kind = "Loop" => Len(types) <= c.labels[k].limit

\* A branch finds what its construct waits for.
LEMMA TargetLands ==
  ASSUME NEW C, NEW D, NEW instr, NEW recs, EmittedInv(C), LabelInv(C), CodeInv(C), Emits(C, D, instr, recs),
         NEW k \in 1 .. Len(C.now.labels), NEW p \in Len(C.opcodes) + 1 .. Len(D.opcodes),
         D.opcodes[p].op \in {"br", "br_if", "br_table"}, D.opcodes[p].v1 = C.labelStack[k],
         D.opcodes[p].v2 = kInvalidIndex, AllLive(C.now), NEW types, Taken(C.now, k, types)
  PROVE  Lands(D, p, types)
<1> DEFINE c == C.now
           d == D.now
           construct == c.labels[k]
           taken == BranchTypes(construct)
           id == C.labelStack[k]
           n == Innermost(c).limit
<1>1. Grows(C, D, instr) /\ GoesOn(C, D, instr)
  BY EmitsGrows
<1>2. /\ D.labels = C.labels /\ D.labelStack = C.labelStack /\ Sound(c) /\ Sound(d)
      /\ Keeps(c, d, Len(c.labels)) /\ ~C.ended
  BY ZenonT(30) DEF Emits, Follows
<1>3. /\ Len(C.labelStack) = Len(c.labels)
      /\ C.labels[id].offset = kInvalidIndex <=> construct.kind # "Loop"
  BY DEF LabelInv, OpenLabels
<1>4. /\ Len(c.labels) \in Nat \ {0} /\ construct \in Constructs /\ construct.limit \in 0 .. n
      /\ n \in 0 .. Len(c.types) /\ c.types \in Seq(Types) /\ Len(c.types) \in Nat
  BY <1>2, SoundStacks
<1>5. /\ types \in Seq(Types) /\ Len(types) \in Nat /\ EndsWith(types, taken) /\ Len(types) >= n + Len(taken)
      /\ Prefix(types, c.types, n)
      /\ construct.kind = "Loop" => Len(types) <= construct.limit
  BY DEF Taken
<1>6. taken \in Seq(ValueTypes) /\ Len(taken) \in Nat
  BY <1>4, BranchIs
<1>7. taken = IF construct.kind = "Loop" THEN <<>> ELSE construct.sig
  BY DEF BranchTypes
<1> HIDE DEF construct, taken, id, n
<1>8. CASE construct.kind = "Loop"
  <2>1. Arrives(C, C.labels[id].offset, SubSeq(c.types, 1, construct.limit))
    <3>1. LoopInv(C) /\ Live(c, k - 1)
      BY <1>2 DEF CodeInv, AllLive, Live
    <3>2. k \in 1 .. Len(C.labelStack)
      BY <1>3
    <3>. QED  BY <1>8, <3>1, <3>2 DEF LoopInv, construct, id
  <2>2. types = SubSeq(c.types, 1, construct.limit)
    <3>1. Len(types) = construct.limit /\ construct.limit = n
      BY <1>4, <1>5, <1>6, <1>8
    <3> DEFINE s == SubSeq(c.types, 1, construct.limit)
    <3>2. s \in Seq(Types) /\ Len(s) = construct.limit /\ \A i \in 1 .. construct.limit : s[i] = c.types[i]
      BY <1>4
    <3>3. \A i \in 1 .. Len(types) : types[i] = s[i]
      BY <1>5, <3>1, <3>2 DEF Prefix
    <3> HIDE DEF s
    <3>. QED  BY <1>5, <3>1, <3>2, <3>3, SameSequence DEF s
  <2>3. Arrives(D, C.labels[id].offset, types)
    BY <1>1, <2>1, <2>2, ArrivesKept
  <2>4. D.labels[D.opcodes[p].v1].offset = C.labels[id].offset /\ C.labels[id].offset # kInvalidIndex
    BY <1>2, <1>3, <1>8 DEF id
  <2>. QED  BY <2>3, <2>4 DEF Lands
<1>9. CASE construct.kind # "Loop"
  <2>1. /\ k \in 1 .. Len(d.labels) /\ d.labels[k].sig = construct.sig /\ d.labels[k].limit = construct.limit
        /\ Live(d, k - 1) <=> Live(c, k - 1)
        /\ Prefix(d.types, c.types, construct.limit)
    <3>1. Len(c.labels) \in Nat /\ Sound(c) /\ Sound(d) /\ Keeps(c, d, Len(c.labels))
      BY <1>2, <1>4
    <3> HIDE DEF c, d
    <3>2. /\ k \in 1 .. Len(d.labels) /\ d.labels[k].sig = c.labels[k].sig /\ d.labels[k].limit = c.labels[k].limit
          /\ Live(d, k - 1) <=> Live(c, k - 1)
          /\ Prefix(d.types, c.types, c.labels[k].limit)
      BY <3>1, KeptBelow, SMTT(20) DEF c
    <3>. QED  BY <3>2 DEF construct
  <2>2. Live(d, k - 1)
    BY <2>1 DEF AllLive, Live
  <2>3. taken = construct.sig
    BY <1>7, <1>9
  <2>4. Len(types) >= construct.limit + Len(construct.sig)
    BY <1>4, <1>5, <1>6, <2>3
  <2>5. Prefix(types, d.types, construct.limit)
    BY <1>4, <1>5, <2>1 DEF Prefix
  <2>6. Closes(d, k, types)
    BY <1>5, <2>1, <2>2, <2>3, <2>4, <2>5 DEF Closes
  <2>7. AwaitedAt(d, k, D.opcodes[p].op, types)
    BY <2>6, NotIf DEF AwaitedAt
  <2>8. Awaits(D, id, D.opcodes[p].op, types)
    BY <1>2, <1>3, <2>7 DEF Awaits, id
  <2>9. D.labels[D.opcodes[p].v1].offset = kInvalidIndex /\ D.opcodes[p].v1 = id
    BY <1>2, <1>3, <1>9 DEF id
  <2>. QED  BY <2>8, <2>9 DEF Lands
<1>. QED  BY <1>8, <1>9

\* What a branch out of code that can be reached is told to have behind it.
LEMMA CleanIs ==
  ASSUME NEW c, Sound(c), AllLive(c), NEW depths, CleanLoops, Clean(c, depths), NEW i \in DOMAIN depths,
         HasLabel(c, depths[i]), GetLabel(c, depths[i]).kind = "Loop"
  PROVE  Len(c.types) <= GetLabel(c, depths[i]).limit
<1>1. ~TopLabel(c).unreachable
  <2>1. TopLabel(c) = c.labels[Len(c.labels)] /\ Len(c.labels) \in Nat \ {0}
    BY SoundStacks DEF TopLabel
  <2>. QED  BY <2>1 DEF AllLive, Live
<1>2. depths[i] \in Range(depths)
  BY DEF Range
<1>. QED  BY <1>1, <1>2 DEF Clean

\* The label of a branch is that of its construct.
LEMMA BranchLabelIs ==
  ASSUME ReadInv, NEW depth \in Nat, HasLabel(checker, depth)
  PROVE  LET k == Len(checker.labels) - depth
         IN  /\ k \in 1 .. Len(checker.labels) /\ GetLabel(checker, depth) = checker.labels[k]
             /\ BranchLabel(depth) = labelStack[k] /\ labelStack[k] \in 1 .. Len(labels)
<1> DEFINE k == Len(checker.labels) - depth
<1>1. Len(checker.labels) \in Nat /\ k \in 1 .. Len(checker.labels)
  BY ReadingIs, SoundStacks, LabelIs
<1>2. Len(labelStack) = Len(checker.labels) /\ labelStack \in Seq(1 .. Len(labels))
  <2>1. LabelInv(Code)
    BY ZenonT(30) DEF ReadInv
  <2>2. Len(Code.labelStack) = Len(Code.now.labels) /\ Code.labelStack \in Seq(1 .. Len(Code.labels))
    BY <2>1 DEF LabelInv, OpenLabels
  <2>3. Code.now.labels = checker.labels
    BY CodeIs, NoteIs
  <2>. QED  BY <2>2, <2>3, CodeIs
<1> HIDE DEF k
<1>3. labelStack[k] \in 1 .. Len(labels)
  BY <1>1, <1>2
<1>4. BranchLabel(depth) = labelStack[k] /\ GetLabel(checker, depth) = checker.labels[k]
  BY <1>2 DEF BranchLabel, GetLabel, k
<1>. QED  BY <1>1, <1>3, <1>4 DEF k

\* The record of a branch names the label of the construct it leaves for.
LEMMA JumpIs ==
  ASSUME ReadInv, NEW op \in {"br", "br_if", "br_table"}, NEW depth \in Nat, HasLabel(checker, depth)
  PROVE  /\ JumpRec(op, depth) \in OpcodeRecs
         /\ JumpRec(op, depth).op = op /\ JumpRec(op, depth).v2 = kInvalidIndex
         /\ JumpRec(op, depth).v1 = labelStack[Len(checker.labels) - depth]
         /\ JumpRec(op, depth).v1 \in 1 .. Len(labels)
         /\ JumpRec(op, depth).src = Len(source) + 1
<1>1. op \in Opcodes /\ op \in Opcodes \cup DOMAIN Operators /\ kInvalidIndex \in Int
  BY DEF Opcodes, kInvalidIndex
<1>2. BranchLabel(depth) = labelStack[Len(checker.labels) - depth] /\ BranchLabel(depth) \in 1 .. Len(labels)
  BY BranchLabelIs
<1> DEFINE label == BranchLabel(depth)
           rec == JumpRec(op, depth)
<1>3. label \in Int
  BY <1>2
<1>4. rec = OpcodeRec(op, label, kInvalidIndex)
  BY DEF JumpRec
<1> HIDE DEF label, rec
<1>5. rec \in OpcodeRecs /\ rec.op = op /\ rec.v1 = label /\ rec.v2 = kInvalidIndex /\ rec.src = Len(source) + 1
  <2> DEFINE r == OpcodeRec(op, label, kInvalidIndex)
  <2>1. r \in OpcodeRecs
    BY <1>1, <1>3, RecordIs, Zenon
  <2>2. r.op = op /\ r.v1 = label /\ r.v2 = kInvalidIndex /\ r.src = Len(source) + 1
    BY DEF OpcodeRec
  <2>. QED  BY <1>4, <2>1, <2>2
<1>. QED  BY <1>2, <1>5 DEF rec, label

\* The one opcode stands behind the rest.
LEMMA EmittedOne ==
  ASSUME NEW C, NEW D, NEW instr, NEW rec, EmittedInv(C), Emits(C, D, instr, <<rec>>)
  PROVE  /\ Len(C.opcodes) + 1 \in Len(C.opcodes) + 1 .. Len(D.opcodes)
         /\ D.opcodes[Len(C.opcodes) + 1] = rec
<1> DEFINE recs == <<rec>>
<1>1. Len(recs) = 1 /\ recs[1] = rec /\ Emits(C, D, instr, recs)
  OBVIOUS
<1> HIDE DEF recs
<1>2. Len(C.opcodes) \in Nat /\ Len(D.opcodes) = Len(C.opcodes) + 1
  BY <1>1, EmitsOne
<1>3. D.opcodes = C.opcodes \o recs /\ C.opcodes \in Seq(OpcodeRecs) /\ recs \in Seq(OpcodeRecs)
  BY <1>1, Zenon DEF Emits, EmittedInv
<1>4. (C.opcodes \o recs)[Len(C.opcodes) + 1] = recs[1]
  BY <1>1, <1>3, JoinedIs, SMTT(20)
<1>. QED  BY <1>1, <1>2, <1>3, <1>4

\* A refusal ends the reading.
LEMMA RefusedStep ==
  ASSUME NEW instr, NEW checked, NEW recs, ~checked.ok, Emit(instr, checked, recs)
  PROVE  GiveUp
BY DEF Emit, Handle

\* A branch on what its construct takes lands there.
LEMMA BranchLands ==
  ASSUME ReadInv, CodeInv(Code), NEW instr, NEW recs, Emits(Code, Code', instr, recs), AllLive(checker),
         NEW k \in 1 .. Len(checker.labels), NEW p \in Len(opcodes) + 1 .. Len(Code'.opcodes),
         Code'.opcodes[p].op \in {"br", "br_if", "br_table"}, Code'.opcodes[p].v1 = labelStack[k],
         Code'.opcodes[p].v2 = kInvalidIndex, NEW types, Taken(checker, k, types)
  PROVE  Lands(Code', p, types)
<1>1. EmittedInv(Code) /\ LabelInv(Code) /\ Code.opcodes = opcodes /\ Code.labelStack = labelStack
  BY CodeIs DEF ReadInv
<1>2. /\ Code.now.types = checker.types /\ Code.now.labels = checker.labels
      /\ AllLive(Code.now) /\ Innermost(Code.now) = Innermost(checker)
  BY CodeIs, NoteIs
<1>3. Taken(Code.now, k, types)
  BY <1>2 DEF Taken
<1>. QED  BY <1>1, <1>2, <1>3, TargetLands

\* What the handlers of branches know of the operands that are left to take.
LEMMA TakenIs ==
  ASSUME ReadInv, NEW depth \in Nat, HasLabel(checker, depth), NEW n \in Nat, n <= Len(checker.types), NEW types,
         types = SubSeq(checker.types, 1, Len(checker.types) - n),
         EndsWith(types, BranchTypes(GetLabel(checker, depth))),
         Len(types) >= Innermost(checker).limit + Len(BranchTypes(GetLabel(checker, depth))),
         GetLabel(checker, depth).kind = "Loop" => Len(types) <= GetLabel(checker, depth).limit
  PROVE  Taken(checker, Len(checker.labels) - depth, types)
<1> DEFINE k == Len(checker.labels) - depth
           taken == BranchTypes(GetLabel(checker, depth))
<1>1. GetLabel(checker, depth) = checker.labels[k] /\ GetLabel(checker, depth) \in Constructs
  BY ReadingIs, BranchLabelIs, LabelIs
<1>2. taken \in Seq(ValueTypes) /\ Len(taken) \in Nat
  BY <1>1, BranchIs
<1>3. checker.types \in Seq(Types) /\ Len(checker.types) \in Nat /\ Innermost(checker).limit \in Nat
  BY ReadingIs, SoundStacks
<1>4. types \in Seq(Types) /\ \A i \in 1 .. Len(types) : types[i] = checker.types[i]
  BY <1>3
<1>5. Innermost(checker).limit <= Len(types)
  BY <1>2, <1>3, <1>4
<1> HIDE DEF taken, k
<1>6. Prefix(types, checker.types, Innermost(checker).limit)
  BY <1>3, <1>4, <1>5 DEF Prefix
<1>7. taken = BranchTypes(checker.labels[k])
  BY <1>1 DEF taken
<1>. QED  BY <1>1, <1>4, <1>6, <1>7 DEF Taken, taken, k

\* OnBrExpr
LEMMA BrStep ==
  ASSUME ReadInv, NEW depth \in Nat, OnBrExpr(depth)
  PROVE  GiveUp \/ Advances
<1> DEFINE instr == Instr("br", <<>>, <<depth>>, 0)
           checked == OnBr(checker, depth)
           rec == JumpRec("br", depth)
           p == Len(opcodes) + 1
           k == Len(checker.labels) - depth
           taken == BranchTypes(GetLabel(checker, depth))
<1>1. Emit(instr, checked, <<rec>>) /\ Clean(checker, <<depth>>)
  BY DEF OnBrExpr
<1>2. SUFFICES ASSUME checked.ok PROVE GiveUp \/ Advances
  BY <1>1, RefusedStep
<1>3. instr \in Instructions /\ instr.op = "br"
  <2>1. <<>> \in Seq(ValueTypes) /\ <<depth>> \in Seq(Nat) /\ "br" \in Opcodes
    BY DEF Opcodes
  <2>. QED  BY <2>1 DEF Instr, Instructions
<1>4. /\ HasLabel(checker, depth) /\ checked \in Checkers /\ Follows(checker, checked)
      /\ AllLive(checker) => /\ EndsWith(checker.types, taken)
                             /\ Len(checker.types) >= Innermost(checker).limit + Len(taken)
  BY <1>2, ReadingIs, BrFollows
<1>5. /\ rec \in OpcodeRecs /\ rec.op = "br" /\ rec.v2 = kInvalidIndex /\ rec.v1 = labelStack[k]
      /\ rec.v1 \in 1 .. Len(labels) /\ rec.src = Len(source) + 1
  BY <1>4, JumpIs
<1>6. k \in 1 .. Len(checker.labels)
  BY <1>4, BranchLabelIs
<1>7. "br" \in Opcodes
  BY DEF Opcodes
<1> HIDE DEF instr, checked, rec
<1>8. Accesses(rec, instr.arg) /\ rec.op \notin DOMAIN Operators /\ rec.op \notin {"if", "end"}
  BY <1>5, <1>7, PlainAccess
<1>9. ASSUME AllLive(checker), CleanLoops, CodeInv(Code), Emits(Code, Code', instr, <<rec>>)
      PROVE  LeadsOn(Code', p, rec, checker.types) /\ VariableLeadsOn(Code', p, rec, checker.types)
             /\ JumpLeadsOn(Code', p, rec, checker.types)
  <2>1. EmittedInv(Code) /\ Code.opcodes = opcodes
    BY CodeIs DEF ReadInv
  <2>2. p \in Len(opcodes) + 1 .. Len(Code'.opcodes) /\ Code'.opcodes[p] = rec
    BY <1>9, <2>1, EmittedOne
  <2>3. GetLabel(checker, depth).kind = "Loop" => Len(checker.types) <= GetLabel(checker, depth).limit
    <3> DEFINE depths == <<depth>>
    <3>1. 1 \in DOMAIN depths /\ depths[1] = depth /\ Clean(checker, depths)
      BY <1>1
    <3> HIDE DEF depths
    <3>. QED  BY <1>4, <1>9, <3>1, ReadingIs, CleanIs
  <2>4. Taken(checker, k, checker.types)
    <3>1. checker.types \in Seq(Types) /\ Len(checker.types) \in Nat
      BY ReadingIs, SoundStacks
    <3>2. checker.types = SubSeq(checker.types, 1, Len(checker.types) - 0) /\ 0 <= Len(checker.types)
      BY <3>1
    <3>. QED  BY <1>4, <1>9, <2>3, <3>2, TakenIs
  <2> HIDE DEF p, k
  <2>5. Lands(Code', p, checker.types)
    BY <1>5, <1>6, <1>9, <2>2, <2>4, BranchLands, Zenon DEF p
  <2>. QED  BY <1>5, <1>8, <2>5 DEF LeadsOn, VariableLeadsOn, JumpLeadsOn
<1>. QED  BY <1>1, <1>3, <1>4, <1>5, <1>8, <1>9, EmitOne

\* The condition of a branch is dropped.
LEMMA DropsOne ==
  ASSUME ReadInv, AllLive(checker), Len(checker.types) >= Innermost(checker).limit + 1
  PROVE  LET d == DropTypes(checker, 1)
         IN  /\ Sound(d) /\ AllLive(d) /\ d.labels = checker.labels
             /\ d.types = SubSeq(checker.types, 1, Len(checker.types) - 1)
<1> DEFINE d == DropTypes(checker, 1)
<1>1. checker \in Checkers /\ checker.ok /\ Sound(checker) /\ TopLabel(checker) = Innermost(checker)
  BY ReadingIs, SoundStacks DEF TopLabel
<1>2. d = [checker EXCEPT !.types = SubSeq(@, 1, Len(@) - 1)]
  BY <1>1, SoundStacks DEF DropTypes
<1>3. d.ok /\ d.labels = checker.labels
  BY <1>1, <1>2, Zenon DEF Checkers
<1> HIDE DEF d
<1>4. Follows(checker, d) /\ d.types = SubSeq(checker.types, 1, Len(checker.types) - 1)
  BY <1>1, <1>3, DropFollows DEF d
<1>5. Sound(d) /\ AllLive(d)
  BY <1>3, <1>4 DEF Follows, AllLive, Live
<1>. QED  BY <1>3, <1>4, <1>5 DEF d

\* A branch to a loop leaves no operand besides its condition.
LEMMA CleanRest ==
  ASSUME ReadInv, AllLive(checker), CleanLoops, Len(checker.types) >= Innermost(checker).limit + 1,
         NEW depths, Clean(DropTypes(checker, 1), depths), NEW i \in DOMAIN depths, HasLabel(checker, depths[i]),
         GetLabel(checker, depths[i]).kind = "Loop", NEW rest, rest = SubSeq(checker.types, 1, Len(checker.types) - 1)
  PROVE  Len(rest) <= GetLabel(checker, depths[i]).limit
<1> DEFINE d == DropTypes(checker, 1)
<1>1. Sound(d) /\ AllLive(d) /\ d.labels = checker.labels /\ d.types = rest
  BY DropsOne
<1> HIDE DEF d
<1>2. HasLabel(d, depths[i]) /\ GetLabel(d, depths[i]) = GetLabel(checker, depths[i])
  BY <1>1 DEF HasLabel, GetLabel
<1>3. Clean(d, depths)
  BY DEF d
<1>. QED  BY <1>1, <1>2, <1>3, CleanIs

\* OnBrIfExpr
LEMMA BrIfStep ==
  ASSUME ReadInv, NEW depth \in Nat, OnBrIfExpr(depth)
  PROVE  GiveUp \/ Advances
<1> DEFINE instr == Instr("br_if", <<>>, <<depth>>, 0)
           checked == OnBrIf(checker, depth)
           rec == JumpRec("br_if", depth)
           p == Len(opcodes) + 1
           k == Len(checker.labels) - depth
           taken == BranchTypes(GetLabel(checker, depth))
           rest == SubSeq(checker.types, 1, Len(checker.types) - 1)
<1>1. Emit(instr, checked, <<rec>>) /\ Clean(DropTypes(checker, 1), <<depth>>)
  BY DEF OnBrIfExpr
<1>2. SUFFICES ASSUME checked.ok PROVE GiveUp \/ Advances
  BY <1>1, RefusedStep
<1>3. instr \in Instructions /\ instr.op = "br_if"
  <2>1. <<>> \in Seq(ValueTypes) /\ <<depth>> \in Seq(Nat) /\ "br_if" \in Opcodes
    BY DEF Opcodes
  <2>. QED  BY <2>1 DEF Instr, Instructions
<1>4. /\ HasLabel(checker, depth) /\ checked \in Checkers /\ Follows(checker, checked) /\ checked.labels = checker.labels
      /\ AllLive(checker) => /\ Len(checker.types) >= 1 /\ checked.types = rest
                             /\ EndsWith(checked.types, taken)
                             /\ Len(checked.types) >= Innermost(checker).limit + Len(taken)
  BY <1>2, ReadingIs, BrIfFollows
<1>5. /\ rec \in OpcodeRecs /\ rec.op = "br_if" /\ rec.v2 = kInvalidIndex /\ rec.v1 = labelStack[k]
      /\ rec.v1 \in 1 .. Len(labels) /\ rec.src = Len(source) + 1
  BY <1>4, JumpIs
<1>6. k \in 1 .. Len(checker.labels)
  BY <1>4, BranchLabelIs
<1>7. "br_if" \in Opcodes
  BY DEF Opcodes
<1> HIDE DEF instr, checked, rec
<1>8. Accesses(rec, instr.arg) /\ rec.op \notin DOMAIN Operators /\ rec.op \notin {"if", "end"}
  BY <1>5, <1>7, PlainAccess
<1>9. ASSUME AllLive(checker), CleanLoops, CodeInv(Code), Emits(Code, Code', instr, <<rec>>), Code'.now = NoteOf(checked)
      PROVE  LeadsOn(Code', p, rec, checker.types) /\ VariableLeadsOn(Code', p, rec, checker.types)
             /\ JumpLeadsOn(Code', p, rec, checker.types)
  <2>1. EmittedInv(Code) /\ Code.opcodes = opcodes /\ Code.now = NoteOf(checker)
    BY CodeIs DEF ReadInv
  <2>2. p \in Len(opcodes) + 1 .. Len(Code'.opcodes) /\ Code'.opcodes[p] = rec
    BY <1>9, <2>1, EmittedOne
  <2>3. checker.types \in Seq(Types) /\ Len(checker.types) \in Nat /\ Innermost(checker).limit \in Nat
    BY ReadingIs, SoundStacks
  <2>4. Len(checker.types) >= Innermost(checker).limit + 1
    <3>1. taken \in Seq(ValueTypes) /\ Len(taken) \in Nat
      BY <1>4, ReadingIs, LabelIs, BranchIs
    <3>2. Len(rest) = Len(checker.types) - 1
      BY <1>4, <1>9, <2>3
    <3> HIDE DEF taken, rest
    <3>. QED  BY <1>4, <1>9, <2>3, <3>1, <3>2
  <2>5. GetLabel(checker, depth).kind = "Loop" => Len(rest) <= GetLabel(checker, depth).limit
    <3> DEFINE depths == <<depth>>
    <3>1. 1 \in DOMAIN depths /\ depths[1] = depth /\ Clean(DropTypes(checker, 1), depths)
      BY <1>1
    <3> HIDE DEF depths, rest
    <3>. QED  BY <1>4, <1>9, <2>4, <3>1, CleanRest, Zenon DEF rest
  <2>6. Taken(checker, k, rest)
    <3> HIDE DEF taken
    <3>1. EndsWith(rest, taken) /\ Len(rest) >= Innermost(checker).limit + Len(taken) /\ 1 <= Len(checker.types)
      BY <1>4, <1>9, Zenon
    <3>. QED  BY <1>4, <1>9, <2>5, <3>1, TakenIs, Zenon DEF taken
  <2>7. Passes(Code', p, checker.types, 1, <<>>)
    <3>1. AllLive(checked)
      BY <1>4, <1>9 DEF AllLive, Live
    <3>2. checked.types = rest \o <<>>
      BY <1>4, <1>9, <2>3
    <3>3. Goes(checker, checked, 1, <<>>)
      BY <1>4, <1>9, <3>1, <3>2 DEF Goes
    <3>. QED  BY <1>9, <2>1, <3>3, PassesOn
  <2> HIDE DEF p, k, rest
  <2>8. Lands(Code', p, rest)
    BY <1>5, <1>6, <1>9, <2>2, <2>6, BranchLands DEF p
  <2>. QED  BY <1>5, <1>8, <2>7, <2>8 DEF LeadsOn, VariableLeadsOn, JumpLeadsOn, rest
<1>. QED  BY <1>1, <1>3, <1>4, <1>5, <1>8, <1>9, EmitOne

\* OnReturnExpr
LEMMA ReturnStep ==
  ASSUME ReadInv, OnReturnExpr
  PROVE  GiveUp \/ Advances
<1> DEFINE instr == Plain("return")
           checked == OnReturn(checker)
           rec == OpcodeRec("return", Len(Results), 0)
           p == Len(opcodes) + 1
<1>1. "return" \in Opcodes /\ <<>> \in Seq(ValueTypes) /\ <<>> \in Seq(Nat) /\ Len(Results) \in Int
  BY ResultShape DEF Opcodes
<1>2. instr \in Instructions /\ instr.op = "return"
  BY <1>1 DEF Instr, Instructions, Plain
<1>3. rec \in OpcodeRecs /\ rec.op = "return" /\ rec.v1 = Len(Results) /\ rec.src = Len(source) + 1
  BY <1>1, RecordIs
<1>4. checked.ok => /\ checked \in Checkers /\ Follows(checker, checked)
                    /\ AllLive(checker) => EndsWith(checker.types, Results)
  BY ReadingIs, ReturnFollows
<1>5. Emit(instr, checked, <<rec>>)
  BY DEF OnReturnExpr
<1> HIDE DEF instr, checked, rec
<1>6. Accesses(rec, instr.arg) /\ rec.op \notin DOMAIN Operators /\ rec.op \notin Jumps
  BY <1>1, <1>3, PlainAccess DEF Jumps
<1>7. ASSUME checked.ok, AllLive(checker)
      PROVE  LeadsOn(Code', p, rec, checker.types) /\ VariableLeadsOn(Code', p, rec, checker.types)
             /\ JumpLeadsOn(Code', p, rec, checker.types)
  <2> HIDE DEF p
  <2>. QED  BY <1>3, <1>4, <1>6, <1>7 DEF LeadsOn, VariableLeadsOn, JumpLeadsOn
<1>. QED  BY <1>2, <1>3, <1>4, <1>5, <1>6, <1>7, EmitOne

\* OnUnreachableExpr
LEMMA UnreachableStep ==
  ASSUME ReadInv, OnUnreachableExpr
  PROVE  GiveUp \/ Advances
<1> DEFINE instr == Plain("unreachable")
           checked == SetUnreachable(checker)
           rec == OpcodeRec("unreachable", 0, 0)
           p == Len(opcodes) + 1
<1>1. "unreachable" \in Opcodes /\ <<>> \in Seq(ValueTypes) /\ <<>> \in Seq(Nat)
  BY DEF Opcodes
<1>2. instr \in Instructions /\ instr.op = "unreachable"
  BY <1>1 DEF Instr, Instructions, Plain
<1>3. rec \in OpcodeRecs /\ rec.op = "unreachable" /\ rec.src = Len(source) + 1
  BY <1>1, RecordIs
<1>4. checked \in Checkers /\ Follows(checker, checked)
  BY ReadingIs, UnreachableFollows
<1>5. Emit(instr, checked, <<rec>>)
  BY DEF OnUnreachableExpr
<1> HIDE DEF instr, checked, rec
<1>6. Accesses(rec, instr.arg) /\ rec.op \notin DOMAIN Operators /\ rec.op \notin Jumps
  BY <1>1, <1>3, PlainAccess DEF Jumps
<1>7. LeadsOn(Code', p, rec, checker.types) /\ VariableLeadsOn(Code', p, rec, checker.types)
      /\ JumpLeadsOn(Code', p, rec, checker.types)
  <2> HIDE DEF p
  <2>. QED  BY <1>3, <1>6 DEF LeadsOn, VariableLeadsOn, JumpLeadsOn
<1>. QED  BY <1>2, <1>3, <1>4, <1>5, <1>6, <1>7, EmitOne

\* A head in front of a sequence.
LEMMA HeadJoined ==
  ASSUME NEW S, NEW s \in Seq(S), NEW t \in Seq(S)
  PROVE  Len(s) = 1 =>
         /\ s \o t \in Seq(S) /\ Len(s \o t) = Len(t) + 1 /\ (s \o t)[1] = s[1]
         /\ \A i \in 1 .. Len(t) : (s \o t)[1 + i] = t[i]
<1> DEFINE r == s \o t
           n == Len(s)
<1>1. r \in Seq(S) /\ Len(r) = n + Len(t) /\ Len(t) \in Nat
  BY JoinedIs
<1>2. \A i \in 1 .. n : r[i] = s[i]
  BY JoinedIs
<1>3. \A i \in 1 .. Len(t) : r[n + i] = t[i]
  BY JoinedIs
<1> HIDE DEF r, n
<1>6. n = 1 => /\ r \in Seq(S) /\ Len(r) = Len(t) + 1 /\ r[1] = s[1]
               /\ \A i \in 1 .. Len(t) : r[1 + i] = t[i]
  BY <1>1, <1>2, <1>3
<1>. QED  BY <1>6 DEF r, n

\* How long the code is then.
LEMMA EmitsLength ==
  ASSUME NEW C, NEW D, NEW instr, NEW recs, EmittedInv(C), Emits(C, D, instr, recs)
  PROVE  Len(C.opcodes) \in Nat /\ Len(D.opcodes) = Len(C.opcodes) + Len(recs)
<1>1. C.opcodes \in Seq(OpcodeRecs) /\ recs \in Seq(OpcodeRecs) /\ D.opcodes = C.opcodes \o recs
  BY DEF EmittedInv, Emits
<1>2. Len(C.opcodes \o recs) = Len(C.opcodes) + Len(recs)
  BY <1>1, JoinedIs
<1>3. Len(C.opcodes) \in Nat
  BY <1>1
<1>. QED  BY <1>1, <1>2, <1>3

\* OnBrTableExpr
LEMMA BrTableStep ==
  ASSUME ReadInv, NEW depths \in BrTables, OnBrTableExpr(depths)
  PROVE  GiveUp \/ Advances
<1> DEFINE instr == Instr("br_table", <<>>, depths, 0)
           checked == OnBrTable(checker, depths)
           count == Len(depths) - 1
           head == OpcodeRec("br_table", count, 0)
           first == <<head>>
           targets == [i \in DOMAIN depths |-> JumpRec("br_table", depths[i])]
           recs == first \o targets
           p == Len(opcodes) + 1
           rest == SubSeq(checker.types, 1, Len(checker.types) - 1)
           k(i) == Len(checker.labels) - depths[i]
<1>1. Emit(instr, checked, recs) /\ Clean(DropTypes(checker, 1), depths)
  BY DEF OnBrTableExpr
<1>2. SUFFICES ASSUME checked.ok PROVE GiveUp \/ Advances
  BY <1>1, RefusedStep
<1>3. /\ depths \in Seq(Nat) /\ depths # <<>> /\ count \in Nat /\ DOMAIN depths = 1 .. count + 1
      /\ \A i \in 1 .. count + 1 : depths[i] \in Nat
  BY ImmediateShape
<1>4. instr \in Instructions /\ instr.op = "br_table"
  <2>1. <<>> \in Seq(ValueTypes) /\ "br_table" \in Opcodes
    BY DEF Opcodes
  <2>. QED  BY <1>3, <2>1 DEF Instr, Instructions
<1>5. /\ \A i \in DOMAIN depths : HasLabel(checker, depths[i])
      /\ checked \in Checkers /\ Follows(checker, checked)
      /\ AllLive(checker) => /\ Len(checker.types) >= 1
                             /\ \A i \in DOMAIN depths :
                                   LET taken == BranchTypes(GetLabel(checker, depths[i]))
                                   IN  EndsWith(rest, taken) /\ Len(rest) >= Innermost(checker).limit + Len(taken)
  BY <1>2, <1>3, ReadingIs, BrTableFollows, Zenon
<1>6. head \in OpcodeRecs /\ head.op = "br_table" /\ head.v1 = count /\ head.v2 = 0 /\ head.src = Len(source) + 1
  <2>1. "br_table" \in Opcodes \cup DOMAIN Operators /\ count \in Int
    BY <1>3 DEF Opcodes
  <2>. QED  BY <2>1, RecordIs
<1>7. \A i \in 1 .. count + 1 :
        LET rec == JumpRec("br_table", depths[i])
        IN  /\ rec \in OpcodeRecs /\ rec.op = "br_table" /\ rec.v2 = kInvalidIndex
            /\ rec.v1 = labelStack[k(i)] /\ rec.v1 \in 1 .. Len(labels) /\ rec.src = Len(source) + 1
  <2> TAKE i \in 1 .. count + 1
  <2>1. depths[i] \in Nat /\ HasLabel(checker, depths[i])
    BY <1>3, <1>5
  <2>. QED  BY <2>1, JumpIs, Zenon
<1> HIDE DEF instr, checked, count, head
<1>8. /\ targets \in Seq(OpcodeRecs) /\ Len(targets) = count + 1
      /\ \A i \in 1 .. count + 1 : targets[i] = JumpRec("br_table", depths[i])
  <2>1. targets \in [1 .. count + 1 -> OpcodeRecs]
    BY <1>3, <1>7
  <2>2. count + 1 \in Nat
    BY <1>3
  <2>. QED  BY <1>3, <2>1, <2>2
<1>9. first \in Seq(OpcodeRecs) /\ Len(first) = 1 /\ first[1] = head
  BY <1>6
<1> HIDE DEF targets, first
<1>10. /\ recs \in Seq(OpcodeRecs) /\ Len(recs) = count + 2 /\ recs[1] = head
       /\ \A i \in 1 .. count + 1 : recs[1 + i] = targets[i]
  <2>1. recs \in Seq(OpcodeRecs) /\ Len(recs) = Len(targets) + 1 /\ recs[1] = first[1]
    BY <1>8, <1>9, HeadJoined
  <2>2. \A i \in 1 .. Len(targets) : recs[1 + i] = targets[i]
    BY <1>8, <1>9, HeadJoined
  <2>3. Len(targets) = count + 1 /\ first[1] = head
    BY <1>8, <1>9
  <2> HIDE DEF recs
  <2>4. recs \in Seq(OpcodeRecs) /\ recs[1] = head
    BY <2>1, <2>3
  <2>5. Len(recs) = count + 2
    BY <1>3, <2>1, <2>3
  <2>6. \A i \in 1 .. count + 1 : recs[1 + i] = targets[i]
    BY <2>2, <2>3
  <2>. QED  BY <2>4, <2>5, <2>6
<1>11. \A j \in 1 .. Len(recs) :
         /\ recs[j] \in OpcodeRecs /\ recs[j].op = "br_table" /\ recs[j].src = Len(source) + 1
         /\ \/ recs[j].v2 = 0
            \/ recs[j].v2 = kInvalidIndex /\ recs[j].v1 \in 1 .. Len(labels)
  <2> TAKE j \in 1 .. Len(recs)
  <2>1. CASE j = 1
    BY <1>6, <1>10, <2>1
  <2>2. CASE j # 1
    <3> DEFINE i == j - 1
    <3>1. i \in 1 .. count + 1 /\ j = 1 + i
      BY <1>3, <1>10, <2>2, SMTT(20)
    <3> HIDE DEF i
    <3>2. recs[j] = JumpRec("br_table", depths[i])
      BY <1>8, <1>10, <3>1
    <3>. QED  BY <1>7, <3>1, <3>2
  <2>. QED  BY <2>1, <2>2
<1> HIDE DEF recs
<1>12. /\ recs # <<>> /\ instr.op # "end"
       /\ \A j \in 1 .. Len(recs) : recs[j].op \notin {"if", "end"} /\ Accesses(recs[j], instr.arg)
  <2>1. "br_table" \in Opcodes
    BY DEF Opcodes
  <2>2. Len(recs) # 0
    BY <1>3, <1>10
  <2>. QED  BY <1>4, <1>11, <2>1, <2>2, PlainAccess
<1>13. ASSUME AllLive(checker), CleanLoops, CodeInv(Code), Emits(Code, Code', instr, recs)
       PROVE  Leads(Code', p)
  <2>1. EmittedInv(Code) /\ Code.opcodes = opcodes /\ Code.now = NoteOf(checker)
    BY CodeIs DEF ReadInv
  <2>2. /\ Len(opcodes) \in Nat /\ Len(Code'.opcodes) = Len(opcodes) + Len(recs)
        /\ \A q \in Len(opcodes) + 1 .. Len(Code'.opcodes) : Code'.opcodes[q] = recs[q - Len(opcodes)]
    <3>1. Len(Code.opcodes) \in Nat /\ Len(Code'.opcodes) = Len(Code.opcodes) + Len(recs)
      BY <1>13, <2>1, EmitsLength
    <3>2. \A q \in Len(Code.opcodes) + 1 .. Len(Code'.opcodes) : Code'.opcodes[q] = recs[q - Len(Code.opcodes)]
      BY <1>13, <2>1, EmitsIs, SMTT(20)
    <3>. QED  BY <2>1, <3>1, <3>2
  <2>3. p \in Len(opcodes) + 1 .. Len(Code'.opcodes) /\ Code'.opcodes[p] = head
    <3>1. p - Len(opcodes) = 1 /\ p \in Len(opcodes) + 1 .. Len(Code'.opcodes)
      BY <1>3, <1>10, <2>2
    <3> HIDE DEF p
    <3>. QED  BY <1>10, <2>2, <3>1
  <2>4. Known(Code', p).types = checker.types
    <3>1. Grows(Code, Code', instr)
      BY <1>13, <2>1, EmitsGrows
    <3>2. Known(Code', p) = NoteOf(checker)
      BY <2>1, <2>3, <3>1, NewKnown
    <3>. QED  BY <3>2, NoteIs
  <2>5. Len(checker.types) >= Innermost(checker).limit + 1
    <3>1. checker.types \in Seq(Types) /\ Len(checker.types) \in Nat /\ Innermost(checker).limit \in Nat
      BY ReadingIs, SoundStacks
    <3> DEFINE taken == BranchTypes(GetLabel(checker, depths[1]))
    <3>2. 1 \in DOMAIN depths /\ depths[1] \in Nat
      BY <1>3
    <3>3. taken \in Seq(ValueTypes) /\ Len(taken) \in Nat
      BY <1>5, <3>2, ReadingIs, LabelIs, BranchIs
    <3>4. Len(rest) >= Innermost(checker).limit + Len(taken) /\ Len(checker.types) >= 1
      BY <1>5, <1>13, <3>2
    <3>5. Len(rest) = Len(checker.types) - 1
      BY <3>1, <3>4
    <3> HIDE DEF taken, rest
    <3>. QED  BY <3>1, <3>3, <3>4, <3>5
  <2>6. ASSUME NEW i \in p + 1 .. p + count + 1
        PROVE  i \in 1 .. Len(Code'.opcodes) /\ Code'.opcodes[i].op = "br_table" /\ Lands(Code', i, rest)
    <3> DEFINE j == i - p
               depth == depths[j]
    <3>1. /\ j \in 1 .. count + 1 /\ i \in Len(opcodes) + 1 .. Len(Code'.opcodes) /\ i - Len(opcodes) = 1 + j
          /\ i \in 1 .. Len(Code'.opcodes)
      BY <1>3, <1>10, <2>2
    <3> HIDE DEF j
    <3>2. Code'.opcodes[i] = JumpRec("br_table", depths[j])
      BY <1>8, <1>10, <2>2, <3>1
    <3>3. /\ Code'.opcodes[i].op = "br_table" /\ Code'.opcodes[i].v2 = kInvalidIndex
          /\ Code'.opcodes[i].v1 = labelStack[k(j)]
      BY <1>7, <3>1, <3>2
    <3>4. depth \in Nat /\ j \in DOMAIN depths /\ HasLabel(checker, depth)
      BY <1>3, <1>5, <3>1, Zenon
    <3>5. GetLabel(checker, depth).kind = "Loop" => Len(rest) <= GetLabel(checker, depth).limit
      BY <1>1, <1>13, <2>5, <3>4, CleanRest, Zenon
    <3>6. /\ EndsWith(rest, BranchTypes(GetLabel(checker, depth)))
          /\ Len(rest) >= Innermost(checker).limit + Len(BranchTypes(GetLabel(checker, depth)))
          /\ 1 <= Len(checker.types)
      BY <1>5, <1>13, <3>4
    <3>7. Taken(checker, k(j), rest)
      BY <3>4, <3>5, <3>6, TakenIs, Zenon
    <3>8. k(j) \in 1 .. Len(checker.labels)
      BY <3>4, BranchLabelIs
    <3> HIDE DEF rest, k, p, depth
    <3>9. Lands(Code', i, rest)
      BY <1>13, <3>1, <3>3, <3>7, <3>8, BranchLands, Zenon
    <3>. QED  BY <3>1, <3>3, <3>9
  <2>7. Len(checker.types) >= 1
    BY <1>5, <1>13
  <2>8. head.op \in Opcodes /\ head.op \notin DOMAIN Operators
    BY <1>6, PlainAccess DEF Opcodes
  <2> HIDE DEF p, rest
  <2>9. LeadsOn(Code', p, head, checker.types) /\ VariableLeadsOn(Code', p, head, checker.types)
    BY <1>6, <2>8 DEF LeadsOn, VariableLeadsOn
  <2>10. JumpLeadsOn(Code', p, head, checker.types)
    BY <1>3, <1>6, <2>6, <2>7 DEF JumpLeadsOn, rest
  <2>. QED  BY <2>3, <2>4, <2>9, <2>10 DEF Leads
<1>14. \A j \in 1 .. Len(recs) :
           /\ recs[j].src = Len(source) + 1 /\ recs[j].op \notin {"if", "end"}
           /\ recs[j].op \in Jumps => \/ recs[j].v2 = 0
                                      \/ recs[j].v2 = kInvalidIndex /\ recs[j].v1 \in 1 .. Len(labels)
  BY <1>11, <1>12
<1>15. Emit(instr, checked, recs)
  BY <1>1
<1>. QED  BY <1>4, <1>5, <1>10, <1>12, <1>13, <1>14, <1>15, EmitStep, Zenon

-----------------------------------------------------------------------------
(* The handlers that open, turn and close constructs. *)

\* What OnBlockExpr, OnLoopExpr and OnIfExpr share: c has the operands below the construct.
LEMMA OpenStep ==
  ASSUME ReadInv, NEW instr \in Instructions, instr.op # "end",
         NEW kind \in {"Block", "Loop", "If"}, NEW sig \in Seq(ValueTypes),
         NEW c \in Checkers,
         c.ok => Follows(checker, c) /\ c.labels = checker.labels,
         kind # "If" => c = checker,
         (c.ok /\ kind = "If" /\ AllLive(checker)) =>
            Len(checker.types) >= 1 /\ c.types = SubSeq(checker.types, 1, Len(checker.types) - 1),
         NEW label, label = Label(Len(sig), Len(c.types), IF kind = "Loop" THEN Len(opcodes) + 1 ELSE kInvalidIndex,
                                  IF kind = "If" THEN Len(opcodes) + 1 ELSE kInvalidIndex),
         NEW new, new = IF kind = "If" THEN Append(opcodes, OpcodeRec("if", Len(labels) + 1, kInvalidIndex)) ELSE opcodes,
         NEW checked, checked = PushLabel(c, kind, sig),
         Handle(instr, checked, new, Pushed(label), PushedStack)
  PROVE  GiveUp \/ Advances
<1> SUFFICES ASSUME ~GiveUp PROVE Advances
  OBVIOUS
<1> DEFINE n == Len(checker.labels)
           C == Code
           D == Code'
<1>1. /\ checked.ok /\ checker' = checked /\ opcodes' = new /\ labels' = Append(labels, label)
      /\ labelStack' = Append(labelStack, Len(labels) + 1)
      /\ source' = Append(source, instr) /\ noted' = Append(noted, Note) /\ phase' = phase
  BY DEF Handle, Pushed, PushedStack
<1>2. checker \in Checkers /\ checker.ok /\ Sound(checker) /\ phase = "reading"
  BY ReadingIs DEF ReadInv
<1>3. c.ok
  BY <1>1 DEF PushLabel, Checkers
<1>4. Follows(checker, c) /\ Sound(c) /\ c.labels = checker.labels
  BY <1>3 DEF Follows
<1>5. /\ checked \in Checkers /\ Sound(checked) /\ checked.types = c.types
      /\ Len(checked.labels) = n + 1 /\ \A k \in 1 .. n : checked.labels[k] = c.labels[k]
      /\ checked.labels[n + 1] = [kind |-> kind, sig |-> sig, limit |-> Len(c.types), unreachable |-> FALSE]
      /\ AllLive(c) => AllLive(checked)
  <2>1. kind \in LabelKinds \ {"Func"}
    BY DEF LabelKinds
  <2> DEFINE d == PushLabel(c, kind, sig)
             m == Len(c.labels)
  <2>2. /\ d \in Checkers /\ Sound(d) /\ d.types = c.types
        /\ Len(d.labels) = m + 1 /\ \A k \in 1 .. m : d.labels[k] = c.labels[k]
        /\ d.labels[m + 1] = [kind |-> kind, sig |-> sig, limit |-> Len(c.types), unreachable |-> FALSE]
        /\ AllLive(c) => AllLive(d)
    BY <1>4, <2>1, OpenedIs
  <2>3. checked = d /\ m = n
    BY <1>4
  <2> HIDE DEF d, m, n
  <2>. QED  BY <2>2, <2>3
<1>6. Checked'
  <2>1. checked \in [types : Seq(Types), labels : Seq(Constructs), ok : {TRUE}]
    BY <1>1, <1>5, Zenon DEF Checkers
  <2>. QED  BY <1>1, <1>5, <2>1, Zenon DEF Checked
<1>7. Len(c.types) \in Nat /\ Len(opcodes) \in Nat /\ Len(sig) \in Nat
  <2>1. opcodes \in Seq(OpcodeRecs)
    BY CodeIs DEF ReadInv, EmittedInv
  <2>. QED  BY <1>4, <2>1, SoundStacks
<1>8. /\ label \in LabelRecs /\ label.results = Len(sig) /\ label.stack = Len(c.types)
      /\ label.offset = IF kind = "Loop" THEN Len(opcodes) + 1 ELSE kInvalidIndex
      /\ label.origin = IF kind = "If" THEN Len(opcodes) + 1 ELSE kInvalidIndex
  <2> DEFINE position == IF kind = "Loop" THEN Len(opcodes) + 1 ELSE kInvalidIndex
             origin == IF kind = "If" THEN Len(opcodes) + 1 ELSE kInvalidIndex
  <2>1. position \in Int /\ origin \in Int
    BY <1>7 DEF kInvalidIndex
  <2> HIDE DEF position, origin
  <2>2. label = Label(Len(sig), Len(c.types), position, origin)
    BY DEF position, origin
  <2>3. /\ label \in LabelRecs /\ label.results = Len(sig) /\ label.stack = Len(c.types)
        /\ label.offset = position /\ label.origin = origin
    <3> DEFINE results == Len(sig)
               height == Len(c.types)
    <3>1. results \in Nat /\ height \in Nat /\ label = Label(results, height, position, origin)
      BY <1>7, <2>2
    <3> HIDE DEF results, height
    <3> DEFINE made == Label(results, height, position, origin)
    <3>2. made \in LabelRecs
      BY <2>1, <3>1 DEF Label, LabelRecs
    <3>3. made.results = results /\ made.stack = height /\ made.offset = position /\ made.origin = origin
      BY DEF Label
    <3>4. label = made
      BY <3>1
    <3> HIDE DEF made
    <3>. QED  BY <3>2, <3>3, <3>4 DEF results, height
  <2>. QED  BY <2>3 DEF position, origin
<1>9. /\ C.opcodes = opcodes /\ C.source = source /\ C.noted = noted /\ C.now = NoteOf(checker)
      /\ C.labels = labels /\ C.labelStack = labelStack /\ ~C.ended
      /\ C.now \in Notes /\ Sound(C.now) /\ C.now.types = checker.types /\ C.now.labels = checker.labels
  BY CodeIs, ReadingIs, NoteIs
<1>10. /\ D.opcodes = new /\ D.source = Append(source, instr) /\ D.noted = Append(noted, C.now)
       /\ D.now = NoteOf(checked) /\ D.labels = Append(labels, label)
       /\ D.labelStack = Append(labelStack, Len(labels) + 1) /\ ~D.ended
       /\ Sound(D.now) /\ D.now.types = c.types /\ D.now.labels = checked.labels
       /\ AllLive(D.now) <=> AllLive(checked)
  <2>1. NoteOf(checked).types = c.types /\ NoteOf(checked).labels = checked.labels
        /\ Sound(NoteOf(checked)) /\ (AllLive(NoteOf(checked)) <=> AllLive(checked))
    BY <1>5, NoteIs
  <2>2. D.now = NoteOf(checked) /\ D.noted = Append(noted, NoteOf(checker))
    BY <1>1, CodeWillBe DEF Note, NoteOf
  <2>. QED  BY <1>1, <1>2, <1>9, <2>1, <2>2, CodeWillBe
<1> DEFINE e == NoteOf(c)
<1>11. /\ Follows(C.now, e) /\ e.types = c.types /\ e.labels = c.labels
       /\ AllLive(e) <=> AllLive(c)
       /\ AllLive(C.now) <=> AllLive(checker)
  BY <1>4, <1>9, NoteIs, NoteFollows
<1> HIDE DEF C, D, e
<1>12. Added(C, D) = [kind |-> kind, sig |-> sig, limit |-> Len(c.types), unreachable |-> FALSE]
  BY <1>5, <1>9, <1>10 DEF Added
<1>13. /\ Added(C, D).kind = kind /\ Added(C, D).sig = sig /\ Added(C, D).limit = Len(c.types)
       /\ ~Added(C, D).unreachable
  BY <1>12
<1>14. /\ kind # "If" => D.opcodes = C.opcodes /\ e.types = C.now.types /\ (AllLive(C.now) => AllLive(e))
       /\ kind = "If" => label.origin = Len(C.opcodes) + 1 /\ D.opcodes = Append(C.opcodes, IfRec(C))
  <2>1. ASSUME kind # "If" PROVE D.opcodes = C.opcodes /\ e.types = C.now.types /\ (AllLive(C.now) => AllLive(e))
    BY <1>9, <1>10, <1>11, <2>1
  <2>2. ASSUME kind = "If" PROVE label.origin = Len(C.opcodes) + 1 /\ D.opcodes = Append(C.opcodes, IfRec(C))
    <3>1. OpcodeRec("if", Len(labels) + 1, kInvalidIndex) = IfRec(C)
      BY <1>9 DEF OpcodeRec, IfRec
    <3>. QED  BY <1>8, <1>9, <1>10, <2>2, <3>1
  <2>. QED  BY <2>1, <2>2
<1>15. Opens(C, D, instr, e, label)
  <2>1. /\ ~C.ended /\ ~D.ended /\ C.now \in Notes /\ Sound(C.now) /\ Follows(C.now, e) /\ Sound(D.now)
        /\ D.source = Append(C.source, instr) /\ D.noted = Append(C.noted, C.now)
        /\ D.now.types = e.types /\ Len(D.now.labels) = Len(C.now.labels) + 1
        /\ \A k \in 1 .. Len(C.now.labels) : D.now.labels[k] = e.labels[k]
        /\ AllLive(e) => AllLive(D.now)
    BY <1>5, <1>9, <1>10, <1>11
  <2>2. /\ Added(C, D).limit = Len(e.types) /\ Added(C, D).kind \in {"Block", "Loop", "If"} /\ ~Added(C, D).unreachable
        /\ label \in LabelRecs /\ label.stack = Len(e.types) /\ label.results = Len(Added(C, D).sig)
        /\ D.labels = Append(C.labels, label) /\ D.labelStack = Append(C.labelStack, Len(C.labels) + 1)
        /\ label.offset = IF Added(C, D).kind = "Loop" THEN Len(C.opcodes) + 1 ELSE kInvalidIndex
    BY <1>8, <1>9, <1>10, <1>11, <1>13
  <2>. QED  BY <1>13, <1>14, <2>1, <2>2, Zenon DEF Opens
<1>16. EmittedInv(C) /\ LabelInv(C) /\ AccessInv(C)
  BY DEF ReadInv, C
<1>17. EmittedInv(D) /\ LabelInv(D) /\ AccessInv(D)
  <2>1. Grows(C, D, instr)
    BY <1>15, <1>16, OpensGrows
  <2>. QED  BY <1>15, <1>16, <2>1, EmittedGrows, OpensLabels, OpensAccess
<1>18. ASSUME CodeInv(C) PROVE CodeInv(D)
  <2>1. AllLive(C.now) => AllLive(e)
    BY <1>4, <1>11 DEF AllLive, Live
  <2>2. (Added(C, D).kind = "If" /\ AllLive(C.now)) =>
            Len(C.now.types) >= 1 /\ e.types = SubSeq(C.now.types, 1, Len(C.now.types) - 1)
    BY <1>3, <1>9, <1>11, <1>13
  <2>. QED  BY <1>15, <1>16, <1>18, <2>1, <2>2, OpensCode
<1>. QED  BY <1>1, <1>2, <1>6, <1>17, <1>18 DEF Advances, C, D

\* OnBlockExpr
LEMMA BlockStep ==
  ASSUME ReadInv, NEW sig \in BlockTypes, OnBlockExpr(sig)
  PROVE  GiveUp \/ Advances
<1> DEFINE instr == Instr("block", sig, <<>>, 0)
           checked == PushLabel(checker, "Block", sig)
           label == Label(Len(sig), Len(checker.types), kInvalidIndex, kInvalidIndex)
<1>1. sig \in Seq(ValueTypes) /\ <<>> \in Seq(Nat) /\ "block" \in Opcodes
  BY ResultShape DEF Opcodes
<1>2. instr \in Instructions /\ instr.op # "end"
  BY <1>1 DEF Instr, Instructions
<1>3. checker \in Checkers /\ Sound(checker) /\ checker.ok
  BY ReadingIs
<1>4. checked.types = checker.types
  BY <1>3 DEF PushLabel, Checkers
<1>5. Handle(instr, checked, opcodes, Pushed(label), PushedStack)
  BY <1>4 DEF OnBlockExpr, OnBlock
<1>6. Follows(checker, checker)
  BY <1>3, SoundStacks DEF Follows, Keeps, Prefix
<1> HIDE DEF instr, checked
<1>7. label = Label(Len(sig), Len(checker.types), IF "Block" = "Loop" THEN Len(opcodes) + 1 ELSE kInvalidIndex,
                                  IF "Block" = "If" THEN Len(opcodes) + 1 ELSE kInvalidIndex)
  OBVIOUS
<1> HIDE DEF label
<1>. QED  BY <1>1, <1>2, <1>3, <1>5, <1>6, <1>7, OpenStep DEF checked

\* OnLoopExpr
LEMMA LoopStep ==
  ASSUME ReadInv, NEW sig \in BlockTypes, OnLoopExpr(sig)
  PROVE  GiveUp \/ Advances
<1> DEFINE instr == Instr("loop", sig, <<>>, 0)
           checked == PushLabel(checker, "Loop", sig)
           label == Label(Len(sig), Len(checker.types), Len(opcodes) + 1, kInvalidIndex)
<1>1. sig \in Seq(ValueTypes) /\ <<>> \in Seq(Nat) /\ "loop" \in Opcodes
  BY ResultShape DEF Opcodes
<1>2. instr \in Instructions /\ instr.op # "end"
  BY <1>1 DEF Instr, Instructions
<1>3. checker \in Checkers /\ Sound(checker) /\ checker.ok
  BY ReadingIs
<1>4. checked.types = checker.types
  BY <1>3 DEF PushLabel, Checkers
<1>5. Handle(instr, checked, opcodes, Pushed(label), PushedStack)
  BY <1>4 DEF OnLoopExpr, OnLoop, NextPosition
<1>6. Follows(checker, checker)
  BY <1>3, SoundStacks DEF Follows, Keeps, Prefix
<1> HIDE DEF instr, checked
<1>7. label = Label(Len(sig), Len(checker.types), IF "Loop" = "Loop" THEN Len(opcodes) + 1 ELSE kInvalidIndex,
                                  IF "Loop" = "If" THEN Len(opcodes) + 1 ELSE kInvalidIndex)
  OBVIOUS
<1> HIDE DEF label
<1>. QED  BY <1>1, <1>2, <1>3, <1>5, <1>6, <1>7, OpenStep DEF checked

\* OnIfExpr
LEMMA IfStep ==
  ASSUME ReadInv, NEW sig \in BlockTypes, OnIfExpr(sig)
  PROVE  GiveUp \/ Advances
<1> DEFINE instr == Instr("if", sig, <<>>, 0)
           c == PopAndCheck(checker, <<"i32">>)
           checked == PushLabel(c, "If", sig)
           label == Label(Len(sig), Len(c.types), kInvalidIndex, Len(opcodes) + 1)
           new == Append(opcodes, OpcodeRec("if", Len(labels) + 1, kInvalidIndex))
<1>1. sig \in Seq(ValueTypes) /\ <<>> \in Seq(Nat) /\ "if" \in Opcodes
  BY ResultShape DEF Opcodes
<1>2. instr \in Instructions /\ instr.op # "end"
  BY <1>1 DEF Instr, Instructions
<1>3. checker \in Checkers /\ Sound(checker) /\ checker.ok
  BY ReadingIs
<1>4. c \in Checkers
  BY <1>3, I32, PopIs, Zenon
<1>5. "i32" \in ValueTypes
  BY DEF ValueTypes
<1>6. c.ok => /\ Follows(checker, c) /\ c.labels = checker.labels
              /\ AllLive(checker) =>
                   Len(checker.types) >= 1 /\ c.types = SubSeq(checker.types, 1, Len(checker.types) - 1)
  <2>1. c.ok => /\ Follows(checker, c) /\ c.labels = checker.labels
                /\ AllLive(checker) =>
                     Len(checker.types) >= 1 /\ c.types = SubSeq(checker.types, 1, Len(checker.types) - 1) \o <<>>
    BY <1>5, WritesFollow
  <2>2. c.types \in Seq(Types)
    BY <1>4 DEF Checkers
  <2> HIDE DEF c
  <2>3. ASSUME c.ok, AllLive(checker) PROVE c.types = SubSeq(checker.types, 1, Len(checker.types) - 1)
    <3>1. checker.types \in Seq(Types)
      BY <1>3, SoundStacks
    <3>2. SubSeq(checker.types, 1, Len(checker.types) - 1) \o <<>> = SubSeq(checker.types, 1, Len(checker.types) - 1)
      BY <2>1, <2>3, <3>1
    <3>. QED  BY <2>1, <2>3, <3>2
  <2>. QED  BY <2>1, <2>3
<1> HIDE DEF c
<1>7. checked.types = c.types
  BY <1>4 DEF PushLabel, Checkers
<1>8. Handle(instr, checked, new, Pushed(label), PushedStack)
  BY <1>7 DEF OnIfExpr, OnIf, NextPosition, c
<1> HIDE DEF instr, checked
<1>9. label = Label(Len(sig), Len(c.types), IF "If" = "Loop" THEN Len(opcodes) + 1 ELSE kInvalidIndex,
                    IF "If" = "If" THEN Len(opcodes) + 1 ELSE kInvalidIndex)
  OBVIOUS
<1>10. new = IF "If" = "If" THEN Append(opcodes, OpcodeRec("if", Len(labels) + 1, kInvalidIndex)) ELSE opcodes
  OBVIOUS
<1> HIDE DEF label, new
<1>. QED  BY <1>1, <1>2, <1>4, <1>6, <1>8, <1>9, <1>10, OpenStep, Zenon DEF checked

\* OnElseExpr
LEMMA ElseStep ==
  ASSUME ReadInv, OnElseExpr
  PROVE  GiveUp \/ Advances
<1> SUFFICES ASSUME ~GiveUp PROVE Advances
  OBVIOUS
<1> DEFINE instr == Plain("else")
           checked == OnElse(checker)
           n == Len(checker.labels)
           id == Last(labelStack)
           rec == OpcodeRec("else", id, kInvalidIndex)
           emitted == Append(opcodes, rec)
           new == [emitted EXCEPT ![labels[id].origin].v2 = Len(emitted) + 1]
           C == Code
           D == Code'
<1>1. /\ checked.ok /\ checker' = checked /\ opcodes' = new /\ labels' = labels /\ labelStack' = labelStack
      /\ source' = Append(source, instr) /\ noted' = Append(noted, Note) /\ phase' = phase
  BY Zenon DEF OnElseExpr, Handle
<1>2. checker \in Checkers /\ checker.ok /\ Sound(checker) /\ phase = "reading"
  BY ReadingIs DEF ReadInv
<1>3. /\ checked \in Checkers /\ Sound(checked) /\ Len(checked.labels) = n
      /\ checked.types = SubSeq(checker.types, 1, Innermost(checker).limit)
      /\ \A k \in 1 .. n : k < n => checked.labels[k] = checker.labels[k]
      /\ checked.labels[n].sig = checker.labels[n].sig /\ checked.labels[n].limit = checker.labels[n].limit
      /\ checker.labels[n].kind = "If" /\ checked.labels[n].kind = "Else" /\ ~checked.labels[n].unreachable
      /\ AllLive(checker) => checker.types = Closed(checker)
  BY <1>1, <1>2, ElseIs
<1>4. instr \in Instructions /\ instr.op = "else"
  <2>1. "else" \in Opcodes /\ <<>> \in Seq(ValueTypes) /\ <<>> \in Seq(Nat)
    BY DEF Opcodes
  <2>. QED  BY <2>1 DEF Instr, Instructions, Plain
<1>5. Checked'
  <2>1. checked \in [types : Seq(Types), labels : Seq(Constructs), ok : {TRUE}]
    BY <1>1, <1>3, Zenon DEF Checkers
  <2>. QED  BY <1>1, <1>3, <2>1, Zenon DEF Checked
<1>6. /\ C.opcodes = opcodes /\ C.source = source /\ C.noted = noted /\ C.now = NoteOf(checker)
      /\ C.labels = labels /\ C.labelStack = labelStack /\ ~C.ended
      /\ C.now \in Notes /\ Sound(C.now) /\ C.now.types = checker.types /\ C.now.labels = checker.labels
      /\ AllLive(C.now) <=> AllLive(checker)
      /\ Innermost(C.now) = Innermost(checker) /\ Closed(C.now) = Closed(checker)
  BY CodeIs, ReadingIs, NoteIs
<1>7. EmittedInv(C) /\ LabelInv(C) /\ AccessInv(C)
  BY DEF ReadInv
<1>8. /\ Len(labelStack) = n /\ Last(labelStack) = labelStack[n] /\ Len(opcodes) \in Nat
      /\ Innermost(checker) = checker.labels[n]
  <2>1. Len(labelStack) = n
    BY <1>6, <1>7 DEF LabelInv, OpenLabels
  <2>2. opcodes \in Seq(OpcodeRecs)
    BY <1>6, <1>7 DEF EmittedInv
  <2>. QED  BY <1>2, <2>1, <2>2, SoundStacks DEF Last
<1> HIDE DEF instr, checked
<1>9. /\ D.opcodes = new /\ D.source = Append(source, instr) /\ D.noted = Append(noted, C.now)
      /\ D.labels = labels /\ D.labelStack = labelStack /\ ~D.ended
      /\ Sound(D.now) /\ D.now.types = checked.types /\ D.now.labels = checked.labels
      /\ Innermost(D.now) = checked.labels[n]
  <2>1. /\ NoteOf(checked).types = checked.types /\ NoteOf(checked).labels = checked.labels
        /\ Sound(NoteOf(checked)) /\ Innermost(NoteOf(checked)) = Innermost(checked)
    BY <1>3, NoteIs
  <2>2. D.now = NoteOf(checked) /\ D.noted = Append(noted, NoteOf(checker))
    BY <1>1, CodeWillBe DEF Note, NoteOf
  <2>3. Innermost(checked) = checked.labels[n]
    BY <1>3 DEF Innermost
  <2>. QED  BY <1>1, <1>2, <1>6, <2>1, <2>2, <2>3, CodeWillBe
<1>10. D.opcodes = [Append(C.opcodes, ElseRec(C)) EXCEPT ![IfAt(C)].v2 = Len(C.opcodes) + 2]
  <2>1. rec = ElseRec(C)
    BY <1>6, <1>8 DEF OpcodeRec, ElseRec
  <2>2. labels[id].origin = IfAt(C)
    BY <1>6, <1>8 DEF IfAt
  <2>3. Len(emitted) + 1 = Len(C.opcodes) + 2
    <3>1. opcodes \in Seq(OpcodeRecs) /\ rec \in OpcodeRecs
      <4>1. id \in Int
        BY <1>6, <1>7, <1>8, InnerIs
      <4>2. "else" \in Opcodes \cup DOMAIN Operators /\ kInvalidIndex \in Int
        BY DEF Opcodes, kInvalidIndex
      <4>. QED  BY <1>6, <1>7, <4>1, <4>2, RecordIs DEF EmittedInv
    <3> HIDE DEF rec
    <3>2. Len(Append(opcodes, rec)) = Len(opcodes) + 1
      BY <3>1
    <3>. QED  BY <1>6, <1>8, <3>2
  <2>. QED  BY <1>6, <1>9, <2>1, <2>2, <2>3, Zenon
<1> HIDE DEF new, rec, id, C, D
<1>11. Turns(C, D, instr)
  <2>1. /\ ~C.ended /\ ~D.ended /\ C.now \in Notes /\ Sound(C.now) /\ Sound(D.now)
        /\ D.source = Append(C.source, instr) /\ D.noted = Append(C.noted, C.now)
        /\ Len(D.now.labels) = Len(C.now.labels)
        /\ D.now.types = SubSeq(C.now.types, 1, Innermost(C.now).limit)
        /\ \A k \in 1 .. Len(C.now.labels) : k < Len(C.now.labels) => D.now.labels[k] = C.now.labels[k]
    BY <1>3, <1>6, <1>9
  <2>2. /\ Innermost(D.now).sig = Innermost(C.now).sig /\ Innermost(D.now).limit = Innermost(C.now).limit
        /\ Innermost(C.now).kind = "If" /\ Innermost(D.now).kind = "Else" /\ ~Innermost(D.now).unreachable
    BY <1>3, <1>6, <1>8, <1>9
  <2>3. /\ AllLive(C.now) => C.now.types = Closed(C.now)
        /\ D.labels = C.labels /\ D.labelStack = C.labelStack
    BY <1>3, <1>6, <1>9
  <2>. QED  BY <1>4, <1>10, <2>1, <2>2, <2>3 DEF Turns
<1>12. EmittedInv(D) /\ LabelInv(D) /\ AccessInv(D)
  <2>1. Grows(C, D, instr)
    BY <1>7, <1>11, TurnsGrows
  <2>. QED  BY <1>7, <1>11, <2>1, EmittedGrows, TurnsLabels, TurnsAccess
<1>13. ASSUME CodeInv(C) PROVE CodeInv(D)
  BY <1>7, <1>11, <1>13, TurnsCode
<1>. QED  BY <1>1, <1>2, <1>5, <1>12, <1>13 DEF Advances, C, D

\* A construct is closed only if a further condition holds too.
LEMMA CloseMore ==
  ASSUME NEW c \in Checkers, Sound(c), NEW condition \in BOOLEAN, NEW r, r = Require(CloseLabel(c), condition), r.ok
  PROVE  /\ CloseLabel(c).ok /\ condition
         /\ r.types = CloseLabel(c).types /\ r.labels = CloseLabel(c).labels
         /\ CloseLabel(c) \in Checkers => r \in Checkers
<1> DEFINE d == CloseLabel(c)
           sig == TopLabel(c).sig
           p == PopAndCheck(c, sig)
           m == PopLabel(PushTypes(ResetTypeStackToLabel(p), sig))
           checks == CheckTypeStackEnd(p)
<1>1. sig \in Seq(ValueTypes)
  <2>1. TopLabel(c) \in Constructs
    BY SoundStacks DEF TopLabel
  <2>. QED  BY <2>1 DEF Constructs
<1>2. p \in Checkers
  BY <1>1, PopIs
<1>3. d = Require(m, checks)
  BY DEF CloseLabel
<1> HIDE DEF p
<1>4. {"types", "labels", "ok"} \subseteq DOMAIN m
  BY <1>2 DEF ResetTypeStackToLabel, PopLabel, PushTypes, Checkers
<1> HIDE DEF m, checks, d
<1>5. {"types", "labels", "ok"} \subseteq DOMAIN d
  BY <1>3, <1>4 DEF Require
<1>6. r = [d EXCEPT !.ok = @ /\ condition]
  BY DEF Require, d
<1>7. r.ok = (d.ok /\ condition)
  BY <1>5, <1>6, Zenon
<1>9. r.types = d.types /\ r.labels = d.labels
  BY <1>5, <1>6
<1>8. ASSUME d \in Checkers PROVE r \in Checkers
  BY <1>8, RequireIs DEF d
<1>. QED  BY <1>7, <1>8, <1>9, Zenon DEF d

\* OnEndExpr
LEMMA EndStep ==
  ASSUME ReadInv, OnEndExpr
  PROVE  GiveUp \/ Advances
<1> SUFFICES ASSUME ~GiveUp PROVE Advances
  OBVIOUS
<1> DEFINE instr == Plain("end")
           closed == CloseLabel(checker)
           condition == TopLabel(checker).kind = "If" => TopLabel(checker).sig = <<>>
           checked == OnEnd(checker)
           n == Len(checker.labels)
           id == Last(labelStack)
           rec == OpcodeRec("end", labels[id].stack, labels[id].results)
           C == Code
           D == Code'
<1>1. /\ checked.ok /\ checker' = checked /\ opcodes' = Append(opcodes, rec) /\ labels' = Positioned(NextPosition)
      /\ labelStack' = Front(labelStack) /\ Len(labelStack) > 1
      /\ source' = Append(source, instr) /\ noted' = Append(noted, Note) /\ phase' = phase
  BY DEF OnEndExpr, Handle
<1>2. checker \in Checkers /\ checker.ok /\ Sound(checker) /\ phase = "reading"
  BY ReadingIs DEF ReadInv
<1>3. /\ closed.ok /\ condition /\ checked.types = closed.types /\ checked.labels = closed.labels
      /\ closed \in Checkers => checked \in Checkers
  <2>1. checked = Require(closed, condition) /\ condition \in BOOLEAN
    BY DEF OnEnd
  <2> HIDE DEF checked, condition
  <2>. QED  BY <1>1, <1>2, <2>1, CloseMore
<1>4. /\ closed \in Checkers /\ closed.types = Closed(checker) /\ Len(closed.labels) = n - 1
      /\ \A k \in 1 .. n - 1 : closed.labels[k] = checker.labels[k]
      /\ AllLive(checker) => checker.types = Closed(checker)
      /\ n > 1 => Sound(closed)
  BY <1>2, <1>3, CloseIs
<1> HIDE DEF checked, closed
<1>5. instr \in Instructions /\ instr.op = "end"
  <2>1. "end" \in Opcodes /\ <<>> \in Seq(ValueTypes) /\ <<>> \in Seq(Nat)
    BY DEF Opcodes
  <2>. QED  BY <2>1 DEF Instr, Instructions, Plain
<1>6. /\ C.opcodes = opcodes /\ C.source = source /\ C.noted = noted /\ C.now = NoteOf(checker)
      /\ C.labels = labels /\ C.labelStack = labelStack /\ ~C.ended
      /\ C.now \in Notes /\ Sound(C.now) /\ C.now.types = checker.types /\ C.now.labels = checker.labels
      /\ AllLive(C.now) <=> AllLive(checker)
      /\ Innermost(C.now) = Innermost(checker) /\ Closed(C.now) = Closed(checker)
  BY CodeIs, ReadingIs, NoteIs
<1>7. EmittedInv(C) /\ LabelInv(C) /\ AccessInv(C)
  BY DEF ReadInv
<1>8. /\ Len(labelStack) = n /\ n > 1 /\ Last(labelStack) = labelStack[n]
      /\ Innermost(checker) = checker.labels[n] /\ TopLabel(checker) = Innermost(checker)
  <2>1. Len(labelStack) = n
    BY <1>6, <1>7 DEF LabelInv, OpenLabels
  <2>. QED  BY <1>1, <1>2, <2>1, SoundStacks DEF Last, TopLabel
<1>9. Sound(checked) /\ checked \in Checkers
  BY <1>3, <1>4, <1>8 DEF Sound
<1>10. Checked'
  <2>1. checked \in [types : Seq(Types), labels : Seq(Constructs), ok : {TRUE}]
    BY <1>1, <1>9, Zenon DEF Checkers
  <2>. QED  BY <1>1, <1>9, <2>1, Zenon DEF Checked
<1> HIDE DEF instr
<1>11. /\ D.opcodes = Append(opcodes, rec) /\ D.source = Append(source, instr) /\ D.noted = Append(noted, C.now)
       /\ D.labels = Positioned(NextPosition) /\ D.labelStack = Front(labelStack) /\ ~D.ended
       /\ Sound(D.now) /\ D.now.types = checked.types /\ D.now.labels = checked.labels
  <2>1. /\ NoteOf(checked).types = checked.types /\ NoteOf(checked).labels = checked.labels
        /\ Sound(NoteOf(checked))
    BY <1>9, NoteIs
  <2>2. D.now = NoteOf(checked) /\ D.noted = Append(noted, NoteOf(checker))
    BY <1>1, CodeWillBe DEF Note, NoteOf
  <2>. QED  BY <1>1, <1>2, <1>6, <2>1, <2>2, CodeWillBe
<1>12. D.opcodes = Append(C.opcodes, EndRec(C)) /\ D.labels = Placed(C)
  <2>1. rec = EndRec(C)
    BY <1>6, <1>8 DEF OpcodeRec, EndRec, Innerlabel
  <2>2. Positioned(NextPosition) = Placed(C)
    BY <1>6, <1>8 DEF Positioned, NextPosition, Placed, Innerlabel
  <2>. QED  BY <1>6, <1>11, <2>1, <2>2
<1> HIDE DEF rec, id, C, D
<1>13. Ends(C, D, instr)
  <2>1. /\ ~C.ended /\ ~D.ended /\ C.now \in Notes /\ Sound(C.now) /\ Sound(D.now)
        /\ D.source = Append(C.source, instr) /\ D.noted = Append(C.noted, C.now)
        /\ Len(C.now.labels) > 1 /\ Len(D.now.labels) = Len(C.now.labels) - 1
        /\ D.now.types = Closed(C.now)
    BY <1>3, <1>4, <1>6, <1>8, <1>11
  <2>2. /\ \A k \in 1 .. Len(C.now.labels) - 1 : D.now.labels[k] = C.now.labels[k]
        /\ Innermost(C.now).kind = "If" => Innermost(C.now).sig = <<>>
        /\ AllLive(C.now) => C.now.types = Closed(C.now)
        /\ D.labelStack = Front(C.labelStack)
    BY <1>3, <1>4, <1>6, <1>8, <1>11
  <2>. QED  BY <1>5, <1>12, <2>1, <2>2 DEF Ends
<1>14. EmittedInv(D) /\ LabelInv(D) /\ AccessInv(D)
  <2>1. Grows(C, D, instr)
    BY <1>7, <1>13, EndsGrows
  <2>. QED  BY <1>7, <1>13, <2>1, EmittedGrows, EndsLabels, EndsAccess
<1>15. ASSUME CodeInv(C) PROVE CodeInv(D)
  BY <1>7, <1>13, <1>15, EndsCode
<1>. QED  BY <1>1, <1>2, <1>10, <1>14, <1>15 DEF Advances, C, D

\* EndFunctionBody
LEMMA FinishStep ==
  ASSUME ReadInv, EndFunctionBody
  PROVE  \/ GiveUp
         \/ phase' = "running" /\ LoadedInv' /\ (CodeInv(Code) => CodeInv(Code'))
<1> SUFFICES ASSUME ~GiveUp PROVE phase' = "running" /\ LoadedInv' /\ (CodeInv(Code) => CodeInv(Code'))
  OBVIOUS
<1> DEFINE instr == Plain("end")
           closed == CloseLabel(checker)
           condition == TopLabel(checker).kind = "Func"
           checked == EndFunction(checker)
           n == Len(checker.labels)
           C == Code
           D == Code'
<1>1. /\ checked.ok /\ checker' = checked /\ opcodes' = Patched(Positioned(NextPosition))
      /\ source' = Append(source, instr) /\ noted' = Append(noted, Note) /\ phase' = "running"
  BY DEF EndFunctionBody
<1>2. checker \in Checkers /\ checker.ok /\ Sound(checker) /\ phase = "reading"
  BY ReadingIs DEF ReadInv
<1>3. closed.ok /\ condition
  <2>1. checked = Require(closed, condition) /\ condition \in BOOLEAN
    BY DEF EndFunction
  <2> HIDE DEF checked, condition
  <2>. QED  BY <1>1, <1>2, <2>1, CloseMore
<1>4. AllLive(checker) => checker.types = Closed(checker)
  BY <1>2, <1>3, CloseIs
<1> HIDE DEF checked, closed
<1>5. instr \in Instructions /\ instr.op = "end"
  <2>1. "end" \in Opcodes /\ <<>> \in Seq(ValueTypes) /\ <<>> \in Seq(Nat)
    BY DEF Opcodes
  <2>. QED  BY <2>1 DEF Instr, Instructions, Plain
<1>6. /\ C.opcodes = opcodes /\ C.source = source /\ C.noted = noted /\ C.now = NoteOf(checker)
      /\ C.labels = labels /\ C.labelStack = labelStack /\ ~C.ended
      /\ C.now \in Notes /\ Sound(C.now) /\ C.now.types = checker.types /\ C.now.labels = checker.labels
      /\ AllLive(C.now) <=> AllLive(checker)
      /\ Innermost(C.now) = Innermost(checker) /\ Closed(C.now) = Closed(checker)
  BY CodeIs, ReadingIs, NoteIs
<1>7. EmittedInv(C) /\ LabelInv(C) /\ AccessInv(C)
  BY DEF ReadInv
<1>8. n = 1 /\ Innermost(checker).sig = Results /\ Innermost(checker).limit = 0
  <2>1. Len(checker.labels) \in Nat \ {0} /\ TopLabel(checker) = checker.labels[n] /\ Innermost(checker) = checker.labels[n]
    BY <1>2, SoundStacks DEF TopLabel
  <2>2. n = 1
    <3>1. \A k \in 1 .. n : checker.labels[k].kind = "Func" <=> k = 1
      BY <1>2 DEF Sound
    <3>2. n \in 1 .. n /\ checker.labels[n].kind = "Func"
      BY <1>3, <2>1
    <3>. QED  BY <3>1, <3>2, Zenon
  <2>. QED  BY <1>2, <2>1, <2>2 DEF Sound
<1>9. Closed(checker) = Results
  <2>1. checker.types \in Seq(Types) /\ Results \in Seq(ValueTypes)
    BY <1>2, SoundStacks, ResultShape
  <2>2. SubSeq(checker.types, 1, 0) = <<>> /\ <<>> \o Results = Results
    BY <2>1
  <2>. QED  BY <1>8, <2>2, Zenon DEF Closed
<1>10. Len(labelStack) = 1 /\ Last(labelStack) = labelStack[1]
  <2>1. Len(labelStack) = n
    BY <1>6, <1>7 DEF LabelInv, OpenLabels
  <2>. QED  BY <1>8, <2>1 DEF Last
<1> HIDE DEF instr
<1>11. /\ D.opcodes = Patched(Positioned(NextPosition)) /\ D.source = Append(source, instr)
       /\ D.noted = Append(noted, C.now) /\ D.ended
  <2>1. D.noted = Append(noted, NoteOf(checker))
    BY <1>1, CodeWillBe DEF Note, NoteOf
  <2>. QED  BY <1>1, <1>6, <2>1, CodeWillBe
<1>12. D.opcodes = [p \in 1 .. Len(C.opcodes) |-> PatchedRec(C, C.opcodes[p])]
  <2>1. Positioned(NextPosition) = Placed(C)
    BY <1>6, <1>8, <1>10 DEF Positioned, NextPosition, Placed, Innerlabel
  <2>2. DOMAIN opcodes = 1 .. Len(opcodes)
    <3>1. opcodes \in Seq(OpcodeRecs)
      BY <1>6, <1>7 DEF EmittedInv
    <3>. QED  BY <3>1
  <2>. QED  BY <1>6, <1>11, <2>1, <2>2 DEF Patched, PatchedRec
<1>13. D.opcodes = opcodes' /\ D.source = source' /\ D.noted = noted'
  BY CodeWillBe
<1> HIDE DEF C, D
<1>14. Finishes(C, D, instr)
  BY <1>4, <1>5, <1>6, <1>8, <1>11, <1>12 DEF Finishes
<1>15. Grows(C, D, instr)
  BY <1>7, <1>14, FinishesGrows
<1>16. EmittedInv(D) /\ AccessInv(D)
  BY <1>7, <1>14, <1>15, EmittedGrows, FinishesAccess
<1>17. ASSUME CodeInv(C) PROVE CodeInv(D)
  BY <1>7, <1>14, <1>17, FinishesCode
<1>18. BodyEnd'
  <2>1. /\ Len(D.noted) = Len(C.source) + 1 /\ Len(D.source) = Len(C.source) + 1 /\ Len(C.source) \in Nat
        /\ D.noted[Len(C.source) + 1] = C.now /\ D.source[Len(C.source) + 1] = instr
    BY <1>7, <1>15, GrowthIs
  <2>2. source' # <<>> /\ source'[Len(source')].op = "end" /\ noted'[Len(noted')] = C.now
    BY <1>5, <1>13, <2>1
  <2>3. Len(C.now.labels) = 1 /\ (AllLive(C.now) => C.now.types = Results)
    BY <1>4, <1>6, <1>8, <1>9
  <2>. QED  BY <2>2, <2>3 DEF BodyEnd
<1>19. \A p \in DOMAIN opcodes' : opcodes'[p].op \in Jumps => opcodes'[p].v2 # kInvalidIndex
  <2>1. DOMAIN opcodes' = 1 .. Len(opcodes')
    <3>1. D.opcodes \in Seq(OpcodeRecs)
      BY <1>16 DEF EmittedInv
    <3>. QED  BY <1>13, <3>1
  <2>. QED  BY <1>7, <1>13, <1>14, <2>1, FinishesTargets
<1>20. checker'.ok
  BY <1>1
<1>. QED  BY <1>1, <1>16, <1>17, <1>18, <1>19, <1>20 DEF LoadedInv, C, D

-----------------------------------------------------------------------------
(* A body as it is read. *)

\* ReadControl without the end of the body.
LEMMA ControlStep ==
  ASSUME ReadInv, ReadControl
  PROVE  GiveUp \/ Advances
<1>1. CASE \E sig \in BlockTypes : OnBlockExpr(sig) \/ OnLoopExpr(sig) \/ OnIfExpr(sig)
  BY <1>1, BlockStep, LoopStep, IfStep
<1>2. CASE OnElseExpr \/ OnEndExpr \/ OnReturnExpr \/ OnUnreachableExpr
  BY <1>2, ElseStep, EndStep, ReturnStep, UnreachableStep
<1>3. CASE \E depth \in Depths : OnBrExpr(depth) \/ OnBrIfExpr(depth)
  <2>1. PICK depth \in Depths : OnBrExpr(depth) \/ OnBrIfExpr(depth)
    BY <1>3
  <2>2. depth \in Nat
    BY DEF Depths
  <2>. QED  BY <2>1, <2>2, BrStep, BrIfStep
<1>4. CASE \E depths \in BrTables : OnBrTableExpr(depths)
  BY <1>4, BrTableStep
<1>. QED  BY <1>1, <1>2, <1>3, <1>4 DEF ReadControl

\* Every handler gives the module up, or goes on with a checker and labels that agree.
LEMMA ReadStep ==
  ASSUME ReadInv, Read
  PROVE  \/ GiveUp
         \/ Advances
         \/ phase' = "running" /\ LoadedInv' /\ (CodeInv(Code) => CodeInv(Code'))
<1>1. CASE OnAtomicWaitExpr
  BY <1>1 DEF OnAtomicWaitExpr
<1>2. CASE EndFunctionBody
  BY <1>2, FinishStep
<1>. QED  BY <1>1, <1>2, ControlStep, OperandsStep, OperatorStep DEF Read

\* The empty body.
LEMMA BeginIs ==
  ASSUME BeginFunctionBody
  PROVE  ReadInv /\ CodeInv(Code)
<1> DEFINE construct == [kind |-> "Func", sig |-> Results, limit |-> 0, unreachable |-> FALSE]
           label == Label(Len(Results), 0, kInvalidIndex, kInvalidIndex)
           C == Code
<1>1. /\ phase = "reading" /\ opcodes = <<>> /\ labels = <<label>> /\ labelStack = <<1>>
      /\ source = <<>> /\ noted = <<>> /\ checker = BeginFunction(Results)
  BY DEF BeginFunctionBody
<1>2. checker = [types |-> <<>>, labels |-> <<construct>>, ok |-> TRUE]
  <2>1. Append(<<>>, construct) = <<construct>>
    OBVIOUS
  <2>. QED  BY <1>1, <2>1, Zenon DEF BeginFunction, PushLabel
<1>3. construct \in Constructs
  <2>1. Results \in Seq(ValueTypes) /\ "Func" \in LabelKinds
    BY ResultShape DEF LabelKinds
  <2>. QED  BY <2>1 DEF Constructs
<1>4. <<construct>> \in Seq(Constructs) /\ Len(<<construct>>) = 1 /\ <<construct>>[1] = construct /\ <<>> \in Seq(Types)
  BY <1>3
<1>5. construct.kind = "Func" /\ construct.sig = Results /\ construct.limit = 0 /\ ~construct.unreachable
  OBVIOUS
<1>6. label \in LabelRecs /\ label.results = Len(Results) /\ label.stack = 0 /\ label.offset = kInvalidIndex
  <2>1. Len(Results) \in Nat /\ kInvalidIndex \in Int /\ 0 \in Nat
    BY ResultShape DEF kInvalidIndex
  <2>. QED  BY <2>1 DEF Label, LabelRecs
<1> HIDE DEF construct, label
<1>7. /\ checker.types = <<>> /\ checker.labels = <<construct>> /\ checker.ok
      /\ checker \in [types : Seq(Types), labels : Seq(Constructs), ok : {TRUE}]
  BY <1>2, <1>4
<1>8. Sound(checker)
  BY <1>4, <1>5, <1>7 DEF Sound
<1>9. /\ C.opcodes = <<>> /\ C.source = <<>> /\ C.noted = <<>> /\ C.labels = <<label>> /\ C.labelStack = <<1>>
      /\ ~C.ended /\ C.now.types = <<>> /\ C.now.labels = <<construct>>
  BY <1>1, <1>7, CodeIs, NoteIs
<1>10. Checked
  BY <1>7, <1>8, Zenon DEF Checked
<1> HIDE DEF C
<1>11. EmittedInv(C)
  BY <1>9 DEF EmittedInv
<1>12. LabelInv(C)
  <2> DEFINE one == <<construct>>
             only == <<label>>
             stackOf == <<1>>
  <2>1. /\ Len(one) = 1 /\ one[1] = construct /\ Len(only) = 1 /\ only[1] = label /\ only \in Seq(LabelRecs)
        /\ Len(stackOf) = 1 /\ stackOf[1] = 1 /\ stackOf \in Seq(1 .. 1)
    BY <1>6
  <2>2. C.labels = only /\ C.labelStack = stackOf /\ C.now.labels = one /\ Len(C.opcodes) = 0
    BY <1>9
  <2> HIDE DEF one, only, stackOf
  <2>3. /\ \A k \in 1 .. Len(stackOf) : k = 1 /\ stackOf[k] = 1 /\ C.labels[stackOf[k]] = label /\ C.now.labels[k] = construct
        /\ construct.kind # "Loop" /\ construct.kind # "If"
    BY <1>5, <2>1, <2>2, SMTT(20)
  <2>4. OpenLabels(C)
    <3>1. \A j, k \in 1 .. Len(C.labelStack) : C.labelStack[j] = C.labelStack[k] => j = k
      BY <2>2, <2>3
    <3>2. Len(C.labelStack) = Len(C.now.labels)
      BY <2>1, <2>2, Zenon
    <3>3. ASSUME NEW k \in 1 .. Len(C.labelStack)
          PROVE  /\ C.labels[C.labelStack[k]].stack = C.now.labels[k].limit
                 /\ C.labels[C.labelStack[k]].results = Len(C.now.labels[k].sig)
                 /\ C.labels[C.labelStack[k]].offset = kInvalidIndex
                 /\ C.now.labels[k].kind # "Loop" /\ C.now.labels[k].kind # "If"
      <4>1. C.labels[C.labelStack[k]] = label /\ C.now.labels[k] = construct
        BY <2>2, <2>3, <3>3
      <4>. QED  BY <1>5, <1>6, <2>3, <4>1
    <3>. QED  BY <3>1, <3>2, <3>3 DEF OpenLabels
  <2>5. PlacedLabels(C)
    <3>1. ASSUME NEW id \in 1 .. Len(C.labels)
          PROVE  id = 1 /\ C.labels[id] = label
      <4>1. Len(C.labels) = 1 /\ C.labels[1] = label
        BY <2>1, <2>2
      <4>2. id = 1
        BY <4>1
      <4>. QED  BY <4>1, <4>2
    <3>2. 1 \in 1 .. Len(C.labelStack) /\ C.labelStack[1] = 1
      BY <2>1, <2>2
    <3>. QED  BY <1>6, <3>1, <3>2 DEF PlacedLabels
  <2>6. JumpLabels(C)
    BY <2>2 DEF JumpLabels
  <2>. QED  BY <2>1, <2>2, <2>4, <2>5, <2>6 DEF LabelInv
<1>13. AccessInv(C)
  BY <1>9 DEF AccessInv
<1>14. CodeInv(C)
  <2>1. Len(C.opcodes) = 0 /\ Len(C.labelStack) = 1 /\ Len(C.now.labels) = 1 /\ C.now.labels[1] = construct
    BY <1>4, <1>9
  <2>2. Arrives(C, 1, <<>>)
    <3>1. Starts(C, 1)
      BY <2>1 DEF Starts
    <3>2. Known(C, 1) = C.now /\ ~AtEnd(C, 1)
      BY <1>9, <2>1 DEF Known, AtEnd
    <3>3. AllLive(C.now)
      BY <1>5, <2>1 DEF AllLive, Live
    <3>. QED  BY <1>9, <3>1, <3>2, <3>3 DEF Arrives
  <2>3. LoopInv(C)
    BY <1>5, <2>1 DEF LoopInv
  <2>. QED  BY <2>1, <2>2, <2>3 DEF CodeInv
<1>. QED  BY <1>1, <1>10, <1>11, <1>12, <1>13, <1>14 DEF ReadInv, C

-----------------------------------------------------------------------------
(* The invariant of the compiler. *)

\* A step of the loop changes nothing that has been compiled.
LEMMA RunIs ==
  ASSUME Run
  PROVE  phase = "running" /\ phase' \in {"running", "returned", "trapped"} /\ UNCHANGED compilerVars
<1>1. CASE ExecConst \/ ExecDrop \/ ExecSelect \/ ExecGetLocal \/ ExecSetLocal \/ ExecTeeLocal \/ ExecGetGlobal
             \/ ExecGetStack \/ ExecSetGlobal \/ ExecSetStack
  <2>1. phase = "running"
    BY <1>1 DEF ExecConst, ExecDrop, ExecSelect, ExecGetLocal, ExecSetLocal, ExecTeeLocal, ExecGetGlobal,
                ExecGetStack, ExecSetGlobal, ExecSetStack, At, Running
  <2>2. (\E s : Advance(s)) \/ Trap \/ (\E g : StoreGlobal(g))
    BY <1>1 DEF ExecConst, ExecDrop, ExecSelect, ExecGetLocal, ExecSetLocal, ExecTeeLocal, ExecGetGlobal,
                ExecGetStack, ExecSetGlobal, ExecSetStack
  <2>. QED  BY <2>1, <2>2 DEF Advance, Trap, StoreGlobal
<1>2. CASE ExecUnop \/ ExecBinop \/ ExecBinopTrap \/ ExecConvert \/ ExecCurrentMemory \/ ExecGrowMemory \/ ExecCall
             \/ ExecLoad \/ ExecStore \/ ExecAtomicLoad \/ ExecAtomicStore \/ ExecAtomicRmw \/ ExecAtomicRmwCmpxchg
  <2>1. (\E classes : CurrentClass(classes)) /\ (Operate \/ Trap)
    BY <1>2 DEF ExecUnop, ExecBinop, ExecBinopTrap, ExecConvert, ExecCurrentMemory, ExecGrowMemory, ExecCall,
                Access, ExecLoad, ExecStore, ExecAtomicLoad, ExecAtomicStore, ExecAtomicRmw, ExecAtomicRmwCmpxchg
  <2>. QED  BY <2>1 DEF CurrentClass, Running, Operate, Advance, Trap
<1>3. CASE ExecControl
  <2>1. phase = "running"
    BY <1>3 DEF ExecControl, ExecBr, ExecBrIf, ExecIf, ExecBrTable, ExecEnd, ExecReturn, ExecUnreachable,
                ImplicitReturn, At, Running
  <2>2. (\E p, s : JumpTo(p, s)) \/ (\E s : Advance(s)) \/ Trap \/ (\E n : PopCall(n))
    BY <1>3 DEF ExecControl, ExecBr, ExecBrIf, ExecIf, ExecBrTable, ExecEnd, ExecReturn, ExecUnreachable, ImplicitReturn
  <2>. QED  BY <2>1, <2>2 DEF JumpTo, Advance, Trap, PopCall
<1>. QED  BY <1>1, <1>2, <1>3 DEF Run, ExecOperands

\* The phases exclude one another.
LEMMA InvReading ==
  ASSUME CompilerInv, phase = "reading"
  PROVE  ReadInv /\ Untouched
BY DEF CompilerInv, GivenUp, Loaded

\* Nor is anything changed once it is loaded.
LEMMA InvLoaded ==
  ASSUME CompilerInv, Loaded
  PROVE  LoadedInv
BY DEF CompilerInv, GivenUp, ReadInv, Loaded

\* Giving up forgets what has been compiled.
LEMMA GivesUp ==
  ASSUME GiveUp
  PROVE  GivenUp'
BY DEF GiveUp, GivenUp, BeginFunction, PushLabel

\* The invariant holds of the empty body
LEMMA CompilerInit ==
  ASSUME Init
  PROVE  CompilerInv
<1>1. ReadInv
  BY BeginIs DEF Init
<1>2. Untouched
  BY DEF Init, Untouched
<1>. QED  BY <1>1, <1>2 DEF CompilerInv

\* and every step keeps it.
LEMMA CompilerNext ==
  ASSUME CompilerInv, [Next]_vars
  PROVE  CompilerInv'
<1>1. CASE Read /\ UNCHANGED <<pc, stack, globals>>
  <2>1. ReadInv /\ Untouched
    BY <1>1, InvReading DEF Read
  <2>2. Untouched'
    BY <1>1, <2>1 DEF Untouched
  <2>3. CASE GiveUp
    BY <2>2, <2>3, GivesUp DEF CompilerInv
  <2>4. CASE Advances
    <3>1. ReadInv'
      BY <2>4 DEF Advances, ReadInv
    <3>. QED  BY <2>2, <3>1 DEF CompilerInv
  <2>5. CASE phase' = "running" /\ LoadedInv'
    BY <2>5 DEF CompilerInv, Loaded
  <2>. QED  BY <1>1, <2>1, <2>3, <2>4, <2>5, ReadStep
<1>2. CASE Run
  <2>1. phase = "running" /\ phase' \in {"running", "returned", "trapped"} /\ UNCHANGED compilerVars
    BY <1>2, RunIs
  <2>2. LoadedInv
    BY <2>1, InvLoaded DEF Loaded
  <2>3. Code' = Code
    BY <2>1 DEF Code, Note, compilerVars
  <2>4. LoadedInv'
    BY <2>1, <2>2, <2>3 DEF LoadedInv, BodyEnd, compilerVars
  <2>. QED  BY <2>1, <2>4 DEF CompilerInv, Loaded
<1>3. CASE UNCHANGED vars
  <2>1. Code' = Code
    BY <1>3 DEF Code, Note, vars
  <2>2. UNCHANGED <<ReadInv, LoadedInv, GivenUp, Untouched, Loaded>>
    BY <1>3, <2>1 DEF vars, ReadInv, LoadedInv, GivenUp, Untouched, Loaded, Checked, BodyEnd
  <2>. QED  BY <2>2 DEF CompilerInv
<1>. QED  BY <1>1, <1>2, <1>3 DEF Next

\* The checker's stacks are sound, the compiler's labels are in step with them, and every
\* opcode, jump and access is what its instruction says.
THEOREM CompilerInvariant == Spec => []CompilerInv
<1>. QED  BY CompilerInit, CompilerNext, PTL DEF Spec

\* The compiler's labels and the checker's are pushed and popped in different classes; they
\* agree on how high every construct stands and on how many results it leaves.
THEOREM LabelsAgree == Spec => []LabelsInStep
<1>1. ASSUME CompilerInv PROVE LabelsInStep
  <2>. SUFFICES ASSUME phase = "reading"
                PROVE  /\ Len(labelStack) = Len(checker.labels)
                       /\ \A k \in DOMAIN labelStack :
                            /\ labels[labelStack[k]].stack = checker.labels[k].limit
                            /\ labels[labelStack[k]].results = Len(checker.labels[k].sig)
    BY DEF LabelsInStep
  <2>1. LabelInv(Code)
    BY <1>1, InvReading DEF ReadInv
  <2>2. /\ Code.labels = labels /\ Code.labelStack = labelStack /\ Code.now.labels = checker.labels
    BY CodeIs, NoteIs
  <2>3. DOMAIN labelStack = 1 .. Len(labelStack)
    <3>1. labelStack \in Seq(1 .. Len(labels))
      BY <2>1, <2>2 DEF LabelInv
    <3>. QED  BY <3>1
  <2>. QED  BY <2>1, <2>2, <2>3 DEF LabelInv, OpenLabels
<1>. QED  BY <1>1, CompilerInvariant, PTL
-----------------------------------------------------------------------------
(* The stack of values. *)

\* Values of given types.
LEMMA ValuesAre ==
  ASSUME NEW n \in Nat, NEW types \in Seq(ValueTypes), NEW src \in 0 .. n
  PROVE  /\ Values(types, src) \in Seq(ValuesOf(n)) /\ Len(Values(types, src)) = Len(types)
         /\ \A i \in 1 .. Len(types) : Values(types, src)[i].type = types[i]
<1>1. /\ DOMAIN types = 1 .. Len(types) /\ Len(types) \in Nat
      /\ \A i \in 1 .. Len(types) : types[i] \in ValueTypes
  OBVIOUS
<1>2. \A i \in 1 .. Len(types) : Value(types[i], src) \in ValuesOf(n) /\ Value(types[i], src).type = types[i]
  BY <1>1 DEF Value, ValuesOf
<1>3. Values(types, src) = [i \in 1 .. Len(types) |-> Value(types[i], src)]
  BY <1>1 DEF Values
<1> DEFINE f == [i \in 1 .. Len(types) |-> Value(types[i], src)]
<1>4. f \in [1 .. Len(types) -> ValuesOf(n)]
  BY <1>2
<1>5. f \in Seq(ValuesOf(n)) /\ Len(f) = Len(types)
  BY <1>1, <1>4
<1>6. \A i \in 1 .. Len(types) : f[i].type = types[i]
  BY <1>2
<1>. QED  BY <1>3, <1>5, <1>6

\* The values that stay below the top n ones and others above them.
LEMMA JoinTyped ==
  ASSUME NEW S, NEW s \in Seq(S), NEW types \in Seq(ValueTypes), Typed(s, types), NEW n \in Nat, n <= Len(types),
         NEW vals \in Seq(S), NEW new \in Seq(ValueTypes), Len(vals) = Len(new),
         \A i \in 1 .. Len(new) : vals[i].type = new[i]
  PROVE  /\ SubSeq(s, 1, Len(s) - n) \o vals \in Seq(S)
         /\ Typed(SubSeq(s, 1, Len(s) - n) \o vals, SubSeq(types, 1, Len(types) - n) \o new)
<1> DEFINE L == Len(LocalTypes)
           m == Len(types)
           low == SubSeq(s, 1, Len(s) - n)
           rest == SubSeq(types, 1, m - n)
           t == low \o vals
           u == rest \o new
<1>1. L \in Nat /\ m \in Nat /\ Len(s) = L + m /\ Len(s) \in Nat /\ Len(new) \in Nat
  BY ValueShape DEF Typed
<1>2. /\ low \in Seq(S) /\ Len(low) = L + m - n /\ \A i \in 1 .. L + m - n : low[i] = s[i]
      /\ rest \in Seq(ValueTypes) /\ Len(rest) = m - n /\ \A i \in 1 .. m - n : rest[i] = types[i]
  <2>1. Len(s) - n \in 0 .. Len(s) /\ m - n \in 0 .. m
    BY <1>1
  <2>. QED  BY <1>1, <2>1
<1>3. \A i \in 1 .. L : s[i].type = LocalTypes[i]
  BY DEF Typed
<1>4. \A i \in 1 .. m : s[L + i].type = types[i]
  BY DEF Typed
<1> HIDE DEF low, rest
<1>5. /\ t \in Seq(S) /\ Len(t) = L + m - n + Len(new)
      /\ \A i \in 1 .. L + m - n : t[i] = low[i]
      /\ \A i \in 1 .. Len(new) : t[L + m - n + i] = vals[i]
  <2>1. low \in Seq(S) /\ vals \in Seq(S)
    BY <1>2
  <2>2. Len(t) = Len(low) + Len(vals) /\ t \in Seq(S)
    BY <2>1, JoinedIs, Zenon
  <2>3. \A i \in 1 .. Len(low) : t[i] = low[i]
    BY <2>1, JoinedIs
  <2>4. \A i \in 1 .. Len(vals) : t[Len(low) + i] = vals[i]
    BY <2>1, JoinedIs
  <2>. QED  BY <1>1, <1>2, <2>2, <2>3, <2>4, Zenon
<1>6. /\ u \in Seq(ValueTypes) /\ Len(u) = m - n + Len(new)
      /\ \A i \in 1 .. m - n : u[i] = rest[i]
      /\ \A i \in 1 .. Len(new) : u[m - n + i] = new[i]
  <2>1. rest \in Seq(ValueTypes) /\ new \in Seq(ValueTypes)
    BY <1>2
  <2>2. Len(u) = Len(rest) + Len(new) /\ u \in Seq(ValueTypes)
    BY <2>1, JoinedIs
  <2>3. \A i \in 1 .. Len(rest) : u[i] = rest[i]
    BY <2>1, JoinedIs
  <2>4. \A i \in 1 .. Len(new) : u[Len(rest) + i] = new[i]
    BY <2>1, JoinedIs
  <2>. QED  BY <1>1, <1>2, <2>2, <2>3, <2>4, Zenon
<1> HIDE DEF t, u
<1>7. \A i \in 1 .. L : t[i].type = LocalTypes[i]
  <2> SUFFICES ASSUME NEW i \in 1 .. L PROVE t[i].type = LocalTypes[i]
    OBVIOUS
  <2>1. i \in 1 .. L + m - n
    BY <1>1
  <2>. QED  BY <1>2, <1>3, <1>5, <2>1
<1>8. \A i \in 1 .. Len(u) : t[L + i].type = u[i]
  <2> SUFFICES ASSUME NEW i \in 1 .. Len(u) PROVE t[L + i].type = u[i]
    OBVIOUS
  <2>1. CASE i <= m - n
    <3>1. i \in 1 .. m - n /\ i \in 1 .. m /\ L + i \in 1 .. L + m - n
      BY <1>1, <1>6, <2>1
    <3>2. t[L + i] = s[L + i] /\ u[i] = types[i]
      BY <1>2, <1>5, <1>6, <3>1, Zenon
    <3>. QED  BY <1>4, <3>1, <3>2, Zenon
  <2>2. CASE i > m - n
    <3> DEFINE j == i - (m - n)
    <3>1. j \in 1 .. Len(new) /\ L + i = L + m - n + j /\ i = m - n + j
      BY <1>1, <1>6, <2>2
    <3> HIDE DEF j
    <3>2. t[L + i] = vals[j] /\ u[i] = new[j]
      BY <1>5, <1>6, <3>1
    <3>. QED  BY <3>1, <3>2
  <2>. QED  BY <1>1, <1>6, <2>1, <2>2
<1>9. Typed(t, u)
  BY <1>1, <1>5, <1>6, <1>7, <1>8 DEF Typed
<1>. QED  BY <1>5, <1>9 DEF t, u, low, rest

\* A local set to a value of its type.
LEMMA SetTyped ==
  ASSUME NEW S, NEW s \in Seq(S), NEW types \in Seq(ValueTypes), Typed(s, types),
         NEW index \in DOMAIN LocalTypes, NEW v \in S, v.type = LocalTypes[index]
  PROVE  [s EXCEPT ![index] = v] \in Seq(S) /\ Typed([s EXCEPT ![index] = v], types)
<1> DEFINE L == Len(LocalTypes)
           t == [s EXCEPT ![index] = v]
<1>1. L \in Nat /\ Len(types) \in Nat /\ Len(s) = L + Len(types) /\ index \in 1 .. L
  BY ValueShape DEF Typed
<1>2. index \in 1 .. Len(s)
  BY <1>1
<1>3. t \in Seq(S) /\ Len(t) = Len(s) /\ t[index] = v /\ \A i \in 1 .. Len(s) : i # index => t[i] = s[i]
  BY <1>1, <1>2
<1> HIDE DEF t
<1>4. \A i \in 1 .. L : t[i].type = LocalTypes[i]
  <2> SUFFICES ASSUME NEW i \in 1 .. L PROVE t[i].type = LocalTypes[i]
    OBVIOUS
  <2>1. i \in 1 .. Len(s)
    BY <1>1
  <2>. QED  BY <1>3, <2>1 DEF Typed
<1>5. \A i \in 1 .. Len(types) : t[L + i].type = types[i]
  <2> SUFFICES ASSUME NEW i \in 1 .. Len(types) PROVE t[L + i].type = types[i]
    OBVIOUS
  <2>1. L + i \in 1 .. Len(s) /\ L + i # index
    BY <1>1
  <2>2. t[L + i] = s[L + i]
    BY <1>3, <2>1
  <2>. QED  BY <2>2 DEF Typed
<1>. QED  BY <1>1, <1>3, <1>4, <1>5 DEF Typed, t

\* The value at a depth, and the ones above it.
LEMMA TopTyped ==
  ASSUME StackInv, NEW types \in Seq(ValueTypes), Typed(stack, types), NEW d \in 1 .. Len(types)
  PROVE  Pick(d) \in ValuesOf(Len(source)) /\ Pick(d).type = types[Len(types) - d + 1]
<1>1. /\ Len(LocalTypes) \in Nat /\ Len(types) \in Nat /\ Len(stack) = Len(LocalTypes) + Len(types)
      /\ stack \in Seq(ValuesOf(Len(source)))
  BY ValueShape DEF Typed, StackInv
<1>2. /\ Len(stack) - d + 1 \in 1 .. Len(stack) /\ Len(stack) - d + 1 = Len(LocalTypes) + (Len(types) - d + 1)
      /\ Len(types) - d + 1 \in 1 .. Len(types)
  BY <1>1
<1>3. stack[Len(LocalTypes) + (Len(types) - d + 1)].type = types[Len(types) - d + 1]
  BY <1>2, Zenon DEF Typed
<1>. QED  BY <1>1, <1>2, <1>3 DEF Pick

\* The values on top have the types that the operands end with.
LEMMA TopsTyped ==
  ASSUME StackInv, NEW types \in Seq(ValueTypes), Typed(stack, types), NEW sig \in Seq(ValueTypes), EndsWith(types, sig)
  PROVE  /\ Top(Len(sig)) \in Seq(ValuesOf(Len(source))) /\ Len(Top(Len(sig))) = Len(sig)
         /\ \A i \in 1 .. Len(sig) : Top(Len(sig))[i].type = sig[i]
<1> DEFINE L == Len(LocalTypes)
           m == Len(types)
           n == Len(sig)
           t == Top(n)
<1>1. L \in Nat /\ m \in Nat /\ n \in Nat /\ n <= m /\ Len(stack) = L + m /\ stack \in Seq(ValuesOf(Len(source)))
  BY ValueShape DEF Typed, StackInv, EndsWith
<1>2. t = SubSeq(stack, L + m - n + 1, L + m)
  BY <1>1 DEF Top
<1>3. t \in Seq(ValuesOf(Len(source))) /\ Len(t) = n /\ \A i \in 1 .. n : t[i] = stack[L + m - n + i]
  <2>1. L + m - n + 1 \in 1 .. Len(stack) + 1
    BY <1>1
  <2>. QED  BY <1>1, <1>2, <2>1
<1> HIDE DEF t
<1>4. ASSUME NEW i \in 1 .. n PROVE t[i].type = sig[i]
  <2>1. m - n + i \in 1 .. m /\ L + m - n + i = L + (m - n + i) /\ i \in DOMAIN sig
    BY <1>1
  <2>2. types[m - n + i] = sig[i]
    BY <2>1 DEF EndsWith
  <2>3. stack[L + (m - n + i)].type = types[m - n + i]
    BY <2>1, Zenon DEF Typed
  <2>. QED  BY <1>3, <2>1, <2>2, <2>3, Zenon
<1>. QED  BY <1>3, <1>4 DEF t
-----------------------------------------------------------------------------
(* The opcodes that are executed and go on to the next. *)

\* The opcode at hand finds what the checker knew, and leads on from there.
LEMMA CurrentIs ==
  ASSUME CompilerInv, ExecInv, Running
  PROVE  /\ phase = "running" /\ LoadedInv /\ pc \in 1 .. Len(opcodes) /\ Len(opcodes) \in Nat
         /\ opcodes[pc] \in OpcodeRecs /\ opcodes[pc].src \in 1 .. Len(source) /\ Len(source) \in Nat
         /\ source[opcodes[pc].src] \in Instructions
         /\ opcodes[pc].op # "end" =>
              /\ Known(Code, pc).types \in Seq(ValueTypes) /\ Typed(stack, Known(Code, pc).types)
              /\ Leads(Code, pc) /\ AllLive(Known(Code, pc))
<1>1. phase = "running" /\ pc <= Len(opcodes) /\ LoadedInv /\ CodeInv(Code) /\ OperandsInv
  BY InvLoaded DEF Running, Loaded, ExecInv
<1>2. Code.opcodes = opcodes /\ Code.source = source /\ EmittedInv(Code)
  BY <1>1, CodeIs DEF LoadedInv
<1>3. /\ opcodes \in Seq(OpcodeRecs) /\ source \in Seq(Instructions)
      /\ \A p \in 1 .. Len(opcodes) : opcodes[p].src \in 1 .. Len(source)
  BY <1>2 DEF EmittedInv, Emitted
<1>4. PICK types \in Seq(ValueTypes) : Typed(stack, types) /\ Arrives(Code, pc, types)
  BY <1>1 DEF OperandsInv
<1>5. Starts(Code, pc) /\ pc \in 1 .. Len(opcodes) + 1 /\ Len(opcodes) \in Nat /\ Len(source) \in Nat
  BY <1>2, <1>3, <1>4 DEF Arrives, Starts
<1>6. pc \in 1 .. Len(opcodes)
  BY <1>1, <1>5
<1>7. opcodes[pc] \in OpcodeRecs /\ opcodes[pc].src \in 1 .. Len(source)
  BY <1>3, <1>6
<1>8. source[opcodes[pc].src] \in Instructions
  BY <1>3, <1>7
<1>9. AtEnd(Code, pc) <=> opcodes[pc].op = "end"
  BY <1>2, <1>6 DEF AtEnd
<1>10. ASSUME opcodes[pc].op # "end"
       PROVE  AllLive(Known(Code, pc)) /\ types = Known(Code, pc).types /\ Leads(Code, pc)
  <2>1. AllLive(Known(Code, pc)) /\ types = Known(Code, pc).types
    BY <1>4, <1>9, <1>10 DEF Arrives
  <2>2. Certified(Code, pc)
    BY <1>1, <1>2, <1>6 DEF CodeInv
  <2>. QED  BY <1>5, <1>9, <1>10, <2>1, <2>2 DEF Certified
<1>. QED  BY <1>1, <1>4, <1>5, <1>6, <1>7, <1>8, <1>10

\* A step to where operands of these types are expected.
LEMMA ArriveStep ==
  ASSUME CompilerInv, ExecInv, phase = "running", UNCHANGED <<phase, compilerVars>>, GlobalsInv',
         NEW types \in Seq(ValueTypes), stack' \in Seq(ValuesOf(Len(source))), Typed(stack', types), Arrives(Code, pc', types)
  PROVE  ExecInv'
<1>1. Code' = Code /\ source' = source /\ phase' = "running"
  BY DEF Code, Note, compilerVars
<1>2. CodeInv(Code')
  BY <1>1 DEF ExecInv
<1>3. StackInv'
  BY <1>1 DEF StackInv
<1>4. OperandsInv'
  BY <1>1 DEF OperandsInv
<1>. QED  BY <1>1, <1>2, <1>3, <1>4 DEF ExecInv

\* A step to the next opcode, after which n operands are gone and others come.
LEMMA PassStep ==
  ASSUME CompilerInv, ExecInv, Running, UNCHANGED <<phase, compilerVars>>, GlobalsInv', pc' = pc + 1,
         NEW s \in Seq(ValuesOf(Len(source))), NEW types \in Seq(ValueTypes), Typed(s, types),
         NEW n \in Nat, NEW new \in Seq(ValueTypes), Passes(Code, pc, types, n, new),
         NEW vals \in Seq(ValuesOf(Len(source))), Len(vals) = Len(new), \A i \in 1 .. Len(new) : vals[i].type = new[i],
         stack' = SubSeq(s, 1, Len(s) - n) \o vals
  PROVE  ExecInv'
<1> DEFINE left == SubSeq(types, 1, Len(types) - n) \o new
<1>1. n <= Len(types) /\ Arrives(Code, pc', left)
  BY DEF Passes
<1>2. left \in Seq(ValueTypes)
  <2>1. SubSeq(types, 1, Len(types) - n) \in Seq(ValueTypes)
    BY <1>1
  <2>. QED  BY <2>1
<1>3. stack' \in Seq(ValuesOf(Len(source))) /\ Typed(stack', left)
  BY <1>1, JoinTyped, Zenon
<1> HIDE DEF left
<1>4. phase = "running"
  BY DEF Running
<1>. QED  BY <1>1, <1>2, <1>3, <1>4, ArriveStep

\* A step that leaves the globals alone.
LEMMA GlobalsStay ==
  ASSUME ExecInv, UNCHANGED <<compilerVars, globals>>
  PROVE  GlobalsInv'
BY DEF ExecInv, StackInv, GlobalsInv, compilerVars

\* A trap changes nothing else.
LEMMA TrapStep ==
  ASSUME CompilerInv, ExecInv, phase = "running", Trap
  PROVE  ExecInv'
<1>1. phase' = "trapped" /\ UNCHANGED <<compilerVars, pc, stack, globals>>
  BY DEF Trap
<1>2. Code' = Code
  BY <1>1 DEF Code, Note, compilerVars
<1>3. CodeInv(Code') /\ StackInv'
  BY <1>1, <1>2 DEF ExecInv, StackInv, GlobalsInv, compilerVars
<1>. QED  BY <1>1, <1>3 DEF ExecInv

\* Values pushed on what is left of the stack.
LEMMA AdvanceStep ==
  ASSUME CompilerInv, ExecInv, Running, NEW s \in Seq(ValuesOf(Len(source))), NEW types \in Seq(ValueTypes),
         Typed(s, types), NEW n \in Nat, NEW new \in Seq(ValueTypes), Passes(Code, pc, types, n, new),
         NEW vals \in Seq(ValuesOf(Len(source))), Len(vals) = Len(new), \A i \in 1 .. Len(new) : vals[i].type = new[i],
         Advance(SubSeq(s, 1, Len(s) - n) \o vals)
  PROVE  ExecInv'
<1>1. /\ stack' = SubSeq(s, 1, Len(s) - n) \o vals /\ pc' = pc + 1
      /\ UNCHANGED <<phase, compilerVars>> /\ UNCHANGED globals
  BY DEF Advance
<1>2. GlobalsInv'
  BY <1>1, GlobalsStay
<1>. QED  BY <1>1, <1>2, PassStep, Zenon

\* One value.
LEMMA OneValue ==
  ASSUME NEW S, NEW v \in S
  PROVE  <<v>> \in Seq(S) /\ Len(<<v>>) = 1 /\ \A i \in 1 .. 1 : <<v>>[i] = v
OBVIOUS

\* One value is pushed on what is left.
LEMMA PushStep ==
  ASSUME CompilerInv, ExecInv, Running, NEW types \in Seq(ValueTypes), Typed(stack, types),
         NEW n \in Nat, NEW type \in ValueTypes, Passes(Code, pc, types, n, <<type>>),
         NEW v \in ValuesOf(Len(source)), v.type = type, Advance(Append(Without(n), v))
  PROVE  ExecInv'
<1> DEFINE vals == <<v>>
           new == <<type>>
<1>1. /\ vals \in Seq(ValuesOf(Len(source))) /\ Len(vals) = 1 /\ \A i \in 1 .. 1 : vals[i] = v
      /\ new \in Seq(ValueTypes) /\ Len(new) = 1 /\ \A i \in 1 .. 1 : new[i] = type
  BY OneValue
<1>2. stack \in Seq(ValuesOf(Len(source))) /\ n <= Len(types)
  BY DEF ExecInv, StackInv, Passes
<1>3. Without(n) \in Seq(ValuesOf(Len(source)))
  <2>1. Len(stack) - n \in 0 .. Len(stack)
    <3>1. Len(LocalTypes) \in Nat /\ Len(types) \in Nat /\ Len(stack) = Len(LocalTypes) + Len(types)
      BY ValueShape DEF Typed
    <3>. QED  BY <1>2, <3>1
  <2>. QED  BY <1>2, <2>1 DEF Without
<1>4. Append(Without(n), v) = Without(n) \o vals
  BY <1>3
<1>5. Advance(SubSeq(stack, 1, Len(stack) - n) \o vals)
  BY <1>4, Zenon DEF Without
<1> HIDE DEF vals
<1>6. \A i \in 1 .. Len(new) : vals[i].type = new[i]
  BY <1>1
<1>7. Passes(Code, pc, types, n, new)
  OBVIOUS
<1> HIDE DEF new
<1>. QED  BY <1>1, <1>2, <1>5, <1>6, <1>7, AdvanceStep

\* Nothing is pushed.
LEMMA PopStep ==
  ASSUME CompilerInv, ExecInv, Running, NEW s \in Seq(ValuesOf(Len(source))), NEW types \in Seq(ValueTypes),
         Typed(s, types), NEW n \in Nat, Passes(Code, pc, types, n, <<>>),
         stack' = SubSeq(s, 1, Len(s) - n), pc' = pc + 1, UNCHANGED <<phase, compilerVars>>, GlobalsInv'
  PROVE  ExecInv'
<1>1. n <= Len(types) /\ Len(LocalTypes) \in Nat /\ Len(types) \in Nat /\ Len(s) = Len(LocalTypes) + Len(types)
  BY ValueShape DEF Passes, Typed
<1>2. SubSeq(s, 1, Len(s) - n) \in Seq(ValuesOf(Len(source)))
  <2>1. Len(s) - n \in 0 .. Len(s)
    BY <1>1
  <2>. QED  BY <2>1
<1>3. stack' = SubSeq(s, 1, Len(s) - n) \o <<>>
  BY <1>2
<1> DEFINE none == <<>>
<1>4. none \in Seq(ValuesOf(Len(source))) /\ none \in Seq(ValueTypes) /\ Len(none) = 0
  OBVIOUS
<1>5. Passes(Code, pc, types, n, none) /\ stack' = SubSeq(s, 1, Len(s) - n) \o none
  BY <1>3
<1> HIDE DEF none
<1>6. \A i \in 1 .. Len(none) : none[i].type = none[i]
  BY <1>4
<1>. QED  BY <1>4, <1>5, <1>6, PassStep, Zenon
\* Operate
LEMMA OperateStep ==
  ASSUME CompilerInv, ExecInv, NEW classes, CurrentClass(classes), Operate
  PROVE  ExecInv'
<1> DEFINE rec == opcodes[pc]
           params == Operators[rec.op].params
           results == Operators[rec.op].results
           types == Known(Code, pc).types
           vals == Values(results, rec.src)
<1>1. Running /\ rec.op \in DOMAIN Operators
  BY DEF CurrentClass
<1>2. /\ params \in Seq(ValueTypes) /\ results \in Seq(ValueTypes) /\ rec.op # "end" /\ Len(params) \in Nat
  <2>1. params \in Seq(ValueTypes) /\ results \in Seq(ValueTypes) /\ rec.op \notin Opcodes
    BY <1>1, OperatorShape
  <2>. QED  BY <2>1 DEF Opcodes
<1>3. /\ types \in Seq(ValueTypes) /\ Typed(stack, types) /\ Leads(Code, pc)
      /\ rec.src \in 0 .. Len(source) /\ Len(source) \in Nat
  BY <1>1, <1>2, CurrentIs
<1>4. Passes(Code, pc, types, Len(params), results)
  BY <1>1, <1>3, CodeIs DEF Leads, LeadsOn
<1>5. /\ vals \in Seq(ValuesOf(Len(source))) /\ Len(vals) = Len(results)
      /\ \A i \in 1 .. Len(results) : vals[i].type = results[i]
  BY <1>2, <1>3, ValuesAre, Zenon
<1>6. Advance(SubSeq(stack, 1, Len(stack) - Len(params)) \o vals)
  BY DEF Operate, Without
<1>7. stack \in Seq(ValuesOf(Len(source)))
  BY DEF ExecInv, StackInv
<1> HIDE DEF rec, params, results, types, vals
<1>. QED  BY <1>1, <1>2, <1>3, <1>4, <1>5, <1>6, <1>7, AdvanceStep

\* ExecConst
LEMMA ConstRuns ==
  ASSUME CompilerInv, ExecInv, ExecConst
  PROVE  ExecInv'
<1> DEFINE rec == opcodes[pc]
           sig == source[rec.src].sig
           types == Known(Code, pc).types
           vals == Values(sig, rec.src)
<1>1. Running /\ rec.op = "const" /\ rec.op # "end"
  BY DEF ExecConst, At
<1>2. /\ types \in Seq(ValueTypes) /\ Typed(stack, types) /\ Leads(Code, pc)
      /\ rec.src \in 0 .. Len(source) /\ Len(source) \in Nat /\ source[rec.src] \in Instructions
  BY <1>1, CurrentIs
<1>3. sig \in Seq(ValueTypes)
  BY <1>2 DEF Instructions
<1>4. Passes(Code, pc, types, 0, sig)
  BY <1>1, <1>2, CodeIs DEF Leads, LeadsOn
<1>5. /\ vals \in Seq(ValuesOf(Len(source))) /\ Len(vals) = Len(sig)
      /\ \A i \in 1 .. Len(sig) : vals[i].type = sig[i]
  BY <1>2, <1>3, ValuesAre, Zenon
<1>6. stack \in Seq(ValuesOf(Len(source)))
  BY DEF ExecInv, StackInv
<1>7. SubSeq(stack, 1, Len(stack) - 0) = stack
  BY <1>6
<1>8. Advance(SubSeq(stack, 1, Len(stack) - 0) \o vals)
  BY <1>7, Zenon DEF ExecConst
<1> HIDE DEF rec, sig, types, vals
<1>. QED  BY <1>1, <1>2, <1>3, <1>4, <1>5, <1>6, <1>8, AdvanceStep

\* ExecDrop
LEMMA DropRuns ==
  ASSUME CompilerInv, ExecInv, ExecDrop
  PROVE  ExecInv'
<1> DEFINE types == Known(Code, pc).types
<1>1. Running /\ opcodes[pc].op = "drop" /\ opcodes[pc].op # "end"
  BY DEF ExecDrop, At
<1>2. types \in Seq(ValueTypes) /\ Typed(stack, types) /\ Leads(Code, pc)
  BY <1>1, CurrentIs
<1>3. Passes(Code, pc, types, 1, <<>>)
  BY <1>1, <1>2, CodeIs DEF Leads, LeadsOn
<1>4. /\ stack' = SubSeq(stack, 1, Len(stack) - 1) /\ pc' = pc + 1 /\ UNCHANGED <<phase, compilerVars>>
      /\ UNCHANGED globals
  BY DEF ExecDrop, Advance, Without
<1>5. GlobalsInv' /\ stack \in Seq(ValuesOf(Len(source)))
  BY <1>4, GlobalsStay DEF ExecInv, StackInv
<1> HIDE DEF types
<1>. QED  BY <1>1, <1>2, <1>3, <1>4, <1>5, PopStep

\* ExecSelect
LEMMA SelectRuns ==
  ASSUME CompilerInv, ExecInv, ExecSelect
  PROVE  ExecInv'
<1> DEFINE types == Known(Code, pc).types
           type == types[Len(types) - 1]
<1>1. Running /\ opcodes[pc].op = "select" /\ opcodes[pc].op # "end"
  BY DEF ExecSelect, At
<1>2. types \in Seq(ValueTypes) /\ Typed(stack, types) /\ Leads(Code, pc)
  BY <1>1, CurrentIs
<1>3. Passes(Code, pc, types, 3, <<type>>) /\ types[Len(types) - 2] = type
  BY <1>1, <1>2, CodeIs DEF Leads, LeadsOn
<1>4. Len(types) \in Nat /\ Len(types) >= 3
  BY <1>2, <1>3 DEF Passes
<1>5. type \in ValueTypes
  <2>1. Len(types) - 1 \in 1 .. Len(types)
    BY <1>4
  <2>. QED  BY <1>2, <2>1
<1> HIDE DEF type
<1>6. /\ Pick(3) \in ValuesOf(Len(source)) /\ Pick(3).type = type
      /\ Pick(2) \in ValuesOf(Len(source)) /\ Pick(2).type = type
  <2>1. StackInv
    BY DEF ExecInv
  <2>2. 3 \in 1 .. Len(types) /\ 2 \in 1 .. Len(types) /\ Len(types) - 3 + 1 = Len(types) - 2
        /\ Len(types) - 2 + 1 = Len(types) - 1
    BY <1>4
  <2> HIDE DEF types
  <2>3. Pick(3) \in ValuesOf(Len(source)) /\ Pick(3).type = types[Len(types) - 3 + 1]
    BY <1>2, <2>1, <2>2, TopTyped
  <2>4. Pick(2) \in ValuesOf(Len(source)) /\ Pick(2).type = types[Len(types) - 2 + 1]
    BY <1>2, <2>1, <2>2, TopTyped
  <2>. QED  BY <1>3, <2>2, <2>3, <2>4 DEF type
<1>7. \E v \in {Pick(3), Pick(2)} : Advance(Append(Without(3), v))
  BY DEF ExecSelect
<1>8. PICK v \in {Pick(3), Pick(2)} : Advance(Append(Without(3), v))
  BY <1>7
<1>9. v \in ValuesOf(Len(source)) /\ v.type = type
  BY <1>6, <1>8
<1> HIDE DEF types
<1>. QED  BY <1>1, <1>2, <1>3, <1>5, <1>8, <1>9, PushStep

\* ExecGetLocal
LEMMA GetLocalRuns ==
  ASSUME CompilerInv, ExecInv, ExecGetLocal
  PROVE  ExecInv'
<1> DEFINE types == Known(Code, pc).types
           index == opcodes[pc].v1
<1>1. Running /\ opcodes[pc].op = "get_local" /\ opcodes[pc].op # "end"
  BY DEF ExecGetLocal, At
<1>2. types \in Seq(ValueTypes) /\ Typed(stack, types) /\ Leads(Code, pc)
  BY <1>1, CurrentIs
<1>3. index \in DOMAIN LocalTypes /\ Passes(Code, pc, types, 0, <<LocalTypes[index]>>)
  BY <1>1, <1>2, CodeIs DEF Leads, VariableLeadsOn
<1>4. stack \in Seq(ValuesOf(Len(source)))
  BY DEF ExecInv, StackInv
<1> HIDE DEF types, index
<1>5. /\ LocalTypes[index] \in ValueTypes /\ stack[index] \in ValuesOf(Len(source))
      /\ stack[index].type = LocalTypes[index]
  <2>1. index \in 1 .. Len(LocalTypes) /\ Len(LocalTypes) \in Nat /\ LocalTypes[index] \in ValueTypes
    BY <1>3, ValueShape
  <2>2. index \in DOMAIN stack
    <3>1. Len(types) \in Nat /\ Len(stack) = Len(LocalTypes) + Len(types)
      BY <1>2 DEF Typed
    <3>. QED  BY <1>4, <2>1, <3>1
  <2>. QED  BY <1>2, <1>4, <2>1, <2>2 DEF Typed
<1>6. Without(0) = stack
  BY <1>4 DEF Without
<1>7. Advance(Append(Without(0), stack[index]))
  BY <1>6 DEF ExecGetLocal, index
<1>. QED  BY <1>1, <1>2, <1>3, <1>5, <1>7, PushStep

\* What the set_local and the tee_local store.
LEMMA StoreTyped ==
  ASSUME ExecInv, NEW types \in Seq(ValueTypes), Typed(stack, types),
         NEW index \in DOMAIN LocalTypes, EndsWith(types, <<LocalTypes[index]>>)
  PROVE  /\ [stack EXCEPT ![index] = Pick(1)] \in Seq(ValuesOf(Len(source)))
         /\ Typed([stack EXCEPT ![index] = Pick(1)], types)
<1>1. StackInv /\ stack \in Seq(ValuesOf(Len(source)))
  BY DEF ExecInv, StackInv
<1>2. Len(types) \in Nat /\ Len(types) >= 1 /\ types[Len(types)] = LocalTypes[index]
  <2> DEFINE one == <<LocalTypes[index]>>
  <2>1. Len(one) = 1 /\ 1 \in DOMAIN one /\ one[1] = LocalTypes[index]
    OBVIOUS
  <2>2. EndsWith(types, one)
    OBVIOUS
  <2> HIDE DEF one
  <2>3. Len(types) \in Nat /\ Len(types) >= 1 /\ types[Len(types) - 1 + 1] = LocalTypes[index]
    BY <2>1, <2>2 DEF EndsWith
  <2>. QED  BY <2>3
<1>3. Pick(1) \in ValuesOf(Len(source)) /\ Pick(1).type = types[Len(types) - 1 + 1]
  <2>1. 1 \in 1 .. Len(types)
    BY <1>2
  <2>. QED  BY <1>1, <2>1, TopTyped
<1>4. Pick(1).type = LocalTypes[index]
  BY <1>2, <1>3
<1>. QED  BY <1>1, <1>3, <1>4, SetTyped

\* ExecSetLocal
LEMMA SetLocalRuns ==
  ASSUME CompilerInv, ExecInv, ExecSetLocal
  PROVE  ExecInv'
<1> DEFINE types == Known(Code, pc).types
           index == opcodes[pc].v1
           s == [stack EXCEPT ![index] = Pick(1)]
<1>1. Running /\ opcodes[pc].op = "set_local" /\ opcodes[pc].op # "end"
  BY DEF ExecSetLocal, At
<1>2. types \in Seq(ValueTypes) /\ Typed(stack, types) /\ Leads(Code, pc)
  BY <1>1, CurrentIs
<1>3. index \in DOMAIN LocalTypes /\ EndsWith(types, <<LocalTypes[index]>>) /\ Passes(Code, pc, types, 1, <<>>)
  BY <1>1, <1>2, CodeIs DEF Leads, VariableLeadsOn
<1>4. /\ stack' = SubSeq(s, 1, Len(stack) - 1) /\ pc' = pc + 1 /\ UNCHANGED <<phase, compilerVars>>
      /\ UNCHANGED globals
  BY DEF ExecSetLocal, Advance
<1>5. GlobalsInv'
  BY <1>4, GlobalsStay
<1>6. s \in Seq(ValuesOf(Len(source))) /\ Typed(s, types)
  <2> HIDE DEF types, index
  <2>. QED  BY <1>2, <1>3, StoreTyped, Zenon
<1>7. Len(s) = Len(stack)
  BY <1>2, <1>6 DEF Typed
<1> HIDE DEF types, index, s
<1>8. stack' = SubSeq(s, 1, Len(s) - 1)
  BY <1>4, <1>7
<1>. QED  BY <1>1, <1>2, <1>3, <1>4, <1>5, <1>6, <1>8, PopStep, Zenon

\* ExecTeeLocal
LEMMA TeeLocalRuns ==
  ASSUME CompilerInv, ExecInv, ExecTeeLocal
  PROVE  ExecInv'
<1> DEFINE types == Known(Code, pc).types
           index == opcodes[pc].v1
           s == [stack EXCEPT ![index] = Pick(1)]
<1>1. Running /\ opcodes[pc].op = "tee_local" /\ opcodes[pc].op # "end" /\ phase = "running"
  BY DEF ExecTeeLocal, At, Running
<1>2. types \in Seq(ValueTypes) /\ Typed(stack, types) /\ Leads(Code, pc)
  BY <1>1, CurrentIs
<1>3. index \in DOMAIN LocalTypes /\ EndsWith(types, <<LocalTypes[index]>>) /\ Arrives(Code, pc + 1, types)
  BY <1>1, <1>2, CodeIs DEF Leads, VariableLeadsOn
<1>4. stack' = s /\ pc' = pc + 1 /\ UNCHANGED <<phase, compilerVars>> /\ UNCHANGED globals
  BY DEF ExecTeeLocal, Advance
<1>5. GlobalsInv'
  BY <1>4, GlobalsStay
<1>6. s \in Seq(ValuesOf(Len(source))) /\ Typed(s, types)
  <2> HIDE DEF types, index
  <2>. QED  BY <1>2, <1>3, StoreTyped, Zenon
<1> HIDE DEF types, index, s
<1>. QED  BY <1>1, <1>2, <1>3, <1>4, <1>5, <1>6, ArriveStep
\* The one type that a signature of one type ends with.
LEMMA EndsWithOne ==
  ASSUME NEW types \in Seq(ValueTypes), NEW type, EndsWith(types, <<type>>)
  PROVE  Len(types) \in Nat /\ Len(types) >= 1 /\ types[Len(types) - 1 + 1] = type
<1> DEFINE one == <<type>>
<1>1. Len(one) = 1 /\ 1 \in DOMAIN one /\ one[1] = type
  OBVIOUS
<1>2. EndsWith(types, one)
  OBVIOUS
<1> HIDE DEF one
<1>. QED  BY <1>1, <1>2 DEF EndsWith

\* ExecGetGlobal and ExecGetStack
LEMMA GetGlobalRuns ==
  ASSUME CompilerInv, ExecInv, ExecGetGlobal \/ ExecGetStack
  PROVE  ExecInv'
<1> DEFINE types == Known(Code, pc).types
           index == IF opcodes[pc].op = "interp_get_stack" THEN StackPointer ELSE opcodes[pc].v1
<1>1. Running /\ opcodes[pc].op \in {"get_global", "interp_get_stack"} /\ opcodes[pc].op # "end"
  BY DEF ExecGetGlobal, ExecGetStack, At
<1>2. types \in Seq(ValueTypes) /\ Typed(stack, types) /\ Leads(Code, pc)
  BY <1>1, CurrentIs
<1>3. index \in DOMAIN Globals /\ Passes(Code, pc, types, 0, <<Globals[index].type>>)
  BY <1>1, <1>2, CodeIs DEF Leads, VariableLeadsOn
<1>4. stack \in Seq(ValuesOf(Len(source)))
  BY DEF ExecInv, StackInv
<1>5. Advance(Append(stack, globals[index]))
  <2>1. CASE opcodes[pc].op = "get_global"
    BY <2>1 DEF ExecGetGlobal, ExecGetStack, At
  <2>2. CASE opcodes[pc].op = "interp_get_stack"
    BY <2>2 DEF ExecGetGlobal, ExecGetStack, At
  <2>. QED  BY <1>1, <2>1, <2>2
<1> HIDE DEF types, index
<1>6. /\ Globals[index].type \in ValueTypes /\ globals[index] \in ValuesOf(Len(source))
      /\ globals[index].type = Globals[index].type
  BY <1>3, GlobalIs DEF ExecInv, StackInv, GlobalsInv
<1>7. Without(0) = stack
  BY <1>4 DEF Without
<1>8. Advance(Append(Without(0), globals[index]))
  BY <1>5, <1>7
<1>. QED  BY <1>1, <1>2, <1>3, <1>6, <1>8, PushStep

\* ExecSetGlobal and ExecSetStack
LEMMA SetGlobalRuns ==
  ASSUME CompilerInv, ExecInv, ExecSetGlobal \/ ExecSetStack
  PROVE  ExecInv'
<1> DEFINE types == Known(Code, pc).types
           index == IF opcodes[pc].op = "interp_set_stack" THEN StackPointer ELSE opcodes[pc].v1
           type == Globals[index].type
<1>1. Running /\ opcodes[pc].op \in {"set_global", "interp_set_stack"} /\ opcodes[pc].op # "end" /\ phase = "running"
  BY DEF ExecSetGlobal, ExecSetStack, At, Running
<1>2. types \in Seq(ValueTypes) /\ Typed(stack, types) /\ Leads(Code, pc)
  BY <1>1, CurrentIs
<1>3. index \in DOMAIN Globals /\ EndsWith(types, <<type>>) /\ Passes(Code, pc, types, 1, <<>>)
  BY <1>1, <1>2, CodeIs DEF Leads, VariableLeadsOn
<1>4. StoreGlobal(index) \/ Trap
  <2>1. CASE opcodes[pc].op = "set_global"
    BY <2>1 DEF ExecSetGlobal, ExecSetStack, At
  <2>2. CASE opcodes[pc].op = "interp_set_stack"
    BY <2>2 DEF ExecSetGlobal, ExecSetStack, At
  <2>. QED  BY <1>1, <2>1, <2>2
<1>5. stack \in Seq(ValuesOf(Len(source))) /\ StackInv /\ GlobalsInv
  BY DEF ExecInv, StackInv
<1> HIDE DEF types, index
<1>6. Pick(1) \in ValuesOf(Len(source)) /\ Pick(1).type = type
  <2>1. 1 \in 1 .. Len(types) /\ types[Len(types) - 1 + 1] = type
    <3>1. Len(types) \in Nat /\ Len(types) >= 1 /\ types[Len(types) - 1 + 1] = type
      <4> HIDE DEF type
      <4>. QED  BY <1>2, <1>3, EndsWithOne
    <3>. QED  BY <3>1
  <2>2. Pick(1) \in ValuesOf(Len(source)) /\ Pick(1).type = types[Len(types) - 1 + 1]
    BY <1>2, <1>5, <2>1, TopTyped
  <2>. QED  BY <2>1, <2>2
<1>7. CASE Trap
  BY <1>1, <1>7, TrapStep
<1>8. CASE StoreGlobal(index)
  <2>1. /\ stack' = SubSeq(stack, 1, Len(stack) - 1) /\ pc' = pc + 1 /\ UNCHANGED <<phase, compilerVars>>
        /\ globals' = [globals EXCEPT ![index] = Pick(1)]
    BY <1>8 DEF StoreGlobal, Without
  <2>2. source' = source
    BY <2>1 DEF compilerVars
  <2>3. GlobalsInv'
    <3>1. globals \in [DOMAIN Globals -> ValuesOf(Len(source))] /\ \A g \in DOMAIN Globals : globals[g].type = Globals[g].type
      BY <1>5 DEF GlobalsInv
    <3>2. globals' \in [DOMAIN Globals -> ValuesOf(Len(source))]
      BY <1>6, <2>1, <3>1, Zenon
    <3>3. ASSUME NEW g \in DOMAIN Globals PROVE globals'[g].type = Globals[g].type
      BY <1>6, <2>1, <3>1
    <3>. QED  BY <2>2, <3>2, <3>3 DEF GlobalsInv
  <2> HIDE DEF type
  <2>. QED  BY <1>1, <1>2, <1>3, <1>5, <2>1, <2>3, PopStep
<1>. QED  BY <1>4, <1>7, <1>8

-----------------------------------------------------------------------------
(* Jumps, ends and returns. *)

\* A jump to where its operands are expected.
LEMMA JumpStep ==
  ASSUME CompilerInv, ExecInv, Running, NEW types \in Seq(ValueTypes), Typed(stack, types),
         NEW n \in {0, 1}, n <= Len(types), NEW p \in 1 .. Len(opcodes), opcodes[p].op \in Jumps,
         Lands(Code, p, SubSeq(types, 1, Len(types) - n)),
         NEW target, target = opcodes[p].v2, JumpTo(target, SubSeq(stack, 1, Len(stack) - n))
  PROVE  ExecInv'
<1> DEFINE rest == SubSeq(types, 1, Len(types) - n)
           s == SubSeq(stack, 1, Len(stack) - n)
           none == <<>>
<1>1. phase = "running" /\ LoadedInv /\ stack \in Seq(ValuesOf(Len(source)))
  BY CurrentIs DEF ExecInv, StackInv
<1>2. opcodes[p].v2 # kInvalidIndex
  <2>1. DOMAIN opcodes = 1 .. Len(opcodes)
    <3>1. opcodes \in Seq(OpcodeRecs)
      BY <1>1, CodeIs DEF LoadedInv, EmittedInv
    <3>. QED  BY <3>1
  <2>. QED  BY <1>1, <2>1 DEF LoadedInv
<1>3. Arrives(Code, target, rest)
  BY <1>2, CodeIs DEF Lands
<1>4. /\ Len(types) \in Nat /\ Len(stack) = Len(LocalTypes) + Len(types) /\ Len(LocalTypes) \in Nat
      /\ n \in Nat
  BY ValueShape DEF Typed
<1>5. rest \in Seq(ValueTypes) /\ s \in Seq(ValuesOf(Len(source)))
  <2>1. Len(types) - n \in 0 .. Len(types) /\ Len(stack) - n \in 0 .. Len(stack)
    BY <1>4
  <2>. QED  BY <1>1, <2>1
<1>6. Typed(s, rest)
  <2>1. /\ none \in Seq(ValuesOf(Len(source))) /\ none \in Seq(ValueTypes) /\ Len(none) = 0
        /\ s \o none = s /\ rest \o none = rest
    BY <1>5
  <2> HIDE DEF none
  <2>2. \A i \in 1 .. Len(none) : none[i].type = none[i]
    BY <2>1
  <2>3. Typed(s \o none, rest \o none)
    BY <1>1, <1>4, <2>1, <2>2, JoinTyped, Zenon
  <2>. QED  BY <2>1, <2>3
<1>7. stack' = s /\ pc' = target /\ UNCHANGED <<phase, compilerVars>> /\ UNCHANGED globals
  BY DEF JumpTo
<1>8. GlobalsInv'
  BY <1>7, GlobalsStay
<1> HIDE DEF rest, s
<1>. QED  BY <1>1, <1>3, <1>5, <1>6, <1>7, <1>8, ArriveStep

\* ExecBr
LEMMA BrRuns ==
  ASSUME CompilerInv, ExecInv, ExecBr
  PROVE  ExecInv'
<1> DEFINE types == Known(Code, pc).types
<1>1. Running /\ opcodes[pc].op \in {"br", "else"} /\ opcodes[pc].op # "end" /\ opcodes[pc].op \in Jumps
  BY DEF ExecBr, At, Jumps
<1>2. types \in Seq(ValueTypes) /\ Typed(stack, types) /\ Leads(Code, pc) /\ pc \in 1 .. Len(opcodes)
  BY <1>1, CurrentIs
<1>3. Lands(Code, pc, types)
  BY <1>1, <1>2, CodeIs DEF Leads, JumpLeadsOn
<1>4. stack \in Seq(ValuesOf(Len(source)))
  BY DEF ExecInv, StackInv
<1> HIDE DEF types
<1>5. SubSeq(types, 1, Len(types) - 0) = types /\ SubSeq(stack, 1, Len(stack) - 0) = stack /\ 0 <= Len(types)
  BY <1>2, <1>4
<1>6. JumpTo(opcodes[pc].v2, SubSeq(stack, 1, Len(stack) - 0)) /\ Lands(Code, pc, SubSeq(types, 1, Len(types) - 0))
  BY <1>3, <1>5, Zenon DEF ExecBr
<1>7. 0 \in {0, 1}
  OBVIOUS
<1>. QED  BY <1>1, <1>2, <1>5, <1>6, <1>7, JumpStep

\* ExecBrIf and ExecIf
LEMMA ConditionRuns ==
  ASSUME CompilerInv, ExecInv, ExecBrIf \/ ExecIf
  PROVE  ExecInv'
<1> DEFINE types == Known(Code, pc).types
<1>1. Running /\ opcodes[pc].op \in {"br_if", "if"} /\ opcodes[pc].op # "end" /\ opcodes[pc].op \in Jumps
  BY DEF ExecBrIf, ExecIf, At, Jumps
<1>2. types \in Seq(ValueTypes) /\ Typed(stack, types) /\ Leads(Code, pc) /\ pc \in 1 .. Len(opcodes)
  BY <1>1, CurrentIs
<1>3. Lands(Code, pc, SubSeq(types, 1, Len(types) - 1)) /\ Passes(Code, pc, types, 1, <<>>)
  BY <1>1, <1>2, CodeIs DEF Leads, JumpLeadsOn
<1>4. stack \in Seq(ValuesOf(Len(source)))
  BY DEF ExecInv, StackInv
<1>5. JumpTo(opcodes[pc].v2, SubSeq(stack, 1, Len(stack) - 1)) \/ JumpTo(pc + 1, SubSeq(stack, 1, Len(stack) - 1))
  BY DEF ExecBrIf, ExecIf, Without
<1> HIDE DEF types
<1>6. CASE JumpTo(opcodes[pc].v2, SubSeq(stack, 1, Len(stack) - 1))
  <2>1. 1 \in {0, 1} /\ 1 <= Len(types)
    BY <1>2, <1>3 DEF Passes
  <2>. QED  BY <1>1, <1>2, <1>3, <1>6, <2>1, JumpStep
<1>7. CASE JumpTo(pc + 1, SubSeq(stack, 1, Len(stack) - 1))
  <2>1. /\ stack' = SubSeq(stack, 1, Len(stack) - 1) /\ pc' = pc + 1 /\ UNCHANGED <<phase, compilerVars>>
        /\ UNCHANGED globals
    BY <1>7 DEF JumpTo
  <2>2. GlobalsInv'
    BY <2>1, GlobalsStay
  <2>. QED  BY <1>1, <1>2, <1>3, <1>4, <2>1, <2>2, PopStep, Zenon
<1>. QED  BY <1>5, <1>6, <1>7

\* ExecBrTable
LEMMA BrTableRuns ==
  ASSUME CompilerInv, ExecInv, ExecBrTable
  PROVE  ExecInv'
<1> DEFINE types == Known(Code, pc).types
           targets == opcodes[pc].v1
<1>1. Running /\ opcodes[pc].op = "br_table" /\ opcodes[pc].op # "end"
  BY DEF ExecBrTable, At
<1>2. types \in Seq(ValueTypes) /\ Typed(stack, types) /\ Leads(Code, pc) /\ pc \in 1 .. Len(opcodes)
  BY <1>1, CurrentIs
<1>3. /\ Len(types) >= 1 /\ targets \in Nat
      /\ \A i \in pc + 1 .. pc + targets + 1 :
           /\ i \in 1 .. Len(opcodes) /\ opcodes[i].op = "br_table"
           /\ Lands(Code, i, SubSeq(types, 1, Len(types) - 1))
  BY <1>1, <1>2, CodeIs DEF Leads, JumpLeadsOn
<1>4. PICK key \in 0 .. targets + 1 :
        JumpTo(opcodes[pc + (IF key >= targets THEN targets ELSE key) + 1].v2, SubSeq(stack, 1, Len(stack) - 1))
  BY DEF ExecBrTable, Without
<1> DEFINE i == pc + (IF key >= targets THEN targets ELSE key) + 1
<1>5. i \in pc + 1 .. pc + targets + 1
  BY <1>2, <1>3, <1>4, SMTT(20)
<1>6. JumpTo(opcodes[i].v2, SubSeq(stack, 1, Len(stack) - 1))
  BY <1>4
<1> HIDE DEF types, targets, i
<1>7. i \in 1 .. Len(opcodes) /\ opcodes[i].op \in Jumps /\ Lands(Code, i, SubSeq(types, 1, Len(types) - 1))
  BY <1>3, <1>5 DEF Jumps
<1>8. 1 \in {0, 1} /\ 1 <= Len(types)
  BY <1>2, <1>3
<1>. QED  BY <1>1, <1>2, <1>6, <1>7, <1>8, JumpStep
\* At the end of a construct, or of the body.
LEMMA EndIs ==
  ASSUME CompilerInv, ExecInv, phase = "running", AtEnd(Code, pc)
  PROVE  /\ Sound(Known(Code, pc))
         /\ \E types \in Seq(ValueTypes) :
              Typed(stack, types) /\ Closes(Known(Code, pc), Len(Known(Code, pc).labels), types)
         /\ pc \in Int /\ Starts(Code, pc)
<1>1. LoadedInv /\ OperandsInv
  BY InvLoaded DEF Loaded, ExecInv
<1>2. Code.noted = noted /\ Code.ended /\ Code.opcodes = opcodes /\ EmittedInv(Code) /\ Code.source = source
  BY <1>1, CodeIs DEF LoadedInv
<1>3. /\ \A i \in 1 .. Len(noted) : Sound(noted[i])
      /\ Len(noted) = Len(source) /\ Len(opcodes) \in Nat /\ Len(source) \in Nat
      /\ \A p \in 1 .. Len(opcodes) : opcodes[p].src \in 1 .. Len(noted)
  BY <1>2 DEF EmittedInv, Emitted
<1>4. Sound(Known(Code, pc))
  <2>1. CASE pc \in 1 .. Len(opcodes)
    BY <1>2, <1>3, <2>1 DEF Known
  <2>2. CASE pc \notin 1 .. Len(opcodes)
    <3>1. Len(noted) \in 1 .. Len(noted)
      <4>1. source # <<>> /\ source \in Seq(Instructions)
        BY <1>1, <1>2 DEF LoadedInv, BodyEnd, EmittedInv
      <4>. QED  BY <1>3, <4>1
    <3>2. Known(Code, pc) = noted[Len(noted)]
      BY <1>2, <2>2 DEF Known
    <3>. QED  BY <1>3, <3>1, <3>2
  <2>. QED  BY <2>1, <2>2
<1>5. PICK types \in Seq(ValueTypes) : Typed(stack, types) /\ Arrives(Code, pc, types)
  BY <1>1 DEF OperandsInv
<1>6. Closes(Known(Code, pc), Len(Known(Code, pc).labels), types) /\ Starts(Code, pc)
  BY <1>5 DEF Arrives
<1>7. pc \in Int
  BY <1>2, <1>3, <1>6 DEF Starts
<1>. QED  BY <1>4, <1>5, <1>6, <1>7

\* What an end keeps of the operands.
LEMMA KeptIs ==
  ASSUME NEW known, Sound(known), NEW types \in Seq(ValueTypes), Closes(known, Len(known.labels), types)
  PROVE  /\ Innermost(known).limit \in Nat /\ Innermost(known).sig \in Seq(ValueTypes) /\ Len(Innermost(known).sig) \in Nat
         /\ Innermost(known).limit + Len(Innermost(known).sig) <= Len(types)
         /\ EndsWith(types, Innermost(known).sig)
         /\ Closed(known) = SubSeq(types, 1, Innermost(known).limit) \o Innermost(known).sig
         /\ Closed(known) \in Seq(ValueTypes)
         /\ Live(known, Len(known.labels) - 1)
<1> DEFINE label == Innermost(known)
           limit == label.limit
           low == SubSeq(types, 1, limit)
           base == SubSeq(known.types, 1, limit)
<1>1. /\ known.types \in Seq(Types) /\ Len(known.types) \in Nat /\ label \in Constructs
      /\ label = known.labels[Len(known.labels)] /\ limit \in 0 .. Len(known.types)
  BY SoundStacks
<1>2. label.sig \in Seq(ValueTypes) /\ limit \in Nat /\ Len(label.sig) \in Nat
  BY <1>1 DEF Constructs
<1>3. /\ Live(known, Len(known.labels) - 1) /\ Len(types) >= limit + Len(label.sig)
      /\ Prefix(types, known.types, limit) /\ EndsWith(types, label.sig)
  BY <1>1 DEF Closes
<1>4. low = base
  <2>1. limit \in 0 .. Len(types) /\ Len(types) \in Nat
    BY <1>2, <1>3
  <2>2. low \in Seq(ValueTypes) /\ Len(low) = limit /\ \A i \in 1 .. limit : low[i] = types[i]
    BY <2>1
  <2>3. base \in Seq(Types) /\ Len(base) = limit /\ \A i \in 1 .. limit : base[i] = known.types[i]
    BY <1>1
  <2> HIDE DEF low, base
  <2>4. \A i \in 1 .. limit : low[i] = base[i]
    BY <1>3, <2>2, <2>3 DEF Prefix
  <2>. QED  BY <2>2, <2>3, <2>4
<1>5. Closed(known) = low \o label.sig
  BY <1>4, Zenon DEF Closed
<1>6. low \in Seq(ValueTypes)
  <2>1. limit \in 0 .. Len(types)
    BY <1>2, <1>3
  <2>. QED  BY <2>1
<1>7. low \o label.sig \in Seq(ValueTypes)
  BY <1>2, <1>6
<1>. QED  BY <1>2, <1>3, <1>5, <1>7

\* The results moved down to where the construct was entered.
LEMMA MovedTyped ==
  ASSUME StackInv, NEW types \in Seq(ValueTypes), Typed(stack, types), NEW limit \in Nat, NEW sig \in Seq(ValueTypes),
         limit + Len(sig) <= Len(types), EndsWith(types, sig)
  PROVE  /\ SubSeq(stack, 1, Len(LocalTypes) + limit) \o Top(Len(sig)) \in Seq(ValuesOf(Len(source)))
         /\ Typed(SubSeq(stack, 1, Len(LocalTypes) + limit) \o Top(Len(sig)), SubSeq(types, 1, limit) \o sig)
<1> DEFINE n == Len(types) - limit
           vals == Top(Len(sig))
<1>1. /\ Len(types) \in Nat /\ Len(sig) \in Nat /\ Len(LocalTypes) \in Nat /\ Len(stack) = Len(LocalTypes) + Len(types)
      /\ stack \in Seq(ValuesOf(Len(source)))
  BY ValueShape DEF Typed, StackInv
<1>2. n \in Nat /\ n <= Len(types) /\ Len(types) - n = limit /\ Len(stack) - n = Len(LocalTypes) + limit
  BY <1>1
<1>3. vals \in Seq(ValuesOf(Len(source))) /\ Len(vals) = Len(sig) /\ \A i \in 1 .. Len(sig) : vals[i].type = sig[i]
  BY TopsTyped
<1> HIDE DEF n, vals
<1>4. /\ SubSeq(stack, 1, Len(stack) - n) \o vals \in Seq(ValuesOf(Len(source)))
      /\ Typed(SubSeq(stack, 1, Len(stack) - n) \o vals, SubSeq(types, 1, Len(types) - n) \o sig)
  BY <1>1, <1>2, <1>3, JoinTyped, Zenon
<1>. QED  BY <1>2, <1>4, Zenon DEF vals

\* ExecEnd
LEMMA EndRuns ==
  ASSUME CompilerInv, ExecInv, ExecEnd
  PROVE  ExecInv'
<1> DEFINE known == Known(Code, pc)
           limit == Innermost(known).limit
           sig == Innermost(known).sig
<1>1. Running /\ opcodes[pc].op = "end" /\ phase = "running"
  BY DEF ExecEnd, At, Running
<1>2. pc \in 1 .. Len(opcodes) /\ CodeInv(Code) /\ StackInv
  BY <1>1, CurrentIs DEF ExecInv
<1>3. AtEnd(Code, pc)
  BY <1>1, <1>2, CodeIs DEF AtEnd
<1>4. Sound(known) /\ Starts(Code, pc)
  BY <1>1, <1>3, EndIs
<1>5. PICK types \in Seq(ValueTypes) : Typed(stack, types) /\ Closes(known, Len(known.labels), types)
  BY <1>1, <1>3, EndIs
<1> HIDE DEF known
<1>6. /\ limit \in Nat /\ sig \in Seq(ValueTypes) /\ Len(sig) \in Nat /\ limit + Len(sig) <= Len(types)
      /\ EndsWith(types, sig) /\ Closed(known) = SubSeq(types, 1, limit) \o sig /\ Closed(known) \in Seq(ValueTypes)
      /\ Live(known, Len(known.labels) - 1)
  BY <1>4, <1>5, KeptIs, Zenon
<1>7. EndLeads(Code, pc)
  BY <1>2, <1>3, <1>4, CodeIs DEF CodeInv, Certified
<1>8. opcodes[pc].v1 = limit /\ opcodes[pc].v2 = Len(sig) /\ Arrives(Code, pc + 1, Closed(known))
  BY <1>6, <1>7, CodeIs DEF EndLeads, known
<1>9. /\ stack' = SubSeq(stack, 1, Len(LocalTypes) + limit) \o Top(Len(sig)) /\ pc' = pc + 1
      /\ UNCHANGED <<phase, compilerVars>> /\ UNCHANGED globals
  BY <1>8 DEF ExecEnd, Advance
<1>10. GlobalsInv'
  BY <1>9, GlobalsStay
<1> HIDE DEF limit, sig
<1>11. stack' \in Seq(ValuesOf(Len(source))) /\ Typed(stack', Closed(known))
  BY <1>2, <1>5, <1>6, <1>9, MovedTyped
<1>. QED  BY <1>1, <1>6, <1>8, <1>9, <1>10, <1>11, ArriveStep, Zenon

\* The frame is left with the results of the function.
LEMMA ReturnStepRuns ==
  ASSUME CompilerInv, ExecInv, phase = "running", NEW types \in Seq(ValueTypes), Typed(stack, types),
         EndsWith(types, Results), NEW n, n = Len(Results), PopCall(n)
  PROVE  ExecInv'
<1>1. Results \in Seq(ValueTypes) /\ StackInv
  BY ResultShape DEF ExecInv
<1>2. phase' = "returned" /\ stack' = Top(n) /\ UNCHANGED <<compilerVars, pc, globals>>
  BY DEF PopCall
<1>3. Code' = Code /\ source' = source
  BY <1>2 DEF Code, Note, compilerVars
<1>4. CodeInv(Code')
  BY <1>3 DEF ExecInv
<1>5. /\ stack' \in Seq(ValuesOf(Len(source))) /\ Len(stack') = Len(Results)
      /\ \A i \in 1 .. Len(Results) : stack'[i].type = Results[i]
  BY <1>1, <1>2, TopsTyped
<1>6. GlobalsInv'
  BY <1>2, GlobalsStay
<1>7. StackInv'
  BY <1>3, <1>5, <1>6 DEF StackInv
<1>8. TypesOf(stack') = Results
  <2>1. DOMAIN stack' = 1 .. Len(Results) /\ DOMAIN Results = 1 .. Len(Results)
    BY <1>1, <1>5
  <2>2. \A i \in DOMAIN Results : stack'[i].type = Results[i]
    BY <1>5, <2>1
  <2>3. Results = [i \in DOMAIN Results |-> Results[i]]
    BY <1>1
  <2>. QED  BY <2>1, <2>2, <2>3 DEF TypesOf
<1>. QED  BY <1>2, <1>4, <1>7, <1>8 DEF ExecInv

\* ExecReturn
LEMMA ReturnRuns ==
  ASSUME CompilerInv, ExecInv, ExecReturn
  PROVE  ExecInv'
<1> DEFINE types == Known(Code, pc).types
<1>1. Running /\ opcodes[pc].op = "return" /\ opcodes[pc].op # "end" /\ phase = "running"
  BY DEF ExecReturn, At, Running
<1>2. types \in Seq(ValueTypes) /\ Typed(stack, types) /\ Leads(Code, pc)
  BY <1>1, CurrentIs
<1>3. opcodes[pc].v1 = Len(Results) /\ EndsWith(types, Results)
  BY <1>1, <1>2, CodeIs DEF Leads, JumpLeadsOn
<1>4. PopCall(opcodes[pc].v1)
  BY DEF ExecReturn
<1> HIDE DEF types
<1>. QED  BY <1>1, <1>2, <1>3, <1>4, ReturnStepRuns

\* ImplicitReturn
LEMMA LeaveRuns ==
  ASSUME CompilerInv, ExecInv, ImplicitReturn
  PROVE  ExecInv'
<1> DEFINE known == Known(Code, pc)
<1>1. phase = "running" /\ pc > Len(opcodes) /\ PopCall(Len(Results))
  BY DEF ImplicitReturn
<1>2. LoadedInv /\ Code.opcodes = opcodes /\ Code.noted = noted /\ Code.ended
  BY <1>1, InvLoaded, CodeIs DEF Loaded
<1>3. Len(opcodes) \in Nat
  BY <1>2 DEF LoadedInv, EmittedInv
<1>4. pc \notin 1 .. Len(opcodes)
  <2>1. OperandsInv
    BY <1>1 DEF ExecInv
  <2>2. pc \in 1 .. Len(opcodes) + 1
    BY <1>2, <2>1 DEF OperandsInv, Arrives, Starts
  <2>. QED  BY <1>1, <1>3, <2>2
<1>5. AtEnd(Code, pc) /\ known = noted[Len(noted)]
  BY <1>2, <1>4 DEF AtEnd, Known
<1>6. Sound(known)
  BY <1>1, <1>5, EndIs, Zenon
<1>7. PICK types \in Seq(ValueTypes) : Typed(stack, types) /\ Closes(known, Len(known.labels), types)
  BY <1>1, <1>5, EndIs
<1>8. Len(known.labels) = 1
  BY <1>2, <1>5 DEF LoadedInv, BodyEnd
<1> HIDE DEF known
<1>9. known.labels[1].sig = Results
  BY <1>6 DEF Sound
<1>10. EndsWith(types, Results)
  BY <1>7, <1>8, <1>9 DEF Closes
<1>. QED  BY <1>1, <1>7, <1>10, ReturnStepRuns
-----------------------------------------------------------------------------
(* The invariant of what is executed. *)

\* An access traps or is an operator like the others.
LEMMA AccessesRun ==
  ASSUME CompilerInv, ExecInv, NEW classes, Access(classes)
  PROVE  ExecInv'
<1>1. CurrentClass(classes) /\ (Trap \/ Operate) /\ phase = "running"
  BY DEF Access, CurrentClass, Running
<1>. QED  BY <1>1, TrapStep, OperateStep

\* A conversion, a division or a call may trap as well.
LEMMA OperatorsRun ==
  ASSUME CompilerInv, ExecInv, NEW classes, CurrentClass(classes), Operate \/ Trap
  PROVE  ExecInv'
<1>1. phase = "running"
  BY DEF CurrentClass, Running
<1>. QED  BY <1>1, TrapStep, OperateStep

\* Every opcode keeps the invariant.
LEMMA RunStep ==
  ASSUME CompilerInv, ExecInv, Run
  PROVE  ExecInv'
<1>1. CASE ExecConst \/ ExecDrop \/ ExecSelect
  BY <1>1, ConstRuns, DropRuns, SelectRuns
<1>2. CASE ExecUnop \/ ExecBinop \/ ExecBinopTrap \/ ExecConvert \/ ExecCurrentMemory \/ ExecGrowMemory \/ ExecCall
  <2>1. (\E classes : CurrentClass(classes)) /\ (Operate \/ Trap)
    BY <1>2 DEF ExecUnop, ExecBinop, ExecBinopTrap, ExecConvert, ExecCurrentMemory, ExecGrowMemory, ExecCall
  <2>. QED  BY <2>1, OperatorsRun
<1>3. CASE ExecLoad \/ ExecStore \/ ExecAtomicLoad \/ ExecAtomicStore \/ ExecAtomicRmw \/ ExecAtomicRmwCmpxchg
  <2>1. \E classes : Access(classes)
    BY <1>3 DEF ExecLoad, ExecStore, ExecAtomicLoad, ExecAtomicStore, ExecAtomicRmw, ExecAtomicRmwCmpxchg
  <2>. QED  BY <2>1, AccessesRun
<1>4. CASE ExecGetLocal \/ ExecSetLocal \/ ExecTeeLocal
  BY <1>4, GetLocalRuns, SetLocalRuns, TeeLocalRuns
<1>5. CASE ExecGetGlobal \/ ExecGetStack \/ ExecSetGlobal \/ ExecSetStack
  BY <1>5, GetGlobalRuns, SetGlobalRuns
<1>6. CASE ExecBr \/ ExecBrIf \/ ExecIf \/ ExecBrTable
  BY <1>6, BrRuns, ConditionRuns, BrTableRuns
<1>7. CASE ExecUnreachable
  <2>1. phase = "running" /\ Trap
    BY <1>7 DEF ExecUnreachable, At, Running
  <2>. QED  BY <2>1, TrapStep
<1>8. CASE ExecEnd \/ ExecReturn \/ ImplicitReturn
  BY <1>8, EndRuns, ReturnRuns, LeaveRuns
<1>. QED  BY <1>1, <1>2, <1>3, <1>4, <1>5, <1>6, <1>7, <1>8 DEF Run, ExecOperands, ExecControl

\* Before it is run, the stack holds the locals and no operands.
FreshGlobals == [g \in DOMAIN Globals |-> Value(Globals[g].type, 0)]
\* They have their types.
LEMMA FreshStack ==
  ASSUME NEW n \in Nat
  PROVE  /\ Values(LocalTypes, 0) \in Seq(ValuesOf(n)) /\ Typed(Values(LocalTypes, 0), <<>>)
         /\ FreshGlobals \in [DOMAIN Globals -> ValuesOf(n)]
         /\ \A g \in DOMAIN Globals : FreshGlobals[g].type = Globals[g].type
<1> DEFINE none == <<>>
           s == Values(LocalTypes, 0)
<1>1. LocalTypes \in Seq(ValueTypes) /\ 0 \in 0 .. n
  BY ValueShape
<1>2. /\ s \in Seq(ValuesOf(n)) /\ Len(s) = Len(LocalTypes)
      /\ \A i \in 1 .. Len(LocalTypes) : s[i].type = LocalTypes[i]
  BY <1>1, ValuesAre
<1> HIDE DEF s
<1>3. ASSUME NEW g \in DOMAIN Globals
      PROVE  Value(Globals[g].type, 0) \in ValuesOf(n) /\ Value(Globals[g].type, 0).type = Globals[g].type
  BY <1>1, <1>3, GlobalIs DEF Value, ValuesOf
<1>4. Typed(s, none)
  <2>1. Len(none) = 0 /\ Len(LocalTypes) \in Nat
    BY <1>1
  <2> HIDE DEF none
  <2>2. \A i \in 1 .. Len(none) : s[Len(LocalTypes) + i].type = none[i]
    BY <2>1
  <2>. QED  BY <1>2, <2>1, <2>2 DEF Typed
<1>. QED  BY <1>2, <1>3, <1>4 DEF FreshGlobals, s

\* Reading keeps the invariant: the first opcode finds no operands.
LEMMA ReadingStep ==
  ASSUME CleanLoops, CompilerInv, CompilerInv', ExecInv, Read, UNCHANGED <<pc, stack, globals>>
  PROVE  ExecInv'
<1>1. phase = "reading" /\ ReadInv /\ Untouched
  BY InvReading DEF Read
<1>2. Untouched'
  BY <1>1 DEF Untouched
<1>3. CodeInv(Code)
  BY <1>1 DEF ExecInv
<1>4. Len(source') \in Nat
  <2>1. source' \in Seq(Instructions) \/ source' = <<>>
    BY CodeWillBe DEF CompilerInv, ReadInv, LoadedInv, GivenUp, EmittedInv
  <2>. QED  BY <2>1
<1>5. StackInv' /\ Typed(stack', <<>>)
  BY <1>2, <1>4, FreshStack DEF StackInv, GlobalsInv, Untouched, FreshGlobals
<1>6. CASE GiveUp
  <2>1. phase' = "rejected"
    BY <1>6 DEF GiveUp
  <2>. QED  BY <1>5, <2>1 DEF ExecInv
<1>7. CASE Advances
  <2>1. phase' = "reading" /\ CodeInv(Code')
    BY <1>3, <1>7 DEF Advances
  <2>. QED  BY <1>5, <2>1 DEF ExecInv
<1>8. CASE phase' = "running" /\ CodeInv(Code')
  <2>1. Arrives(Code', 1, <<>>) /\ pc' = 1 /\ <<>> \in Seq(ValueTypes)
    BY <1>2, <1>8 DEF CodeInv, Untouched
  <2>2. OperandsInv'
    BY <1>5, <2>1, Zenon DEF OperandsInv
  <2>. QED  BY <1>5, <1>8, <2>2 DEF ExecInv
<1>. QED  BY <1>1, <1>3, <1>6, <1>7, <1>8, ReadStep

\* The invariant holds of the empty body
LEMMA ExecInit ==
  ASSUME Init
  PROVE  ExecInv
<1>1. CodeInv(Code) /\ phase = "reading"
  BY BeginIs DEF Init, BeginFunctionBody
<1>2. Untouched /\ source = <<>>
  BY DEF Init, Untouched, BeginFunctionBody
<1>3. StackInv
  <2>1. Len(source) \in Nat
    BY <1>2
  <2>. QED  BY <1>2, <2>1, FreshStack DEF StackInv, GlobalsInv, Untouched, FreshGlobals
<1>. QED  BY <1>1, <1>3 DEF ExecInv

\* and every step keeps it.
LEMMA ExecNext ==
  ASSUME CleanLoops, CompilerInv, CompilerInv', ExecInv, [Next]_vars
  PROVE  ExecInv'
<1>1. CASE UNCHANGED vars
  <2>1. Code' = Code /\ phase' = phase /\ UNCHANGED <<StackInv, OperandsInv, stack>>
    BY <1>1 DEF Code, Note, vars, StackInv, GlobalsInv, OperandsInv
  <2>. QED  BY <2>1 DEF ExecInv
<1>. QED  BY <1>1, ReadingStep, RunStep DEF Next

\* Every opcode that is executed finds the operands it takes, of the types it takes, and
\* leads to an opcode that does, whatever way the branches go.
THEOREM ExecInvariant == CleanLoops => (Spec => []ExecInv)
<1>. SUFFICES ASSUME CleanLoops PROVE Spec => []ExecInv
  OBVIOUS
<1>1. CompilerInv /\ CompilerInv' /\ ExecInv /\ [Next]_vars => ExecInv'
  BY ExecNext
<1>2. Init => ExecInv
  BY ExecInit
<1>. QED  BY <1>1, <1>2, CompilerInvariant, PTL DEF Spec
-----------------------------------------------------------------------------
(* What the runs check. *)

\* Values and their types, one by one.
LEMMA TypesAre ==
  ASSUME NEW S, NEW s \in Seq(S), NEW T, NEW t \in Seq(T), Len(s) = Len(t), \A i \in 1 .. Len(t) : s[i].type = t[i]
  PROVE  TypesOf(s) = t
<1>1. DOMAIN s = 1 .. Len(t) /\ DOMAIN t = 1 .. Len(t) /\ t = [i \in DOMAIN t |-> t[i]]
  OBVIOUS
<1>. QED  BY <1>1 DEF TypesOf

\* The operands are the values above the locals.
LEMMA OperandsTyped ==
  ASSUME StackInv, NEW types \in Seq(ValueTypes), Typed(stack, types)
  PROVE  /\ Operands \in Seq(ValuesOf(Len(source))) /\ Len(Operands) = Len(types)
         /\ \A i \in 1 .. Len(types) : Operands[i] = stack[Len(LocalTypes) + i] /\ Operands[i].type = types[i]
         /\ TypesOf(Operands) = types
<1> DEFINE L == Len(LocalTypes)
           m == Len(types)
<1>1. L \in Nat /\ m \in Nat /\ Len(stack) = L + m /\ stack \in Seq(ValuesOf(Len(source)))
  BY ValueShape DEF Typed, StackInv
<1>2. Operands = SubSeq(stack, L + 1, L + m)
  BY <1>1 DEF Operands
<1>3. Operands \in Seq(ValuesOf(Len(source))) /\ Len(Operands) = m /\ \A i \in 1 .. m : Operands[i] = stack[L + i]
  <2>1. L + 1 \in 1 .. Len(stack) + 1
    BY <1>1
  <2>. QED  BY <1>1, <1>2, <2>1
<1>4. \A i \in 1 .. m : Operands[i].type = types[i]
  BY <1>3 DEF Typed
<1>5. TypesOf(Operands) = types
  BY <1>3, <1>4, TypesAre
<1>. QED  BY <1>3, <1>4, <1>5

\* What an End, or the last end, keeps.
Kept(limit, n) == SubSeq(Operands, 1, limit) \o Top(n)

\* They have the types of what was there before the construct, and of its results.
LEMMA KeptTyped ==
  ASSUME StackInv, NEW types \in Seq(ValueTypes), Typed(stack, types), NEW limit \in Nat, NEW sig \in Seq(ValueTypes),
         limit + Len(sig) <= Len(types), EndsWith(types, sig)
  PROVE  TypesOf(Kept(limit, Len(sig))) = SubSeq(types, 1, limit) \o sig
<1> DEFINE V == ValuesOf(Len(source))
           low == SubSeq(Operands, 1, limit)
           top == Top(Len(sig))
           below == SubSeq(types, 1, limit)
           s == low \o top
           t == below \o sig
<1>1. Len(types) \in Nat /\ Len(sig) \in Nat /\ limit \in 0 .. Len(types)
  OBVIOUS
<1>2. /\ Operands \in Seq(V) /\ Len(Operands) = Len(types)
      /\ \A i \in 1 .. Len(types) : Operands[i].type = types[i]
  BY OperandsTyped
<1>3. top \in Seq(V) /\ Len(top) = Len(sig) /\ \A i \in 1 .. Len(sig) : top[i].type = sig[i]
  BY TopsTyped
<1> HIDE DEF top
<1>4. /\ low \in Seq(V) /\ Len(low) = limit /\ \A i \in 1 .. limit : low[i] = Operands[i]
      /\ below \in Seq(ValueTypes) /\ Len(below) = limit /\ \A i \in 1 .. limit : below[i] = types[i]
  BY <1>1, <1>2
<1> HIDE DEF V, low, below
<1>5. s \in Seq(V) /\ Len(s) = Len(low) + Len(top)
  BY <1>3, <1>4, JoinedIs, Zenon
<1>6. \A i \in 1 .. Len(low) : s[i] = low[i]
  BY <1>3, <1>4, JoinedIs
<1>7. \A i \in 1 .. Len(top) : s[Len(low) + i] = top[i]
  BY <1>3, <1>4, JoinedIs
<1>8. t \in Seq(ValueTypes) /\ Len(t) = Len(below) + Len(sig)
  BY <1>4, JoinedIs, Zenon
<1>9. \A i \in 1 .. Len(below) : t[i] = below[i]
  BY <1>4, JoinedIs
<1>10. \A i \in 1 .. Len(sig) : t[Len(below) + i] = sig[i]
  BY <1>4, JoinedIs
<1> HIDE DEF s, t
<1>11. ASSUME NEW i \in 1 .. Len(t) PROVE s[i].type = t[i]
  <2>1. CASE i <= limit
    <3>1. i \in 1 .. limit /\ i \in 1 .. Len(types)
      BY <1>1, <1>4, <1>8, <2>1
    <3>2. s[i] = Operands[i] /\ t[i] = types[i]
      BY <1>4, <1>6, <1>9, <3>1
    <3>. QED  BY <1>2, <3>1, <3>2
  <2>2. CASE i > limit
    <3> DEFINE j == i - limit
    <3>1. j \in 1 .. Len(sig) /\ i = limit + j
      BY <1>1, <1>4, <1>8, <2>2
    <3> HIDE DEF j
    <3>2. s[i] = top[j] /\ t[i] = sig[j]
      BY <1>3, <1>4, <1>7, <1>10, <3>1
    <3>. QED  BY <1>3, <3>1, <3>2
  <2>. QED  BY <1>1, <1>4, <1>8, <2>1, <2>2
<1>12. Len(s) = Len(t)
  BY <1>3, <1>4, <1>5, <1>8
<1>13. TypesOf(s) = t
  BY <1>5, <1>8, <1>11, <1>12, TypesAre, Zenon
<1>. QED  BY <1>13 DEF Kept, s, t, low, top, below

\* The position in the source and what the checker knew there.
LEMMA PositionIs ==
  ASSUME CompilerInv, ExecInv, phase = "running"
  PROVE  /\ noted[Position] = Known(Code, pc)
         /\ source[Position].op = "end" <=> AtEnd(Code, pc)
         /\ pc \in 1 .. Len(opcodes) + 1 /\ Len(opcodes) \in Nat
<1>1. LoadedInv /\ OperandsInv /\ BodyEnd
  BY InvLoaded DEF Loaded, ExecInv, LoadedInv
<1>2. /\ Code.noted = noted /\ Code.ended /\ Code.opcodes = opcodes /\ Code.source = source
      /\ EmittedInv(Code)
  BY <1>1, CodeIs DEF LoadedInv
<1>3. /\ Len(opcodes) \in Nat /\ Len(noted) = Len(source)
      /\ \A p \in 1 .. Len(opcodes) : opcodes[p].op = "end" <=> source[opcodes[p].src].op = "end"
  BY <1>2 DEF EmittedInv, Emitted
<1>4. pc \in 1 .. Len(opcodes) + 1
  BY <1>1, <1>2 DEF OperandsInv, Arrives, Starts
<1>5. CASE pc \in 1 .. Len(opcodes)
  <2>1. Position = opcodes[pc].src
    BY <1>3, <1>5 DEF Position
  <2>2. Known(Code, pc) = noted[opcodes[pc].src] /\ (AtEnd(Code, pc) <=> opcodes[pc].op = "end")
    BY <1>2, <1>5 DEF Known, AtEnd
  <2>. QED  BY <1>3, <1>4, <1>5, <2>1, <2>2
<1>6. CASE pc \notin 1 .. Len(opcodes)
  <2>1. Position = Len(source)
    BY <1>3, <1>4, <1>6 DEF Position
  <2>2. Known(Code, pc) = noted[Len(noted)] /\ AtEnd(Code, pc)
    BY <1>2, <1>6 DEF Known, AtEnd
  <2>3. source[Len(source)].op = "end"
    BY <1>1 DEF BodyEnd
  <2>. QED  BY <1>3, <1>4, <2>1, <2>2, <2>3
<1>. QED  BY <1>5, <1>6

\* An end that can be reached finds all that the checker knew, and nothing more.
LEMMA ReachedEnd ==
  ASSUME CompilerInv, ExecInv, phase = "running", AtEnd(Code, pc), AllLive(Known(Code, pc))
  PROVE  Known(Code, pc).types = Closed(Known(Code, pc))
<1> DEFINE known == Known(Code, pc)
<1>1. LoadedInv /\ BodyEnd /\ CodeInv(Code) /\ Starts(Code, pc) /\ Sound(known) /\ Code.opcodes = opcodes
      /\ Code.noted = noted /\ Code.ended
  BY InvLoaded, EndIs, CodeIs DEF Loaded, LoadedInv, ExecInv
<1>2. CASE pc \in 1 .. Len(opcodes)
  <2>1. EndLeads(Code, pc)
    BY <1>1, <1>2 DEF CodeInv, Certified
  <2>. QED  BY <2>1 DEF EndLeads
<1>3. CASE pc \notin 1 .. Len(opcodes)
  <2>1. known = noted[Len(noted)]
    BY <1>1, <1>3 DEF Known
  <2>2. Len(known.labels) = 1 /\ known.types = Results
    BY <1>1, <2>1 DEF BodyEnd
  <2> HIDE DEF known
  <2>3. Innermost(known).sig = Results /\ Innermost(known).limit = 0 /\ known.types \in Seq(Types)
    BY <1>1, <2>2 DEF Sound, Innermost
  <2>4. SubSeq(known.types, 1, 0) = <<>> /\ <<>> \o Results = Results
    BY <2>3, ResultShape
  <2>. QED  BY <2>2, <2>3, <2>4 DEF Closed, known
<1>. QED  BY <1>2, <1>3

\* The invariants say what the states are made of.
LEMMA TypesHold ==
  ASSUME CompilerInv, ExecInv
  PROVE  TypeOK
<1>1. phase \in {"reading", "running", "returned", "trapped", "rejected"} /\ checker.ok
  BY Zenon DEF CompilerInv, ReadInv, LoadedInv, GivenUp, Loaded, Checked
<1>2. Len(noted) = Len(source)
  BY CodeIs DEF CompilerInv, ReadInv, LoadedInv, GivenUp, EmittedInv
<1>3. ASSUME Loaded, NEW i \in DOMAIN opcodes, opcodes[i].op \in Jumps
      PROVE  opcodes[i].v2 \in 0 .. Len(opcodes) + 1
  <2>1. LoadedInv /\ Code.opcodes = opcodes
    BY <1>3, InvLoaded, CodeIs
  <2>2. i \in 1 .. Len(opcodes) /\ opcodes[i].v2 # kInvalidIndex
    <3>1. opcodes \in Seq(OpcodeRecs)
      BY <2>1 DEF LoadedInv, EmittedInv
    <3>. QED  BY <1>3, <2>1, <3>1 DEF LoadedInv
  <2>. QED  BY <1>3, <2>1, <2>2 DEF LoadedInv, EmittedInv, Emitted
<1>4. pc \in 1 .. Len(opcodes) + 1 \/ phase # "running"
  BY PositionIs
<1>5. \A i \in DOMAIN stack : stack[i].src \in 0 .. Len(source)
  <2>1. stack \in Seq(ValuesOf(Len(source)))
    BY DEF ExecInv, StackInv
  <2>2. \A i \in DOMAIN stack : stack[i] \in ValuesOf(Len(source))
    BY <2>1, ElementIs
  <2>. QED  BY <2>2 DEF ValuesOf
<1>. QED  BY <1>1, <1>2, <1>3, <1>4, <1>5 DEF TypeOK

\* At an opcode that is no end.
LEMMA CheckedHere ==
  ASSUME CompilerInv, ExecInv, phase = "running", ~AtEnd(Code, pc)
  PROVE  AllLive(Known(Code, pc)) /\ TypesOf(Operands) = Known(Code, pc).types
<1>1. PICK types \in Seq(ValueTypes) : Typed(stack, types) /\ Arrives(Code, pc, types)
  BY DEF ExecInv, OperandsInv
<1>2. AllLive(Known(Code, pc)) /\ types = Known(Code, pc).types
  BY <1>1 DEF Arrives
<1>3. StackInv
  BY ZenonT(30) DEF ExecInv
<1>. QED  BY <1>1, <1>2, <1>3, OperandsTyped

\* At an end, of a construct or of the body.
LEMMA CheckedAtEnd ==
  ASSUME CompilerInv, ExecInv, phase = "running", AtEnd(Code, pc), NEW known, known = Known(Code, pc),
         NEW label, label = Last(known.labels)
  PROVE  /\ Live(known, Len(known.labels) - 1)
         /\ Len(Operands) >= label.limit + Len(label.sig)
         /\ TypesOf(Kept(label.limit, Len(label.sig))) = SubSeq(known.types, 1, label.limit) \o label.sig
         /\ ~label.unreachable => TypesOf(Kept(label.limit, Len(label.sig))) = known.types
<1>1. Sound(known) /\ StackInv
  BY EndIs DEF ExecInv
<1>2. PICK types \in Seq(ValueTypes) : Typed(stack, types) /\ Closes(known, Len(known.labels), types)
  BY EndIs
<1>3. label = Innermost(known) /\ label = known.labels[Len(known.labels)] /\ Len(known.labels) \in Nat \ {0}
  BY <1>1, SoundStacks
<1>4. /\ label.limit \in Nat /\ label.sig \in Seq(ValueTypes) /\ label.limit + Len(label.sig) <= Len(types)
      /\ EndsWith(types, label.sig) /\ Closed(known) = SubSeq(types, 1, label.limit) \o label.sig
      /\ Live(known, Len(known.labels) - 1)
  BY <1>1, <1>2, <1>3, KeptIs, ZenonT(30)
<1>5. TypesOf(Kept(label.limit, Len(label.sig))) = Closed(known)
  BY <1>1, <1>2, <1>4, KeptTyped
<1>6. Closed(known) = SubSeq(known.types, 1, label.limit) \o label.sig
  BY <1>3 DEF Closed
<1>7. Len(Operands) = Len(types)
  BY <1>1, <1>2, OperandsTyped
<1>8. ASSUME ~label.unreachable PROVE known.types = Closed(known)
  <2>1. AllLive(known)
    BY <1>3, <1>4, <1>8 DEF AllLive, Live
  <2>. QED  BY <2>1, ReachedEnd, SMTT(20)
<1>. QED  BY <1>4, <1>5, <1>6, <1>7, <1>8, Zenon

\* The property, from the two invariants.
LEMMA OperandsHold ==
  ASSUME CompilerInv, ExecInv
  PROVE  OperandsAsChecked
<1> DEFINE known == noted[Position]
           label == Last(known.labels)
           live(n) == \A k \in 1 .. n : ~known.labels[k].unreachable
           kept == SubSeq(Operands, 1, label.limit) \o Top(Len(label.sig))
           atEnd == source[Position].op = "end"
<1>1. ASSUME phase = "running", ~atEnd
      PROVE  live(Len(known.labels)) /\ TypesOf(Operands) = known.types
  <2>1. known = Known(Code, pc) /\ ~AtEnd(Code, pc)
    BY <1>1, PositionIs
  <2>. QED  BY <1>1, <2>1, CheckedHere DEF AllLive, Live
<1>2. ASSUME phase = "running", atEnd
      PROVE  /\ live(Len(known.labels) - 1)
             /\ Len(Operands) >= label.limit + Len(label.sig)
             /\ TypesOf(kept) = SubSeq(known.types, 1, label.limit) \o label.sig
             /\ ~label.unreachable => TypesOf(kept) = known.types
  <2>1. known = Known(Code, pc) /\ AtEnd(Code, pc)
    BY <1>2, PositionIs
  <2>2. kept = Kept(label.limit, Len(label.sig)) /\ (live(Len(known.labels) - 1) <=> Live(known, Len(known.labels) - 1))
    BY DEF Kept, Live
  <2> HIDE DEF known, label, live, kept
  <2>3. label = Last(known.labels)
    BY DEF label
  <2>. QED  BY <1>2, <2>1, <2>2, <2>3, CheckedAtEnd, Zenon
<1>3. TypeOK
  BY TypesHold
<1>. QED  BY <1>1, <1>2, <1>3, Zenon DEF OperandsAsChecked

\* The accesses, from the two invariants.
LEMMA AccessHolds ==
  ASSUME CompilerInv, ExecInv
  PROVE  AccessAsWritten
<1> SUFFICES ASSUME Running PROVE AccessAsWritten
  BY DEF AccessAsWritten
<1>1. LoadedInv /\ pc \in 1 .. Len(opcodes)
  BY CurrentIs
<1>2. Accesses(opcodes[pc], source[opcodes[pc].src].arg)
  BY <1>1, CodeIs DEF LoadedInv, AccessInv
<1>. QED  BY <1>2 DEF Accesses, AccessAsWritten, MemoryIndex, StaticOffset

\* With a compiler that leaves loops clean, every opcode finds the operands that the type
\* checker accepted its instruction with: no opcode reads an operand of another type, a
\* local, or what lies below the frame.
THEOREM OperandsChecked == CleanLoops => (Spec => []OperandsAsChecked)
<1>. SUFFICES ASSUME CleanLoops PROVE Spec => []OperandsAsChecked
  OBVIOUS
<1>1. CompilerInv /\ ExecInv => OperandsAsChecked
  BY OperandsHold
<1>2. Spec => []ExecInv
  BY ExecInvariant
<1>. QED  BY <1>1, <1>2, CompilerInvariant, PTL

\* An access that is executed has the numbers its instruction was written with, where the
\* compiler put them.
THEOREM AccessesAreWritten == CleanLoops => (Spec => []AccessAsWritten)
<1>. SUFFICES ASSUME CleanLoops PROVE Spec => []AccessAsWritten
  OBVIOUS
<1>1. CompilerInv /\ ExecInv => AccessAsWritten
  BY AccessHolds
<1>2. Spec => []ExecInv
  BY ExecInvariant
<1>. QED  BY <1>1, <1>2, CompilerInvariant, PTL

\* A function that returns leaves its results, and nothing else.
THEOREM ReturnsItsResults == CleanLoops => (Spec => [](phase = "returned" => TypesOf(stack) = Results))
<1>. SUFFICES ASSUME CleanLoops PROVE Spec => [](phase = "returned" => TypesOf(stack) = Results)
  OBVIOUS
<1>1. ExecInv => (phase = "returned" => TypesOf(stack) = Results)
  BY DEF ExecInv
<1>2. Spec => []ExecInv
  BY ExecInvariant
<1>. QED  BY <1>1, <1>2, PTL
=============================================================================
