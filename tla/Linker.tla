------------------------------- MODULE Linker -------------------------------
(***************************************************************************)
(* Runtime::init up to loadRuntime (src/wasm/Environment.cpp): how the     *)
(* imports of every module are bound to objects.                           *)
(*                                                                         *)
(* Every runtime module has, for each kind of object, an index space, and  *)
(* a map from field names to indexes.  performPreLink counts the objects   *)
(* the runtime will own and makes their vectors, which never grow later    *)
(* because the index spaces point into them; linkExternalModules fills in  *)
(* what modules define and then binds import after import.  An import of a *)
(* field that is itself an import not bound yet is bound by recursion, and *)
(* a field of the host that the host does not define by the callbacks of   *)
(* the LinkingPolicy.                                                      *)
(*                                                                         *)
(* Objects are named by where they are: <<"own", module, kind, index>> is a *)
(* definition in a Module, <<"host", kind, field>> one in the HostModule,  *)
(* <<"slot", kind, n>> an element of _funcs, _globals, _memory, _tables.   *)
(***************************************************************************)
EXTENDS Integers, SequencesExt, FiniteSetsExt

CONSTANTS Order,        \* the external modules, in the order of their map
          Host,         \* the host module
          Fields,       \* the names of fields
          Types,        \* signatures, value types; of memories and tables the
                        \* initial pages or entries
          Environments, \* what a Runtime may be initialised from, see below
          Null

VARIABLES env,     \* the Environment and the policy, constant after Init
          phase,   \* "prelink", "define", "import", then "linked" or "failed"
          exports, \* [module -> [field -> [kind, index] or Null]]
          space,   \* [module -> [kind -> index space]], objects or Null
          slots,   \* [kind -> _funcs, _globals, _memory, _tables]
          count,   \* [kind -> the elements of slots in use]
          todo,    \* the imports the loop of linkExternalModules has before it
          calls    \* the calls of processFuncImport (...) under way

vars == <<env, phase, exports, space, slots, count, todo, calls>>

KindOrder == <<"func", "global", "memory", "table">>
Kinds == ToSet(KindOrder)

\* The kinds with limits: what defines or provides one is always kept by the runtime.
Limited == {"memory", "table"}
Externals == ToSet(Order)
Modules == Externals \cup {Host}

\* kInvalidIndex; the indexes here start at 1.
Invalid == 0
Empty == [what |-> Null, type |-> Null]

\* An environment as the readers of its modules have made it: the types of imports and
\* definitions are known, and an export has an index of the kind it is of.
WellFormed(e) ==
    /\ \A m \in Externals, k \in Kinds :
          /\ e.index[m][k] \in Seq(ToSet(e.index[m][k]))
          /\ \A i \in DOMAIN e.index[m][k] :
                LET entry == e.index[m][k][i]
                IN entry.type \in Types /\ (entry.from # Null => entry.field \in Fields)
    /\ \A m \in Externals :
          /\ e.exports[m] \in [Fields -> [kind : Kinds, index : Nat] \cup {Null}]
          /\ \A f \in Fields :
                LET export == e.exports[m][f]
                IN export # Null => export.index \in DOMAIN e.index[m][export.kind]
    /\ \A k \in Kinds, f \in Fields :
          /\ e.host[k][f] # Null => /\ k \notin Limited /\ e.host[k][f].type \in Types
                                    /\ e.host[k][f].mut => k = "global"
          /\ e.policy[k][f] # Null => e.policy[k][f] \in Types

\* The names of objects, in exports and in index spaces.
Objects == ({"own"} \X Externals \X Kinds \X Nat) \cup ({"slot"} \X Kinds \X Nat)
           \cup ({"host", "policy", "copy"} \X Kinds \X Fields)

\* Modules have names of their own and the fields of an environment are finitely many.
ASSUME OrderAssumption == /\ Order \in Seq(Externals)
                          /\ IsInjective(Order)
                          /\ Host \notin Externals
ASSUME FieldsAssumption == IsFiniteSet(Fields)
ASSUME TypesAssumption == Types \subseteq Nat
ASSUME NullAssumption == Null \notin Objects \cup [kind : Kinds, index : Nat]
ASSUME EnvironmentsAssumption == \A e \in Environments : WellFormed(e)
-----------------------------------------------------------------------------
(* What is declared *)

\* env.index[m][k] is the index space that module m declares: of an import the
\* module and field it is from, and of a definition Null.
Entry(o) == env.index[o[2]][o[3]][o[4]]
IsImport(o) == o[1] = "own" /\ Entry(o).from # Null

\* All entries, and the imports among them.
Declared == UNION {{<<"own", m, k, i>> : i \in DOMAIN env.index[m][k]} : m \in Externals, k \in Kinds}
ImportSet == {o \in Declared : IsImport(o)}

\* The loops take module after module, in each kind after kind, and of these entry
\* after entry.
Before(o, p) ==
    LET nth(q) == CHOOSE n \in DOMAIN Order : Order[n] = q[2]
        kth(q) == CHOOSE n \in DOMAIN KindOrder : KindOrder[n] = q[3]
    IN \/ nth(o) < nth(p)
       \/ nth(o) = nth(p) /\ kth(o) < kth(p)
       \/ nth(o) = nth(p) /\ kth(o) = kth(p) /\ o[4] < p[4]

\* Some of the entries in this order.
InOrder(S) ==
    [n \in 1 .. Cardinality(S) |-> CHOOSE o \in S : Cardinality({p \in S : Before(p, o)}) = n - 1]
Imports == InOrder(ImportSet)

\* The object that an entry asks for: the entry the exporter names, or a field of
\* the host.  A mutable global of the host is asked of the policy.
HostProvides(k, f) == env.host[k][f] # Null /\ ~env.host[k][f].mut

Target(o) ==
    LET from == Entry(o).from
        k == o[3]
        f == Entry(o).field
        exported == env.exports[from][f]
    IN IF from = Host
       THEN IF HostProvides(k, f) THEN <<"host", k, f>>
            ELSE IF env.policy[k][f] # Null THEN <<"policy", k, f>> ELSE Null
       ELSE IF from \in Externals /\ exported # Null
            THEN <<"own", from, k, exported.index>> ELSE Null

\* The definition at the end of the chain of imports that starts at o.
Denotes(o) ==
    LET follow(p) == IF p # Null /\ IsImport(p) THEN Target(p) ELSE p
        nth[d \in Nat] == IF d = 0 THEN o ELSE follow(nth[d - 1])
    IN nth[Cardinality(Declared)]

\* The type a definition, or what the policy makes, is declared with.
DeclaredType(d) == CASE d[1] = "own" -> Entry(d).type
                     [] d[1] = "host" -> env.host[d[2]][d[3]].type
                     [] d[1] = "policy" -> env.policy[d[2]][d[3]]

-----------------------------------------------------------------------------
(* performPreLink *)

\* The imports from the host that the policy must provide.
Unknown(k) == {o \in ImportSet : /\ o[3] = k
                                 /\ Entry(o).from = Host
                                 /\ ~HostProvides(k, Entry(o).field)}

\* The definitions that the runtime keeps a copy of.
Copied(k) == InOrder({o \in Declared : /\ o[3] = k
                                       /\ ~IsImport(o)
                                       /\ \/ k \in Limited
                                          \/ k = "global" /\ Entry(o).mut})

\* Mutant: memories that a module defines are not counted.
DefinedUncounted(k) == Cardinality(Unknown(k)) + IF k \in Limited THEN 0 ELSE Len(Copied(k))

PoolSize(k) == Cardinality(Unknown(k)) + Len(Copied(k))

\* The host's functions and globals, and the copies of those that are mutable,
\* from the end of _globals down.
HostFields(k) == SetToSeq({f \in Fields : env.host[k][f] # Null})
HostMutable == SetToSeq({f \in Fields : env.host["global"][f] # Null /\ env.host["global"][f].mut})
CopySlot(n) == PoolSize("global") - n + 1

HostObject(k, f) ==
    IF HostProvides(k, f) THEN <<"host", k, f>>
    ELSE <<"slot", k, CopySlot(CHOOSE n \in DOMAIN HostMutable : HostMutable[n] = f)>>

\* The field f in the exports of the host: put there for an import the policy is to
\* provide, or by a definition.
UnknownAs(f) == {k \in Kinds : \E o \in Unknown(k) : Entry(o).field = f}
DefinedAs(f) == {k \in Kinds : env.host[k][f] # Null}
UnknownExport(f) == [kind |-> CHOOSE k \in UnknownAs(f) : TRUE, index |-> Invalid]
DefinedExport(f) == LET k == CHOOSE l \in DefinedAs(f) : TRUE
                    IN [kind |-> k, index |-> CHOOSE n \in DOMAIN HostFields(k) :
                                                  HostFields(k)[n] = f]

\* Mutant: a definition replaces what was put for imports.
HostReplaces(f) == IF DefinedAs(f) # {} THEN DefinedExport(f)
                   ELSE IF UnknownAs(f) # {} THEN UnknownExport(f) ELSE Null

\* emplace does nothing when the field is there.
HostExport(f) == IF UnknownAs(f) # {} THEN UnknownExport(f)
                 ELSE IF DefinedAs(f) # {} THEN DefinedExport(f) ELSE Null

PreLink ==
    /\ phase = "prelink"
    /\ phase' = "define"
    /\ slots' = [k \in Kinds |-> [n \in 1 .. PoolSize(k) |->
                    IF k = "global" /\ PoolSize(k) - n < Len(HostMutable)
                    THEN LET f == HostMutable[PoolSize(k) - n + 1]
                         IN [what |-> <<"copy", k, f>>, type |-> env.host[k][f].type]
                    ELSE Empty]]
    /\ exports' = [exports EXCEPT ![Host] = [f \in Fields |-> HostExport(f)]]
    /\ space' = [space EXCEPT ![Host] = [k \in Kinds |->
                    [n \in DOMAIN HostFields(k) |-> HostObject(k, HostFields(k)[n])]]]
    /\ UNCHANGED <<env, count, todo, calls>>
-----------------------------------------------------------------------------
(* linkExternalModules *)

\* The first loop: definitions, of which some are copied, and exports.
Define ==
    LET object(o) == IF IsImport(o) THEN Null
                     ELSE IF o \in ToSet(Copied(o[3]))
                          THEN <<"slot", o[3], CHOOSE n \in DOMAIN Copied(o[3]) : Copied(o[3])[n] = o>>
                          ELSE o
    IN /\ phase = "define"
       /\ phase' = "import"
       /\ space' = [m \in Modules |-> IF m = Host THEN space[m]
                        ELSE [k \in Kinds |-> [i \in DOMAIN env.index[m][k] |->
                                                   object(<<"own", m, k, i>>)]]]
       /\ count' = [k \in Kinds |-> Len(Copied(k))]
       /\ slots' = [k \in Kinds |-> [n \in DOMAIN slots[k] |->
                        IF n <= Len(Copied(k))
                        THEN [what |-> Copied(k)[n], type |-> Entry(Copied(k)[n]).type]
                        ELSE slots[k][n]]]
       /\ exports' = [m \in Modules |-> IF m = Host THEN exports[m] ELSE env.exports[m]]
       /\ todo' = Imports
       /\ UNCHANGED <<env, calls>>

\* Mutant: the loop stays where it is.
SameImport == /\ phase = "import"
              /\ calls = <<>>
              /\ todo # <<>>
              /\ calls' = << Head(todo) >>
              /\ UNCHANGED <<env, phase, exports, space, slots, count, todo>>

\* The second loop: the next import.
NextImport == /\ phase = "import"
              /\ calls = <<>>
              /\ todo # <<>>
              /\ calls' = << Head(todo) >>
              /\ todo' = Tail(todo)
              /\ UNCHANGED <<env, phase, exports, space, slots, count>>

\* The import the innermost call is for, what exports says of its field (Null:
\* no such module, or no such export), and the index space it is looked up in.
Wanted == Last(calls)
Source == Entry(Wanted).from
Export == IF Source \in Modules THEN exports[Source][Entry(Wanted).field] ELSE Null
SourceSpace == space[Source][Wanted[3]]

\* The object that the source has at this index, Null when it has none yet.
Found == IF Export.index \in DOMAIN SourceSpace THEN SourceSpace[Export.index] ELSE Null

TypeOf(object) == IF object[1] = "slot" THEN slots[object[2]][object[3]].type
                  ELSE DeclaredType(object)

\* Mutants: any object will do; a memory must have the pages asked for already.
AnyType(k, type, wanted) == TRUE
NeverWidened(k, type, wanted) == type = wanted

\* isSignatureMatch and the validate callbacks; memories and tables are widened instead.
Matches(k, type, wanted) == k \in Limited \/ type = wanted

Widened(object, wanted) ==
    IF object[1] = "slot" /\ object[2] \in Limited /\ wanted > TypeOf(object)
    THEN [slots EXCEPT ![object[2]][object[3]].type = wanted] ELSE slots

\* Mutant: the object is put at the end of the index space.
BoundAtEnd(object) ==
    [m \in Modules |-> [k \in Kinds |->
        IF \E o \in ToSet(calls) : o[2] = m /\ o[3] = k
        THEN Append(space[m][k], object) ELSE space[m][k]]]

\* The call returns true with the object bound, and so do the calls it was made
\* from, which copy the object unseen from the module the inner call was for.
Bound(object) ==
    [m \in Modules |-> [k \in Kinds |-> [i \in DOMAIN space[m][k] |->
        IF <<"own", m, k, i>> \in ToSet(calls) THEN object ELSE space[m][k][i]]]]

\* The source has the object.
ImportFound ==
    /\ calls # <<>>
    /\ Export # Null
    /\ Found # Null
    /\ Matches(Wanted[3], TypeOf(Found), Entry(Wanted).type)
    /\ space' = Bound(Found)
    /\ calls' = <<>>
    /\ slots' = Widened(Found, Entry(Wanted).type)
    /\ UNCHANGED <<env, phase, exports, count, todo>>

\* The source is an external module and imports the field itself.
Recurse ==
    /\ calls # <<>>
    /\ Export # Null
    /\ Found = Null
    /\ Source \in Externals
    /\ calls' = Append(calls, <<"own", Source, Wanted[3], Export.index>>)
    /\ UNCHANGED <<env, phase, exports, space, slots, count, todo>>

PolicyType == env.policy[Wanted[3]][Entry(Wanted).field]

\* The next element of the pool, filled by the policy.  The vector is not checked for
\* room: with none left the write is out of bounds.
NextSlot(k) == count[k] + 1
Filled(k) ==
    LET wanted == Entry(Wanted).type
        type == IF k \in Limited /\ wanted > PolicyType THEN wanted ELSE PolicyType
    IN IF NextSlot(k) \in DOMAIN slots[k]
       THEN [slots EXCEPT ![k][NextSlot(k)] =
                [what |-> <<"policy", k, Entry(Wanted).field>>, type |-> type]]
       ELSE slots

\* The source is the host and does not define the field.
AsksPolicy == /\ calls # <<>>
              /\ Export # Null
              /\ Found = Null
              /\ Source = Host

\* The policy provides it, and the host exports it from now on.
Provide ==
    LET k == Wanted[3]
        object == <<"slot", k, NextSlot(k)>>
    IN /\ AsksPolicy
       /\ PolicyType # Null
       /\ Matches(k, PolicyType, Entry(Wanted).type)
       /\ slots' = Filled(k)
       /\ count' = [count EXCEPT ![k] = NextSlot(k)]
       /\ space' = [Bound(object) EXCEPT ![Host][k] = Append(@, object)]
       /\ exports' = [exports EXCEPT ![Host][Entry(Wanted).field].index = Len(space'[Host][k])]
       /\ calls' = <<>>
       /\ UNCHANGED <<env, phase, todo>>

\* Every other outcome makes init return false, whatever calls it is returned to.
Fail ==
    /\ calls # <<>>
    /\ \/ Export = Null
       \/ /\ Export # Null
          /\ Found # Null
          /\ ~Matches(Wanted[3], TypeOf(Found), Entry(Wanted).type)
       \/ /\ AsksPolicy
          /\ PolicyType = Null \/ ~Matches(Wanted[3], PolicyType, Entry(Wanted).type)
    /\ phase' = "failed"
    /\ calls' = <<>>
    /\ UNCHANGED <<env, exports, space, slots, count, todo>>

Linked == /\ phase = "import"
          /\ calls = <<>>
          /\ todo = <<>>
          /\ phase' = "linked"
          /\ UNCHANGED <<env, exports, space, slots, count, todo, calls>>
-----------------------------------------------------------------------------
(* The environments a Runtime can be initialised from without leaving C++ *)

\* No chain of imports leads back to itself: the recursion has no bound.
Acyclic == \A o \in ImportSet : Denotes(o) # Null => ~IsImport(Denotes(o))

\* Fields are looked up by name only, so a name is of one kind.
OneKindPerField ==
    LET imports == ImportSet
        agree(o, p) == (Entry(o).from = Entry(p).from /\ Entry(o).field = Entry(p).field)
                           => o[3] = p[3]
        exported(o) == env.exports[Entry(o).from][Entry(o).field]
    IN /\ \A f \in Fields : Cardinality(UnknownAs(f) \cup DefinedAs(f)) <= 1
       /\ \A o, p \in imports : agree(o, p)
       /\ \A o \in imports : (Entry(o).from \in Externals /\ exported(o) # Null)
                                 => exported(o).kind = o[3]

\* The mutable globals of the host are copied to the end of _globals, which is sized
\* for what is imported and what modules define.
CopiesFit == Len(HostMutable) <= PoolSize("global")

Init == /\ env \in Environments
        /\ Acyclic /\ OneKindPerField /\ CopiesFit
        /\ phase = "prelink"
        /\ exports = [m \in Modules |-> [f \in Fields |-> Null]]
        /\ space = [m \in Modules |-> [k \in Kinds |-> <<>>]]
        /\ slots = [k \in Kinds |-> <<>>]
        /\ count = [k \in Kinds |-> 0]
        /\ todo = <<>>
        /\ calls = <<>>

Next == \/ PreLink
        \/ Define
        \/ NextImport
        \/ ImportFound
        \/ Recurse
        \/ Provide
        \/ Fail
        \/ Linked

\* One thread runs init from its beginning to its end.
Spec == Init /\ [][Next]_vars /\ WF_vars(Next)
-----------------------------------------------------------------------------
(* Properties *)

TypeOK ==
    /\ phase \in {"prelink", "define", "import", "linked", "failed"}
    /\ \A m \in Modules, f \in Fields :
          exports[m][f] = Null \/ exports[m][f] \in [kind : Kinds, index : Nat]
    /\ \A m \in Externals, k \in Kinds :
          phase \in {"import", "linked"} => Len(space[m][k]) = Len(env.index[m][k])
    /\ \A k \in Kinds : \A n \in DOMAIN slots[k] : slots[k][n].type \in Types \cup {Null}
    /\ count \in [Kinds -> Nat]
    /\ todo \in Seq(ImportSet)
    /\ calls \in Seq(ImportSet)

\* The definition that an object of an index space is, or is the copy of.
Content(object) == IF object[1] = "slot" THEN slots[object[2]][object[3]].what ELSE object

\* An import is bound to the definition that its chain of imports leads to and to
\* nothing else, at every moment (a slot taken twice would change what an earlier
\* import is bound to); and init returns true with no import left unbound.
BoundAsDenoted ==
    \A o \in ImportSet :
        LET object == space[o[2]][o[3]][o[4]]
        IN phase \in {"import", "linked", "failed"} =>
              IF object = Null THEN phase # "linked" ELSE Content(object) = Denotes(o)

\* What performPreLink has counted is enough for all that linking takes, and no
\* field is asked of the policy twice.
SlotsEnough ==
    \A k \in Kinds : /\ count[k] <= Len(slots[k])
                     /\ \A n, l \in 1 .. count[k] : slots[k][n].what = slots[k][l].what => n = l

\* init returns false only when some import leads nowhere, is refused, or leads to
\* something of another type.
FailsForCause ==
    phase = "failed" =>
        \E o \in ImportSet :
            \/ Denotes(o) = Null
            \/ o[3] \notin Limited /\ DeclaredType(Denotes(o)) # Entry(o).type

\* An import has the type it was declared with, and a memory or a table the pages or
\* entries, if what it names is a definition, or an import that was bound before it.
ImportsChecked ==
    phase = "linked" =>
        \A o \in ImportSet :
            LET type == TypeOf(space[o[2]][o[3]][o[4]])
            IN \/ IsImport(Target(o)) /\ ~Before(Target(o), o)
               \/ type = Entry(o).type
               \/ o[3] \in Limited /\ type >= Entry(o).type
=============================================================================
