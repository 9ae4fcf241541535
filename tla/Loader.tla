------------------------------- MODULE Loader -------------------------------
(***************************************************************************)
(* Runtime::loadRuntime (src/wasm/Environment.cpp): what the memories and  *)
(* tables that Linker has bound hold when Runtime::init returns.           *)
(*                                                                         *)
(* Every element of _memory and _tables gets its first pages or entries.   *)
(* Then the modules are taken in the order of their names, the host at its *)
(* place among them: the data segments and then the elements of a module,  *)
(* and for the host a callback of the policy for every memory and table it *)
(* exports.  Where two modules share a memory the later one overwrites.    *)
(* The first item that does not fit ends init with half of it done.        *)
(*                                                                         *)
(* Memory comes from new [] or from the policy.  The ScriptRuntime (src/   *)
(* stappler/src/SPWasmScriptRuntime.cpp) places the Allocator that Script- *)
(* Allocator models inside the memory itself, behind what it takes for the *)
(* module's stack, and segments are copied in after that.                  *)
(*                                                                         *)
(* A cell of a memory is Unset, Zero, part of the Allocator, the host's,   *)
(* or <<module, segment, place>>, a byte that a segment has there.         *)
(***************************************************************************)
EXTENDS Linker

CONSTANTS LoadOrder,      \* all modules in the order of _modules, the host among them
          Contents(_),    \* what the modules of an environment can have to load
          Page,           \* WABT_PAGE_SIZE
          MaxPages,       \* WABT_MAX_PAGES: Page * MaxPages is 2^32
          Boundary,       \* what ALIGN_DEFAULT aligns to
          AllocatorSize,  \* sizeof(Allocator)
          StackType       \* Type::I32

VARIABLES stage,    \* "linking", "allocating", "loading", then "loaded" or "failed"
          chosen,   \* what the modules have to load, and how memory is provided
          memories, \* for each of _memory its cells, Null when data is a null pointer
          tables,   \* for each of _tables its values
          work      \* what is left to do of the loop over _modules

loading == <<stage, chosen, memories, tables, work>>
allVars == <<env, phase, exports, space, slots, count, todo, calls,
             stage, chosen, memories, tables, work>>

Unset == <<"unset">>
Zero == <<"zero">>
Alloc == <<"alloc">>
HostByte == <<"host">>
Cells == {Unset, Zero, Alloc, HostByte} \cup (Externals \X Nat \X Nat)
-----------------------------------------------------------------------------
(* What there is to load *)

\* chosen.data[m] is the sequence of data segments of m, chosen.elements[m] that of
\* its elements: the index of a memory or a table, an offset in it, and a count of bytes
\* or the indexes of functions.  linking[m] is the data size of its linking
\* section or Null, stack[m] the values of its globals, and magic[m] the global that
\* __wasm_get_stack_pointer reads, or Null.  memoryInit and tableInit are the callbacks
\* of the policy, "accepts", "writes" or "refuses", or Null for none; provider is where
\* memory comes from.
Legal(c) ==
    LET indexes(m, k) == DOMAIN env.index[m][k]
    IN \A m \in Externals :
          /\ \A n \in DOMAIN c.data[m] : c.data[m][n].of \in indexes(m, "memory")
          /\ \A n \in DOMAIN c.elements[m] :
                /\ c.elements[m][n].of \in indexes(m, "table")
                /\ ToSet(c.elements[m][n].values) \subseteq indexes(m, "func")
          /\ c.magic[m] \in indexes(m, "global") \cup {Null}

\* What the readers of the modules of e have made of them: numbers, and for a script's
\* modules the values of the globals that could be stack pointers.
HasForm(c, e) ==
    /\ c.provider \in {"new", "pool", "strict", "script"}
    /\ \A m \in Externals :
          /\ c.data[m] \in Seq([of : Nat, offset : Nat, size : Nat])
          /\ c.elements[m] \in Seq([of : Nat, offset : Nat, values : Seq(Nat)])
          /\ c.linking[m] \in Nat \cup {Null}
          /\ c.provider = "script" =>
                \A i \in DOMAIN e.index[m]["global"] :
                    LET global == e.index[m]["global"][i]
                    IN global.mut /\ global.type = StackType => c.stack[m][i] \in Nat

ASSUME LoadOrderAssumption == /\ LoadOrder \in Seq(Modules)
                              /\ IsInjective(LoadOrder)
                              /\ ToSet(LoadOrder) = Modules
ASSUME SizesAssumption == {Page, MaxPages, Boundary, AllocatorSize} \subseteq Nat \ {0}
ASSUME NoDataAssumption == Null \notin Nat \cup Seq(Cells)
ASSUME ContentsAssumption == \A e \in Environments : \A c \in Contents(e) : HasForm(c, e)

\* The loop over _modules.
DataItems(m) == [n \in DOMAIN chosen.data[m] |-> <<"data", m, n>>]
ElementItems(m) == [n \in DOMAIN chosen.elements[m] |-> <<"elements", m, n>>]
HostItems ==
    LET asked == SetToSeq({f \in Fields : exports[Host][f] # Null /\ exports[Host][f].kind \in Limited})
    IN [n \in DOMAIN asked |-> <<"host", Host, asked[n]>>]

\* Mutant: the modules are taken in the order of the environment, the host last.
ItemsHostLast == FlattenSeq([n \in DOMAIN Order |-> DataItems(Order[n]) \o ElementItems(Order[n])])
                 \o HostItems

Items == FlattenSeq([n \in DOMAIN LoadOrder |->
            IF LoadOrder[n] = Host THEN HostItems
            ELSE DataItems(LoadOrder[n]) \o ElementItems(LoadOrder[n])])
-----------------------------------------------------------------------------
(* Where the ScriptRuntime puts its Allocator *)

\* The definition that an object of an index space is, or is the copy of, as in the
\* properties of Linker; its value if it is a mutable I32, else Null.  Globals that the
\* host or the policy provide are not mutable here.
StackValue(m, i) ==
    LET global == Content(space[m]["global"][i])
    IN IF global[1] = "own" /\ Entry(global).mut /\ Entry(global).type = StackType
       THEN chosen.stack[global[2]][global[4]] ELSE Null

\* tryDeduceStackOffsetFromGlobal: of the entries that are neither imported nor
\* exported, the first that gives a value; each is asked for by its place among the
\* definitions of the module (it.index), not by its index.
Exported(m, k, i) ==
    \E f \in Fields : env.exports[m][f] # Null /\ env.exports[m][f] = [kind |-> k, index |-> i]
Definitions(m, k) == {i \in DOMAIN env.index[m][k] : env.index[m][k][i].from = Null}
FromGlobal(m) ==
    LET defined == Definitions(m, "global")
        place(i) == Cardinality({j \in defined : j <= i})
        asked == {i \in defined : ~Exported(m, "global", i) /\ StackValue(m, place(i)) # Null}
    IN IF asked = {} THEN 0 ELSE StackValue(m, place(Min(asked)))

\* tryDeduceStackOffsetWithMagic, which is tried first.
FromMagic(m) == IF chosen.magic[m] = Null THEN Null ELSE StackValue(m, chosen.magic[m])

Has(m, k, n) == <<"slot", k, n>> \in ToSet(space[m][k])

\* What a module says of where its data and stack end: its linking section for every
\* memory there is, or else its stack pointer for the memories that it has.
Says(m, n) == CASE chosen.linking[m] # Null -> chosen.linking[m]
                [] chosen.linking[m] = Null /\ ~Has(m, "memory", n) -> 0
                [] OTHER -> IF FromMagic(m) # Null THEN FromMagic(m) ELSE FromGlobal(m)

Align(size) == ((size + Boundary - 1) \div Boundary) * Boundary

\* Mutant: the word of the first module is taken.
FirstOffset(n) == Align(Says(Head(Order), n))

\* deduceStackOffset
StackOffset(n) == Align(Max({Says(m, n) : m \in Externals}))
-----------------------------------------------------------------------------
(* initMemory, initTable and what the modules bring *)

\* limits.initial of an element of _memory or _tables; some are counted and not used.
Initial(k, n) == IF slots[k][n].type = Null THEN 0 ELSE slots[k][n].type

\* initial * WABT_PAGE_SIZE in 32 bits
Bytes(pages) == (pages * Page) % (MaxPages * Page)

\* Asked for size bytes: new [] makes as many as the limits say and clears one byte a
\* page; pool memory is cleared; the ScriptRuntime's has the Allocator in it, of which
\* the part behind the memory's end is not modelled; and the allocator of a host may
\* refuse to give nothing, which is not noticed.
Given(n, size) ==
    LET pages == Initial("memory", n)
        first == StackOffset(n) + 1
    IN CASE chosen.provider = "new" ->
                [i \in 1 .. Bytes(pages) |-> IF i <= pages THEN Zero ELSE Unset]
         [] chosen.provider = "pool" -> [i \in 1 .. size |-> Zero]
         [] chosen.provider = "script" ->
                [i \in 1 .. size |-> IF i \in first .. first + AllocatorSize - 1
                                      THEN Alloc ELSE Zero]
         [] chosen.provider = "strict" ->
                IF size = 0 THEN Null ELSE [i \in 1 .. size |-> Zero]

\* loadRuntime is called when linkExternalModules has returned true.
LoadBegins ==
    /\ phase = "linked" /\ stage = "linking"
    /\ \E c \in Contents(env) : Legal(c) /\ chosen' = c
    /\ stage' = "allocating"
    /\ UNCHANGED <<vars, memories, tables, work>>

Allocate ==
    /\ stage = "allocating"
    /\ memories' = [n \in DOMAIN slots["memory"] |-> Given(n, Bytes(Initial("memory", n)))]
    /\ tables' = [n \in DOMAIN slots["table"] |-> [i \in 1 .. Initial("table", n) |-> Invalid]]
    /\ work' = Items
    /\ stage' = "loading"
    /\ UNCHANGED <<vars, chosen>>

\* The item the loop is at: a segment, or a field that the host exports.
Turn(what) == stage = "loading" /\ work # <<>> /\ Head(work)[1] = what
Owner == Head(work)[2]
Segment == IF Head(work)[1] = "data" THEN chosen.data[Owner][Head(work)[3]]
           ELSE chosen.elements[Owner][Head(work)[3]]
Slot(k) == space[Owner][k][Segment.of][3]

\* emplaceMemoryData: a memory without data is asked for again, as one page.
Retried == LET cells == memories[Slot("memory")]
           IN IF cells = Null /\ Segment.offset = 0 /\ Segment.size \in 1 .. Page - 1
              THEN Given(Slot("memory"), Page) ELSE cells

\* Mutants: the last byte is not let in; where the segment begins is not looked at.
DataFitsBelow == Segment.offset + Segment.size < IF Retried = Null THEN 0 ELSE Len(Retried)
SizeFits == Segment.size <= IF Retried = Null THEN 0 ELSE Len(Retried)

DataFits == Segment.offset + Segment.size <= IF Retried = Null THEN 0 ELSE Len(Retried)

Overwritten(cells, offset, values) ==
    [i \in 1 .. Max({Len(cells), offset + Len(values)}) |->
        IF i - offset \in DOMAIN values THEN values[i - offset] ELSE cells[i]]

EmplaceData ==
    /\ Turn("data") /\ DataFits
    /\ memories' = [memories EXCEPT ![Slot("memory")] =
                        IF Segment.size = 0 THEN Retried
                        ELSE Overwritten(Retried, Segment.offset,
                                [j \in 1 .. Segment.size |-> <<Owner, Head(work)[3], j>>])]
    /\ work' = Tail(work)
    /\ UNCHANGED <<vars, stage, chosen, tables>>

\* emplaceTableElements: a table of no entries is made to fit.
Resized == LET entries == tables[Slot("table")]
           IN IF entries = <<>> /\ Segment.offset = 0
              THEN [i \in DOMAIN Segment.values |-> Invalid] ELSE entries

ElementsFit == Segment.offset + Len(Segment.values) <= Len(Resized)

EmplaceElements ==
    /\ Turn("elements") /\ ElementsFit
    /\ tables' = [tables EXCEPT ![Slot("table")] =
                      Overwritten(Resized, Segment.offset, Segment.values)]
    /\ work' = Tail(work)
    /\ UNCHANGED <<vars, stage, chosen, memories>>

\* memoryInit or tableInit of the policy; the one that writes writes a byte.
Exports == exports[Host][Head(work)[3]]
Answer == IF Exports.kind = "memory" THEN chosen.memoryInit ELSE chosen.tableInit

InitHost ==
    /\ Turn("host") /\ Answer # "refuses"
    /\ memories' = IF Answer = "writes" /\ Exports.kind = "memory"
                   THEN LET n == space[Host]["memory"][Exports.index][3]
                        IN IF memories[n] \in {Null, <<>>} THEN memories
                           ELSE [memories EXCEPT ![n][1] = HostByte]
                   ELSE memories
    /\ work' = Tail(work)
    /\ UNCHANGED <<vars, stage, chosen, tables>>

\* What was placed stays; init returns false.
LoadFails ==
    /\ \/ Turn("data") /\ ~DataFits
       \/ Turn("elements") /\ ~ElementsFit
       \/ Turn("host") /\ Answer = "refuses"
    /\ stage' = "failed"
    /\ memories' = IF Head(work)[1] = "data"
                   THEN [memories EXCEPT ![Slot("memory")] = Retried] ELSE memories
    /\ UNCHANGED <<vars, chosen, tables, work>>

Loaded ==
    /\ stage = "loading" /\ work = <<>>
    /\ stage' = "loaded"
    /\ UNCHANGED <<vars, chosen, memories, tables, work>>

LoaderInit == /\ Init
              /\ stage = "linking"
              /\ chosen = Null
              /\ memories = <<>>
              /\ tables = <<>>
              /\ work = <<>>

Linking == Next /\ UNCHANGED loading

LoaderNext == \/ Linking
              \/ LoadBegins
              \/ Allocate
              \/ EmplaceData
              \/ EmplaceElements
              \/ InitHost
              \/ LoadFails
              \/ Loaded

\* One thread runs init from its beginning to its end.
LoaderSpec == LoaderInit /\ [][LoaderNext]_allVars /\ WF_allVars(LoaderNext)
-----------------------------------------------------------------------------
(* Properties *)

\* The values of every variable, with those of Linker; and while loading goes on no
\* memory or table changes its size except by being asked for again or made to fit.
LoaderTypeOK ==
    /\ TypeOK
    /\ stage \in {"linking", "allocating", "loading", "loaded", "failed"}
    /\ stage \in {"loading", "loaded", "failed"} =>
          /\ \A n \in DOMAIN memories : memories[n] # Null =>
                Len(memories[n]) \in {Bytes(Initial("memory", n)), Page}
          /\ \A n \in DOMAIN tables :
                /\ Initial("table", n) > 0 => Len(tables[n]) = Initial("table", n)
                /\ \A i \in DOMAIN tables[n] : tables[n][i] \in Nat

\* What is declared: the segments of all modules that are for the definition d, as
\* <<place in the order, module, number>>, and whether the host initialises d.
Place(m) == CHOOSE p \in DOMAIN LoadOrder : LoadOrder[p] = m
For(d, k, items) ==
    UNION {{<<Place(m), m, n>> : n \in {l \in DOMAIN items[m] :
                Denotes(<<"own", m, k, items[m][l].of>>) = d}} : m \in Externals}
Later(s, t) == s[1] > t[1] \/ (s[1] = t[1] /\ s[3] > t[3])
LastOf(S) == CHOOSE s \in S : \A t \in S \ {s} : Later(s, t)

\* When init returns true a byte that segments have a value for holds that of the last
\* of them, module after module in the order of names and in each in the order of the
\* file, whether the module defines the memory or reaches it by imports of imports; a
\* byte that the host has written after that is the host's; and any other is zero, save
\* the Allocator's and those that new [] has left as they were.
BytesAsDeclared ==
    stage = "loaded" =>
        \A n \in 1 .. count["memory"] : memories[n] # Null =>
            \A i \in DOMAIN memories[n] :
                LET d == slots["memory"][n].what
                    all == For(d, "memory", chosen.data)
                    here == {s \in all : LET t == chosen.data[s[2]][s[3]]
                                        IN i \in t.offset + 1 .. t.offset + t.size}
                    last == LastOf(here)
                    host == i = 1 /\ d[1] = "policy" /\ chosen.memoryInit = "writes"
                IN memories[n][i] =
                     IF host /\ \A s \in here : s[1] < Place(Host) THEN HostByte
                     ELSE IF here # {} THEN <<last[2], last[3], i - chosen.data[last[2]][last[3]].offset>>
                     ELSE IF memories[n][i] = Alloc /\ chosen.provider = "script" THEN Alloc
                     ELSE IF chosen.provider = "new" /\ i > Initial("memory", n) THEN Unset
                     ELSE Zero

\* The same of the entries of tables.  They are indexes of functions of the module that
\* has placed them, and of nothing in another that shares the table.
EntriesAsDeclared ==
    stage = "loaded" =>
        \A n \in 1 .. count["table"] : \A i \in DOMAIN tables[n] :
            LET items == chosen.elements
                here == {s \in For(slots["table"][n].what, "table", items) :
                            i - items[s[2]][s[3]].offset \in DOMAIN items[s[2]][s[3]].values}
                last == LastOf(here)
            IN tables[n][i] = IF here = {} THEN Invalid
                              ELSE items[last[2]][last[3]].values[i - items[last[2]][last[3]].offset]

ContentsAsDeclared == BytesAsDeclared /\ EntriesAsDeclared

\* Where a module's data and stack end, by what its compiler has written: the linking
\* section, what __wasm_get_stack_pointer returns, or its first global that is mutable,
\* an I32 and not exported.  Null when it says nothing.
DeclaredEnd(m) ==
    LET global(i) == env.index[m]["global"][i]
        pointer(i) == global(i).from = Null /\ global(i).mut /\ global(i).type = StackType
        pointers == {i \in DOMAIN env.index[m]["global"] : pointer(i) /\ ~Exported(m, "global", i)}
    IN IF chosen.linking[m] # Null THEN chosen.linking[m]
       ELSE IF chosen.magic[m] # Null /\ pointer(chosen.magic[m])
            THEN chosen.stack[m][chosen.magic[m]]
       ELSE IF pointers # {} THEN chosen.stack[m][Min(pointers)] ELSE Null

\* The Allocator of a script's memory is whole when init returns true, and behind all
\* data, if every module that uses the memory has said where its data and stack end and
\* told the truth, the greatest end that any module has named leaves room for it, and
\* no module whose globals are asked imports globals (see FromGlobal), and the host has
\* written nothing.
AllocatorIntact ==
    (stage = "loaded" /\ chosen.provider = "script" /\ chosen.memoryInit # "writes") =>
        \A n \in 1 .. count["memory"] :
            LET d == slots["memory"][n].what
                users == {m \in Externals : \E i \in DOMAIN env.index[m]["memory"] :
                                                Denotes(<<"own", m, "memory", i>>) = d}
                segments == {chosen.data[s[2]][s[3]] : s \in For(d, "memory", chosen.data)}
                truthful(m) ==
                    /\ DeclaredEnd(m) # Null
                    /\ \A l \in DOMAIN chosen.data[m] :
                          chosen.data[m][l].offset + chosen.data[m][l].size <= DeclaredEnd(m)
                    /\ \/ chosen.linking[m] # Null
                       \/ \A i \in DOMAIN env.index[m]["global"] : env.index[m]["global"][i].from = Null
                named == {chosen.linking[m] : m \in Externals} \cup {DeclaredEnd(m) : m \in users}
                alloc == {i \in DOMAIN memories[n] : memories[n][i] = Alloc}
            IN (/\ users # {}
                /\ \A m \in users : truthful(m)
                /\ Align(Max(named \ {Null})) + AllocatorSize <= Len(memories[n]))
               => /\ Cardinality(alloc) = AllocatorSize
                  /\ \A s \in segments : \A i \in alloc : s.size > 0 => i > s.offset + s.size
                  /\ \A m \in users, i \in alloc : i > DeclaredEnd(m)

\* init returns false only when some import leads nowhere, is refused or leads to
\* something of another type, some segment ends behind the pages or entries that its
\* memory or table has been given, a memory has 2^32 bytes or more, or the host refuses.
InitFailsForCause ==
    /\ FailsForCause
    /\ stage = "failed" =>
          \/ \E n \in 1 .. count["memory"] : \E s \in For(slots["memory"][n].what, "memory", chosen.data) :
                LET t == chosen.data[s[2]][s[3]]
                IN \/ t.offset + t.size > Initial("memory", n) * Page
                   \/ Initial("memory", n) >= MaxPages
          \/ \E n \in 1 .. count["table"] : \E s \in For(slots["table"][n].what, "table", chosen.elements) :
                LET t == chosen.elements[s[2]][s[3]]
                IN t.offset + Len(t.values) > Initial("table", n)
          \/ "refuses" \in {chosen.memoryInit, chosen.tableInit}

\* init ends, whatever it is given.
InitEnds == <>(phase = "failed" \/ stage \in {"loaded", "failed"})
=============================================================================
