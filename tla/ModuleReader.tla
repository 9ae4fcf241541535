----------------------------- MODULE ModuleReader -----------------------------
(***************************************************************************)
(* Environment::loadModule: a binary image is read, section by section and  *)
(* item by item, into the Module it is to become (wasm/Binary.cpp,          *)
(* BinaryObjects.cc, BinaryData.cc, BinarySource.cc). The module is in      *)
(* _externalModules while it is read, and is erased when the reading fails. *)
(* BinaryReader counts what the sections announce and checks indices        *)
(* against these counts; ModuleReader keeps the objects, and checks against *)
(* those.                                                                   *)
(*                                                                          *)
(* An image is any sequence of sections and items up to a bound, with any   *)
(* index up to one past the end. Signatures, limits, constants and bodies   *)
(* are identified by the place they are read at. Bodies are the matter of   *)
(* FuncCompiler: here they are well-formed, or malformed like anything else.*)
(* What is malformed fails before it leaves anything in the module.         *)
(* Indices start at 1.                                                      *)
(*                                                                          *)
(* source is history: the items of the image being read, or read last.      *)
(***************************************************************************)
EXTENDS Naturals, Sequences, SequencesExt, FiniteSets, FiniteSetsExt, Functions, TLC

CONSTANTS
    Names,         \* the names modules are loaded under
    Loaded,        \* name -> Module: modules loaded before
    HostGlobals,   \* <<module, field>> -> value: what host modules export
    Fields,        \* the names of exports
    ValueTypes,    \* the types of globals, "i32" among them
    MaxDepth,      \* how many imports getGlobalValue follows
    Reload,        \* TRUE: a name may be loaded again
    Unnoticed,     \* flaws the reader does not notice and images may have, see below
    Importable,    \* <<kind, module, field>>: what images may import
    Counts,        \* section -> the numbers of items it may announce
    Customs,       \* the custom sections images may have: [section, funcs, whole]
    DebugNames,    \* the option read_debug_names
    MaxCustoms,    \* bound on the custom sections of an image
    MaxLength,     \* bound on the other sections and the items of an image
    MaxFailed      \* the same, of what is read behind a section that failed

Flaws == {"target",       \* a segment names a table, a memory or a function that is not there
          "initializer",  \* a segment has an empty initializer
          "self",         \* the initializer of a global names the global
          "code"}         \* functions are declared and there is no code section
ASSUME FlawShape == Unnoticed \subseteq Flaws
ASSUME DepthShape == MaxDepth \in Nat
ASSUME CountShape == Counts["start"] = {1}

Order == <<"type", "import", "function", "table", "memory", "global", "export",
           "start", "elem", "code", "data">>
Code(section) == SelectInSeq(Order, LAMBDA s : s = section)
Kinds == {"func", "table", "memory", "global"}
ModuleNames == Names \cup DOMAIN Loaded \cup {target[1] : target \in DOMAIN HostGlobals}
None == "none"
NoValue == [type |-> None, at |-> <<>>]

VARIABLES
    modules,   \* _externalModules: name -> Module
    reader,    \* the BinaryReader and the ModuleReader of the load
    outcome,   \* "idle", "reading", or how the last load ended: "accepted", "rejected"
    source

vars == <<modules, reader, outcome, source>>

EmptyModule ==
    [types |-> <<>>, imports |-> <<>>, defs |-> [k \in Kinds |-> <<>>],
     index |-> [k \in Kinds |-> <<>>], exports |-> <<>>, elements |-> <<>>, data |-> <<>>,
     start |-> <<>>, dataSize |-> <<>>]
NoneYet == [k \in Kinds |-> 0]
NewReader(name) ==
    [name |-> name, ok |-> TRUE,
     last |-> 0, section |-> None, count |-> 0, item |-> 0,
     signatures |-> 0, imported |-> NoneYet, declared |-> NoneYet, initExpr |-> NoValue]

Init ==
    /\ modules = Loaded
    /\ reader = NewReader(None)
    /\ outcome = "idle" /\ source = <<>>

M == modules[reader.name]
\* Mutant: imports are not counted.
NumDefined(r, kind) == r.declared[kind]

\* NumTotalFuncs, NumTotalTables, NumTotalMemories, NumTotalGlobals
NumTotal(r, kind) == r.imported[kind] + r.declared[kind]
-----------------------------------------------------------------------------
Place == <<reader.name, Len(source) + 1>>
Custom(image) == SelectSeq(image, LAMBDA item : item.what = "custom")
Note(item) ==
    /\ source' = Append(source, item)
    /\ Len(Custom(source')) <= MaxCustoms
    /\ Len(source') - Len(Custom(source')) <= IF reader.ok THEN MaxLength ELSE MaxFailed

End(result, kept) ==
    /\ outcome' = result
    /\ modules' = kept
    /\ reader' = NewReader(reader.name)
\* Mutant: what has been read of the module stays.
RejectKeeps == End("rejected", modules)

\* loadModule erases the module by its name.
Reject == End("rejected", Restrict(modules, DOMAIN modules \ {reader.name}))

\* A section that fails ends the reading if the option stop_on_first_error is set,
\* which is looked at here alone. If not, the next section is read, with what the
\* failed one has left.
SectionFails(r, left) ==
    \/ r.ok /\ Reject
    \/ /\ modules' = [modules EXCEPT ![r.name] = left]
       /\ reader' = [r EXCEPT !.ok = FALSE, !.section = None,
                              !.last = IF r.section = None THEN @ ELSE Code(r.section)]
       /\ UNCHANGED outcome

In(section) == outcome = "reading" /\ reader.section = section /\ reader.item < reader.count
\* An item is read: with r and m if it is good, with left if not.
ReadItem(item, good, r, m, left) ==
    /\ Note(item)
    /\ IF good
       THEN /\ modules' = [modules EXCEPT ![r.name] = m]
            /\ reader' = [r EXCEPT !.item = @ + 1]
            /\ UNCHANGED outcome
       ELSE SectionFails(r, left)
-----------------------------------------------------------------------------
(* The sections that declare. *)

Has(sequence, index) == index \in DOMAIN sequence
Upto(n) == 1 .. n + 1
IndexObject(import, index) == [import |-> import, index |-> index]

\* OnType adds a signature at the end, and expects its number to be that one.
OnType(m) == [m EXCEPT !.types = Append(@, Place)]
ReadType ==
    /\ In("type")
    /\ ReadItem([what |-> "type", at |-> Place], reader.item = Len(M.types), reader, OnType(M), M)

\* Mutant: the index among the imports of the kind.
ImportedByKind(m, kind, import) ==
    [m EXCEPT !.imports = Append(@, import),
              !.index[kind] = Append(@, IndexObject(TRUE, Len(@) + 1))]

Imported(m, kind, import) ==
    [m EXCEPT !.imports = Append(@, import),
              !.index[kind] = Append(@, IndexObject(TRUE, Len(m.imports) + 1))]
ReadImport(kind, module, field, sig) ==
    /\ In("import")
    /\ LET import == [kind |-> kind, module |-> module, field |-> field,
                      of |-> IF kind = "func" THEN M.types[sig] ELSE Place]
       IN  ReadItem([what |-> "import", kind |-> kind, module |-> module, field |-> field,
                     sig |-> sig, at |-> Place],
                    kind = "func" => sig <= reader.signatures /\ Has(M.types, sig),
                    [reader EXCEPT !.imported[kind] = @ + 1],
                    Imported(M, kind, import), M)

Defined(m, kind, def) ==
    [m EXCEPT !.defs[kind] = Append(@, def),
              !.index[kind] = Append(@, IndexObject(FALSE, Len(m.defs[kind]) + 1))]
ReadFunction(sig) ==
    /\ In("function")
    /\ ReadItem([what |-> "function", sig |-> sig],
                sig <= reader.signatures /\ Has(M.types, sig), reader,
                Defined(M, "func", [sig |-> M.types[sig], body |-> FALSE, name |-> <<>>]), M)
ReadTable == In("table") /\ ReadItem([what |-> "table", at |-> Place], TRUE, reader, Defined(M, "table", Place), M)
ReadMemory == In("memory") /\ ReadItem([what |-> "memory", at |-> Place], TRUE, reader, Defined(M, "memory", Place), M)
-----------------------------------------------------------------------------
(* Initializers: _initExprValue is what the last one has left. *)

\* The value of a global of another module, of one it imports, or of the host.
getGlobalValue(module, field) ==
    LET value[depth \in 0 .. MaxDepth, n \in ModuleNames, f \in Fields] ==
            LET exports == IF n \in DOMAIN modules THEN modules[n].exports ELSE <<>>
                found   == SelectInSeq(exports, LAMBDA e : e.kind = "global" /\ e.name = f)
                index   == exports[found].index
                import  == modules[n].imports[index.index]
            IN  IF depth = MaxDepth THEN NoValue
                ELSE IF found # 0
                THEN IF index.import THEN value[depth + 1, import.module, import.field]
                     ELSE modules[n].defs["global"][index.index]
                ELSE IF <<n, f>> \in DOMAIN HostGlobals THEN HostGlobals[<<n, f>>] ELSE NoValue
    IN  value[0, module, field]

OnInitExprGetGlobalExpr(m, i) ==
    LET index  == m.index["global"][i]
        import == m.imports[index.index]
    IN  IF ~Has(m.index["global"], i) THEN NoValue
        ELSE IF index.import THEN getGlobalValue(import.module, import.field)
        ELSE m.defs["global"][index.index]

\* The value before, if there is no initializer but its end.
Evaluate(m, init, before) ==
    CASE init.op = "const" -> [type |-> init.type, at |-> Place]
      [] init.op = "get_global" -> OnInitExprGetGlobalExpr(m, init.index)
      [] init.op = "end" -> before

Consts == {[op |-> "const", type |-> type] : type \in ValueTypes}
Gets(indices) == {[op |-> "get_global", index |-> i] : i \in indices}
Empty == [op |-> "end"]

EndGlobalInitExpr(m, number, value) == [m EXCEPT !.defs["global"][number] = value]

\* The global is there, as a zero of its type, when its initializer is read;
\* the value is stored in the global with the number of the item.
ReadGlobal(type, init) ==
    /\ In("global")
    /\ LET begun  == Defined(M, "global", [type |-> type, at |-> <<>>])
           number == reader.item + 1
           value  == Evaluate(begun, init, NoValue)
       IN  ReadItem([what |-> "global", type |-> type, init |-> init, at |-> Place],
                    value.type = begun.defs["global"][number].type,
                    [reader EXCEPT !.initExpr = value],
                    EndGlobalInitExpr(begun, number, value), begun)

\* What a segment's initializer leaves must be an i32. A global that is not found
\* leaves nothing.
Segment(item, right, value, m) ==
    ReadItem(item, right /\ value.type = "i32",
             [reader EXCEPT !.initExpr = IF value = NoValue THEN @ ELSE value], m, M)

OnElemSegment(m, table, offset, funcs) ==
    [m EXCEPT !.elements = Append(@, [table |-> table, offset |-> offset, values |-> funcs])]
OnDataSegment(m, memory, offset) ==
    [m EXCEPT !.data = Append(@, [memory |-> memory, offset |-> offset, data |-> Place])]

\* Mutant: the segment is added before its initializer has been read.
ReadDataEarly(memory, init) ==
    /\ In("data")
    /\ LET offset == Evaluate(M, init, reader.initExpr)
       IN  Segment([what |-> "data", memory |-> memory, init |-> init, at |-> Place],
                   reader.item = Len(M.data), offset, OnDataSegment(M, memory, reader.initExpr))

\* BeginElemSegment and BeginDataSegment keep the index and do not look it up.
ReadElem(table, init, funcs) ==
    /\ In("elem")
    /\ LET offset == Evaluate(M, init, reader.initExpr)
       IN  Segment([what |-> "elem", table |-> table, init |-> init, funcs |-> funcs, at |-> Place],
                   reader.item = Len(M.elements), offset, OnElemSegment(M, table, offset, funcs))
ReadData(memory, init) ==
    /\ In("data")
    /\ LET offset == Evaluate(M, init, reader.initExpr)
       IN  Segment([what |-> "data", memory |-> memory, init |-> init, at |-> Place],
                   reader.item = Len(M.data), offset, OnDataSegment(M, memory, offset))
-----------------------------------------------------------------------------
(* The sections that refer to what is declared. *)

OnExport(m, kind, object, name) ==
    [m EXCEPT !.exports =
        Append(@, [kind |-> kind, object |-> object, index |-> m.index[kind][object], name |-> name])]
ReadExport(kind, object, name) ==
    /\ In("export")
    /\ ReadItem([what |-> "export", kind |-> kind, object |-> object, name |-> name],
                object <= NumTotal(reader, kind) /\ Has(M.index[kind], object), reader,
                OnExport(M, kind, object, name), M)
OnStartFunction(m, func) == [m EXCEPT !.start = <<m.index["func"][func]>>]
ReadStart(func) ==
    /\ In("start")
    /\ ReadItem([what |-> "start", func |-> func],
                func <= NumTotal(reader, "func") /\ Has(M.index["func"], func), reader,
                OnStartFunction(M, func), M)
\* One body: of the function with the number of the item.
ReadBody ==
    /\ In("code")
    /\ ReadItem([what |-> "code"], Has(M.defs["func"], reader.item + 1), reader,
                [M EXCEPT !.defs["func"][reader.item + 1].body = TRUE], M)
-----------------------------------------------------------------------------
(* ReadSections. *)

DeclaredBy == [function |-> "func", table |-> "table", memory |-> "memory", global |-> "global"]
\* The count is stored before it is looked at.
Counted(section, n) ==
    LET opened == [reader EXCEPT !.section = section, !.count = n, !.item = 0]
    IN  IF section \in DOMAIN DeclaredBy
        THEN [opened EXCEPT !.declared[DeclaredBy[section]] = n]
        ELSE IF section = "type" THEN [opened EXCEPT !.signatures = n] ELSE opened

CountAllowed(r) ==
    CASE r.section \in {"table", "memory"} -> r.count <= 1
      [] r.section = "elem" -> r.count = 0 \/ NumTotal(r, "table") > 0
      [] r.section = "data" -> r.count = 0 \/ NumTotal(r, "memory") > 0
      [] r.section = "code" -> r.count = r.declared["func"]
      [] OTHER -> TRUE

BetweenSections == outcome = "reading" /\ reader.section = None
OpenSection(section, n) ==
    /\ BetweenSections
    /\ Note([what |-> "section", section |-> section, count |-> n])
    /\ IF Code(section) <= reader.last THEN Reject
       ELSE IF CountAllowed(Counted(section, n))
       THEN reader' = Counted(section, n) /\ UNCHANGED <<modules, outcome>>
       ELSE SectionFails(Counted(section, n), M)
CloseSection ==
    /\ outcome = "reading" /\ reader.section # None /\ reader.item = reader.count
    /\ reader' = [reader EXCEPT !.last = Code(reader.section), !.section = None]
    /\ UNCHANGED <<modules, outcome, source>>

\* Custom sections may come anywhere, and keep the last known section. A name
\* section is looked at behind the imports, or where there was no section yet: the
\* last known section is Invalid then, the highest of all.
NameSectionOk(last) == DebugNames /\ (last = 0 \/ last >= Code("import"))
Increasing(funcs, j) == j > 1 => funcs[j - 1] < funcs[j]

\* Mutant: the index is taken for the number of a function of the module.
NameByNumber(m, func) ==
    IF Has(m.defs["func"], func)
    THEN [m EXCEPT !.defs["func"][func].name = <<Place, func>>] ELSE m

\* Imported functions keep no name.
OnFunctionName(m, func) ==
    LET index == m.index["func"][func]
    IN  IF Has(m.index["func"], func) /\ ~index.import
        THEN [m EXCEPT !.defs["func"][index.index].name = <<Place, func>>] ELSE m
\* Names are given to functions in the order of their indices, up to a wrong one.
NamesGood(funcs) ==
    {j \in DOMAIN funcs : \A k \in 1 .. j :
        funcs[k] <= NumTotal(reader, "func") /\ Increasing(funcs, k)}
ReadNamesSection(m, funcs) ==
    FoldLeft(OnFunctionName, m, SubSeq(funcs, 1, Cardinality(NamesGood(funcs))))
ReadLinkingSection(m) == [m EXCEPT !.dataSize = Place]

ReadCustomSection(custom) ==
    LET named == custom.section = "name" /\ NameSectionOk(reader.last)
        left  == CASE named -> ReadNamesSection(M, custom.funcs)
                   [] custom.section = "linking" -> ReadLinkingSection(M)
                   [] OTHER -> M
    IN  /\ BetweenSections
        /\ Note([what |-> "custom", custom |-> custom])
        /\ IF custom.whole /\ (named => NamesGood(custom.funcs) = DOMAIN custom.funcs)
           THEN modules' = [modules EXCEPT ![reader.name] = left] /\ UNCHANGED <<reader, outcome>>
           ELSE SectionFails(reader, left)

\* What cannot be read: inside of a section it is the section's failure.
Malformed == [what |-> "malformed"]
ReadMalformed ==
    /\ outcome = "reading"
    /\ Note(Malformed)
    /\ IF reader.section = None \/ reader.item = reader.count THEN Reject
       ELSE SectionFails(reader, M)

LoadModule(name) ==
    /\ outcome # "reading"
    /\ name \in DOMAIN modules => Reload
    /\ modules' = modules @@ (name :> EmptyModule)
    /\ reader' = NewReader(name)
    /\ outcome' = "reading" /\ source' = <<>>
HasCode == reader.declared["func"] > 0 => \E i \in DOMAIN source :
               source[i].what = "section" /\ source[i].section = "code"
EndModule ==
    /\ BetweenSections
    /\ HasCode \/ "code" \in Unnoticed
    /\ IF reader.ok THEN End("accepted", modules) ELSE Reject
    /\ UNCHANGED source
-----------------------------------------------------------------------------
(* The images: what the next item may be. *)

ChosenIndices(total, flaw) == IF flaw \in Unnoticed THEN Upto(total) ELSE 1 .. total
GlobalInits ==
    LET own == Len(M.index["global"]) + 1
    IN  Consts \cup {Empty} \cup
        Gets(IF "self" \in Unnoticed THEN Upto(own) ELSE Upto(own) \ {own})
SegmentInits ==
    Consts \cup Gets(Upto(Len(M.index["global"])))
      \cup (IF "initializer" \in Unnoticed THEN {Empty} ELSE {})
Targets(kind) == ChosenIndices(NumTotal(reader, kind), "target")

ReadDeclaration ==
    \/ ReadType \/ ReadTable \/ ReadMemory
    \/ \E i \in Importable :
        \E sig \in IF i[1] = "func" THEN Upto(reader.signatures) ELSE {0} :
            ReadImport(i[1], i[2], i[3], sig)
    \/ \E sig \in Upto(reader.signatures) : ReadFunction(sig)
    \/ In("global") /\ \E type \in ValueTypes, init \in GlobalInits : ReadGlobal(type, init)

ReadReference ==
    \/ \E kind \in Kinds, name \in Fields : \E object \in Upto(NumTotal(reader, kind)) :
        ReadExport(kind, object, name)
    \/ \E func \in Upto(NumTotal(reader, "func")) : ReadStart(func)
    \/ ReadBody
    \/ In("elem") /\ \E table \in Targets("table"), init \in SegmentInits :
        \E funcs \in {<<>>} \cup {<<f>> : f \in Targets("func")} : ReadElem(table, init, funcs)
    \/ In("data") /\ \E memory \in Targets("memory"), init \in SegmentInits : ReadData(memory, init)

ReadSections ==
    \/ \E section \in DOMAIN Counts : \E n \in Counts[section] : OpenSection(section, n)
    \/ \E custom \in Customs : ReadCustomSection(custom)
    \/ CloseSection \/ ReadMalformed
    \/ ReadDeclaration \/ ReadReference

Next ==
    \/ \E name \in Names : LoadModule(name)
    \/ ReadSections \/ EndModule
Spec == Init /\ [][Next]_vars
-----------------------------------------------------------------------------
(* What an image means, with all its items known at once. *)

Of(what) == SelectSeq(source, LAMBDA item : item.what = what)
ImportsOf(kind) == SelectSeq(Of("import"), LAMBDA item : item.kind = kind)
DefinedAs == [func |-> "function", table |-> "table", memory |-> "memory", global |-> "global"]
Total(kind) == Len(ImportsOf(kind)) + Len(Of(DefinedAs[kind]))
Referred(kind, i) ==
    LET imports == ImportsOf(kind)
    IN  IF i <= Len(imports)
        THEN IndexObject(TRUE, SelectInSeq(Of("import"), LAMBDA item : item = imports[i]))
        ELSE IndexObject(FALSE, i - Len(imports))

\* The value of the n-th global the image defines.
ValueOf ==
    LET global == Of("global")
        imports == ImportsOf("global")
        value[n \in DOMAIN global] ==
            LET init == global[n].init
            IN  CASE init.op = "const" -> [type |-> init.type, at |-> global[n].at]
                  [] init.op = "get_global" ->
                        IF init.index \in DOMAIN imports
                        THEN getGlobalValue(imports[init.index].module, imports[init.index].field)
                        ELSE IF init.index - Len(imports) \in 1 .. n - 1
                        THEN value[init.index - Len(imports)] ELSE NoValue
                  [] OTHER -> NoValue
    IN  value
OffsetOf(item) ==
    CASE item.init.op = "const" -> [type |-> item.init.type, at |-> item.at]
      [] item.init.op = "get_global" ->
            LET imports == ImportsOf("global")
                i       == item.init.index
            IN  IF i \in DOMAIN imports THEN getGlobalValue(imports[i].module, imports[i].field)
                ELSE IF i - Len(imports) \in DOMAIN Of("global") THEN ValueOf[i - Len(imports)]
                ELSE NoValue
      [] OTHER -> NoValue

\* The sections, and the number of functions, in front of the p-th item.
LastBefore(p) ==
    Max({0} \cup {Code(source[q].section) : q \in {q \in 1 .. p - 1 : source[q].what = "section"}})
FuncsBefore(p) ==
    Cardinality({q \in 1 .. p - 1 : \/ source[q].what = "function"
                                    \/ source[q].what = "import" /\ source[q].kind = "func"})
CustomsOf(section) ==
    {p \in DOMAIN source : source[p].what = "custom" /\ source[p].custom.section = section}
NameSections == {p \in CustomsOf("name") : NameSectionOk(LastBefore(p))}
\* Where the function with that index got its name last, and the size came from.
NameOf(func) ==
    LET named == {p \in NameSections : func \in Range(source[p].custom.funcs)}
    IN  IF named = {} THEN <<>> ELSE <<<<reader.name, Max(named)>>, func>>
DataSize ==
    LET linking == CustomsOf("linking")
    IN  IF linking = {} THEN <<>> ELSE <<reader.name, Max(linking)>>

SignatureExists(item) == item.sig \in DOMAIN Of("type")
Sections == Of("section")
Valid ==
    /\ Malformed \notin Range(source)
    /\ \A i, j \in DOMAIN Sections : i < j => Code(Sections[i].section) < Code(Sections[j].section)
    /\ \A item \in Range(Of("custom")) : item.custom.whole
    /\ \A p \in NameSections : \A j \in DOMAIN source[p].custom.funcs :
        /\ source[p].custom.funcs[j] <= FuncsBefore(p)
        /\ Increasing(source[p].custom.funcs, j)
    /\ \A item \in Range(ImportsOf("func") \o Of("function")) : SignatureExists(item)
    /\ \A item \in Range(Sections) :
        /\ item.section \in {"table", "memory"} => item.count <= 1
        /\ item.section = "code" => item.count = Len(Of("function"))
        /\ item.section = "elem" /\ item.count > 0 => Total("table") > 0
        /\ item.section = "data" /\ item.count > 0 => Total("memory") > 0
    /\ \A n \in DOMAIN Of("global") : ValueOf[n].type = Of("global")[n].type
    /\ \A item \in Range(Of("export")) : item.object <= Total(item.kind)
    /\ \A item \in Range(Of("start")) : item.func <= Total("func")
    /\ \A item \in Range(Of("elem") \o Of("data")) : OffsetOf(item).type = "i32"

MapSeq(sequence, Op(_)) == [i \in DOMAIN sequence |-> Op(sequence[i])]
Denoted ==
    LET types   == MapSeq(Of("type"), LAMBDA item : item.at)
        global  == ValueOf
        own     == Of("function")
    IN  [types   |-> types,
         imports |-> MapSeq(Of("import"), LAMBDA item :
            [kind |-> item.kind, module |-> item.module, field |-> item.field,
             of |-> IF item.kind = "func" THEN types[item.sig] ELSE item.at]),
         defs    |-> [func   |-> [n \in DOMAIN own |->
                        [sig |-> types[own[n].sig], body |-> TRUE,
                         name |-> NameOf(Len(ImportsOf("func")) + n)]],
                      table  |-> MapSeq(Of("table"), LAMBDA item : item.at),
                      memory |-> MapSeq(Of("memory"), LAMBDA item : item.at),
                      global |-> [n \in DOMAIN Of("global") |-> global[n]]],
         index   |-> [kind \in Kinds |-> [i \in 1 .. Total(kind) |-> Referred(kind, i)]],
         exports |-> MapSeq(Of("export"), LAMBDA item :
            [kind |-> item.kind, object |-> item.object,
             index |-> Referred(item.kind, item.object), name |-> item.name]),
         elements |-> MapSeq(Of("elem"), LAMBDA item :
            [table |-> item.table, offset |-> OffsetOf(item), values |-> item.funcs]),
         data    |-> MapSeq(Of("data"), LAMBDA item :
            [memory |-> item.memory, offset |-> OffsetOf(item), data |-> item.at]),
         dataSize |-> DataSize,
         start   |-> MapSeq(Of("start"), LAMBDA item : Referred("func", item.func))]
-----------------------------------------------------------------------------
\* Whatever has been read of a module, every entry of an index space leads to
\* an import of that kind or to a definition, also behind a section that failed.
TypeOK ==
    /\ outcome \in {"idle", "reading", "accepted", "rejected"}
    /\ DOMAIN modules \subseteq Names \cup DOMAIN Loaded
    /\ \A name \in DOMAIN modules, kind \in Kinds :
        \A index \in Range(modules[name].index[kind]) :
            IF index.import THEN modules[name].imports[index.index].kind = kind
            ELSE index.index \in DOMAIN modules[name].defs[kind]

\* The one pass, with its two sets of counters, accepts an image exactly when
\* the whole of it is consistent: it depends neither on what a failed section
\* has left nor on checks made in one class only.
AcceptsExactlyValid ==
    /\ outcome = "accepted" => Valid
    /\ outcome = "rejected" => ~Valid

\* What is accepted is what the image says: indices that count imports first,
\* exports and segments that lead where they say, and in every global and
\* segment the value of its own initializer, also when it comes from a
\* module that imports it itself.
ReadsAsWritten == outcome = "accepted" => modules[reader.name] = Denoted

Finished == DOMAIN modules \ (IF outcome = "reading" THEN {reader.name} ELSE {})
Store == INSTANCE ModuleStore WITH store <- Restrict(modules, Finished)
\* A load adds one complete module or nothing, and leaves the others alone.
ImplementsStore == Store!Spec
=============================================================================
