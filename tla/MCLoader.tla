------------------------------ MODULE MCLoader ------------------------------
(***************************************************************************)
(* Loader for TLC.  The environments of MCLinker are linked and have       *)
(* nothing to load; three families more are loaded: a memory in each of    *)
(* two modules and the host, a table in each, and a memory of a script,    *)
(* whose modules keep their globals to themselves.                         *)
(***************************************************************************)
EXTENDS Loader, MCLinker

MCLoadOrder == <<A, Host, B>>
MCLoaderTypes == 0 .. 3

Both(a, b) == [m \in {A, B} |-> IF m = A THEN a ELSE b]
NoIndex == [k \in DOMAIN Names |-> <<>>]
NoContents == [data |-> Both(<<>>, <<>>), elements |-> Both(<<>>, <<>>),
               linking |-> Both(Null, Null), stack |-> Both(<<>>, <<>>), magic |-> Both(Null, Null),
               memoryInit |-> Null, tableInit |-> Null, provider |-> "pool"]

\* One object of a kind with limits in each module, and the policy's.
Object(m, k, f) == {<<Definition(t, FALSE)>> : t \in {0, 1, 3}}
                   \cup {<<Import(Other(m), f, 2)>>, <<Import(Env, f, 1)>>}
Shared(k, f, index) ==
    {Environment(Both([index EXCEPT ![k] = a], [index EXCEPT ![k] = b]), Nothing, With(k, 1)) :
        a \in Object(A, k, f), b \in Object(B, k, f)}

SharedMemory == Shared("memory", "m1", NoIndex)
SharedTable == Shared("table", "t1", [NoIndex EXCEPT !["func"] = <<Definition(1, FALSE), Definition(1, FALSE)>>])

Data(offset, size) == [of |-> 1, offset |-> offset, size |-> size]
Elements(offset, values) == [of |-> 1, offset |-> offset, values |-> values]

MemoryContents ==
    {[NoContents EXCEPT !.data = Both(a, b), !.memoryInit = init, !.provider = provider] :
        a \in {<<>>, << Data(0, 3) >>, << Data(0, 2), Data(1, 3) >>},
        b \in {<<>>, << Data(1, 1) >>, << Data(3, 2), Data(0, 1) >>},
        init \in {Null, "writes", "refuses"},
        provider \in {"new", "pool", "strict"}}
TableContents ==
    {[NoContents EXCEPT !.elements = Both(a, b), !.tableInit = init] :
        a \in {<<>>, << Elements(0, <<2, 1>>) >>, << Elements(0, <<1>>), Elements(0, <<2>>) >>},
        b \in {<<>>, << Elements(0, <<1>>) >>, << Elements(1, <<1, 2>>) >>},
        init \in {Null, "accepts", "refuses"}}

\* Two pages in A; B has none of its own.  No global is exported by A.
Globals == {Definition(1, TRUE), Definition(1, FALSE), Import(B, "g1", 1)}
ScriptMemory ==
    {[Environment(Both([NoIndex EXCEPT !["memory"] = << Definition(2, FALSE) >>, !["global"] = a],
                       [NoIndex EXCEPT !["memory"] = b, !["global"] = << Definition(1, mut) >>]),
                  Nothing, Nothing) EXCEPT !.exports[A]["g1"] = Null, !.exports[A]["g2"] = Null] :
        a \in Index(2, Globals), b \in {<<>>, << Import(A, "m1", 1) >>}, mut \in BOOLEAN}
ScriptContents ==
    {[NoContents EXCEPT !.data = Both(a, b), !.linking = Both(end, other), !.magic[A] = magic,
                        !.stack = Both(<<2, 4>>, << 5 >>), !.provider = "script"] :
        a \in {<<>>, << Data(0, 2) >>}, b \in {<<>>, << Data(3, 2) >>},
        end \in {Null, 3}, other \in {Null, 5}, magic \in {Null, 2}}

MCLoaderEnvironments == MCEnvironments \cup SharedMemory \cup SharedTable \cup ScriptMemory
MCContents(e) == CASE e \in SharedMemory -> MemoryContents
                   [] e \in SharedTable -> TableContents
                   [] e \in ScriptMemory -> ScriptContents
                   [] OTHER -> {NoContents}
=============================================================================
