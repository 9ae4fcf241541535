--------------------------- MODULE MCModuleReader ---------------------------
(* Values of the constants of ModuleReader for TLC. *)
EXTENDS ModuleReader

MCHostGlobals == <<"env", "f">> :> [type |-> "i32", at |-> <<"env", 0>>]

\* It imports the host's global and exports it, and an i64 of its own.
MCLoaded ==
    LET wide     == [type |-> "i64", at |-> <<"a", 4>>]
        imported == IndexObject(TRUE, 1)
        own      == IndexObject(FALSE, 1)
        Export(object, index, name) ==
            [kind |-> "global", object |-> object, index |-> index, name |-> name]
    IN  "a" :> [EmptyModule EXCEPT
            !.imports = <<[kind |-> "global", module |-> "env", field |-> "f", of |-> <<"a", 2>>]>>,
            !.defs["global"] = <<wide>>,
            !.index["global"] = <<imported, own>>,
            !.exports = <<Export(1, imported, "f"), Export(2, own, "g")>>]

MCImportable ==
    {<<"global", "a", "f">>, <<"global", "a", "g">>, <<"func", "env", "f">>,
     <<"table", "env", "f">>, <<"memory", "env", "f">>}
\* Names in order, out of order, and in a section that is cut short; a section of
\* relocations that is cut short.
MCCustoms ==
    LET Section(section, funcs, whole) == [section |-> section, funcs |-> funcs, whole |-> whole]
    IN  {Section("name", <<1, 2>>, TRUE), Section("name", <<2, 1>>, TRUE),
         Section("name", <<1>>, FALSE), Section("linking", <<>>, TRUE), Section("reloc", <<>>, FALSE)}
MCCounts ==
    [type |-> {1}, import |-> {1, 2}, function |-> {1}, table |-> {1, 2}, memory |-> {1},
     global |-> {1, 2}, export |-> {1}, start |-> {1}, elem |-> {0, 1}, code |-> {0, 1},
     data |-> {1}]
=============================================================================
