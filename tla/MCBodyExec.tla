----------------------------- MODULE MCBodyExec -----------------------------
(* Values of the constants of BodyExec for TLC. *)
EXTENDS BodyExec

MCLocalTypes == <<"i32">>
MCResults == <<"i32">>
MCBlockTypes == {<<>>, <<"i32">>}
MCConstTypes == {"i32", "i64"}
MCBrTables == {<<0>>, <<1, 0>>, <<0, 2>>}
MCGlobals == <<[type |-> "i32", mutable |-> TRUE], [type |-> "i64", mutable |-> TRUE],
                [type |-> "i64", mutable |-> FALSE]>>

Op(class, params, results) == [class |-> class, params |-> params, results |-> results]
\* One operator of every class.
MCOperators ==
    [clz       |-> Op("unary", <<"i64">>, <<"i64">>),
     div_s     |-> Op("binary", <<"i32", "i32">>, <<"i32">>),
     lt_s      |-> Op("compare", <<"i64", "i64">>, <<"i32">>),
     wrap      |-> Op("convert", <<"i64">>, <<"i32">>),
     load      |-> Op("load", <<"i32">>, <<"i64">>),
     store     |-> Op("store", <<"i32", "i64">>, <<>>),
     a_load    |-> Op("atomic_load", <<"i32">>, <<"i32">>),
     a_store   |-> Op("atomic_store", <<"i32", "i32">>, <<>>),
     rmw_add   |-> Op("atomic_rmw", <<"i32", "i32">>, <<"i32">>),
     cmpxchg   |-> Op("atomic_cmpxchg", <<"i32", "i32", "i32">>, <<"i32">>),
     size      |-> Op("current_memory", <<>>, <<"i32">>),
     grow      |-> Op("grow_memory", <<"i32">>, <<"i32">>),
     call      |-> Op("call", <<"i32", "i64">>, <<"i32">>),
     indirect  |-> Op("call_indirect", <<"i64", "i32">>, <<>>)]

MCCommon == {"const", "drop", "block", "loop", "if", "else", "end", "br", "br_if", "br_table"}
=============================================================================
