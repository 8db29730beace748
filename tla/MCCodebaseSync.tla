---------------------------- MODULE MCCodebaseSync ----------------------------
(* Instances of CodebaseSync for TLC. *)
EXTENDS CodebaseSync, TLC

CONSTANTS s1, s2, server, command

\* A tool call and an operator's command.
TwoProcesses == (s1 :> server) @@ (s2 :> command)

\* Two tool calls.
OneProcess == (s1 :> server) @@ (s2 :> server)

MCPlacements == {TwoProcesses, OneProcess}

Record(id, folder, name, listed, v) ==
    [id |-> id, folder |-> folder, name |-> name, listed |-> listed, text |-> <<id, v>>]

\* One script; later two of one name, after one that is named as the second one's file.
MCRecords ==
    [x \in {"ejscript", "screens", "schema", "config"} |-> [v \in 0..1 |->
        CASE x = "ejscript" ->
                IF v = 0 THEN <<Record(1, <<"f">>, <<"a">>, TRUE, v)>>
                ELSE <<Record(3, <<"f">>, <<"a", 2>>, TRUE, v),
                       Record(1, <<"f">>, <<"a">>, TRUE, v),
                       Record(2, <<"f">>, <<"a">>, TRUE, v)>>
          [] x = "screens" -> <<Record(4, <<"p">>, <<"script">>, TRUE, v),
                                Record(4, <<"p">>, <<"json">>, FALSE, v)>>
          [] x = "schema" -> <<Record(6, <<"schema">>, <<"tables">>, TRUE, v)>>
          [] OTHER -> <<Record(7, <<"config">>, <<"items">>, TRUE, v)>>]]

MCSelections ==
    (s1 :> {{"ejscript"}, {"screens", "schema"}, {"config"}, {}}) @@ (s2 :> {{"ejscript"}})
=============================================================================
