---- MODULE MCSuperOffice ----
(* Three schemas in a row, one with a table and a field without a name, a ticket with three actions, *)
(* and a server in all its conditions.                                                               *)
EXTENDS SuperOffice, TLC

CONSTANTS c1, c2
TwoCalls == Permutations({c1, c2})

Schema1 == [y_car |-> {"x_make"}, y_log |-> {"x_text", "drop"}]
Schema2 == [y_car |-> {"x_make", "x_year"}, y_table_9 |-> {"x_n", ""}]
Schema3 == [y_car |-> {"x_year"}, sp_x |-> {"x_a"}]
MCSchemas == <<Schema1, Schema2, Schema3>>
Ask(t, table, cols, order) == [tool |-> t, table |-> table, columns |-> cols, order |-> order]
MCAsked ==
    {Ask("list_extra_tables", "y_car", {}, "id"), Ask("get_extra_table_schema", "y_log", {}, "id"),
     Ask("query_extra_table", "y_car", {}, "id"), Ask("query_extra_table", "y_log", {}, "id"),
     Ask("query_extra_table", "y_car", {"id"}, "drop"),
     Ask("query_extra_table", "y_car", {"updatedCount"}, "x_make"),
     Ask("query_extra_table", "y_table_9", {}, "id")}

Action(n, t, k) == [id |-> n, time |-> t, changes |-> {[action |-> n, change |-> i] : i \in 1..k}]
MCTrails == {{}, {Action(1, 2, 1), Action(2, 3, 2)}}
MCNewActions == {Action(3, 1, 1), Action(4, 4, 1)}
====
