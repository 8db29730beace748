----------------------------- MODULE SuperOffice -----------------------------
(***************************************************************************)
(* The SuperOffice server: one call of a REST tool or of a database tool,  *)
(* or several calls of the extra-table tools, which share a catalogue; and *)
(* another caller of the HTTP library, which may send what is not safe to  *)
(* repeat.                                                                 *)
(***************************************************************************)
EXTENDS RestClient, ExtraTables, SuperOfficeQueries

VARIABLE tool

soVars == <<tool, serverVars, httpVars, restVars, tableVars, queryVars>>

RestRests == RestInit /\ op = "get_ticket"
HttpRests == HttpInit /\ server = "ok"
TablesRest == TablesInit /\ dbUp /\ mirror = Absent
              /\ asked = [c \in TableCalls |-> CHOOSE a \in Asked : TRUE]
QueriesRest == QueriesInit /\ trail = {} /\ engine
               /\ query = Query("get_associate_details", 0, FALSE, {})

Init ==
    \/ tool = "rest" /\ HttpInit /\ RestInit /\ TablesRest /\ QueriesRest
    \/ tool = "http" /\ HttpInit /\ RestRests /\ TablesRest /\ QueriesRest
    \/ tool = "tables" /\ HttpRests /\ RestRests /\ TablesInit /\ QueriesRest
    \/ tool = "queries" /\ HttpRests /\ RestRests /\ TablesRest /\ QueriesInit

RestCall ==
    /\ tool = "rest"
    /\ \/ RestStep /\ UNCHANGED serverVars
       \/ (SendStep \/ CancelSend) /\ UNCHANGED <<restVars, serverVars>>
       \/ ServerChanges /\ UNCHANGED restVars
    /\ UNCHANGED <<tool, tableVars, queryVars>>

HttpCall ==
    /\ tool = "http"
    /\ response = "idle" \/ httppc # "idle"
    /\ HttpNext
    /\ UNCHANGED <<tool, restVars, tableVars, queryVars>>

TableCall ==
    /\ tool = "tables" /\ TablesNext
    /\ UNCHANGED <<tool, serverVars, httpVars, restVars, queryVars>>

QueryCall ==
    /\ tool = "queries" /\ QueriesNext
    /\ UNCHANGED <<tool, serverVars, httpVars, restVars, tableVars>>

Next == RestCall \/ HttpCall \/ TableCall \/ QueryCall
Spec == Init /\ [][Next]_soVars
=============================================================================
