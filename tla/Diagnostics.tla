----------------------------- MODULE Diagnostics -----------------------------
(***************************************************************************)
(* The Diagnostics server: one call of one tool.  The calls of the server  *)
(* share no state of their own; a search reads log files, every other tool *)
(* asks the database.                                                      *)
(***************************************************************************)
EXTENDS LogSearch, DatabaseDiagnostics

VARIABLE tool

vars == <<tool, logVars, dbVars>>

\* What the call does not touch rests in one of its initial states.
DatabaseRests == DbInit /\ net = (CHOOSE n \in Networks : TRUE)
                 /\ call.tool = "get_database_health" /\ ~idle
LogsRest == LogInit /\ LET d == CHOOSE d \in Directories : TRUE
                       IN  <<iis, warn, enabled, ready>> = <<d.iis, d.warn, d.enabled, d.ready>>
Init ==
    \/ tool = "search_logs" /\ LogInit /\ DatabaseRests
    \/ tool = "database" /\ DbInit /\ LogsRest

\* DiagnosticsApplicationService hands a call to the log adapter or to the repository.
SearchLogs == tool = "search_logs" /\ LogNext /\ UNCHANGED <<tool, dbVars>>
AskDatabase == tool = "database" /\ DbNext /\ UNCHANGED <<tool, logVars>>
Next == SearchLogs \/ AskDatabase

\* The readers wait for nobody: a reader that can take a step takes it or fails.
Reading == tool = "search_logs" /\ (SearchStep \/ Failing) /\ UNCHANGED <<tool, dbVars>>
Spec == Init /\ [][Next]_vars /\ WF_vars(Reading)
=============================================================================
