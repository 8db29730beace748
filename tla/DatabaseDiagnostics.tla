------------------------- MODULE DatabaseDiagnostics -------------------------
(***************************************************************************)
(* The tools of the Diagnostics server that ask SQL Server: the health of  *)
(* the database with the diagnosis of a failed connection, the bounded row *)
(* queries, and the record of a ticket.  Between two awaits the network,   *)
(* the database and the ticket may change.                                 *)
(*                                                                         *)
(* `net` says of every layer a call passes through whether it is "ok",     *)
(* "down" (it refuses at once) or "slow" (it only ends by a timeout).      *)
(***************************************************************************)
EXTENDS Integers, FiniteSets

CONSTANTS Networks,       \* the conditions the layers may be in together
          MaxChanges,     \* bound on the changes of the network and of the ticket during a call
          HostIsAddress,  \* the configured host is an address: there is no name to resolve
          MaxRows, RowLimits, Matching,  \* row queries: bounds, and rows there are
          Tickets, NewAction,  \* what stands in ticket_log and ticket_log_action, and what is added
          NoOne

VARIABLES net, changes,
          idle,           \* a connection of an earlier call waits in the pool
          rows, ticket,   \* the rows a query would match; [logs, actions] of the ticket
          call,           \* [tool, limit] of the call
          dbpc,
          fault,          \* the exception that is being diagnosed: [auth, timeout]
          counted,        \* the row the first statement of the ticket record returned
          history,        \* history: the networks and tickets there were during the call
          result

dbWorld == <<net, changes, idle, rows, ticket, history>>
dbVars  == <<dbWorld, call, dbpc, fault, counted, result>>

Layers == {"pool", "dns", "tcp", "login", "query", "backup"}
Conditions == {"ok", "down", "slow"}
NoLimit == 0
NoTicket == [logs |-> {}, actions |-> {}]
NoFault == [auth |-> FALSE, timeout |-> FALSE]
NoResult == [state |-> "none"]

ASSUME DatabaseAssumption ==
    /\ Networks \subseteq [Layers -> Conditions]
    /\ MaxChanges \in Nat /\ HostIsAddress \in BOOLEAN
    /\ MaxRows \in Nat \ {0} /\ RowLimits \subseteq (Nat \ {0}) \cup {NoLimit}
    /\ Matching \subseteq Nat

LowerRow(a, b) == IF a < b THEN a ELSE b
Latest(times) == IF times = {} THEN 0 ELSE CHOOSE t \in times : \A u \in times : u <= t
-----------------------------------------------------------------------------
(* engine.connect(): an idle connection is used if it answers the ping, and *)
(* a new one is made otherwise, through every layer; the first one that is *)
(* not well raises.                                                        *)

Path == IF HostIsAddress THEN <<"pool", "tcp", "login">> ELSE <<"pool", "dns", "tcp", "login">>
Broken(n) == {k \in DOMAIN Path : n[Path[k]] # "ok"}
FirstBroken(n) == Path[CHOOSE k \in Broken(n) : \A j \in Broken(n) : k <= j]

Reusable(n) == idle /\ n["pool"] = "ok" /\ n["tcp"] = "ok"
Open(n) == Reusable(n) \/ Broken(n) = {}

\* What _is_auth_failure and _is_timeout_failure read out of the exception: the driver words
\* a host it cannot reach as an error or as an expired login timeout.
Raised(n) ==
    LET layer == FirstBroken(n)
    IN  {f \in [auth : BOOLEAN, timeout : BOOLEAN] :
            /\ f.auth <=> (layer = "login" /\ n["login"] = "down")
            /\ layer = "pool" \/ (layer = "login" /\ n["login"] = "slow") => f.timeout
            /\ f.auth => ~f.timeout}

\* A statement on an open connection meets the network once more.
StatementFails(n, layer) == n["tcp"] # "ok" \/ n[layer] # "ok"
StatementFault(n, layer) ==
    [auth |-> FALSE, timeout |-> n["tcp"] = "slow" \/ n[layer] = "slow"]

Health(healthy, summary, backup, state) ==
    [state |-> state, healthy |-> healthy, summary |-> summary, backup |-> backup]
Answered(r) == dbpc' = "answered" /\ result' = r

\* _handle_exception: other errors of a statement may look like a refused permission, like a lost
\* connection, or like nothing known.
Refusals(f) ==
    [state : {"error"},
     code : IF f.timeout THEN {"DATABASE_TIMEOUT"}
            ELSE IF f.auth THEN {"DATABASE_ACCESS_DENIED"}
            ELSE {"DATABASE_ACCESS_DENIED", "DATABASE_CONNECTION_FAILURE",
                  "DATABASE_DIAGNOSTIC_ERROR"}]
-----------------------------------------------------------------------------
\* A call looks at the rows or at the ticket it is about, if at one.
DbInit ==
    /\ net \in Networks /\ changes = 0 /\ idle \in BOOLEAN
    /\ \/ call = [tool |-> "get_database_health", limit |-> NoLimit] /\ rows = 0 /\ ticket = NoTicket
       \/ \E n \in RowLimits : call = [tool |-> "find_rows", limit |-> n] /\ rows \in Matching
                              /\ ticket = NoTicket
       \/ call = [tool |-> "get_ticket_diagnostic_record", limit |-> NoLimit]
          /\ rows = 0 /\ ticket \in Tickets
    /\ dbpc = "connect" /\ fault = NoFault
    /\ counted = [logs |-> 0, actions |-> 0, latest |-> 0]
    /\ history = [nets |-> {net}, tickets |-> {ticket}]
    /\ result = NoResult

\* The handlers of what raises while a connection is open or being opened: get_database_health
\* has the failure diagnosed, the others name it by _handle_exception.
Handled(f) ==
    IF call.tool = "get_database_health"
    THEN dbpc' = "diagnose" /\ fault' = f /\ result' = NoResult
    ELSE (\E r \in Refusals(f) : Answered(r)) /\ UNCHANGED fault

Connect ==
    /\ dbpc = "connect"
    /\ \/ /\ Open(net)
          /\ dbpc' = CASE call.tool = "get_database_health" -> "count"
                       [] call.tool = "find_rows" -> "select"
                       [] OTHER -> "stats"
          /\ UNCHANGED <<fault, result>>
       \/ /\ ~Open(net)
          /\ \E f \in Raised(net) : Handled(f)
    /\ UNCHANGED <<dbWorld, call, counted>>

\* The count of sessions; _diagnose_query_failure runs no probe.
CountSessions ==
    /\ dbpc = "count"
    /\ IF StatementFails(net, "query")
       THEN /\ dbpc' = "closeFailed"
            /\ result' = Health(FALSE, "DEGRADED", "UNAVAILABLE",
                                IF StatementFault(net, "query").timeout
                                THEN "DATABASE_QUERY_TIMEOUT" ELSE "DATABASE_QUERY_FAILURE")
       ELSE dbpc' = "backup" /\ UNCHANGED result
    /\ UNCHANGED <<dbWorld, call, fault, counted>>

\* _fetch_backup_status keeps its own failures to itself.
FetchBackupStatus ==
    /\ dbpc = "backup"
    /\ dbpc' = "close"
    /\ result' = Health(TRUE, "ONLINE",
                        IF StatementFails(net, "backup") THEN "UNAVAILABLE" ELSE "AVAILABLE",
                        "CONNECTED")
    /\ UNCHANGED <<dbWorld, call, fault, counted>>

\* The connection is given back, which ends its transaction; if that raises, what was found is
\* lost, and of the health it is diagnosed as a failure to connect.
Close ==
    /\ dbpc \in {"close", "closeFailed"}
    /\ \/ dbpc' = "answered" /\ UNCHANGED <<fault, result>>
       \/ /\ net["tcp"] # "ok"
          /\ \E f \in [auth : {FALSE}, timeout : BOOLEAN] : Handled(f)
    /\ UNCHANGED <<dbWorld, call, counted>>

Unavailable(state) == Answered(Health(FALSE, "UNAVAILABLE", "UNAVAILABLE", state))

\* _diagnose_connection_failure up to its first await.
Diagnose ==
    /\ dbpc = "diagnose"
    /\ IF fault.auth THEN Unavailable("DATABASE_AUTHENTICATION_FAILURE")
       ELSE dbpc' = (IF HostIsAddress THEN "tcpProbe" ELSE "dnsProbe") /\ UNCHANGED result
    /\ UNCHANGED <<dbWorld, call, fault, counted>>

\* Bug: a name that cannot be resolved is left to the next probe.
ProbeDnsAnyway ==
    /\ dbpc = "dnsProbe" /\ dbpc' = "tcpProbe"
    /\ UNCHANGED <<dbWorld, call, fault, counted, result>>

ProbeDns ==
    /\ dbpc = "dnsProbe"
    /\ IF net["dns"] # "ok" THEN Unavailable("DNS_RESOLUTION_FAILURE")
       ELSE dbpc' = "tcpProbe" /\ UNCHANGED result
    /\ UNCHANGED <<dbWorld, call, fault, counted>>

\* Bug: what timed out is put down to the network.
AnyTimeoutIsTcp(tried) ==
    IF fault.timeout \/ "slow" \in tried THEN "TCP_CONNECTIVITY_TIMEOUT"
    ELSE IF "down" \in tried THEN "TCP_CONNECTIVITY_FAILURE"
    ELSE "DATABASE_CONNECTION_FAILURE"

TcpVerdict(tried) ==
    IF "slow" \in tried THEN "TCP_CONNECTIVITY_TIMEOUT"
    ELSE IF "down" \in tried THEN "TCP_CONNECTIVITY_FAILURE"
    ELSE IF fault.timeout THEN "DATABASE_CONNECTION_TIMEOUT"
    ELSE "DATABASE_CONNECTION_FAILURE"

\* The last probe resolves the name once more: that it cannot is an OSError of the connection.
ProbeTcp ==
    /\ dbpc = "tcpProbe"
    /\ Unavailable(TcpVerdict({net["tcp"]} \cup (IF HostIsAddress THEN {} ELSE {net["dns"]})))
    /\ UNCHANGED <<dbWorld, call, fault, counted>>
-----------------------------------------------------------------------------
\* find_slow_queries, find_deadlocks and find_blocking_sessions: one statement with TOP.
EffectiveLimit == LowerRow(IF call.limit = NoLimit THEN MaxRows ELSE call.limit, MaxRows)
SelectRows ==
    /\ dbpc = "select"
    /\ \/ /\ StatementFails(net, "query")
          /\ \E r \in Refusals(StatementFault(net, "query")) : Answered(r)
       \/ /\ ~StatementFails(net, "query")
          /\ LET returned == LowerRow(rows, EffectiveLimit)
             IN  /\ dbpc' = "close"
                 /\ result' = [state |-> "rows", returned |-> returned,
                               truncated |-> returned = EffectiveLimit]
    /\ UNCHANGED <<dbWorld, call, fault, counted>>

Counts(t) == [logs |-> Cardinality(t.logs), actions |-> Cardinality(t.actions),
              latest |-> Latest(t.logs \cup {a.time : a \in t.actions})]

\* get_ticket_diagnostic_record: the counts and the latest times, then the latest actor.
TicketStats ==
    /\ dbpc = "stats"
    /\ \/ /\ StatementFails(net, "query")
          /\ \E r \in Refusals(StatementFault(net, "query")) : Answered(r)
          /\ UNCHANGED counted
       \/ /\ ~StatementFails(net, "query")
          /\ dbpc' = "actor" /\ UNCHANGED result
          /\ counted' = Counts(ticket)
    /\ UNCHANGED <<dbWorld, call, fault>>

ActorOf(t) ==
    IF t.actions = {} THEN NoOne
    ELSE (CHOOSE a \in t.actions : \A b \in t.actions : b.time <= a.time).actor
LatestActor ==
    /\ dbpc = "actor"
    /\ \/ /\ StatementFails(net, "query")
          /\ \E r \in Refusals(StatementFault(net, "query")) : Answered(r)
       \/ /\ ~StatementFails(net, "query")
          /\ dbpc' = "close"
          /\ result' = [state |-> "ticket", counted |-> counted, actor |-> ActorOf(ticket)]
    /\ UNCHANGED <<dbWorld, call, fault, counted>>
-----------------------------------------------------------------------------
\* The network changes between two steps of a call.
NetworkChanges ==
    /\ dbpc # "answered" /\ changes < MaxChanges
    /\ changes' = changes + 1
    /\ net' \in Networks \ {net}
    /\ history' = [history EXCEPT !.nets = @ \cup {net'}]
    /\ UNCHANGED <<idle, rows, ticket, call, dbpc, fault, counted, result>>

\* Bug: every statement reads what is committed when it starts.
ReadsCommitted == FALSE

\* create_diagnostic_engine, isolation level SNAPSHOT: the first statement of a transaction fixes
\* what the later ones see.
SnapshotHeld == dbpc = "actor"

\* Somebody works on the ticket.
TicketChanges ==
    /\ call.tool = "get_ticket_diagnostic_record"
    /\ dbpc \in {"connect", "stats", "actor"} /\ ~SnapshotHeld
    /\ changes < MaxChanges
    /\ changes' = changes + 1
    /\ ticket' = [ticket EXCEPT !.actions = @ \cup {NewAction}] /\ ticket' # ticket
    /\ history' = [history EXCEPT !.tickets = @ \cup {ticket'}]
    /\ UNCHANGED <<net, idle, rows, call, dbpc, fault, counted, result>>

DbStep == \/ Connect \/ CountSessions \/ FetchBackupStatus \/ Close
          \/ Diagnose \/ ProbeDns \/ ProbeTcp
          \/ SelectRows \/ TicketStats \/ LatestActor
DbNext == DbStep \/ NetworkChanges \/ TicketChanges
DbSpec == DbInit /\ [][DbNext]_dbVars
-----------------------------------------------------------------------------
HealthStates == {"CONNECTED", "DATABASE_QUERY_TIMEOUT", "DATABASE_QUERY_FAILURE",
                 "DATABASE_AUTHENTICATION_FAILURE", "DNS_RESOLUTION_FAILURE",
                 "TCP_CONNECTIVITY_TIMEOUT", "TCP_CONNECTIVITY_FAILURE",
                 "DATABASE_CONNECTION_TIMEOUT", "DATABASE_CONNECTION_FAILURE"}

\* Type invariant; a call for rows is never answered with a diagnosis, nor the other way round.
DbTypeOK ==
    /\ net \in Networks /\ changes \in 0..MaxChanges
    /\ dbpc \in {"connect", "count", "backup", "close", "closeFailed", "diagnose", "dnsProbe",
                 "tcpProbe", "select", "stats", "actor", "answered"}
    /\ fault \in [auth : BOOLEAN, timeout : BOOLEAN]
    /\ result.state \in HealthStates \cup {"none", "error", "rows", "ticket"}
    /\ result.state \in HealthStates => call.tool = "get_database_health"
    /\ result.state \in {"error", "rows", "ticket"} => call.tool # "get_database_health"

\* What a network that stays as it is should be diagnosed as.
Diagnosis(n) ==
    IF Open(n)
    THEN IF n["query"] = "ok" THEN "CONNECTED"
         ELSE IF n["query"] = "down" THEN "DATABASE_QUERY_FAILURE" ELSE "DATABASE_QUERY_TIMEOUT"
    ELSE IF n["dns"] # "ok" /\ ~HostIsAddress THEN "DNS_RESOLUTION_FAILURE"
    ELSE IF n["tcp"] = "down" THEN "TCP_CONNECTIVITY_FAILURE"
    ELSE IF n["tcp"] = "slow" THEN "TCP_CONNECTIVITY_TIMEOUT"
    ELSE IF n["pool"] = "ok" /\ n["login"] = "down" THEN "DATABASE_AUTHENTICATION_FAILURE"
    ELSE "DATABASE_CONNECTION_TIMEOUT"

\* The diagnosis of a network that does not change during the call names the layer nearest to the
\* client that is not well, and "CONNECTED" means that none is.
SteadyFaultNamed ==
    (dbpc = "answered" /\ call.tool = "get_database_health" /\ history.nets = {net}) =>
        result.state = Diagnosis(net)

Was(layer, conditions) == \E n \in history.nets : n[layer] \in conditions

\* What an answer says of the layers, they were at some time during the call.
Grounded ==
    CASE result.state = "CONNECTED" -> result.healthy /\ \E n \in history.nets : Open(n)
      [] result.state \in {"DATABASE_QUERY_TIMEOUT", "DATABASE_QUERY_FAILURE"} ->
            /\ \E n \in history.nets : Open(n)
            /\ Was("query", {"down", "slow"}) \/ Was("tcp", {"down", "slow"})
      [] result.state = "DATABASE_AUTHENTICATION_FAILURE" -> Was("login", {"down"})
      [] result.state = "DNS_RESOLUTION_FAILURE" -> ~HostIsAddress /\ Was("dns", {"down", "slow"})
      [] result.state = "TCP_CONNECTIVITY_TIMEOUT" -> Was("tcp", {"slow"}) \/ Was("dns", {"slow"})
      [] result.state = "TCP_CONNECTIVITY_FAILURE" -> Was("tcp", {"down"}) \/ Was("dns", {"down"})
      [] result.state \in {"DATABASE_CONNECTION_TIMEOUT", "DATABASE_CONNECTION_FAILURE"} ->
            \E layer \in {"pool", "dns", "tcp", "login"} : Was(layer, {"down", "slow"})
      [] OTHER -> TRUE

\* However the network changes between the failure and the probes, the diagnosis never names a
\* layer that was well all the time, a healthy answer was healthy at some time, and "connected" or
\* "failed in the query" is only said when the way to the database was open once.
NoneBlamedInnocently == dbpc = "answered" => Grounded

\* The record of a ticket is one ticket: its counts, its latest time and its latest actor are those
\* of one state the ticket was in, though they are read by two statements; the rows of a bounded
\* query are all there are unless it says that there may be more.
RecordsCoherent ==
    /\ result.state = "ticket" =>
          \E t \in history.tickets :
             result.counted = Counts(t) /\ result.actor = ActorOf(t)
    /\ result.state = "rows" =>
          /\ result.returned <= MaxRows
          /\ ~result.truncated => result.returned = rows
=============================================================================
