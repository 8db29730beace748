-------------------------- MODULE SuperOfficeQueries --------------------------
(***************************************************************************)
(* The tools of the SuperOffice server that read its database directly:    *)
(* the audit trail of a ticket (three statements), the reference lists (up *)
(* to four), the scheduled tasks and the associates (one each), all under  *)
(* READ COMMITTED on one connection.                                       *)
(*                                                                         *)
(* A user's transaction commits an action of a ticket together with its    *)
(* field changes; its time may lie before that of actions committed        *)
(* earlier.                                                                *)
(***************************************************************************)
EXTENDS Integers, FiniteSets

CONSTANTS Trails,      \* the actions a ticket may have: sets of [id, time, changes]
          NewActions,  \* what may be committed while a call runs
          MaxCommits,
          TrailLimits, \* limit of the audit trail, 1..100
          Kinds,       \* the reference lists
          Matching,    \* how many scheduled tasks match
          TaskLimits, MaxTasks  \* requested limits and the hard ceiling

VARIABLES trail, milestones, commits,
          engine,      \* the factory could create its engine
          query,       \* [tool, limit, withChanges, kinds]
          querypc,
          got,         \* rows of the statements that have returned
          states,      \* history: the trails there were during the call
          reply

queryWorld == <<trail, milestones, commits, states>>
queryVars == <<queryWorld, engine, query, querypc, got, reply>>

Query(tool, limit, withChanges, kinds) ==
    [tool |-> tool, limit |-> limit, withChanges |-> withChanges, kinds |-> kinds]
Nothing == [milestones |-> 0, actions |-> {}, changes |-> {}, kinds |-> {}]

ASSUME QueryAssumption ==
    /\ MaxCommits \in Nat /\ MaxTasks \in Nat \ {0}
    /\ TrailLimits \subseteq Nat \ {0} /\ TaskLimits \subseteq Int /\ Matching \subseteq Nat

\* The keys of the database: an id names one action, and a change names the action it belongs to.
Actions == (UNION Trails) \cup NewActions
ASSUME ActionAssumption ==
    \A a \in Actions : /\ \A b \in Actions : a.id = b.id => a = b
                       /\ \A ch \in a.changes : ch.action = a.id

Queries ==
    {Query("get_ticket_audit_trail", n, w, {}) : n \in TrailLimits, w \in BOOLEAN}
    \cup {Query("get_ticket_metadata_lists", 1, FALSE, ks) : ks \in {Kinds} \cup {{k} : k \in Kinds}}
    \cup {Query("list_system_events_and_triggers", n, FALSE, {}) : n \in TaskLimits}
    \cup {Query("get_associate_details", n, FALSE, {}) : n \in {0, 1}}

QueriesInit ==
    /\ trail \in Trails /\ milestones = 0 /\ commits = 0
    /\ engine \in BOOLEAN
    /\ query \in Queries
    /\ querypc = "connect"
    /\ got = Nothing /\ states = {trail} /\ reply = [code |-> "none"]

Replied(r) == querypc' = "answered" /\ reply' = r

\* _handle_exception of the two repositories.
FailureCodes ==
    IF query.tool = "get_ticket_audit_trail"
    THEN {"DATABASE_TIMEOUT", "SUPEROFFICE_AUDIT_QUERY_FAILED", "SUPEROFFICE_AUDIT_INTERNAL_ERROR"}
    ELSE {"DATABASE_TIMEOUT", "DBAPI_ERROR", "INTERNAL_DATABASE_ERROR"}

\* An associate is asked for by neither id nor name.
AsksForNobody == query.tool = "get_associate_details" /\ query.limit = 0

\* A service whose engine could not be created answers from a repository made for tests.
ConnectQuery ==
    /\ querypc = "connect"
    /\ IF ~engine THEN Replied([code |-> "FAKE"])
       ELSE IF AsksForNobody THEN Replied([code |-> "INVALID_ARGUMENTS"])
       ELSE /\ querypc' = CASE query.tool = "get_ticket_audit_trail" -> "milestones"
                            [] query.tool = "get_ticket_metadata_lists" -> "list"
                            [] OTHER -> "rows"
            /\ UNCHANGED reply
    /\ UNCHANGED <<queryWorld, engine, query, got>>

QueryFails ==
    /\ querypc \in {"milestones", "actions", "changes", "list", "rows"}
    /\ \E code \in FailureCodes : Replied([code |-> code])
    /\ UNCHANGED <<queryWorld, engine, query, got>>
-----------------------------------------------------------------------------
Before(a, b) == a.time < b.time \/ (a.time = b.time /\ a.id < b.id)
\* SELECT TOP (:limit) ... ORDER BY log_when ASC, id ASC.
Oldest(actions, n) == {a \in actions : Cardinality({b \in actions : Before(b, a)}) < n}
ChangesOf(actions) == UNION {a.changes : a \in actions}

\* Changes are grouped by the action they name; what no returned action names is dropped.
Trail(actions, changes) ==
    [code |-> "OK",
     actions |-> {[id |-> a.id, changes |-> {ch \in changes : ch.action = a.id}] : a \in actions},
     total |-> Cardinality({ch \in changes : \E a \in actions : ch.action = a.id})]

ReadMilestones ==
    /\ querypc = "milestones"
    /\ got' = [got EXCEPT !.milestones = milestones]
    /\ querypc' = "actions"
    /\ UNCHANGED <<queryWorld, engine, query, reply>>

ReadActions ==
    /\ querypc = "actions"
    /\ LET shown == Oldest(trail, query.limit)
       IN  /\ got' = [got EXCEPT !.actions = shown]
           /\ IF query.withChanges /\ shown # {}
              THEN querypc' = "changes" /\ UNCHANGED reply
              ELSE Replied(Trail(shown, {}))
    /\ UNCHANGED <<queryWorld, engine, query>>

\* Bug: the changes are read first, with the milestones.
StaleChanges == UNION {ChangesOf(t) : t \in {CHOOSE t \in states : \A u \in states : t \subseteq u}}
CurrentChanges == ChangesOf(trail)

ReadChanges ==
    /\ querypc = "changes"
    /\ got' = [got EXCEPT !.changes = CurrentChanges]
    /\ Replied(Trail(got.actions, CurrentChanges))
    /\ UNCHANGED <<queryWorld, engine, query>>

\* One list after the other; the whole answer fails if one does.
ReadList ==
    /\ querypc = "list"
    /\ \E k \in query.kinds \ got.kinds :
          /\ got' = [got EXCEPT !.kinds = @ \cup {k}]
          /\ IF got'.kinds = query.kinds THEN Replied([code |-> "OK", kinds |-> got'.kinds])
             ELSE UNCHANGED <<querypc, reply>>
    /\ UNCHANGED <<queryWorld, engine, query>>

Clamp(n) == IF n < 1 THEN 1 ELSE IF n > MaxTasks THEN MaxTasks ELSE n
ReadRows ==
    /\ querypc = "rows"
    /\ \E n \in Matching :
          LET returned == IF query.tool = "get_associate_details" THEN (IF n = 0 THEN 0 ELSE 1)
                          ELSE IF n < Clamp(query.limit) THEN n ELSE Clamp(query.limit)
          IN  Replied([code |-> "OK", returned |-> returned, matching |-> n])
    /\ UNCHANGED <<queryWorld, engine, query, got>>
-----------------------------------------------------------------------------
\* An agent's transaction commits; every action it commits is a milestone or not.
Commit ==
    /\ query.tool = "get_ticket_audit_trail" /\ querypc # "answered"
    /\ commits < MaxCommits /\ commits' = commits + 1
    /\ \E a \in NewActions \ trail : trail' = trail \cup {a}
    /\ milestones' \in {milestones, milestones + 1}
    /\ states' = states \cup {trail'}
    /\ UNCHANGED <<engine, query, querypc, got, reply>>

QueryStep ==
    \/ ConnectQuery \/ QueryFails
    \/ ReadMilestones \/ ReadActions \/ ReadChanges \/ ReadList \/ ReadRows
QueriesNext == QueryStep \/ Commit
-----------------------------------------------------------------------------
\* The trail of a ticket is put together from three statements while agents work on it: its actions
\* are the oldest ones of one state the ticket was in, each with all of its changes and no others
\* (or with none at all when they were not asked for), and the total counts what is shown.  An
\* answer with lists has all that were asked for.
AnswersWhole ==
    reply.code = "OK" =>
        CASE query.tool = "get_ticket_audit_trail" ->
                \E t \in states :
                   LET shown == Oldest(t, query.limit)
                   IN  /\ reply.actions =
                             {[id |-> a.id, changes |-> IF query.withChanges THEN a.changes ELSE {}]
                                : a \in shown}
                       /\ reply.total =
                             IF query.withChanges THEN Cardinality(ChangesOf(shown)) ELSE 0
          [] query.tool = "get_ticket_metadata_lists" -> reply.kinds = query.kinds
          [] OTHER -> reply.returned <= MaxTasks
=============================================================================
