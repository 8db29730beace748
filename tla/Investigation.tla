--------------------------- MODULE Investigation ---------------------------
(***************************************************************************)
(* InvestigationApplicationService.investigate: one request creates a plan, *)
(* runs the four evidence collectors concurrently, merges what they return, *)
(* and records one step.  Other clients of the same engine may work on the  *)
(* plan meanwhile.                                                          *)
(*                                                                          *)
(* A collector touches no shared state, so its awaits are one step in which *)
(* the backends it asks give any answer.  An evidence item is a record of   *)
(* its identifier, its time, its correlation references, and whether its    *)
(* tags or severity make it support the hypothesis.                         *)
(***************************************************************************)
EXTENDS PlanEngine, FiniteSets, SequencesExt

CONSTANTS
    Calls,       \* the calls that operators make
    Requests,    \* the clients that run investigate; the others are operators
    Selections,  \* the backend operations a request may ask for
    Configured,  \* the sources whose service port is configured
    Backend,     \* what each backend operation may answer: sequences of items
    IssueLimit   \* limit of a knowledge selection

VARIABLES
    stage,       \* where each request is
    mine,        \* its plan
    selection,   \* the operations it asks for
    gathered,    \* the outcome of each of its sources
    report,      \* the evidence it has merged
    result       \* how it ended

serviceVars == <<stage, mine, selection, gathered, report, result>>
vars == <<engineVars, serviceVars>>

\* The collectors in the order of their registration.
Sources == <<"superoffice", "diagnostics", "logs", "knowledge">>

Operations == {"ticket", "audit", "health", "deadlocks", "slow_queries",
               "ticket_diagnostic", "blocking", "logs", "issues", "chunks"}

\* An item of evidence.
Items == [id : STRING, time : Nat, refs : SUBSET STRING, supports : BOOLEAN]

ASSUME ServiceAssumption ==
    /\ Calls \subseteq Call
    /\ Requests \subseteq Clients
    /\ Selections \subseteq SUBSET Operations
    /\ Configured \subseteq ToSet(Sources)
    /\ DOMAIN Backend = Operations
    /\ \A op \in Operations : Backend[op] \subseteq Seq(Items)
    /\ IssueLimit \in Nat \ {0}

-----------------------------------------------------------------------------
(* What a collector may return.                                              *)

Success(items) == [status |-> "success", evidence |-> items]
Without(status) == [status |-> status, evidence |-> <<>>]
Pending == Without("pending")
Raised  == Without("raised")

\* The answers of an operation, if it is asked for.
Answers(sel, op) == IF op \in sel THEN Backend[op] ELSE {<<>>}

SuperOffice(sel) ==
    IF "ticket" \notin sel
      THEN {Success(<<>>)}
      ELSE IF "superoffice" \notin Configured
        THEN {Without("failed")}
        ELSE {Success(t \o a) : t \in Backend["ticket"], a \in Answers(sel, "audit")}
                \cup {Without("failed"), Raised}

\* The operations in the order their results are mapped.
DiagnosticOperations ==
    <<"health", "deadlocks", "slow_queries", "ticket_diagnostic", "blocking">>

\* The ticket diagnostic needs the request to name a ticket.  One operation
\* that fails empties the source.
Diagnostics(sel) ==
    LET asked == {op \in ToSet(DiagnosticOperations) :
                     op \in sel /\ (op = "ticket_diagnostic" => "ticket" \in sel)}
        given == {g \in [DOMAIN DiagnosticOperations ->
                            {<<>>} \cup UNION {Backend[op] : op \in asked}] :
                     \A i \in DOMAIN g : g[i] \in Answers(asked, DiagnosticOperations[i])}
    IN  CASE asked = {} -> {Success(<<>>)}
          [] asked # {} /\ "diagnostics" \notin Configured -> {Without("failed")}
          [] OTHER ->
                {Success(FlattenSeq(g)) : g \in given} \cup {Without("failed"), Raised}

Logs(sel) ==
    IF "logs" \notin sel \/ "logs" \notin Configured
      THEN {Without("blocked")}
      ELSE {Success(l) : l \in Backend["logs"]}
              \cup {Without("failed"), Without("blocked")}

\* Chunks are asked for when the known issues leave some of the limit.
Knowledge(sel) ==
    CASE "issues" \notin sel -> {Success(<<>>)}
      [] "issues" \in sel /\ "knowledge" \notin Configured ->
            {Without("not_configured")}
      [] OTHER ->
            {s \in {Success(i \o k) : i \in Backend["issues"], k \in Backend["chunks"]} :
                Len(s.evidence) <= IssueLimit}
              \cup {Without("failed"), Without("not_configured")}

Collector(source, sel) ==
    CASE source = "superoffice" -> SuperOffice(sel)
      [] source = "diagnostics" -> Diagnostics(sel)
      [] source = "logs"        -> Logs(sel)
      [] source = "knowledge"   -> Knowledge(sel)

\* Mutant: an exception of a collector is not caught.
CollectUnsafe(outcome) == outcome

\* _collect_safe: an exception becomes a failed outcome of that source.
CollectSafe(outcome) ==
    IF outcome = Raised THEN Without("failed") ELSE outcome

\* What a source may come to.
Outcomes(source, sel) == {CollectSafe(o) : o \in Collector(source, sel)}

-----------------------------------------------------------------------------
(* What is made of the outcomes.                                             *)

\* Mutant: only the sources that succeeded with something are reported.
DeliveredOnly(outcomes) ==
    SelectSeq(outcomes, LAMBDA o : o.status = "success" /\ o.evidence # <<>>)

\* The outcomes in registration order, whatever order they came in.
SourceOutcomes(outcomes) == outcomes

EvidenceOf(outcomes) ==
    FlattenSeq([i \in DOMAIN outcomes |-> outcomes[i].evidence])

Ids(items) == [i \in DOMAIN items |-> items[i].id]

HasDuplicate(items) ==
    \E i, j \in DOMAIN items : i # j /\ items[i].id = items[j].id

\* A stable sort by time.
Timeline(items) ==
    LET before(i, j) == \/ items[i].time < items[j].time
                        \/ items[i].time = items[j].time /\ i < j
        rank(i) == Cardinality({j \in DOMAIN items : before(j, i)})
    IN  [k \in DOMAIN items |-> items[CHOOSE i \in DOMAIN items : rank(i) = k - 1]]

\* The references that two items or more share.
Groups(items) ==
    LET sharing(ref) == {i \in DOMAIN items : ref \in items[i].refs}
    IN  {[ref |-> ref, members |-> {items[i].id : i \in sharing(ref)}] :
            ref \in {g \in UNION {items[i].refs : i \in DOMAIN items} :
                        Cardinality({items[i].id : i \in sharing(g)}) > 1}}

\* No evidence, no evaluation; nothing is ever cited as refuting.
Evaluation(items) ==
    CASE items = <<>> -> "none"
      [] \E i \in DOMAIN items : items[i].supports -> "supported"
      [] OTHER -> "unevaluated"

NoReport == [outcomes |-> <<>>, timeline |-> <<>>, groups |-> {},
             evaluation |-> "none"]

Report(outcomes) ==
    LET merged == SourceOutcomes(outcomes)
        items  == EvidenceOf(merged)
    IN  [outcomes |-> merged, timeline |-> Timeline(items),
         groups |-> Groups(items), evaluation |-> Evaluation(items)]

\* What the sources deliver is evidence that a step can list.
ASSUME EvidenceAssumption ==
    \A sel \in Selections :
        \A s \in Outcomes("superoffice", sel), d \in Outcomes("diagnostics", sel),
           l \in Outcomes("logs", sel), k \in Outcomes("knowledge", sel) :
            LET items == EvidenceOf(<<s, d, l, k>>)
            IN  ~HasDuplicate(items) => Ids(items) \in Evidence

-----------------------------------------------------------------------------

Init ==
    /\ EngineInit
    /\ stage     = [r \in Requests |-> "idle"]
    /\ mine      = [r \in Requests |-> CHOOSE p \in Plans : TRUE]
    /\ selection = [r \in Requests |-> {}]
    /\ gathered  = [r \in Requests |-> [i \in DOMAIN Sources |-> Pending]]
    /\ report    = [r \in Requests |-> NoReport]
    /\ result    = [r \in Requests |-> "none"]

Become(r, s) == stage' = [stage EXCEPT ![r] = s]

\* The request ends and leaves its locals behind.
End(r, how) ==
    /\ Become(r, "idle")
    /\ gathered' = [gathered EXCEPT ![r] = [i \in DOMAIN Sources |-> Pending]]
    /\ result' = [result EXCEPT ![r] = how]

Investigate(r) ==
    /\ stage[r] = "idle"
    /\ \E p \in Plans :
          /\ CreatePlan(r, p)
          /\ mine' = [mine EXCEPT ![r] = p]
    /\ \E sel \in Selections : selection' = [selection EXCEPT ![r] = sel]
    /\ Become(r, "collecting")
    /\ report' = [report EXCEPT ![r] = NoReport]
    /\ result' = [result EXCEPT ![r] = "none"]
    /\ UNCHANGED gathered

Collect(r, i) ==
    /\ stage[r] = "collecting"
    /\ gathered[r][i] = Pending
    /\ \E o \in Outcomes(Sources[i], selection[r]) :
          gathered' = [gathered EXCEPT ![r][i] = o]
    /\ UNCHANGED <<engineVars, stage, mine, selection, report, result>>

Collected(r) ==
    /\ stage[r] = "collecting"
    /\ \A i \in DOMAIN Sources : gathered[r][i] # Pending

\* aggregate raises on a repeated identifier; an exception that gather passes
\* on ends the request too.
Refuse(r) ==
    /\ Collected(r)
    /\ \/ HasDuplicate(EvidenceOf(gathered[r]))
       \/ Raised \in ToSet(gathered[r])
    /\ End(r, "raised")
    /\ UNCHANGED <<engineVars, mine, selection, report>>

\* Aggregation, timeline and evaluation run without an await up to the call
\* of advance_step.
Correlate(r) ==
    /\ Collected(r)
    /\ ~HasDuplicate(EvidenceOf(gathered[r]))
    /\ Raised \notin ToSet(gathered[r])
    /\ \E made \in {Report(gathered[r])} :
          /\ report' = [report EXCEPT ![r] = made]
          /\ Begin(r, [kind |-> "advance", plan |-> mine[r], hyp |-> NoHyp,
                       status |-> "proposed",
                       evidence |-> Ids(EvidenceOf(made.outcomes))])
    /\ Become(r, "advancing")
    /\ UNCHANGED <<mine, selection, gathered, result>>

\* advance_step has returned or raised.
Respond(r) ==
    /\ stage[r] = "advancing"
    /\ At(r, "idle")
    /\ End(r, CASE answer[r].outcome = "RETURNED"  -> "returned"
                [] answer[r].outcome = "RAISED"    -> "raised"
                [] answer[r].outcome = "CANCELLED" -> "cancelled")
    /\ UNCHANGED <<engineVars, mine, selection, report>>

\* The request is cancelled while its collectors run.
Withdraw(r) ==
    /\ stage[r] = "collecting"
    /\ End(r, "cancelled")
    /\ UNCHANGED <<engineVars, mine, selection, report>>

Engine(c) == Enter(c) \/ Operate(c) \/ Cancel(c)

Operator(c) == \E k \in Calls : Begin(c, k)

Next ==
    \/ \E r \in Requests :
          \/ Investigate(r) \/ Refuse(r) \/ Correlate(r) \/ Respond(r)
          \/ Withdraw(r)
          \/ \E i \in DOMAIN Sources : Collect(r, i)
    \/ \E c \in Clients : Engine(c) /\ UNCHANGED serviceVars
    \/ \E c \in Clients \ Requests : Operator(c) /\ UNCHANGED serviceVars

\* Backends answer or time out, runnable coroutines run, and an asyncio.Lock
\* serves its waiters in turn.
Fairness ==
    /\ \A r \in Requests :
          /\ WF_vars(\E i \in DOMAIN Sources : Collect(r, i))
          /\ WF_vars(Refuse(r) \/ Correlate(r) \/ Respond(r))
    /\ \A c \in Clients :
          /\ WF_vars(Operate(c) /\ UNCHANGED serviceVars)
          /\ SF_vars(Enter(c) /\ UNCHANGED serviceVars)

Spec == Init /\ [][Next]_vars /\ Fairness

-----------------------------------------------------------------------------
(* Properties.                                                               *)

Delivered(r) == EvidenceOf(report[r].outcomes)

\* A report that was returned accounts for every source, holds no evidence
\* twice, mentions nothing it does not hold, and the plan's step of that
\* number lists exactly its evidence, whatever operators did to the plan
\* meanwhile.
ReportGrounded ==
    \A r \in Requests :
        result[r] = "returned" =>
            LET ids   == Ids(Delivered(r))
                steps == plans[mine[r]].steps
            IN  /\ Len(report[r].outcomes) = Len(Sources)
                /\ IsInjective(ids)
                /\ ToSet(report[r].timeline) = ToSet(Delivered(r))
                /\ \A g \in report[r].groups : g.members \subseteq ToSet(ids)
                /\ steps[answer[r].step].evidence = ids

\* A request that fails was stopped from outside, because somebody ended or
\* used up its plan, or was given one identifier twice; no source that fails
\* in any other way fails the request.
FailureExplained ==
    [][\A r \in Requests :
        stage[r] # "idle" /\ result'[r] = "raised" /\ stage'[r] = "idle" =>
            \/ plans[mine[r]].status \in PB!Terminal \cup {"step_limit_exceeded"}
            \/ HasDuplicate(EvidenceOf(gathered[r]))]_vars

\* Failures of a source are isolated: a request fails only when its plan was
\* ended or used up by somebody else.
FailureIsolated ==
    \A r \in Requests :
        result[r] = "raised" =>
            plans[mine[r]].status \in PB!Terminal \cup {"step_limit_exceeded"}

\* A request that started ends, and so does every operation of an operator.
RequestsEnd ==
    /\ \A r \in Requests : stage[r] # "idle" ~> stage[r] = "idle"
    /\ \A c \in Clients : ~At(c, "idle") ~> At(c, "idle")
=============================================================================
