-------------------------- MODULE SuperOfficeProofs --------------------------
(***************************************************************************)
(* The SuperOffice server.  Its HTTP client implements Delivery, for every *)
(* retry policy, budget and set of conditions the service may be in; what  *)
(* its tools answer is grounded in what the service and the database were  *)
(* while the call ran.                                                     *)
(***************************************************************************)
EXTENDS SuperOffice, FiniteSetTheorems, TLAPS

hvars == <<serverVars, httpVars>>

\* What the control points of send know: at the top of the loop there is an attempt left, and the
\* last one, if there was one, failed in a way that may pass; a pause ends within the budget.
Loop ==
    /\ httppc \in {"check", "flight", "judge", "sleep"} <=> response = "none"
    /\ httppc = "check" =>
          /\ attempt < AttemptsAllowed
          /\ IF attempt = 0 THEN elapsed = 0 ELSE raw \in Retryable /\ elapsed <= Budget + Drift
    /\ httppc \in {"flight", "judge", "sleep"} => attempt > 0
    /\ httppc = "judge" => raw \in ServerConditions
    /\ httppc = "sleep" =>
          raw \in Retryable /\ attempt < AttemptsAllowed /\ elapsed + delay < Budget

HttpInv == HttpTypeOK /\ Loop

\* A backoff is at most max_backoff_seconds, whatever the attempt.
LEMMA BackoffsBounded == \A d \in Backoffs : d \in 0..MaxBackoff
  BY DEF Backoffs

\* The invariant holds initially.
LEMMA InvInit == HttpInit => HttpInv
<1> SUFFICES ASSUME HttpInit PROVE HttpInv
  OBVIOUS
<1> USE HttpAssumption DEF HttpInit
<1>1. HttpTypeOK
  <2>1. 0 \in 0..MaxServerChanges /\ 0 \in 0..MaxBackoff /\ 0 \in 0..AttemptsAllowed /\ 0 \in Nat
    BY DEF AttemptsAllowed
  <2>2. safe \in BOOLEAN
    OBVIOUS
  <2> QED
    BY <2>1, <2>2 DEF HttpTypeOK
<1>2. Loop
  BY DEF Loop
<1> QED
  BY <1>1, <1>2 DEF HttpInv

\* Every step of send, of its caller and of the server keeps it.
LEMMA InvStep == HttpInv /\ [HttpNext]_hvars => HttpInv'
<1> SUFFICES ASSUME HttpInv, [HttpNext]_hvars PROVE HttpInv'
  OBVIOUS
<1> USE HttpAssumption DEF HttpInv, HttpTypeOK, Loop, AttemptsAllowed, Exceptions
<1>1. ASSUME NEW s \in BOOLEAN, Send(s), UNCHANGED serverVars PROVE HttpInv'
  BY <1>1 DEF Send, serverVars
<1>2. ASSUME StartAttempt, UNCHANGED serverVars PROVE HttpInv'
  BY <1>2 DEF StartAttempt, Finish, serverVars
<1>3. ASSUME EndAttempt, UNCHANGED serverVars PROVE HttpInv'
  <2>1. PICK d \in Durations : elapsed' = elapsed + d
    BY <1>3 DEF EndAttempt
  <2>2. elapsed' \in Nat
    BY <2>1
  <2> QED
    BY <1>3, <2>2 DEF EndAttempt, serverVars
<1>4. ASSUME Judge, UNCHANGED serverVars PROVE HttpInv'
  <2>1. CASE RetryPossible
    <3>1. PICK d \in Backoffs :
             IF elapsed + d < Budget
             THEN httppc' = "sleep" /\ delay' = d /\ UNCHANGED response
             ELSE Finish(Raised)
      BY <1>4, <2>1 DEF Judge
    <3>2. d \in 0..MaxBackoff
      BY BackoffsBounded
    <3>3. Raised \in Exceptions
      BY DEF Raised
    <3> QED
      BY <1>4, <2>1, <3>1, <3>2, <3>3 DEF Judge, RetryPossible, Finish, serverVars, Retryable
  <2>2. CASE ~RetryPossible
    <3>1. response' \in ServerConditions \cup Exceptions /\ response' # "none" /\ httppc' = "idle"
          /\ delay' = delay
      BY <1>4, <2>2 DEF Judge, Finish, Raised, AllConditions
    <3> QED
      BY <1>4, <3>1 DEF Judge, serverVars
  <2> QED
    BY <2>1, <2>2
<1>5. ASSUME WakeUp, UNCHANGED serverVars PROVE HttpInv'
  <2>1. PICK late \in 0..Drift : elapsed' = elapsed + delay + late
    BY <1>5 DEF WakeUp
  <2>2. elapsed' \in Nat /\ elapsed' <= Budget + Drift
    BY <1>5, <2>1 DEF WakeUp
  <2> QED
    BY <1>5, <2>2 DEF WakeUp, serverVars
<1>6. ASSUME CancelSend, UNCHANGED serverVars PROVE HttpInv'
  BY <1>6 DEF CancelSend, Finish, serverVars
<1>7. ASSUME ServerChanges PROVE HttpInv'
  BY <1>7 DEF ServerChanges, httpVars
<1>8. CASE UNCHANGED hvars
  BY <1>8 DEF hvars, serverVars, httpVars
<1> QED
  BY <1>1, <1>2, <1>3, <1>4, <1>5, <1>6, <1>7, <1>8 DEF HttpNext, SendStep

\* The loop of send: the control points, the attempts and the budget agree, at every moment.
THEOREM HttpInvariant == HttpSpec => []HttpInv
<1>1. HttpInit => HttpInv
  BY InvInit
<1>2. HttpInv /\ [HttpNext]_hvars => HttpInv'
  BY InvStep
<1> QED
  BY <1>1, <1>2, PTL DEF HttpSpec, hvars

-----------------------------------------------------------------------------
\* Every step of the client is one of Delivery's, or changes nothing Delivery speaks of.
LEMMA StepDelivers == HttpInv /\ [HttpNext]_hvars => [DL!Next]_(DL!deliveryVars)
<1> SUFFICES ASSUME HttpInv, [HttpNext]_hvars PROVE [DL!Next]_(DL!deliveryVars)
  OBVIOUS
<1> USE HttpAssumption DEF HttpInv, HttpTypeOK, Loop
<1>1. ASSUME NEW s \in BOOLEAN, Send(s) PROVE DL!Ask
  BY <1>1 DEF Send, DL!Ask
<1>2. ASSUME StartAttempt PROVE DL!Next
  <2>1. CASE elapsed >= Budget
    <3>1. raw \in Retryable /\ response' = "TimeoutError" /\ httppc' = "idle"
          /\ UNCHANGED <<safe, elapsed, attempt, raw>>
      BY <1>2, <2>1 DEF StartAttempt, Finish
    <3>2. DL!Spent
      BY <2>1 DEF DL!Spent
    <3>3. DL!Tell
      BY <1>2, <3>1, <3>2 DEF DL!Tell, StartAttempt, Retryable
    <3> QED
      BY <3>3 DEF DL!Next
  <2>2. CASE elapsed < Budget
    <3>1. DL!GoOut
      BY <1>2, <2>2 DEF StartAttempt, DL!GoOut, DL!Allowed, AttemptsAllowed, Retryable
    <3> QED
      BY <3>1 DEF DL!Next
  <2> QED
    BY <2>1, <2>2
<1>3. ASSUME EndAttempt PROVE DL!ComeBack
  <2>1. PICK d \in Durations : elapsed' = elapsed + d
    BY <1>3 DEF EndAttempt
  <2>2. elapsed' >= elapsed
    BY <2>1
  <2> QED
    BY <1>3, <2>2 DEF EndAttempt, DL!ComeBack
<1>4. ASSUME Judge PROVE DL!Tell \/ UNCHANGED DL!deliveryVars
  <2>1. CASE RetryPossible
    <3>1. PICK d \in Backoffs :
             IF elapsed + d < Budget
             THEN httppc' = "sleep" /\ delay' = d /\ UNCHANGED response
             ELSE Finish(Raised)
      BY <1>4, <2>1 DEF Judge
    <3>2. CASE elapsed + d < Budget
      BY <1>4, <3>1, <3>2 DEF Judge, DL!deliveryVars
    <3>3. CASE ~(elapsed + d < Budget)
      <4>1. d \in 0..MaxBackoff
        BY BackoffsBounded
      <4>2. DL!Spent
        BY <3>3, <4>1 DEF DL!Spent
      <4>3. response' \in {"TimeoutError", "IntegrationError"} /\ httppc' = "idle"
        BY <3>1, <3>3 DEF Finish, Raised
      <4> QED
        BY <1>4, <2>1, <4>2, <4>3 DEF Judge, DL!Tell, RetryPossible
    <3> QED
      BY <3>2, <3>3
  <2>2. CASE ~RetryPossible
    <3>1. response' = (IF raw \in {"slow", "down", "broken"} THEN Raised ELSE raw)
          /\ httppc' = "idle" /\ httppc = "judge" /\ UNCHANGED <<safe, elapsed, attempt, raw>>
      BY <1>4, <2>2 DEF Judge, Finish
    <3>2. raw \in Retryable => attempt = DL!Allowed
      BY <2>2, <3>1 DEF RetryPossible, DL!Allowed, AttemptsAllowed
    <3>3. CASE raw \in {"slow", "down"}
      <4>1. DL!Spent
        BY <3>2, <3>3 DEF DL!Spent, Retryable
      <4> QED
        BY <3>1, <3>3, <4>1 DEF DL!Tell, Raised, Retryable
    <3>4. CASE raw = "broken"
      BY <3>1, <3>4 DEF DL!Tell, Raised, Retryable
    <3>5. CASE raw \notin {"slow", "down", "broken"}
      BY <3>1, <3>2, <3>5 DEF DL!Tell
    <3> QED
      BY <3>3, <3>4, <3>5
  <2> QED
    BY <2>1, <2>2
<1>5. ASSUME WakeUp PROVE DL!Wait
  <2>1. PICK late \in 0..Drift : elapsed' = elapsed + delay + late
    BY <1>5 DEF WakeUp
  <2>2. elapsed' \in elapsed..(Budget + Drift)
    BY <1>5, <2>1 DEF WakeUp
  <2> QED
    BY <1>5, <2>2 DEF WakeUp, DL!Wait, DL!Allowed, AttemptsAllowed
<1>6. ASSUME CancelSend PROVE DL!Forsake
  BY <1>6 DEF CancelSend, Finish, DL!Forsake
<1>7. ASSUME UNCHANGED httpVars PROVE UNCHANGED DL!deliveryVars
  BY <1>7 DEF httpVars, DL!deliveryVars
<1>8. CASE ServerChanges
  BY <1>7, <1>8 DEF ServerChanges
<1>9. CASE UNCHANGED hvars
  BY <1>7, <1>9 DEF hvars
<1> QED
  BY <1>1, <1>2, <1>3, <1>4, <1>5, <1>6, <1>8, <1>9 DEF HttpNext, SendStep, DL!Next

\* The client keeps what Delivery promises, for every policy and every behaviour of the server.
THEOREM HttpImplementsDelivery == HttpSpec => ImplementsDelivery
<1>1. HttpInit => DL!Init
  BY DEF HttpInit, DL!Init
<1>2. HttpInv /\ [HttpNext]_hvars => [DL!Next]_(DL!deliveryVars)
  BY StepDelivers
<1> QED
  BY <1>1, <1>2, HttpInvariant, PTL DEF HttpSpec, hvars, DL!Spec, ImplementsDelivery
-----------------------------------------------------------------------------
\* The tools share nothing: a step of the server is one of its HTTP client's, of its extra tables'
\* or of its queries', and leaves the variables of the others alone.

\* Initially each part of the server is in one of its own initial states.
LEMMA PartsInit == Init => HttpInit /\ RestInit /\ TablesInit /\ QueriesInit
  BY DEF Init, HttpRests, RestRests, TablesRest, QueriesRest

\* A step of the server is a step of its HTTP client, or leaves the client alone.
LEMMA HttpPart == [Next]_soVars => [HttpNext]_hvars
<1> SUFFICES ASSUME [Next]_soVars PROVE [HttpNext]_hvars
  OBVIOUS
<1>1. CASE RestCall
  <2>1. CASE RestStep /\ UNCHANGED serverVars
    <3>1. Request => HttpNext
      BY <2>1 DEF Request, HttpNext
    <3>2. Receive => UNCHANGED hvars
      BY <2>1 DEF Receive, hvars
    <3> QED
      BY <2>1, <3>1, <3>2 DEF RestStep
  <2>2. CASE (SendStep \/ CancelSend) /\ UNCHANGED <<restVars, serverVars>>
    BY <2>2 DEF HttpNext
  <2>3. CASE ServerChanges
    BY <2>3 DEF HttpNext
  <2> QED
    BY <1>1, <2>1, <2>2, <2>3 DEF RestCall
<1>2. CASE HttpCall
  BY <1>2 DEF HttpCall
<1>3. CASE TableCall \/ QueryCall \/ UNCHANGED soVars
  BY <1>3 DEF TableCall, QueryCall, soVars, hvars
<1> QED
  BY <1>1, <1>2, <1>3 DEF Next

\* A step of the server is a step of the extra-table tools, or leaves them alone.
LEMMA TablesPart == [Next]_soVars => [TablesNext]_tableVars
  BY DEF Next, RestCall, HttpCall, TableCall, QueryCall, soVars

\* A step of the server is a step of the database queries, or leaves them alone.
LEMMA QueriesPart == [Next]_soVars => [QueriesNext]_queryVars
  BY DEF Next, RestCall, HttpCall, TableCall, QueryCall, soVars

\* The client inside the server is the client: it keeps its invariant and what Delivery promises.
THEOREM ServerDelivers == Spec => []HttpInv /\ ImplementsDelivery
<1>1. Init => HttpInit
  BY PartsInit
<1>2. [Next]_soVars => [HttpNext]_hvars
  BY HttpPart
<1>3. Spec => HttpSpec
  BY <1>1, <1>2, PTL DEF Spec, HttpSpec, hvars
<1> QED
  BY <1>3, HttpInvariant, HttpImplementsDelivery, PTL
-----------------------------------------------------------------------------
(* The REST tools.                                                         *)

\* The conditions a failure of send speaks of.
Speaks(r) == IF r = "TimeoutError" THEN {"busy", "slow", "down"} ELSE {"down", "broken"}

\* What an attempt came to, and what send made of it, was a condition of the service during the call.
Observed ==
    /\ server \in seen
    /\ raw \in seen \cup {"none"}
    /\ response \in Exceptions => Speaks(response) \cap seen # {}
    /\ response \notin Exceptions \cup {"idle", "none", "cancelled"} =>
          response \in seen \ {"slow", "down", "broken"}

RestFollows ==
    /\ restpc \in {"send", "wait", "answered"}
    /\ restpc = "wait" => response # "idle"
    /\ kept = "odd" => "odd" \in seen

RestInv == Observed /\ RestFollows /\ FaultsGrounded

\* A step of send keeps what is observed: seen only grows, and raw is the condition of the moment.
LEMMA ObservedStep == HttpInv /\ Observed /\ [HttpNext]_hvars => Observed' /\ seen \subseteq seen'
<1> SUFFICES ASSUME HttpInv, Observed, [HttpNext]_hvars PROVE Observed' /\ seen \subseteq seen'
  OBVIOUS
<1> USE DEF Observed, Speaks, Exceptions
<1>1. ASSUME NEW s \in BOOLEAN, Send(s), UNCHANGED serverVars PROVE Observed' /\ seen' = seen
  BY <1>1 DEF Send, serverVars
<1>2. ASSUME StartAttempt, UNCHANGED serverVars PROVE Observed' /\ seen' = seen
  <2>1. CASE elapsed >= Budget
    <3>1. attempt # 0
      BY <1>2, <2>1, HttpAssumption DEF StartAttempt, HttpInv, Loop, HttpTypeOK
    <3>2. raw \in {"busy", "slow", "down"} /\ raw \in seen
      BY <1>2, <3>1 DEF StartAttempt, HttpInv, Loop, Retryable
    <3> QED
      BY <1>2, <2>1, <3>2 DEF StartAttempt, Finish, serverVars
  <2>2. CASE ~(elapsed >= Budget)
    BY <1>2, <2>2 DEF StartAttempt, serverVars
  <2> QED
    BY <2>1, <2>2
<1>3. ASSUME EndAttempt, UNCHANGED serverVars PROVE Observed' /\ seen' = seen
  BY <1>3 DEF EndAttempt, serverVars
<1>4. ASSUME Judge, UNCHANGED serverVars PROVE Observed' /\ seen' = seen
  <2>1. raw \in seen
    BY <1>4, HttpAssumption DEF Judge, HttpInv, Loop, AllConditions
  <2>2. CASE RetryPossible
    <3>1. Raised \in Exceptions /\ Speaks(Raised) \cap seen # {}
      BY <2>1, <2>2 DEF RetryPossible, Raised, Retryable
    <3>2. response' \in {response, Raised} /\ UNCHANGED <<raw, server, seen>>
      BY <1>4, <2>2 DEF Judge, Finish, serverVars
    <3> QED
      BY <3>1, <3>2
  <2>3. CASE ~RetryPossible
    <3>1. response' = (IF raw \in {"slow", "down", "broken"} THEN Raised ELSE raw)
          /\ UNCHANGED <<raw, server, seen>>
      BY <1>4, <2>3 DEF Judge, Finish, serverVars
    <3>2. raw \notin {"TimeoutError", "IntegrationError", "idle", "none", "cancelled"}
      BY <1>4, HttpAssumption DEF Judge, HttpInv, Loop, AllConditions
    <3>3. CASE raw \in {"slow", "down", "broken"}
      BY <2>1, <3>1, <3>3 DEF Raised
    <3>4. CASE raw \notin {"slow", "down", "broken"}
      BY <2>1, <3>1, <3>2, <3>4
    <3> QED
      BY <3>3, <3>4
  <2> QED
    BY <2>2, <2>3
<1>5. ASSUME WakeUp, UNCHANGED serverVars PROVE Observed' /\ seen' = seen
  BY <1>5 DEF WakeUp, serverVars
<1>6. ASSUME CancelSend, UNCHANGED serverVars PROVE Observed' /\ seen' = seen
  BY <1>6 DEF CancelSend, Finish, serverVars
<1>7. ASSUME ServerChanges PROVE Observed' /\ seen \subseteq seen'
  BY <1>7 DEF ServerChanges, httpVars
<1>8. CASE UNCHANGED hvars
  BY <1>8 DEF hvars, serverVars, httpVars
<1> QED
  BY <1>1, <1>2, <1>3, <1>4, <1>5, <1>6, <1>7, <1>8 DEF HttpNext, SendStep

\* The answers that a response is turned into speak of a condition the response stands for.
LEMMA ReceiveGrounded ==
  HttpInv /\ Observed /\ RestFollows /\ Receive =>
      (restpc' = "answered" => answer' = "cancelled" \/ Causes[answer'] \cap seen # {})
<1> SUFFICES ASSUME HttpInv, Observed, RestFollows, Receive, restpc' = "answered"
             PROVE answer' = "cancelled" \/ Causes[answer'] \cap seen # {}
  OBVIOUS
<1>1. response # "idle" /\ response # "none"
  BY DEF Receive, RestFollows, HttpInv, Loop
<1>2. CASE response = "cancelled"
  BY <1>2 DEF Receive, Deliver
<1>3. CASE response # "cancelled" /\ ~HasBody
  <2>1. response \in DOMAIN Failure
    BY <1>1, <1>3, HttpAssumption
    DEF HasBody, HttpInv, HttpTypeOK, AllConditions, Exceptions, Observed, Failure
  <2>2. answer' = Failure[response]
    BY <1>3 DEF Receive, Deliver
  <2>3. Failure[response] \in DOMAIN Causes
    BY <2>1 DEF Causes
  <2>4. response \in Exceptions => Speaks(response) \cap seen # {}
    BY DEF Observed
  <2>5. response \notin Exceptions => response \in seen
    BY <1>1, <1>3 DEF Observed
  <2>6. Causes[Failure[response]] \cap seen # {}
    BY <2>1, <2>3, <2>4, <2>5 DEF Causes, Failure, Speaks, Exceptions
  <2> QED
    BY <2>2, <2>6
<1>4. CASE HasBody
  <2>1. response \in seen /\ response \in {"ok", "odd", "garbled"}
    BY <1>4 DEF HasBody, Observed, Exceptions
  <2>2. CASE answer' = "SUPEROFFICE_MALFORMED_RESPONSE" /\ response \in {"garbled", "odd"}
    <3>1. Causes["SUPEROFFICE_MALFORMED_RESPONSE"] = {"garbled", "odd"}
      BY DEF Causes
    <3> QED
      BY <2>1, <2>2, <3>1
  <2>3. CASE response # "garbled" /\ answer' \in Mapped
    <3>1. CASE response = "ok" /\ kept # "odd"
      <4>1. answer' = "DATA" /\ Causes["DATA"] = {"ok"}
        BY <2>3, <3>1 DEF Mapped, Causes
      <4> QED
        BY <2>1, <3>1, <4>1
    <3>2. CASE ~(response = "ok" /\ kept # "odd")
      <4>1. answer' \in {"EMPTY", "DEFAULTS", "UNMAPPED"}
        BY <2>3, <3>2 DEF Mapped, Misread
      <4>2. \A a \in {"EMPTY", "DEFAULTS", "UNMAPPED"} : Causes[a] = {"odd"}
        BY DEF Causes
      <4>3. "odd" \in seen
        BY <2>1, <2>3, <3>2 DEF RestFollows
      <4> QED
        BY <4>1, <4>2, <4>3
    <3> QED
      BY <3>1, <3>2
  <2>4. \/ answer' = "SUPEROFFICE_MALFORMED_RESPONSE" /\ response \in {"garbled", "odd"}
        \/ response # "garbled" /\ answer' \in Mapped
    BY <1>4, <2>1 DEF Receive, Deliver, Malformed, MayBeMalformed
  <2> QED
    BY <2>2, <2>3, <2>4
<1> QED
  BY <1>2, <1>3, <1>4

\* Once something was sent, send has a response or is waited for.
LEMMA NeverIdleAgain == HttpInv /\ [HttpNext]_hvars => response' # "idle" \/ response' = response
  BY HttpAssumption
  DEF HttpNext, SendStep, Send, CancelSend, StartAttempt, EndAttempt, Judge, WakeUp, Finish, Raised,
      ServerChanges, HttpInv, Loop, AllConditions, hvars, httpVars

\* Every step of the server keeps the invariant of the REST tools.
LEMMA RestInvStep == HttpInv /\ RestInv /\ [Next]_soVars => RestInv'
<1> SUFFICES ASSUME HttpInv, RestInv, [Next]_soVars PROVE RestInv'
  OBVIOUS
<1>1. Observed' /\ seen \subseteq seen'
  BY HttpPart, ObservedStep DEF RestInv
<1>2. ASSUME UNCHANGED <<restpc, answer>> PROVE FaultsGrounded'
  BY <1>1, <1>2 DEF RestInv, FaultsGrounded, Causes
<1>3. CASE RestCall
  <2>1. CASE Request /\ UNCHANGED serverVars
    BY <1>1, <2>1 DEF Request, Send, RestInv, RestFollows, FaultsGrounded
  <2>2. CASE Receive /\ UNCHANGED serverVars
    <3>1. RestFollows'
      <4>1. restpc' \in {"send", "answered"} /\ kept' \in {kept, response} /\ seen' = seen
        BY <2>2 DEF Receive, Deliver, serverVars
      <4>2. kept' = response \/ kept' = kept
        BY <4>1
      <4>3. response = "odd" => "odd" \in seen
        BY DEF RestInv, Observed, Exceptions
      <4> QED
        BY <4>1, <4>2, <4>3 DEF RestFollows, RestInv
    <3>2. FaultsGrounded'
      <4>1. CASE restpc' # "answered"
        BY <4>1 DEF FaultsGrounded
      <4>2. CASE restpc' = "answered"
        <5>1. answer' = "cancelled" \/ Causes[answer'] \cap seen # {}
          BY <2>2, <4>2, ReceiveGrounded DEF RestInv
        <5>2. seen' = seen
          BY <2>2 DEF serverVars
        <5> QED
          BY <5>1, <5>2 DEF FaultsGrounded, Causes
      <4> QED
        BY <4>1, <4>2
    <3> QED
      BY <1>1, <3>1, <3>2 DEF RestInv
  <2>3. CASE (SendStep \/ CancelSend) /\ UNCHANGED <<restVars, serverVars>>
    <3>1. restpc' = restpc /\ kept' = kept
      BY <2>3 DEF restVars
    <3>2. FaultsGrounded'
      BY <1>2, <2>3 DEF restVars
    <3> QED
      BY <1>1, <2>3, <3>1, <3>2, HttpPart, NeverIdleAgain DEF RestInv, RestFollows
  <2>4. CASE ServerChanges /\ UNCHANGED restVars
    BY <1>1, <1>2, <2>4 DEF ServerChanges, restVars, httpVars, RestInv, RestFollows
  <2> QED
    BY <1>3, <2>1, <2>2, <2>3, <2>4 DEF RestCall, RestStep
<1>4. CASE HttpCall
  BY <1>1, <1>2, <1>4, HttpPart, NeverIdleAgain DEF HttpCall, restVars, RestInv, RestFollows
<1>5. CASE TableCall \/ QueryCall \/ UNCHANGED soVars
  BY <1>1, <1>2, <1>5 DEF TableCall, QueryCall, soVars, httpVars, restVars, RestInv, RestFollows
<1> QED
  BY <1>3, <1>4, <1>5 DEF Next

\* Whatever the service goes through during the requests of a call and their retries, an answer
\* speaks of a condition the service was in.
THEOREM FaultsAreGrounded == Spec => []FaultsGrounded
<1>1. Init => RestInv
  <2>1. Init => Observed
    BY PartsInit DEF HttpInit, Observed, Exceptions
  <2>2. Init => restpc = "send" /\ kept = "none"
    BY PartsInit DEF RestInit
  <2> QED
    BY <2>1, <2>2 DEF RestInv, RestFollows, FaultsGrounded
<1>2. HttpInv /\ RestInv /\ [Next]_soVars => RestInv'
  BY RestInvStep
<1>3. RestInv => FaultsGrounded
  BY DEF RestInv
<1> QED
  BY <1>1, <1>2, <1>3, ServerDelivers, PTL DEF Spec
-----------------------------------------------------------------------------
(* The extra tables.                                                       *)

\* A catalogue whose every entry was that of its table in some version up to n, or is that of a
\* table removed while it was read.
Traceable(sch, n) ==
    \A t \in DOMAIN sch :
       \E v \in 1..n : /\ t \in TableNames(v)
                       /\ \/ sch[t] = Registered(v)[t]
                          \/ sch[t] = {} /\ \E w \in 1..n : w > v /\ t \notin TableNames(w)

\* One whose every entry is a sync's account of a row of some version up to n.
Exported(sch, n) ==
    \A t \in DOMAIN sch :
       \E v \in 1..n : t \in Rows(v) /\ sch[t] \in {Registered(v)[t], Spelt(Registered(v)[t]), {}}

\* It names no table only if a version up to n had none.
Honest(sch, n) == DOMAIN sch = {} => \E v \in 1..n : TableNames(v) = {}

Filled(sch) == sch = Empty \/ DOMAIN sch # {}

Sound(sch) == Traceable(sch, version) \/ (fallback /\ Exported(sch, version))

Checked(a, sch) ==
    a.table \in DOMAIN sch /\ ColumnsValid(a, sch) /\ a.tool # "list_extra_tables"

\* What the calls know of the schema: every catalogue that is used is traceable or the mirror's, and
\* what is about to be queried has been checked against one.
TablesInv ==
    /\ version \in Nat \ {0}
    /\ mirror \notin NoFile => Exported(mirror, version) /\ Filled(mirror)
    /\ DOMAIN answers = TableCalls /\ DOMAIN schema = TableCalls
    /\ DOMAIN tablepc = TableCalls /\ DOMAIN listed = TableCalls
    /\ cache # NoCatalogue =>
          /\ Traceable(cache, version) \/ (fallback /\ cache = mirrorCache /\ Exported(cache, version))
          /\ Honest(cache, version)
    /\ mirrorCache # NoCatalogue => Exported(mirrorCache, version) /\ Filled(mirrorCache)
    /\ \A c \in TableCalls :
          /\ tablepc[c] = "fields" => \E v \in Past : listed[c] = TableNames(v)
          /\ tablepc[c] = "query" => Sound(schema[c]) /\ Checked(asked[c], schema[c])

TablesAnswer == TablesInv /\ CatalogueTraceable /\ EmptyMeansNone

\* What a sync may have extracted is an account of the rows.
LEMMA ExtractsExported ==
  ASSUME version \in Nat \ {0}, NEW sch \in Extracts
  PROVE  Exported(sch, version) /\ Filled(sch)
<1>1. ASSUME NEW v \in Past, NEW w \in Past, NEW t \in Rows(v)
      PROVE  \E u \in Past : t \in Rows(u) /\ Joined(v, w)[t] \in {Registered(u)[t], {}}
  BY <1>1 DEF Joined
<1>2. ASSUME NEW v \in Past, NEW other, DOMAIN other = Rows(v), other = [t \in Rows(v) |-> other[t]]
      PROVE  Filled(other)
  BY <1>2 DEF Filled, Empty
<1>3. CASE \E v \in Past, w \in Past : sch = Joined(v, w)
  <2> PICK v \in Past, w \in Past : sch = Joined(v, w)
    BY <1>3
  <2>1. DOMAIN sch = Rows(v) /\ sch = [t \in Rows(v) |-> sch[t]]
    BY DEF Joined
  <2> QED
    BY <1>1, <1>2, <2>1 DEF Exported, Past
<1>4. CASE \E v \in Past, w \in Past : sch = [t \in Rows(v) |-> Spelt(Joined(v, w)[t])]
  <2> PICK v \in Past, w \in Past : sch = [t \in Rows(v) |-> Spelt(Joined(v, w)[t])]
    BY <1>4
  <2>1. DOMAIN sch = Rows(v) /\ sch = [t \in Rows(v) |-> sch[t]]
    OBVIOUS
  <2>2. Spelt({}) = {}
    BY DEF Spelt
  <2>3. ASSUME NEW t \in Rows(v)
        PROVE  \E u \in Past : t \in Rows(u) /\ sch[t] \in {Spelt(Registered(u)[t]), {}}
    <3>1. PICK u \in Past : t \in Rows(u) /\ Joined(v, w)[t] \in {Registered(u)[t], {}}
      BY <1>1
    <3>2. sch[t] = Spelt(Joined(v, w)[t])
      OBVIOUS
    <3> QED
      BY <2>2, <3>1, <3>2
  <2> QED
    BY <1>2, <2>1, <2>3 DEF Exported, Past
<1>5. CASE \E v \in Past : sch = [t \in Rows(v) |-> {}]
  <2> PICK v \in Past : sch = [t \in Rows(v) |-> {}]
    BY <1>5
  <2> QED
    BY <1>2 DEF Exported, Past
<1>6. CASE sch = Empty
  BY <1>6 DEF Exported, Filled, Empty
<1> QED
  BY <1>3, <1>4, <1>5, <1>6 DEF Extracts

\* What was traceable or honest stays so while versions follow one another.
LEMMA StaysTraceable ==
  ASSUME NEW sch, NEW m \in Nat, NEW n \in Nat, m <= n
  PROVE  /\ Traceable(sch, m) => Traceable(sch, n)
         /\ Exported(sch, m) => Exported(sch, n)
         /\ Honest(sch, m) => Honest(sch, n)
<1>1. \A v \in 1..m : v \in 1..n
  OBVIOUS
<1>2. Traceable(sch, m) => Traceable(sch, n)
  BY <1>1 DEF Traceable
<1>3. Honest(sch, m) => Honest(sch, n)
  BY <1>1 DEF Honest
<1>4. Exported(sch, m) => Exported(sch, n)
  BY <1>1 DEF Exported
<1> QED
  BY <1>2, <1>3, <1>4

\* The columns of a statement that passed the check were fields of its table at some time.
LEMMA CheckedColumns ==
  ASSUME NEW a, NEW sch, Sound(sch), Checked(a, sch),
         NEW s, s = [table |-> a.table, columns |-> Named(a, sch)]
  PROVE  /\ s.columns \cap Unnameable = {}
         /\ Real(s) \/ (fallback /\ AsMirrored(s))
<1>1. s.table = a.table /\ s.columns = Named(a, sch)
  OBVIOUS
<1>2. s.columns \cap Unnameable = {}
  BY <1>1 DEF ColumnsValid, Checked
<1>3. ASSUME NEW col \in s.columns, col \notin Standard
      PROVE  col \in sch[a.table]
  <2>1. Lower(col) = col
    BY <1>3 DEF Lower, Standard
  <2> QED
    BY <1>1, <1>3, <2>1 DEF ColumnsValid, Allowed, Checked
<1>4. CASE Traceable(sch, version)
  <2>1. PICK v \in Past : /\ a.table \in TableNames(v)
                         /\ (sch[a.table] = Registered(v)[a.table] \/ sch[a.table] = {})
    BY <1>4 DEF Traceable, Checked, Past
  <2> QED
    BY <1>1, <1>2, <1>3, <2>1 DEF Real
<1>5. CASE fallback /\ Exported(sch, version)
  <2>1. PICK v \in Past :
           /\ a.table \in Rows(v)
           /\ sch[a.table] \in {Registered(v)[a.table], Spelt(Registered(v)[a.table]), {}}
    BY <1>5 DEF Exported, Checked, Past
  <2>2. sch[a.table] \subseteq Registered(v)[a.table] \cup Spelt(Registered(v)[a.table])
    BY <2>1
  <2> QED
    BY <1>1, <1>2, <1>3, <1>5, <2>1, <2>2 DEF AsMirrored
<1> QED
  BY <1>4, <1>5 DEF Sound

\* What the mirror holds is a sync's account, and nothing or some tables.
LEMMA MirroredExported ==
  ASSUME TablesInv
  PROVE  Exported(Mirrored, version) /\ Filled(Mirrored)
<1>1. Exported(Empty, version) /\ Filled(Empty)
  BY DEF Exported, Filled, Empty
<1> QED
  BY <1>1 DEF Mirrored, FileContent, TablesInv

\* A call that has a catalogue lists it, refuses the request, or has checked the request against it.
LEMMA UseChecks ==
  ASSUME TablesInv, NEW c \in TableCalls, NEW sch, Use(c, sch)
  PROVE  /\ schema' = [schema EXCEPT ![c] = sch]
         /\ DOMAIN tablepc' = TableCalls /\ DOMAIN answers' = TableCalls
         /\ \A d \in TableCalls : d # c => tablepc'[d] = tablepc[d] /\ answers'[d] = answers[d]
         /\ tablepc'[c] # "fields"
         /\ tablepc'[c] = "query" => Checked(asked[c], sch) /\ answers' = answers
         /\ tablepc'[c] # "query" =>
              (answers'[c].code = "OK" /\ asked[c].tool = "list_extra_tables" =>
                  answers'[c].tables = DOMAIN sch)
  BY DEF Use, Say, TablesInv, Checked

\* Using a catalogue that is sound and honest keeps the invariant.
LEMMA UseKeeps ==
  ASSUME TablesAnswer, NEW c \in TableCalls, NEW sch, Use(c, sch),
         Sound(sch), Honest(sch, version),
         UNCHANGED <<tableWorld, fallback, asked, listed, statements>>,
         mirrorCache' \in {mirrorCache, Mirrored},
         \/ cache' = cache
         \/ cache' = sch /\ (Traceable(sch, version) \/ (fallback /\ sch = mirrorCache'))
  PROVE  TablesAnswer'
<1> USE DEF tableWorld, TablesAnswer
<1>1. version' = version /\ mirror' = mirror /\ asked' = asked /\ listed' = listed
      /\ fallback' = fallback
  OBVIOUS
<1>2. schema' = [schema EXCEPT ![c] = sch] /\ schema'[c] = sch
      /\ \A d \in TableCalls : d # c => schema'[d] = schema[d]
  BY UseChecks DEF TablesInv
<1>3. mirrorCache' # NoCatalogue => Exported(mirrorCache', version) /\ Filled(mirrorCache')
  BY MirroredExported DEF TablesInv
<1>4. mirrorCache # NoCatalogue => mirrorCache' = mirrorCache
  BY DEF Mirrored
<1>5. cache' # NoCatalogue =>
         /\ Traceable(cache', version)
            \/ (fallback /\ cache' = mirrorCache' /\ Exported(cache', version))
         /\ Honest(cache', version)
  <2>1. CASE cache' = cache
    BY <1>4, <2>1 DEF TablesInv
  <2>2. CASE cache' = sch /\ (Traceable(sch, version) \/ (fallback /\ sch = mirrorCache'))
    BY <1>3, <2>2
  <2> QED
    BY <2>1, <2>2
<1>6. TablesInv'
  <2>1. \A d \in TableCalls :
          /\ tablepc'[d] = "fields" => \E v \in Past : listed[d] = TableNames(v)
          /\ tablepc'[d] = "query" => Sound(schema'[d]) /\ Checked(asked[d], schema'[d])
    BY <1>2, UseChecks DEF TablesInv
  <2> QED
    BY <1>1, <1>2, <1>3, <1>5, <2>1, UseChecks DEF TablesInv, Past, Sound
<1>7. EmptyMeansNone'
  BY <1>1, UseChecks DEF EmptyMeansNone, Honest, Past
<1>8. CatalogueTraceable'
  BY <1>1, <1>5
  DEF CatalogueTraceable, FromDatabase, FromMirror, Traceable, Exported, Real, AsMirrored, Past
<1> QED
  BY <1>6, <1>7, <1>8

\* A call that fails, in whatever way, keeps it too.
LEMMA ErrorKeeps ==
  ASSUME TablesAnswer, NEW c \in TableCalls, NEW code \in {"INVALID_TABLE", "QUERY_FAILED", "UNMAPPED"},
         Error(c, code), UNCHANGED <<tableWorld, fallback, cache, asked, listed>>,
         statements' = statements, mirrorCache' \in {mirrorCache, Mirrored}
  PROVE  TablesAnswer'
<1> USE DEF tableWorld, TablesAnswer
<1>1. mirrorCache # NoCatalogue => mirrorCache' = mirrorCache
  BY DEF Mirrored
<1>2. TablesInv'
  BY <1>1, MirroredExported DEF TablesInv, Error, Say, Past, Sound
<1>3. EmptyMeansNone'
  BY DEF EmptyMeansNone, Error, Say, Past, TablesInv
<1>4. CatalogueTraceable'
  <2>1. cache' # NoCatalogue => cache' = cache /\ (cache = mirrorCache => cache' = mirrorCache')
    BY <1>1
  <2> QED
    BY <2>1 DEF CatalogueTraceable, FromDatabase, FromMirror, Real, AsMirrored, Past
<1> QED
  BY <1>2, <1>3, <1>4

\* Both statements that read the catalogue: what they make of it was there at some time.
LEMMA ReadTraceable ==
  ASSUME TablesInv, NEW c \in TableCalls, tablepc[c] = "fields",
         NEW sch, sch = [t \in listed[c] |-> IF t \in TableNames(version) THEN Registered(version)[t]
                                             ELSE {}]
  PROVE  Traceable(sch, version) /\ Honest(sch, version)
<1>1. PICK v \in Past : listed[c] = TableNames(v)
  BY DEF TablesInv
<1>2. Honest(sch, version)
  BY <1>1 DEF Honest, Past
<1>3. ASSUME NEW t \in DOMAIN sch, t \notin TableNames(version)
      PROVE  sch[t] = {} /\ version > v
  BY <1>1, <1>3 DEF Past, TablesInv
<1>4. version \in 1..version
  BY DEF TablesInv
<1> QED
  BY <1>1, <1>2, <1>3, <1>4 DEF Traceable, Past

\* Every step of the extra-table tools, and of the world they run in, keeps the invariant.
LEMMA TablesStepKeeps == TablesAnswer /\ [TablesNext]_tableVars => TablesAnswer'
<1> SUFFICES ASSUME TablesAnswer, [TablesNext]_tableVars PROVE TablesAnswer'
  OBVIOUS
<1>1. ASSUME NEW c \in TableCalls, StartTables(c) PROVE TablesAnswer'
  <2>1. CASE cache # NoCatalogue
    <3>1. Use(c, cache) /\ Sound(cache) /\ Honest(cache, version)
      BY <1>1, <2>1 DEF StartTables, TablesAnswer, TablesInv, Sound
    <3> QED
      BY <1>1, <3>1, UseKeeps DEF StartTables
  <2>2. CASE ~(cache # NoCatalogue)
    BY <1>1, <2>2
    DEF StartTables, TablesAnswer, TablesInv, EmptyMeansNone, CatalogueTraceable, FromDatabase,
        FromMirror, Real, AsMirrored, Sound, Past, tableWorld
  <2> QED
    BY <2>1, <2>2
<1>2. ASSUME NEW c \in TableCalls, ReadTables(c) PROVE TablesAnswer'
  BY <1>2
  DEF ReadTables, TablesAnswer, TablesInv, EmptyMeansNone, CatalogueTraceable, FromDatabase,
      FromMirror, Real, AsMirrored, Sound, Past, tableWorld
<1>3. ASSUME NEW c \in TableCalls, ReadFields(c) PROVE TablesAnswer'
  <2> DEFINE sch == [t \in listed[c] |-> IF t \in TableNames(version) THEN Registered(version)[t]
                                         ELSE {}]
  <2>1. Traceable(sch, version) /\ Honest(sch, version)
    BY <1>3, ReadTraceable DEF ReadFields, TablesAnswer
  <2>2. Keep(c, sch) /\ UNCHANGED <<tableWorld, fallback, mirrorCache, asked, listed, statements>>
    BY <1>3 DEF ReadFields
  <2> HIDE DEF sch
  <2>3. CASE DOMAIN sch \cap Unnameable # {}
    BY <2>2, <2>3, ErrorKeeps DEF Keep
  <2>4. CASE DOMAIN sch \cap Unnameable = {}
    BY <2>1, <2>2, <2>4, UseKeeps DEF Keep, Sound
  <2> QED
    BY <2>3, <2>4
<1>4. ASSUME NEW c \in TableCalls, CatalogueFails(c) PROVE TablesAnswer'
  <2> DEFINE serves == /\ fallback /\ ~(mirrorCache = NoCatalogue /\ mirror = Untyped)
                       /\ DOMAIN Mirrored \cap Unnameable = {} /\ WorthServing(Mirrored)
  <2>1. CASE ~serves
    BY <1>4, <2>1, ErrorKeeps DEF CatalogueFails
  <2>2. CASE serves
    <3>1. Sound(Mirrored) /\ Honest(Mirrored, version)
      BY <2>2, MirroredExported DEF WorthServing, TablesAnswer, Sound, Filled, Honest
    <3>2. Use(c, Mirrored) /\ cache' = Mirrored /\ mirrorCache' = Mirrored
      BY <1>4, <2>2 DEF CatalogueFails
    <3> QED
      BY <1>4, <2>2, <3>1, <3>2, UseKeeps DEF CatalogueFails
  <2> QED
    BY <2>1, <2>2
<1>5. ASSUME NEW c \in TableCalls, RunQuery(c) PROVE TablesAnswer'
  <2>1. CASE ~dbUp
    BY <1>5, <2>1, ErrorKeeps DEF RunQuery
  <2>2. CASE dbUp
    <3> DEFINE a == asked[c]
               made == [table |-> a.table, columns |-> Named(a, schema[c])]
    <3>1. Sound(schema[c]) /\ Checked(a, schema[c])
      BY <1>5 DEF RunQuery, TablesAnswer, TablesInv
    <3>2. /\ statements' = statements \cup {made}
          /\ UNCHANGED <<tableWorld, fallback, cache, mirrorCache, asked, listed>>
      BY <1>5, <2>2 DEF RunQuery
    <3>3. CatalogueTraceable'
      <4>1. made.columns \cap Unnameable = {} /\ (Real(made) \/ (fallback /\ AsMirrored(made)))
        BY <3>1, CheckedColumns
      <4> HIDE DEF made, a
      <4>2. \A s \in statements' :
               /\ s.columns \cap Unnameable = {}
               /\ Real(s) \/ (fallback /\ AsMirrored(s))
        BY <3>2, <4>1 DEF TablesAnswer, CatalogueTraceable
      <4> QED
        BY <3>2, <4>2
        DEF TablesAnswer, CatalogueTraceable, FromDatabase, FromMirror, Real, AsMirrored, Past,
            tableWorld
    <3>4. schema' = schema /\ \E x : Say(c, x)
      BY <1>5, <2>2 DEF RunQuery, Error
    <3>5. a.tool # "list_extra_tables"
      BY <3>1 DEF Checked
    <3>6. TablesInv'
      BY <3>2, <3>4 DEF TablesAnswer, TablesInv, Say, Past, Sound, tableWorld
    <3>7. EmptyMeansNone'
      BY <3>2, <3>4, <3>5 DEF TablesAnswer, EmptyMeansNone, TablesInv, Say, Past, tableWorld
    <3> QED
      BY <3>3, <3>6, <3>7 DEF TablesAnswer
  <2> QED
    BY <2>1, <2>2
<1>6. ASSUME TableWorldStep PROVE TablesAnswer'
  <2>1. version' \in Nat \ {0} /\ version \in Nat /\ version <= version'
        /\ \A v \in Past : v \in Past'
    BY <1>6 DEF TableWorldStep, SchemaChanges, Outage, MirrorSynced, TablesAnswer, TablesInv, Past
  <2>2. UNCHANGED <<fallback, cache, mirrorCache, asked, tablepc, listed, schema, answers, statements>>
    BY <1>6 DEF TableWorldStep
  <2>3. mirror' \notin NoFile => Exported(mirror', version') /\ Filled(mirror')
    <3>1. CASE mirror' = mirror
      BY <2>1, <3>1, StaysTraceable DEF TablesAnswer, TablesInv, NoFile
    <3>2. CASE MirrorSynced
      <4>1. version' = version /\ (mirror' \in Extracts \/ mirror' \in NoFile)
        BY <3>2 DEF MirrorSynced, NoFile
      <4> QED
        BY <4>1, ExtractsExported DEF TablesAnswer, TablesInv, NoFile
    <3> QED
      BY <1>6, <3>1, <3>2 DEF TableWorldStep, SchemaChanges, Outage
  <2>4. TablesInv'
    <3>1. cache # NoCatalogue =>
            /\ Traceable(cache, version')
               \/ (fallback /\ cache = mirrorCache /\ Exported(cache, version'))
            /\ Honest(cache, version')
      BY <2>1, StaysTraceable DEF TablesAnswer, TablesInv
    <3>2. mirrorCache # NoCatalogue => Exported(mirrorCache, version') /\ Filled(mirrorCache)
      BY <2>1, StaysTraceable DEF TablesAnswer, TablesInv
    <3>3. ASSUME NEW c \in TableCalls
          PROVE  /\ tablepc[c] = "fields" => \E v \in Past' : listed[c] = TableNames(v)
                 /\ tablepc[c] = "query" =>
                      /\ Traceable(schema[c], version') \/ (fallback /\ Exported(schema[c], version'))
                      /\ Checked(asked[c], schema[c])
      BY <2>1, StaysTraceable DEF TablesAnswer, TablesInv, Sound
    <3> QED
      BY <2>1, <2>2, <2>3, <3>1, <3>2, <3>3 DEF TablesAnswer, TablesInv, Sound
  <2>5. CatalogueTraceable'
    <3>1. cache # NoCatalogue => FromDatabase(cache)' \/ (cache = mirrorCache /\ FromMirror(cache)')
      BY <2>1, <2>2
      DEF TablesAnswer, CatalogueTraceable, FromDatabase, FromMirror
    <3>2. ASSUME NEW s \in statements
          PROVE  (Real(s) => Real(s)') /\ (AsMirrored(s) => AsMirrored(s)')
      BY <2>1 DEF Real, AsMirrored
    <3> QED
      BY <2>2, <3>1, <3>2 DEF TablesAnswer, CatalogueTraceable
  <2>6. EmptyMeansNone'
    BY <2>1, <2>2 DEF TablesAnswer, EmptyMeansNone
  <2> QED
    BY <2>4, <2>5, <2>6 DEF TablesAnswer
<1>7. CASE UNCHANGED tableVars
  BY <1>7
  DEF tableVars, tableWorld, TablesAnswer, TablesInv, CatalogueTraceable, FromDatabase, FromMirror,
      Real, AsMirrored, Sound, EmptyMeansNone, Past
<1> QED
  BY <1>1, <1>2, <1>3, <1>4, <1>5, <1>6, <1>7 DEF TablesNext, TableStep

\* Initially there is no catalogue and no answer.
LEMMA TablesInitKeeps == TablesInit => TablesAnswer
<1> SUFFICES ASSUME TablesInit PROVE TablesAnswer
  OBVIOUS
<1>1. mirror \notin NoFile => Exported(mirror, version) /\ Filled(mirror)
  BY ExtractsExported DEF TablesInit
<1> QED
  BY <1>1
  DEF TablesInit, TablesAnswer, TablesInv, CatalogueTraceable, EmptyMeansNone, Past

\* Two tools that share a catalogue, a database that fails and is reorganised, and a mirror that is
\* missing, torn, bare or older: an entry of a catalogue read from the database was registered, one
\* of the mirror's is a sync's account of a row, and the columns of every statement are fields of
\* its table, under their own name or the one a sync gave them.
THEOREM CataloguesAreTraceable == Spec => []CatalogueTraceable
<1>1. Init => TablesAnswer
  BY PartsInit, TablesInitKeeps
<1>2. TablesAnswer /\ [Next]_soVars => TablesAnswer'
  BY TablesPart, TablesStepKeeps
<1>3. TablesAnswer => CatalogueTraceable
  BY DEF TablesAnswer
<1> QED
  BY <1>1, <1>2, <1>3, PTL DEF Spec

\* An empty list of tables is only given when there was a time without tables.
THEOREM EmptyListsAreTrue == Spec => []EmptyMeansNone
<1>1. Init => TablesAnswer
  BY PartsInit, TablesInitKeeps
<1>2. TablesAnswer /\ [Next]_soVars => TablesAnswer'
  BY TablesPart, TablesStepKeeps
<1>3. TablesAnswer => EmptyMeansNone
  BY DEF TablesAnswer
<1> QED
  BY <1>1, <1>2, <1>3, PTL DEF Spec
-----------------------------------------------------------------------------
(* The queries of the database.                                            *)

AuditPoints == {"milestones", "actions", "changes"}

\* Trails only grow, and what was read of one is still there when its changes are read.
QueriesInv ==
    /\ trail \in states /\ trail \subseteq Actions
    /\ query \in Queries
    /\ querypc \in AuditPoints => query.tool = "get_ticket_audit_trail"
    /\ querypc = "list" => query.tool = "get_ticket_metadata_lists"
    /\ querypc = "rows" =>
          query.tool \in {"list_system_events_and_triggers", "get_associate_details"}
    /\ querypc = "changes" =>
          /\ query.withChanges
          /\ \E t \in states : t \subseteq trail /\ got.actions = Oldest(t, query.limit)
    /\ querypc # "answered" => reply.code # "OK"

QueriesAnswer == QueriesInv /\ AnswersWhole

\* What may be committed is an action.
LEMMA NewKnown == NewActions \subseteq Actions
  BY DEF Actions

\* An action gets its own changes, and all of them, out of any trail it is part of.
LEMMA OwnChanges ==
  ASSUME NEW t, t \subseteq Actions, NEW a \in t
  PROVE  {ch \in ChangesOf(t) : ch.action = a.id} = a.changes
<1>1. ASSUME NEW ch \in ChangesOf(t), ch.action = a.id PROVE ch \in a.changes
  <2>1. PICK b \in t : ch \in b.changes
    BY <1>1 DEF ChangesOf
  <2>2. b.id = a.id
    BY <1>1, <2>1, ActionAssumption
  <2> QED
    BY <2>1, <2>2, ActionAssumption
<1>2. ASSUME NEW ch \in a.changes PROVE ch \in ChangesOf(t) /\ ch.action = a.id
  BY <1>2, ActionAssumption DEF ChangesOf
<1> QED
  BY <1>1, <1>2

\* Grouping the changes of a trail under some of its actions gives each of them its own, and drops
\* those of the others.
LEMMA GroupedChanges ==
  ASSUME NEW t, t \subseteq Actions, NEW shown, shown \subseteq t
  PROVE  /\ Trail(shown, ChangesOf(t)).actions = {[id |-> a.id, changes |-> a.changes] : a \in shown}
         /\ Trail(shown, ChangesOf(t)).total = Cardinality(ChangesOf(shown))
<1>1. \A a \in shown : {ch \in ChangesOf(t) : ch.action = a.id} = a.changes
  BY OwnChanges
<1>2. {ch \in ChangesOf(t) : \E a \in shown : ch.action = a.id} = ChangesOf(shown)
  BY <1>1 DEF ChangesOf
<1>3. {[id |-> a.id, changes |-> {ch \in ChangesOf(t) : ch.action = a.id}] : a \in shown}
         = {[id |-> a.id, changes |-> a.changes] : a \in shown}
  BY <1>1
<1> QED
  BY <1>2, <1>3 DEF Trail

\* Without changes, none are shown and none counted.
LEMMA NoChanges ==
  ASSUME NEW shown
  PROVE  /\ Trail(shown, {}).actions = {[id |-> a.id, changes |-> {}] : a \in shown}
         /\ Trail(shown, {}).total = 0
<1>1. {ch \in {} : \E a \in shown : ch.action = a.id} = {}
  OBVIOUS
<1>2. Trail(shown, {}).total = 0
  BY <1>1, FS_EmptySet DEF Trail
<1>3. \A a \in shown : {ch \in {} : ch.action = a.id} = {}
  OBVIOUS
<1>4. Trail(shown, {}).actions = {[id |-> a.id, changes |-> {}] : a \in shown}
  BY <1>3 DEF Trail
<1> QED
  BY <1>2, <1>4

\* A page of tasks is never longer than the ceiling, whatever was asked for.
LEMMA Clamped == \A n \in Int : Clamp(n) \in 1..MaxTasks
  BY QueryAssumption DEF Clamp

\* Every step of a query, and every commit beside it, keeps the invariant.
LEMMA QueriesStepKeeps == QueriesAnswer /\ [QueriesNext]_queryVars => QueriesAnswer'
<1> SUFFICES ASSUME QueriesAnswer, [QueriesNext]_queryVars PROVE QueriesAnswer'
  OBVIOUS
<1> USE DEF QueriesAnswer, QueriesInv, AuditPoints
<1>1. ASSUME reply'.code # "OK" PROVE AnswersWhole'
  BY <1>1 DEF AnswersWhole
<1>2. CASE ConnectQuery
  <2>1. reply'.code # "OK" /\ UNCHANGED <<queryWorld, query>>
    BY <1>2 DEF ConnectQuery, Replied
  <2>2. QueriesInv'
    BY <1>2, <2>1 DEF ConnectQuery, Replied, queryWorld, Queries, Query
  <2> QED
    BY <1>1, <2>1, <2>2
<1>3. CASE QueryFails
  <2>1. reply'.code # "OK" /\ UNCHANGED <<queryWorld, query>> /\ querypc' = "answered"
    BY <1>3 DEF QueryFails, Replied, FailureCodes
  <2> QED
    BY <1>1, <2>1 DEF queryWorld
<1>4. CASE ReadMilestones
  BY <1>1, <1>4 DEF ReadMilestones, queryWorld
<1>5. CASE ReadActions
  <2> DEFINE shown == Oldest(trail, query.limit)
  <2>1. CASE query.withChanges /\ shown # {}
    <3>1. querypc' = "changes" /\ got'.actions = shown /\ UNCHANGED <<queryWorld, query, reply>>
      BY <1>5, <2>1 DEF ReadActions
    <3> QED
      BY <1>1, <1>5, <2>1, <3>1 DEF ReadActions, queryWorld, Oldest
  <2>2. CASE ~(query.withChanges /\ shown # {})
    <3>1. querypc' = "answered" /\ reply' = Trail(shown, {}) /\ UNCHANGED <<queryWorld, query>>
      BY <1>5, <2>2 DEF ReadActions, Replied
    <3>2. reply'.actions = {[id |-> a.id, changes |-> IF query.withChanges THEN a.changes ELSE {}]
                               : a \in shown}
      BY <2>2, <3>1, NoChanges
    <3>3. reply'.total = IF query.withChanges THEN Cardinality(ChangesOf(shown)) ELSE 0
      <4>1. shown = {} => ChangesOf(shown) = {}
        BY DEF ChangesOf
      <4> QED
        BY <2>2, <3>1, <4>1, NoChanges, FS_EmptySet
    <3>4. AnswersWhole'
      BY <1>5, <3>1, <3>2, <3>3 DEF AnswersWhole, ReadActions, queryWorld
    <3> QED
      BY <3>1, <3>4 DEF queryWorld
  <2> QED
    BY <2>1, <2>2
<1>6. CASE ReadChanges
  <2>1. PICK t \in states : t \subseteq trail /\ got.actions = Oldest(t, query.limit)
    BY <1>6 DEF ReadChanges
  <2>2. /\ querypc' = "answered" /\ UNCHANGED <<queryWorld, query>>
        /\ reply' = Trail(Oldest(t, query.limit), ChangesOf(trail))
    BY <1>6, <2>1 DEF ReadChanges, Replied, CurrentChanges
  <2>3. Oldest(t, query.limit) \subseteq trail
    BY <2>1 DEF Oldest
  <2>4. AnswersWhole'
    BY <1>6, <2>1, <2>2, <2>3, GroupedChanges DEF AnswersWhole, ReadChanges, queryWorld
  <2> QED
    BY <2>2, <2>4 DEF queryWorld
<1>7. CASE ReadList
  <2>1. UNCHANGED <<queryWorld, query>> /\ query.tool = "get_ticket_metadata_lists"
    BY <1>7 DEF ReadList
  <2>2. \/ UNCHANGED <<querypc, reply>>
        \/ querypc' = "answered" /\ reply' = [code |-> "OK", kinds |-> query.kinds]
    BY <1>7 DEF ReadList, Replied
  <2>3. AnswersWhole'
    BY <1>1, <1>7, <2>1, <2>2 DEF AnswersWhole, ReadList
  <2> QED
    BY <1>7, <2>1, <2>2, <2>3 DEF queryWorld, ReadList
<1>8. CASE ReadRows
  <2>1. UNCHANGED <<queryWorld, query>> /\ querypc' = "answered"
        /\ query.tool \in {"list_system_events_and_triggers", "get_associate_details"}
    BY <1>8 DEF ReadRows, Replied
  <2>2. query.tool = "list_system_events_and_triggers" => query.limit \in Int
    BY QueryAssumption DEF Queries, Query
  <2>3. reply'.returned <= MaxTasks
    BY <1>8, <2>1, <2>2, Clamped, QueryAssumption DEF ReadRows, Replied
  <2>4. AnswersWhole'
    BY <2>1, <2>3 DEF AnswersWhole
  <2> QED
    BY <2>1, <2>4 DEF queryWorld
<1>9. CASE Commit
  <2>1. PICK a \in NewActions : trail' = trail \cup {a}
    BY <1>9 DEF Commit
  <2>2. trail \subseteq trail' /\ trail' \subseteq Actions
    <3>1. a \in Actions
      BY NewKnown
    <3> QED
      BY <2>1, <3>1
  <2>3. states' = states \cup {trail'} /\ UNCHANGED <<query, querypc, got, reply>>
    BY <1>9 DEF Commit
  <2>4. reply.code # "OK"
    BY <1>9 DEF Commit
  <2>5. QueriesInv'
    BY <2>2, <2>3
  <2> QED
    BY <1>1, <2>3, <2>4, <2>5
<1>10. CASE UNCHANGED queryVars
  BY <1>10 DEF queryVars, queryWorld, AnswersWhole
<1> QED
  BY <1>2, <1>3, <1>4, <1>5, <1>6, <1>7, <1>8, <1>9, <1>10 DEF QueriesNext, QueryStep

\* Three statements under READ COMMITTED, and agents who commit between them: an audit trail is
\* that of one state of the ticket, each action with all of its changes and no others.
THEOREM AnswersAreWhole == Spec => []AnswersWhole
<1>1. Init => QueriesAnswer
  BY PartsInit DEF QueriesInit, QueriesAnswer, QueriesInv, AuditPoints, AnswersWhole, Actions
<1>2. QueriesAnswer /\ [Next]_soVars => QueriesAnswer'
  BY QueriesPart, QueriesStepKeeps
<1>3. QueriesAnswer => AnswersWhole
  BY DEF QueriesAnswer
<1> QED
  BY <1>1, <1>2, <1>3, PTL DEF Spec
=============================================================================
