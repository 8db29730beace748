------------------------------ MODULE HttpClient ------------------------------
(***************************************************************************)
(* ResilientHttpClient.send: attempts, backoff with jitter and the total   *)
(* deadline.  The server it talks to is in one of several conditions and   *)
(* may pass from one to another at any time; what an attempt comes to is   *)
(* the condition at the moment it is answered.                             *)
(***************************************************************************)
EXTENDS Integers

CONSTANTS ServerConditions,             \* the conditions the server may be in
          MaxAttempts, InitialBackoff, MaxBackoff,  \* RetryPolicy
          Budget,                       \* TimeoutPolicy.total_timeout_seconds
          Durations,                    \* bound: how long an attempt may take
          Drift,                        \* bound: how much too long a sleep may last
          MaxServerChanges              \* bound: changes of the server's condition

VARIABLES server, serverChanges,
          seen,      \* history: the conditions there were during the call
          safe,      \* is_retry_safe of the request
          elapsed,   \* time since send was called
          attempt,   \* the attempts that went out
          httppc,
          raw,       \* what the last attempt came to
          delay,     \* the backoff being slept
          response   \* what send returned or raised

serverVars == <<server, serverChanges, seen>>
httpVars   == <<safe, elapsed, attempt, httppc, raw, delay, response>>

\* Answers with a body that is right, is JSON of another shape, is no JSON; statuses; and what httpx
\* raises: TimeoutException, NetworkError, anything else.
AllConditions == {"ok", "odd", "garbled", "missing", "unauthorized", "forbidden", "limited",
                  "rejected", "busy", "slow", "down", "broken"}
Retryable == {"busy", "slow", "down"}   \* 500, 502, 503, 504, TimeoutException, NetworkError
Exceptions == {"TimeoutError", "IntegrationError"}

ASSUME HttpAssumption ==
    /\ ServerConditions \subseteq AllConditions
    /\ MaxAttempts \in Nat \ {0}
    /\ InitialBackoff \in Nat /\ MaxBackoff \in Nat
    /\ Budget \in Nat \ {0}
    /\ Durations \subseteq Nat /\ Drift \in Nat /\ MaxServerChanges \in Nat

\* _calculate_backoff: the exponential delay, of which jitter leaves at least half.
Full == IF InitialBackoff * 2^(attempt - 1) < MaxBackoff THEN InitialBackoff * 2^(attempt - 1)
        ELSE MaxBackoff
Backoffs == {d \in 0..MaxBackoff : d <= Full /\ 2 * d >= Full}

AttemptsAllowed == IF safe THEN MaxAttempts ELSE 1

HttpInit ==
    /\ server \in ServerConditions /\ serverChanges = 0 /\ seen = {server}
    /\ safe = FALSE /\ elapsed = 0 /\ attempt = 0 /\ httppc = "idle"
    /\ raw = "none" /\ delay = 0 /\ response = "idle"

Send(retrySafe) ==
    /\ httppc = "idle"
    /\ safe' = retrySafe /\ elapsed' = 0 /\ attempt' = 0 /\ httppc' = "check"
    /\ raw' = "none" /\ delay' = 0 /\ response' = "none"

Finish(r) == httppc' = "idle" /\ response' = r /\ UNCHANGED delay

\* The top of the loop, and the request that goes out.
StartAttempt ==
    /\ httppc = "check"
    /\ IF elapsed >= Budget THEN Finish("TimeoutError") /\ UNCHANGED attempt
       ELSE httppc' = "flight" /\ attempt' = attempt + 1 /\ UNCHANGED <<delay, response>>
    /\ UNCHANGED <<safe, elapsed, raw>>

EndAttempt ==
    /\ httppc = "flight"
    /\ \E d \in Durations : elapsed' = elapsed + d
    /\ raw' = server
    /\ httppc' = "judge"
    /\ UNCHANGED <<safe, attempt, delay, response>>

\* Bug: the attempts of a request that is not safe to repeat are not limited to one.
RetriesAll == raw \in Retryable /\ attempt < MaxAttempts

RetryPossible == raw \in Retryable /\ attempt < AttemptsAllowed

\* What is raised for an exception of httpx, or when a retryable status leaves no time.
Raised == IF raw \in {"busy", "slow"} THEN "TimeoutError" ELSE "IntegrationError"

Judge ==
    /\ httppc = "judge"
    /\ IF RetryPossible
       THEN \E d \in Backoffs :
               IF elapsed + d < Budget
               THEN httppc' = "sleep" /\ delay' = d /\ UNCHANGED response
               ELSE Finish(Raised)
       ELSE Finish(IF raw \in {"slow", "down", "broken"} THEN Raised ELSE raw)
    /\ UNCHANGED <<safe, elapsed, attempt, raw>>

\* asyncio.sleep may wake up late.
WakeUp ==
    /\ httppc = "sleep"
    /\ \E late \in 0..Drift : elapsed' = elapsed + delay + late
    /\ httppc' = "check"
    /\ UNCHANGED <<safe, attempt, raw, delay, response>>

\* The task that waits for send is cancelled: no handler catches CancelledError.
CancelSend ==
    /\ httppc \in {"flight", "sleep"}
    /\ Finish("cancelled")
    /\ raw' = "none"
    /\ UNCHANGED <<safe, elapsed, attempt>>

ServerChanges ==
    /\ httppc # "idle" /\ serverChanges < MaxServerChanges
    /\ serverChanges' = serverChanges + 1
    /\ server' \in ServerConditions \ {server}
    /\ seen' = seen \cup {server'}
    /\ UNCHANGED httpVars

SendStep == StartAttempt \/ EndAttempt \/ Judge \/ WakeUp
HttpNext ==
    \/ (\E s \in BOOLEAN : Send(s)) /\ UNCHANGED serverVars
    \/ (SendStep \/ CancelSend) /\ UNCHANGED serverVars
    \/ ServerChanges
HttpSpec == HttpInit /\ [][HttpNext]_<<serverVars, httpVars>>
-----------------------------------------------------------------------------
HttpTypeOK ==
    /\ server \in ServerConditions /\ serverChanges \in 0..MaxServerChanges
    /\ safe \in BOOLEAN /\ elapsed \in Nat
    /\ attempt \in 0..AttemptsAllowed
    /\ httppc \in {"idle", "check", "flight", "judge", "sleep"}
    /\ raw \in ServerConditions \cup {"none"}
    /\ delay \in 0..MaxBackoff
    /\ response \in ServerConditions \cup Exceptions \cup {"idle", "none", "cancelled"}

DL == INSTANCE Delivery
      WITH Outcomes <- ServerConditions,
           Transient <- Retryable,
           LongestWait <- MaxBackoff,
           now <- elapsed,
           tries <- attempt,
           last <- IF httppc = "flight" THEN "open" ELSE raw,
           reply <- response

\* Whatever the server goes through while a request is under way, the client keeps what Delivery
\* promises: one attempt for what is not safe to repeat, no attempt after the budget, no failure
\* reported while another attempt was possible, and no answer but the last attempt's.
ImplementsDelivery == DL!Spec
=============================================================================
