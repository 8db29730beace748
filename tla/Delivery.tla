------------------------------- MODULE Delivery -------------------------------
(***************************************************************************)
(* What a caller of an HTTP client may rely on: a request that is not safe *)
(* to repeat goes out once; any other goes out again only after a failure  *)
(* that may pass, at most MaxAttempts times, and never after its budget is *)
(* spent; what the caller is told is what the last attempt came to; and a  *)
(* failure that may pass is only reported when there is no attempt left or *)
(* no time for one.                                                        *)
(***************************************************************************)
EXTENDS Integers

CONSTANTS Outcomes,     \* what an attempt may come to
          Transient,    \* the outcomes that may be another time
          MaxAttempts,  \* attempts of a request that is safe to repeat
          Budget,       \* total_timeout_seconds
          LongestWait,  \* the longest pause between two attempts
          Drift         \* bound: how much longer than asked for a pause may last

VARIABLES safe,   \* the request may be repeated
          now,    \* time since the request was made
          tries,  \* attempts that went out
          last,   \* what the last one came to, "open" while it is under way
          reply   \* what the caller was told, "none" while it waits

deliveryVars == <<safe, now, tries, last, reply>>

Allowed == IF safe THEN MaxAttempts ELSE 1

Init ==
    /\ safe = FALSE /\ now = 0 /\ tries = 0 /\ last = "none" /\ reply = "idle"

Ask ==
    /\ reply # "none"
    /\ safe' \in BOOLEAN
    /\ now' = 0 /\ tries' = 0 /\ last' = "none" /\ reply' = "none"

GoOut ==
    /\ reply = "none"
    /\ tries < Allowed /\ now < Budget
    /\ tries = 0 \/ last \in Transient
    /\ tries' = tries + 1 /\ last' = "open"
    /\ UNCHANGED <<safe, now, reply>>

ComeBack ==
    /\ reply = "none" /\ last = "open"
    /\ last' \in Outcomes
    /\ now' >= now
    /\ UNCHANGED <<safe, tries, reply>>

Wait ==
    /\ reply = "none" /\ tries < Allowed /\ last \in Transient
    /\ now' \in now..(Budget + Drift)
    /\ UNCHANGED <<safe, tries, last, reply>>

Spent == tries = Allowed \/ now + LongestWait >= Budget

\* The response of the server, or an exception for an attempt that had none.
Tell ==
    /\ reply = "none"
    /\ \/ last \in Outcomes /\ reply' = last /\ (last \in Transient => tries = Allowed)
       \/ last \in Transient /\ Spent /\ reply' \in {"TimeoutError", "IntegrationError"}
       \/ last \in Outcomes \ Transient /\ reply' = "IntegrationError"
    /\ UNCHANGED <<safe, now, tries, last>>

\* The caller stops waiting; what went out is not called back, and what became of it not known.
Forsake ==
    /\ reply = "none" /\ reply' = "cancelled"
    /\ last' = "none"
    /\ UNCHANGED <<safe, now, tries>>

Next == Ask \/ GoOut \/ ComeBack \/ Wait \/ Tell \/ Forsake
Spec == Init /\ [][Next]_deliveryVars
=============================================================================
