------------------------------ MODULE RestClient ------------------------------
(***************************************************************************)
(* The REST tools of the SuperOffice server: SuperOfficeRestClient on top  *)
(* of the HTTP client, and the service that minimises what it returns.     *)
(* Every request is a GET declared safe to repeat; get_ticket makes two.   *)
(***************************************************************************)
EXTENDS HttpClient

VARIABLES op, part,  \* the operation and which of its requests is made
          kept,      \* the body of get_ticket's first answer
          restpc, answer

restVars == <<op, part, kept, restpc, answer>>

Entities == {"get_ticket", "get_company", "get_person"}
Archives == {"search_tickets", "find_companies", "find_persons"}
Lists == {"get_ticket_messages", "list_attachments"}
Parts(o) == IF o = "get_ticket" THEN 2 ELSE 1

RestInit ==
    /\ op \in Entities \cup Archives \cup Lists
    /\ part = 1 /\ kept = "none" /\ restpc = "send" /\ answer = "none"

Request ==
    /\ restpc = "send"
    /\ Send(TRUE)
    /\ restpc' = "wait"
    /\ UNCHANGED <<op, part, kept, answer>>

\* _execute_request: what is raised for what send came to.
Failure ==
    [r \in {"TimeoutError", "IntegrationError", "unauthorized", "forbidden", "missing", "limited",
            "busy", "rejected"} |->
        CASE r = "TimeoutError" -> "SUPEROFFICE_TIMEOUT"
          [] r = "IntegrationError" -> "SUPEROFFICE_CONNECTION_FAILURE"
          [] r = "unauthorized" -> "SUPEROFFICE_AUTH_FAILURE"
          [] r = "forbidden" -> "SUPEROFFICE_ACCESS_DENIED"
          [] r = "missing" -> "RESOURCE_NOT_FOUND"
          [] r = "limited" -> "SUPEROFFICE_RATE_LIMITED"
          [] r = "busy" -> "SUPEROFFICE_SERVER_ERROR"
          [] OTHER -> "SUPEROFFICE_INTEGRATION_ERROR"]

\* A body that is no JSON, or the first of an entity when it is not an object.  Whether an odd
\* one is an object is its own affair.
Malformed(r) == r = "garbled"
MayBeMalformed(r) == r = "odd" /\ op \in Entities /\ part = 1

\* What a body of another shape is mapped to: records with defaults for what is missing, or, when
\* that is an identifier, an error of the model's validation, which nothing gives a code.
Misread == {"DEFAULTS", "UNMAPPED"}

\* The records that are made after the last request.  Pages and lists without rows are empty, and
\* so is the description of a ticket without an opening message.
Mapped ==
    IF response = "ok" /\ kept # "odd" THEN {"DATA"}
    ELSE IF op \in Archives \cup Lists THEN Misread \cup {"EMPTY"}
    ELSE IF kept = "ok" THEN {"EMPTY"} ELSE Misread

Deliver(a) == answer' = a /\ restpc' = "answered" /\ UNCHANGED <<part, kept>>

\* Bug: every response but a server error is taken for an answer.
TakesStatuses == response \notin Exceptions \cup {"busy"}

HasBody == response \in {"ok", "odd", "garbled"}

Receive ==
    /\ restpc = "wait" /\ httppc = "idle"
    /\ IF response = "cancelled" THEN Deliver("cancelled")
       ELSE IF ~HasBody THEN Deliver(Failure[response])
       ELSE IF Malformed(response) THEN Deliver("SUPEROFFICE_MALFORMED_RESPONSE")
       ELSE \/ MayBeMalformed(response) /\ Deliver("SUPEROFFICE_MALFORMED_RESPONSE")
            \/ /\ part < Parts(op)
               /\ part' = part + 1 /\ kept' = response /\ restpc' = "send" /\ UNCHANGED answer
            \/ part = Parts(op) /\ \E a \in Mapped : Deliver(a)
    /\ UNCHANGED <<op, httpVars>>

RestStep == Request \/ Receive
-----------------------------------------------------------------------------
\* The conditions of the server that an answer speaks of.
Causes ==
    [a \in {Failure[r] : r \in DOMAIN Failure}
           \cup {"SUPEROFFICE_MALFORMED_RESPONSE", "DATA", "EMPTY", "DEFAULTS", "UNMAPPED"} |->
        CASE a = "SUPEROFFICE_TIMEOUT" -> {"busy", "slow", "down"}
          [] a = "SUPEROFFICE_CONNECTION_FAILURE" -> {"down", "broken"}
          [] a = "SUPEROFFICE_AUTH_FAILURE" -> {"unauthorized"}
          [] a = "SUPEROFFICE_ACCESS_DENIED" -> {"forbidden"}
          [] a = "RESOURCE_NOT_FOUND" -> {"missing"}
          [] a = "SUPEROFFICE_RATE_LIMITED" -> {"limited"}
          [] a = "SUPEROFFICE_SERVER_ERROR" -> {"busy"}
          [] a = "SUPEROFFICE_INTEGRATION_ERROR" -> {"rejected"}
          [] a = "SUPEROFFICE_MALFORMED_RESPONSE" -> {"garbled", "odd"}
          [] a = "DATA" -> {"ok"}
          [] OTHER -> {"odd"}]

\* Through two requests, their retries and a server that changes under them, an answer never speaks
\* of a condition the server was not in: RESOURCE_NOT_FOUND means that it was missing, data that it was
\* well, made-up defaults or an error without a code that it answered in another shape.  (Why the body is
\* read and mapped only after _execute_request has let it through.)
FaultsGrounded ==
    restpc = "answered" => answer = "cancelled" \/ Causes[answer] \cap seen # {}
=============================================================================
