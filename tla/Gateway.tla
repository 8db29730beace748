------------------------------- MODULE Gateway -------------------------------
(***************************************************************************)
(* GatewayApplicationService.handle_tool_call with its HttpToolDispatcher, *)
(* its rate limiter and its audit sink, for requests handled concurrently  *)
(* by one event loop.  From the arrival of a request to its first await    *)
(* (the audit sink, or the downstream session) nothing else runs.          *)
(*                                                                         *)
(* The backend and the network between are external: a posted tool call    *)
(* may run at any later time, even after the gateway stopped waiting.      *)
(***************************************************************************)
EXTENDS RateLimiter

CONSTANTS Requests,
          Calls,         \* inputs: [header, tool, address, fits]; fits: the correlation id
                         \* has the 1 to 128 characters that requests and responses allow
          NoHeader, NoAddress, NoCall, NoReply, NoUser, NoHeaders,
          Shared,        \* the client a caller of the dispatcher may inject
          InjectedClient,          \* whether one is injected; create_gateway_app injects none
          Principals,    \* per verifiable token: [user, role, attributes]
          Routes,        \* per routed tool, its target server
          Rules,         \* tool_permissions.yaml: per tool, [minimum, requires]
          AttachmentAccessEnabled  \* YamlPolicyEngine's switch

VARIABLES pc, call,
          reply,    \* the response under way: a code, "SUCCESS" among them
          clients,  \* the internal headers each HTTP client sends
          wire,     \* history: the internal headers of every message posted downstream
          posted,   \* whether the tool call was posted
          ran,      \* history: whether the backend ran it
          trail     \* per request, the audit events the sink received

requestVars == <<pc, call, reply, clients, wire, posted, ran, trail>>
gatewayVars == <<limiterVars, requestVars>>

Roles == 1..3
Privileges == {"production_write", "attachment_access"}

RefusalCodes ==
    {"AUTHENTICATION_REQUIRED", "INVALID_TOKEN", "ROUTE_NOT_FOUND", "UNKNOWN_TOOL",
     "INSUFFICIENT_ROLE", "MISSING_PRODUCTION_WRITE_PRIVILEGE",
     "ATTACHMENT_ACCESS_DISABLED", "MISSING_ATTACHMENT_ACCESS_PRIVILEGE",
     "RATE_LIMIT_EXCEEDED"}
DispatchCodes ==
    {"SUCCESS", "DOWNSTREAM_TOOL_ERROR", "GATEWAY_DOWNSTREAM_TIMEOUT",
     "GATEWAY_DOWNSTREAM_UNAVAILABLE"}
Granted == "GRANTED"

WellFormedRule(rule) == rule.minimum \in Roles /\ rule.requires \subseteq Privileges

User(c) == Principals[c.header].user

\* format_rate_limit_key: the address is left out when there is none.
Key(c) == IF c.address = NoAddress THEN <<User(c), c.tool>>
          ELSE <<User(c), c.tool, c.address>>

ASSUME GatewayAssumption ==
    /\ \A t \in DOMAIN Rules : WellFormedRule(Rules[t])
    /\ NoHeader \notin DOMAIN Principals
    /\ \A t \in DOMAIN Principals :
          Principals[t].user # NoUser /\ Principals[t].role \in Roles
    /\ \A c \in Calls : c.header \in DOMAIN Principals => Key(c) \in Keys
    /\ NoReply \notin RefusalCodes \cup DispatchCodes
    /\ Shared \notin Requests /\ NoCall \notin Calls
    /\ InjectedClient \in BOOLEAN /\ AttachmentAccessEnabled \in BOOLEAN
-----------------------------------------------------------------------------
\* Bug: the switch alone decides on attachments, and production_write is not looked at.
SwitchOnly(rule, attributes) ==
    IF "attachment_access" \in rule.requires /\ ~AttachmentAccessEnabled
    THEN "ATTACHMENT_ACCESS_DISABLED" ELSE Granted

\* _check_privileges: the first privilege that is missing.
PrivilegeDenial(rule, attributes) ==
    IF "production_write" \in rule.requires \ attributes
    THEN "MISSING_PRODUCTION_WRITE_PRIVILEGE"
    ELSE IF "attachment_access" \in rule.requires /\ ~AttachmentAccessEnabled
    THEN "ATTACHMENT_ACCESS_DISABLED"
    ELSE IF "attachment_access" \in rule.requires \ attributes
    THEN "MISSING_ATTACHMENT_ACCESS_PRIVILEGE"
    ELSE Granted

\* evaluate_policy: deny by default, then the role, then the privileges.
PolicyDenial(principal, tool) ==
    IF tool \notin DOMAIN Rules THEN "UNKNOWN_TOOL"
    ELSE IF principal.role < Rules[tool].minimum THEN "INSUFFICIENT_ROLE"
    ELSE PrivilegeDenial(Rules[tool], principal.attributes)

\* Authentication, route and policy, in this order; the limiter comes after them.
Screening(c) ==
    IF c.header = NoHeader THEN "AUTHENTICATION_REQUIRED"
    ELSE IF c.header \notin DOMAIN Principals THEN "INVALID_TOKEN"
    ELSE IF c.tool \notin DOMAIN Routes THEN "ROUTE_NOT_FOUND"
    ELSE PolicyDenial(Principals[c.header], c.tool)

\* _build_trusted_headers: who calls, in which request; nothing for the investigation server.
TrustedHeaders(r, c) ==
    IF Routes[c.tool] = "investigation" THEN NoHeaders
    ELSE [correlation |-> r, principal |-> Principals[c.header]]

\* Bug: one client serves every dispatch.
OneClient(r) == Shared

\* The client of a dispatch: its own, unless one was injected.
Client(r) == IF InjectedClient THEN Shared ELSE r

\* audit_ctx learns the user only after authentication.
AuditUser(c) == IF c.header \in DOMAIN Principals THEN User(c) ELSE NoUser

\* AuditMetadata takes the correlation id of the context, which the gateway never binds:
\* get_correlation_id makes one up.
ContextCorrelation(r) == <<"uuid", r>>

\* Bug: the audit completion records a success without looking at the response.
AlwaysSuccess(r) ==
    [status |-> IF reply[r] \in DispatchCodes THEN "SUCCESS" ELSE "FAILED",
     reason |-> reply[r], user |-> AuditUser(call[r]), correlation |-> ContextCorrelation(r)]

\* record_success or record_failure.
AuditEvent(r) ==
    [status |-> IF reply[r] = "SUCCESS" THEN "SUCCESS" ELSE "FAILED",
     reason |-> reply[r], user |-> AuditUser(call[r]), correlation |-> ContextCorrelation(r)]
-----------------------------------------------------------------------------
GatewayInit ==
    /\ LimiterInit
    /\ pc = [r \in Requests |-> "new"]
    /\ call = [r \in Requests |-> NoCall]
    /\ reply = [r \in Requests |-> NoReply]
    /\ clients = [c \in Requests \cup {Shared} |-> NoHeaders]
    /\ wire = [r \in Requests |-> {}]
    /\ posted = [r \in Requests |-> FALSE]
    /\ ran = [r \in Requests |-> FALSE]
    /\ trail = [r \in Requests |-> <<>>]

\* The response is settled; what remains is its audit event.
Settle(r, code) ==
    /\ pc' = [pc EXCEPT ![r] = "auditing"]
    /\ reply' = [reply EXCEPT ![r] = code]

Refuse(r, c) ==
    /\ Screening(c) # Granted
    /\ Settle(r, Screening(c))
    /\ UNCHANGED <<limiterVars, clients>>

\* The dispatch up to its first await: the headers are set.
Prepare(r, c) ==
    /\ c.fits
    /\ pc' = [pc EXCEPT ![r] = "opening"]
    /\ clients' = [clients EXCEPT ![Client(r)] = TrustedHeaders(r, c)]
    /\ UNCHANGED reply

\* GatewayDispatchRequest does not take the correlation id: the validation error leaves
\* handle_tool_call, without an audit event and after the limiter has counted the call.
Reject(r, c) ==
    /\ ~c.fits
    /\ pc' = [pc EXCEPT ![r] = "raised"]
    /\ UNCHANGED <<clients, reply>>

Throttled(r, c) ==
    /\ Screening(c) = Granted
    /\ CheckLimit(Key(c))
    /\ \/ verdict'[2] /\ (Prepare(r, c) \/ Reject(r, c))
       \/ ~verdict'[2] /\ Settle(r, "RATE_LIMIT_EXCEEDED") /\ UNCHANGED clients

\* Bug: the limiter is asked as soon as the caller is known.
LimiterFirst(r) ==
    /\ pc[r] = "new"
    /\ \E c \in Calls :
        /\ call' = [call EXCEPT ![r] = c]
        /\ \/ /\ c.header \notin DOMAIN Principals
              /\ Refuse(r, c)
           \/ /\ c.header \in DOMAIN Principals
              /\ CheckLimit(Key(c))
              /\ IF verdict'[2] /\ Screening(c) = Granted
                 THEN Prepare(r, c) \/ Reject(r, c)
                 ELSE /\ Settle(r, IF verdict'[2] THEN Screening(c) ELSE "RATE_LIMIT_EXCEEDED")
                      /\ UNCHANGED clients
    /\ UNCHANGED <<wire, posted, ran, trail>>

Receive(r) ==
    /\ pc[r] = "new"
    /\ \E c \in Calls :
        /\ call' = [call EXCEPT ![r] = c]
        /\ Refuse(r, c) \/ Throttled(r, c)
    /\ UNCHANGED <<wire, posted, ran, trail>>

\* A message leaves with the headers its client has when it is posted.
Send(r, next) ==
    /\ pc' = [pc EXCEPT ![r] = next]
    /\ wire' = [wire EXCEPT ![r] = @ \cup {clients[Client(r)]}]
    /\ UNCHANGED <<limiterVars, call, reply, clients, ran, trail>>

\* session.initialize
Open(r) ==
    /\ pc[r] = "opening"
    /\ Send(r, "opened")
    /\ UNCHANGED posted

\* session.call_tool, once the session is initialized
Post(r) ==
    /\ pc[r] = "opened"
    /\ Send(r, "calling")
    /\ posted' = [posted EXCEPT ![r] = TRUE]

\* External: the backend runs the tool.
Run(r) ==
    /\ posted[r] /\ ~ran[r]
    /\ ran' = [ran EXCEPT ![r] = TRUE]
    /\ UNCHANGED <<limiterVars, pc, call, reply, clients, wire, posted, trail>>

\* The answer arrives: the tool's result, or a tool error, for which it need not have run.
Answer(r) ==
    /\ pc[r] = "calling"
    /\ \/ ran[r] /\ Settle(r, "SUCCESS")
       \/ Settle(r, "DOWNSTREAM_TOOL_ERROR")
    /\ UNCHANGED <<limiterVars, call, clients, wire, posted, ran, trail>>

\* A timeout, or any other error: the session, the transport, a result that is not JSON.
Fail(r) ==
    /\ pc[r] \in {"opening", "opened", "calling"}
    /\ \E code \in {"GATEWAY_DOWNSTREAM_TIMEOUT", "GATEWAY_DOWNSTREAM_UNAVAILABLE"} :
        Settle(r, code)
    /\ UNCHANGED <<limiterVars, call, clients, wire, posted, ran, trail>>

Record(r) == trail' = [trail EXCEPT ![r] = Append(@, AuditEvent(r))]

\* A refusal's response is built after its audit event, and it may not take the id either.
Audit(r) ==
    /\ pc[r] = "auditing"
    /\ Record(r)
    /\ pc' = [pc EXCEPT ![r] = IF call[r].fits THEN "answered" ELSE "raised"]
    /\ UNCHANGED <<limiterVars, call, reply, clients, wire, posted, ran>>

\* The sink raises and handle_tool_call with it; the event may have reached its stream.
SinkFails(r) ==
    /\ pc[r] = "auditing"
    /\ Record(r) \/ UNCHANGED trail
    /\ pc' = [pc EXCEPT ![r] = "raised"]
    /\ UNCHANGED <<limiterVars, call, reply, clients, wire, posted, ran>>

\* The caller goes away: the task is cancelled at an await, and nothing more is recorded.
Cancel(r) ==
    /\ pc[r] \in {"opening", "opened", "calling", "auditing"}
    /\ pc' = [pc EXCEPT ![r] = "cancelled"]
    /\ UNCHANGED <<limiterVars, call, reply, clients, wire, posted, ran, trail>>

Elapse == Tick /\ UNCHANGED requestVars

Handle(r) ==
    \/ Receive(r) \/ Open(r) \/ Post(r) \/ Answer(r) \/ Fail(r)
    \/ Audit(r) \/ SinkFails(r) \/ Cancel(r)

GatewayNext ==
    \/ \E r \in Requests : Handle(r) \/ Run(r)
    \/ Elapse

GatewaySpec == GatewayInit /\ [][GatewayNext]_gatewayVars
-----------------------------------------------------------------------------
Headers ==
    {NoHeaders} \cup
    {[correlation |-> r, principal |-> Principals[t]] : r \in Requests, t \in DOMAIN Principals}

AuditEvents ==
    [status : {"SUCCESS", "FAILED"}, reason : RefusalCodes \cup DispatchCodes,
     user : {Principals[t].user : t \in DOMAIN Principals} \cup {NoUser},
     correlation : {ContextCorrelation(r) : r \in Requests}]

GatewayTypeOK ==
    /\ LimiterTypeOK
    /\ pc \in [Requests -> {"new", "opening", "opened", "calling", "auditing",
                            "answered", "raised", "cancelled"}]
    /\ call \in [Requests -> Calls \cup {NoCall}]
    /\ reply \in [Requests -> RefusalCodes \cup DispatchCodes \cup {NoReply}]
    /\ clients \in [Requests \cup {Shared} -> Headers]
    /\ wire \in [Requests -> SUBSET Headers]
    /\ posted \in [Requests -> BOOLEAN] /\ ran \in [Requests -> BOOLEAN]
    /\ trail \in [Requests -> Seq(AuditEvents)]

\* Every message posted for a request carries the identity of its own caller and its own
\* correlation id, whatever other dispatches set between its awaits (dispatch: headers are
\* set before the session opens and read again at every post).
OwnIdentity ==
    \A r \in Requests : wire[r] # {} => wire[r] = {TrustedHeaders(r, call[r])}

\* A tool runs only for an authenticated caller whose role and privileges its rule asks for
\* (evaluate_policy; the docstring's "deny-by-default RBAC with cumulative role and
\* privilege checks").
DenyByDefault ==
    \A r \in Requests : ran[r] =>
        LET p == Principals[call[r].header]
            rule == Rules[call[r].tool]
        IN  /\ call[r].header \in DOMAIN Principals
            /\ call[r].tool \in DOMAIN Routes \cap DOMAIN Rules
            /\ p.role >= rule.minimum
            /\ rule.requires \subseteq p.attributes
            /\ "attachment_access" \in rule.requires => AttachmentAccessEnabled

Passed(r) == pc[r] # "new" /\ reply[r] \notin RefusalCodes

\* A caller's window is used up by the calls the limiter let pass only: one place for each,
\* also when it fails, is cancelled or is rejected by its envelope, and none for a request
\* refused before the limiter or by it (handle_tool_call, the order of steps 1 to 4).
SlotPerDispatch ==
    \A k \in Keys :
        Len(admitted[k]) = Cardinality({r \in Requests : Passed(r) /\ Key(call[r]) = k})

\* The audit trail and the answers agree: an answered request has exactly one event, with
\* the code of its answer; a SUCCESS event means that the backend ran the tool; a refused
\* request never runs; only a request that failed authentication has no user
\* (handle_tool_call, steps 6 and 7 and every early return).
AuditTruthful ==
    \A r \in Requests :
        /\ Len(trail[r]) <= 1
        /\ pc[r] = "answered" => Len(trail[r]) = 1
        /\ reply[r] \in RefusalCodes => ~posted[r] /\ ~ran[r]
        /\ \A i \in 1..Len(trail[r]) :
              LET event == trail[r][i]
              IN  /\ event.reason = reply[r]
                  /\ event.status = "SUCCESS" <=> reply[r] = "SUCCESS"
                  /\ event.status = "SUCCESS" => ran[r]
                  /\ event.user = NoUser <=>
                        event.reason \in {"AUTHENTICATION_REQUIRED", "INVALID_TOKEN"}
=============================================================================
