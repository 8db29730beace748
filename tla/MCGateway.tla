------------------------------ MODULE MCGateway ------------------------------
(* An instance of Gateway with a call for every outcome of the screening. *)
EXTENDS Gateway, TLC

CONSTANTS alice, bob, a1

\* alice is L1; bob is L2 and may write in production.
MCPrincipals ==
    [t \in {"alice-token", "bob-token"} |->
        IF t = "alice-token" THEN [user |-> alice, role |-> 1, attributes |-> {}]
        ELSE [user |-> bob, role |-> 2, attributes |-> {"production_write"}]]

MCRoutes ==
    [t \in {"get_ticket", "sync_codebase", "get_attachment_content", "unruled",
            "investigate_incident"} |->
        IF t = "investigate_incident" THEN "investigation" ELSE "superoffice"]

MCRules ==
    [t \in {"get_ticket", "sync_codebase", "get_attachment_content",
            "investigate_incident"} |->
        CASE t = "sync_codebase" -> [minimum |-> 1, requires |-> {"production_write"}]
          [] t = "get_attachment_content" ->
                [minimum |-> 1, requires |-> {"attachment_access"}]
          [] t = "investigate_incident" -> [minimum |-> 2, requires |-> {}]
          [] OTHER -> [minimum |-> 1, requires |-> {}]]

Ask(header, tool) ==
    [header |-> header, tool |-> tool, address |-> NoAddress, fits |-> TRUE]

MCCalls ==
    {Ask(NoHeader, "get_ticket"), Ask("expired-token", "get_ticket"),
     Ask("alice-token", "unknown"), Ask("alice-token", "unruled"),
     Ask("alice-token", "investigate_incident"), Ask("alice-token", "sync_codebase"),
     Ask("bob-token", "get_attachment_content"),
     Ask("alice-token", "get_ticket"), Ask("bob-token", "sync_codebase"),
     Ask("bob-token", "investigate_incident"),
     [Ask("alice-token", "get_ticket") EXCEPT !.address = a1],
     [Ask("alice-token", "get_ticket") EXCEPT !.fits = FALSE],
     [Ask("alice-token", "sync_codebase") EXCEPT !.fits = FALSE]}

MCKeys == {Key(c) : c \in {d \in MCCalls : d.header \in DOMAIN MCPrincipals}}

Symmetry == Permutations(Requests)
=============================================================================
