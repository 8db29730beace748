\* Two concurrent requests; one call of a key per second.
CONSTANTS
    Requests = {r1, r2}
    Shared = Shared  NoHeader = NoHeader  NoAddress = NoAddress  NoCall = NoCall
    NoReply = NoReply  NoUser = NoUser  NoHeaders = NoHeaders  NoAnswer = NoAnswer
    alice = alice  bob = bob  a1 = a1
    Calls <- MCCalls
    Principals <- MCPrincipals
    Routes <- MCRoutes
    Rules <- MCRules
    Keys <- MCKeys
    InjectedClient = FALSE
    AttachmentAccessEnabled = FALSE
    Limit = 1  Window = 1  BurstLimit = 1  BurstWindow = 1  MaxTime = 2
SYMMETRY Symmetry
SPECIFICATION GatewaySpec
INVARIANTS OwnIdentity DenyByDefault SlotPerDispatch AuditTruthful
CHECK_DEADLOCK FALSE
