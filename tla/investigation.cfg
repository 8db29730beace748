SPECIFICATION Spec
CONSTANTS
    r1 = r1
    o1 = o1
    p1 = p1
    h1 = h1
    h2 = h2
    Clients = {r1, o1}
    Requests = {r1}
    Plans = {p1}
    Hyps = {h1, h2}
    Evidence <- StepEvidence
    Limits = {1, 2}
    NoHyp = NoHyp
    NoCause = NoCause
    Free = Free
    Calls <- OperatorCalls
    Selections <- Everything
    Configured = {"superoffice", "diagnostics", "knowledge"}
    Backend <- TwoChunks
    IssueLimit = 3
INVARIANTS
    PlansSound
    AnswersStand
    ReportGrounded
PROPERTIES
    ImplementsBook
    TerminalFrozen
    FailureExplained
    RequestsEnd
