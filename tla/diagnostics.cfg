CONSTANTS
    Start = 1
    Now = 3
    Hits = {1, 9}
    Torn = 9
    Limits = {0, 1, 3, 4}
    MaxLimit = 3
    IisMaxFiles = 2
    IisMaxScan = 14
    Chunk = 4
    MaxLine = 4
    HeadBytes = 2
    WarnMaxFiles = 2
    WarnMaxScan = 12
    MaxEventLines = 2
    MaxEventBytes = 5
    Directories <- MCDirectories
    IisAppended <- MCIisAppended
    WarnAppended <- MCWarnAppended
    MaxAppends = 1
    Networks <- MCNetworks
    MaxChanges = 2
    HostIsAddress = FALSE
    MaxRows = 3
    RowLimits = {0, 2, 5}
    Matching = {2, 3, 4}
    Tickets <- MCTickets
    NewAction <- MCNewAction
    NoOne = NoOne
SPECIFICATION Spec
INVARIANTS
    LogTypeOK
    NoGap
    RecordsWhole
    CompleteWhenClaimed
    SteadyFaultNamed
    NoneBlamedInnocently
    RecordsCoherent
PROPERTIES
    SearchEnds
\* A call that was answered takes no further step.
CHECK_DEADLOCK FALSE
