\* A call of a REST or database tool, two calls on the extra tables, a caller of the HTTP library.
CONSTANTS
    ServerConditions = {"ok", "odd", "garbled", "missing", "unauthorized", "forbidden", "limited",
                        "rejected", "busy", "slow", "down", "broken"}
    MaxAttempts = 3
    InitialBackoff = 1
    MaxBackoff = 3
    Budget = 6
    Durations = {0, 2, 4}
    Drift = 1
    MaxServerChanges = 2
    c1 = c1  c2 = c2
    TableCalls = {c1, c2}
    Asked <- MCAsked
    Schemas <- MCSchemas
    Nameless = {"y_table_9"}
    Blank = ""
    Unnameable = {"drop", "sp_x", ""}
    MaxOutages = 2
    Trails <- MCTrails
    NewActions <- MCNewActions
    MaxCommits = 2
    TrailLimits = {1, 2, 3}
    Kinds = {"category", "priority", "status", "group"}
    Matching = {0, 2, 5}
    TaskLimits = {0, 1, 4}
    MaxTasks = 3
SPECIFICATION Spec
INVARIANTS FaultsGrounded CatalogueTraceable EmptyMeansNone AnswersWhole
SYMMETRY TwoCalls
PROPERTY ImplementsDelivery
\* A call that was answered takes no further step.
CHECK_DEADLOCK FALSE
