SPECIFICATION Spec
CONSTANTS
    MaxSessions = 2
    MaxTasks = 2
    Environments = {TRUE}
    AlwaysVisible = FALSE
INVARIANTS
    TornDown
CHECK_DEADLOCK FALSE
