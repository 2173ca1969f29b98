SPECIFICATION FairSpec
CONSTANTS
    MaxSessions = 2
    MaxTasks = 2
    Environments = {FALSE}
    AlwaysVisible = FALSE
INVARIANTS
    ProfileNoted
CHECK_DEADLOCK FALSE
