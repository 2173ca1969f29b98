SPECIFICATION FairSpec
CONSTANTS
    MaxSessions = 2
    MaxTasks = 2
    Environments = {FALSE}
    AlwaysVisible = FALSE
INVARIANTS
    ReplacedWhole
PROPERTIES
    StoppedEnds
CHECK_DEADLOCK FALSE
