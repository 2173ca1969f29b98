SPECIFICATION FairSpec
CONSTANTS
    UsePeerId = FALSE
    SelfRestart = TRUE
    SlowInit = FALSE
    Coalesce = TRUE
    MaxCmds = 2
    MaxEvts = 1
    Preempt = TRUE
    MaxTimers = 2
    Networks = {n1}
    NoNetwork = nonet
    NetChangeReconnect = TRUE
    ScreenOffPause = FALSE
    BinderCalls = TRUE
    RedundantResume = FALSE
    MaxNetTimers = 1
INVARIANTS
    RestartHolds
PROPERTIES
    Reconnects
