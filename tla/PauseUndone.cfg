SPECIFICATION FairSpec
CONSTANTS
    UsePeerId = FALSE
    SelfRestart = TRUE
    SlowInit = FALSE
    Coalesce = FALSE
    MaxCmds = 2
    MaxEvts = 2
    Preempt = FALSE
    MaxTimers = 2
    Networks = {n1}
    NoNetwork = nonet
    NetChangeReconnect = TRUE
    ScreenOffPause = FALSE
    BinderCalls = FALSE
    RedundantResume = FALSE
    MaxNetTimers = 2
INVARIANTS
    UserPauseKept
