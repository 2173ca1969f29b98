SPECIFICATION FairSpec
CONSTANTS
    UsePeerId = FALSE
    SelfRestart = TRUE
    SlowInit = TRUE
    Coalesce = TRUE
    MaxCmds = 2
    MaxEvts = 2
    Preempt = FALSE
    MaxTimers = 2
    Networks = {n1, n2}
    NoNetwork = nonet
    NetChangeReconnect = TRUE
    ScreenOffPause = TRUE
    BinderCalls = FALSE
    RedundantResume = FALSE
    MaxNetTimers = 2
INVARIANTS
    TypeOK
    HoldAgreement
    UserPauseEffective
PROPERTIES
    ImplementsHandshake
    PauseLasts
    LostNetworkHolds
    Reconnects
