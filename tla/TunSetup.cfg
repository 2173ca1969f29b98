SPECIFICATION FairSpec
CONSTANTS
    Nets = {"a", "n", "l"}
    Hosts = {"l"}
    Gateways = {"v", "g"}
    Inside <- MCInside
    Servers = {"d", "e"}
    Pushes <- MCPushes
    Local <- MCLocal
    AllowLocalLAN = TRUE
    Interrupting = FALSE
    Tuns = {t1, t2}
    MaxSessions = 2
    MaxLines = 1
INVARIANTS
    OneDescriptor
    RequestedIfClean
    NothingLost
    LastIsHeld
PROPERTIES
    ReplacedIfChanged
    Completes
CHECK_DEADLOCK FALSE
