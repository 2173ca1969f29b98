SPECIFICATION FairSpec
CONSTANTS
    Width = 3
    MaxRoutes = 4
    NoNet = NoNet
INVARIANTS
    TypeOK
    Preserved
    Exact
    Asserted
PROPERTIES
    Terminates
CHECK_DEADLOCK FALSE
