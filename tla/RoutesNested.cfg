SPECIFICATION Spec
CONSTANTS
    Width = 3
    MaxRoutes = 3
    NoNet = NoNet
INVARIANTS
    ExcludedStaysOut
CHECK_DEADLOCK FALSE
