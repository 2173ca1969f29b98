SPECIFICATION FairSpec
CONSTANTS
    MaxPosted = 1
    MaxInbox = 1
    Attempts = 2
    MaxPollers = 2
    MaxLater = 1
INVARIANTS
    StatusMirrored
    SpinnerEnds
PROPERTIES
    CancelHolds
    Settles
