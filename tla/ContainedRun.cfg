\* One contained run, cancelled twice from outside, its lease lost or its step taken away.
SPECIFICATION FairSpec
CONSTANTS
    MaxCancels = 2
INVARIANTS
    TypeOK
    CountIsTheClients
    CancelIsHeard
    LeaseIsLetGo
    NoRunawayChild
    WorkIsKept
    ChildIsBounded
    OutcomeIsEarned
    OutcomeIsAccounted
PROPERTIES
    Returns
CHECK_DEADLOCK FALSE
