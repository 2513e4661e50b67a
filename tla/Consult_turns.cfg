\* Two calls, a consultation of their own or of a review or a workflow; heartbeats arrive.
SPECIFICATION Spec
CONSTANTS
    Callers = {c1, c2}
    NoCaller = NoCaller
    Cid = {1}
    Reviews = {r}
    Workflows = {w}
    Nobody = Nobody
    MaxSessions = 1
    Prices = {0, 1}
    max_turns = 2
    max_cost = 1
    Stalls = FALSE
    Deletes = TRUE
    MaxTurns = 3
    MaxCrashes = 1
SYMMETRY Symmetry
INVARIANTS
    TypeOK
    CeilingHolds
    NoOrphans
PROPERTIES
    SweepSparesActive
    IsConversation
CHECK_DEADLOCK FALSE
