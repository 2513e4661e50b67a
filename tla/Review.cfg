\* Two calls of one process on one review with two reviewers, and a crash.
SPECIFICATION FairSpec
CONSTANTS
    p1 = p1
    Callers = {c1, c2}
    NoCaller = NoCaller
    Process = {p1}
    home <- OneProcess
    Agents = {a1, a2}
    MAX_FIX_ROUNDS = 1
    MaxCrashes = 1
INVARIANTS
    NoDangling
    OutcomeEarned
    DeleteWaits
    RoundsWithinCap
    CompleteCarriesFindings
    RecheckIsHonest
PROPERTIES
    CancelWaits
    CancelReturns
CHECK_DEADLOCK FALSE
