CONSTANTS
    c1 = c1
    c2 = c2
    baseline = baseline
    k1 = k1
    Callers <- TwoCallers
    NoCaller = NoCaller
    Kinds <- LoopKinds
    Bindings <- HostBindings
    Commit <- TwoCommits
    Baseline = baseline
    NoCommit = NoCommit
    max_fix_rounds = 1
    advance_on_failed_test = FALSE
    Stalls = TRUE
    Doors = TRUE
    Cancels = TRUE
    MaxSteps = 5
    MaxCrashes = 0
SYMMETRY Symmetry
SPECIFICATION TestingSpec
INVARIANTS TypeOK StateIsEarned
PROPERTIES OutcomeStands EndStands ReviewVerdictStands
CHECK_DEADLOCK FALSE
