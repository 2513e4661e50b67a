CONSTANTS
    c1 = c1
    c2 = c2
    baseline = baseline
    k1 = k1
    Callers <- TwoCallers
    NoCaller = NoCaller
    Kinds <- LoopKinds
    Bindings <- HostBindings
    Commit <- TwoCommits
    Baseline = baseline
    NoCommit = NoCommit
    max_fix_rounds = 1
    advance_on_failed_test = FALSE
    Stalls = FALSE
    Doors = FALSE
    Cancels = FALSE
    MaxSteps = 5
    MaxCrashes = 0
SYMMETRY Symmetry
SPECIFICATION TestingSpec
PROPERTIES StartsWhereItRuns
CHECK_DEADLOCK FALSE
