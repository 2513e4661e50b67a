CONSTANTS
    c1 = c1
    c2 = c2
    baseline = baseline
    k1 = k1
    Callers <- TwoCallers
    NoCaller = NoCaller
    Kinds <- LoopKinds
    Bindings <- HostBindings
    Commit <- TwoCommits
    Baseline = baseline
    NoCommit = NoCommit
    max_fix_rounds = 1
    advance_on_failed_test = FALSE
    Stalls = FALSE
    Doors = TRUE
    Cancels = FALSE
    MaxSteps = 4
    MaxCrashes = 1
SYMMETRY Symmetry
SPECIFICATION TestingSpec
INVARIANTS RunningIsHeld
CHECK_DEADLOCK FALSE
