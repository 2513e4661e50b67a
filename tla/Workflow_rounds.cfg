CONSTANTS
    c1 = c1
    c2 = c2
    baseline = baseline
    k1 = k1
    Callers <- OneCaller
    NoCaller = NoCaller
    Kinds <- LoopKinds
    Bindings <- EitherBindings
    Commit <- TwoCommits
    Baseline = baseline
    NoCommit = NoCommit
    max_fix_rounds = 1
    advance_on_failed_test = TRUE
    Stalls = FALSE
    Doors = FALSE
    Cancels = FALSE
    MaxSteps = 10
    MaxCrashes = 1
SPECIFICATION FixingSpec
INVARIANTS RoundsWithinCap CompletedAsTested
CHECK_DEADLOCK FALSE
