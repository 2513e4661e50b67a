CONSTANTS
    c1 = c1
    c2 = c2
    baseline = baseline
    k1 = k1
    Callers <- TwoCallers
    NoCaller = NoCaller
    Kinds <- ShortKinds
    Bindings <- EitherBindings
    Commit <- TwoCommits
    Baseline = baseline
    NoCommit = NoCommit
    max_fix_rounds = 1
    advance_on_failed_test = FALSE
    Stalls = FALSE
    Doors = FALSE
    Cancels = TRUE
    MaxSteps = 2
    MaxCrashes = 1
SPECIFICATION FairSpec
INVARIANTS LeaseIsExclusive RunningIsHeld
PROPERTIES RunningResolves
CHECK_DEADLOCK FALSE
