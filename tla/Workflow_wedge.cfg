CONSTANTS
    c1 = c1
    c2 = c2
    baseline = baseline
    k1 = k1
    Callers <- OneCaller
    NoCaller = NoCaller
    Kinds <- LoopKinds
    Bindings <- HostBindings
    Commit <- TwoCommits
    Baseline = baseline
    NoCommit = NoCommit
    max_fix_rounds = 1
    advance_on_failed_test = FALSE
    Stalls = FALSE
    Doors = FALSE
    Cancels = FALSE
    MaxSteps = 7
    MaxCrashes = 0
SPECIFICATION TestingSpec
INVARIANTS SynthesisCanBeRetried
CHECK_DEADLOCK FALSE
