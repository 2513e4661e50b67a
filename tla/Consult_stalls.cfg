\* Two calls on one consultation, either of which may miss its heartbeats, and deletes.
SPECIFICATION Spec
CONSTANTS
    Callers = {c1, c2}
    NoCaller = NoCaller
    Cid = {1}
    Reviews = {}
    Workflows = {}
    Nobody = Nobody
    MaxSessions = 2
    Prices = {0, 1}
    max_turns = 2
    max_cost = 1
    Stalls = TRUE
    Deletes = TRUE
    MaxTurns = 3
    MaxCrashes = 1
SYMMETRY Symmetry
INVARIANTS
    OneSession
    TurnsInOrder
    NothingOutlivesDelete
CHECK_DEADLOCK FALSE
