\* Two calls, one agent or the host for each step, two previews and two rows.
SPECIFICATION Spec
CONSTANTS
    Callers = {c1, c2}
    Routed = {"implement", "review"}
    Agents = {a}
    Different = {"implement"}
    MaxPreviews = 2
    MaxRows = 2
SYMMETRY Symmetry
PROPERTIES
    AdoptedAsApproved
CHECK_DEADLOCK FALSE
