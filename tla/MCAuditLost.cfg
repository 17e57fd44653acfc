SPECIFICATION Spec
CONSTANTS
    Events = {e1, e2}
    Processes = {p1, p2}
    Genesis = genesis
    Torn = torn
    NoEvent = noEvent
    MaxRestarts = 1
SYMMETRY Symmetry
INVARIANTS NothingLost
CHECK_DEADLOCK FALSE
