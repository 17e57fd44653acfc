SPECIFICATION Spec
CONSTANTS
    Events = {e1, e2, e3, e4}
    Processes = {p1}
    Genesis = genesis
    Torn = torn
    NoEvent = noEvent
    MaxRestarts = 1
SYMMETRY Symmetry
INVARIANTS TypeOK LogVerifies NothingLost
PROPERTY ImplementsTrail
CHECK_DEADLOCK FALSE
