SPECIFICATION Spec
CONSTANTS
    Cedars = {c1, c2}
    Schemas = {sch, empty}
    Empty = empty
    Junk = junk
    NoFile = noFile
    Syncs = {p1}
    Reverts = FALSE
    MaxRestarts = 0
    MaxCrashes = 0
SYMMETRY Symmetry
INVARIANTS LockPersists
