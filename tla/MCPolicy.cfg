SPECIFICATION FairSpec
CONSTANTS
    Cedars = {c1, c2}
    Schemas = {sch, empty}
    Empty = empty
    Junk = junk
    NoFile = noFile
    Syncs = {p1}
    Reverts = FALSE
    MaxRestarts = 2
    MaxCrashes = 2
INVARIANTS TypeOK CacheIsWhole
PROPERTIES Converges
