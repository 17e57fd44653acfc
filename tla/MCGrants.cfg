SPECIFICATION Spec
CONSTANTS
    GrantIds = {g1}
    Agents = {a1, a2}
    Names = {n1, n2}
    Resources = {r1, r2}
    Callers = {c1, c2}
    TTL = 2
    Patience = 1
    MaxTime = 5
    MaxRestarts = 1
    StableKey = FALSE
SYMMETRY Symmetry
INVARIANTS TypeOK SingleUse NoUseWhenBarred CleanupIsSafe
PROPERTY ImplementsPass
