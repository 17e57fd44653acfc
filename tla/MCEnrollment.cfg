SPECIFICATION Spec
CONSTANTS
    Agents = {a1}
    Instances = {i1, i2}
    Hashes = {h1, h2}
    NoHash = noHash
    Quotas = {1, 2}
    Callers = {c1, c2, c3}
    MaxRestarts = 1
SYMMETRY Symmetry
INVARIANTS TypeOK QuotaKept OnlyListedBinaries
PROPERTIES NoEnrollmentPastBar
