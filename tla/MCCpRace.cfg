SPECIFICATION Spec
CONSTANTS
    Sessions = {s1}
    Instances = {}
    Fleets = {}
    NoFleet = noFleet
    Clients = {c1, c2}
    Admins = {c1, c2}
    Names = {alice}
    NoSession = noSession
    NoInstance = noInstance
    NoUser = noUser
    Ops = {"start", "revoke", "name"}
    MaxRestarts = 0
    Categories = {unknown}
    Unknown = unknown
    NoIntent = noIntent
    Decisions = {"allow"}
    Blank = blank
    NA = na
SYMMETRY CallerSymmetry
INVARIANTS NoLiveSessionOfRevokedUser
