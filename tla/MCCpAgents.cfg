SPECIFICATION Spec
CONSTANTS
    Sessions = {s1}
    Instances = {i1}
    Fleets = {f1}
    NoFleet = noFleet
    Clients = {c1, c2}
    Admins = {c2}
    Names = {alice}
    NoSession = noSession
    NoInstance = noInstance
    NoUser = noUser
    Ops = {"start", "beat", "prompt", "revoke", "restore", "agent", "revoke_agent", "event", "freeze", "revoke_app", "enroll"}
    MaxRestarts = 1
    Categories = {unknown}
    Unknown = unknown
    NoIntent = noIntent
    Decisions = {"allow"}
    Blank = blank
    NA = na
INVARIANTS TypeOK NothingPastBar
PROPERTIES RevokedAgentStays RevokedStaysRevoked
