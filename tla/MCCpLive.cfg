SPECIFICATION FairSpec
CONSTANTS
    Sessions = {s1}
    Instances = {}
    Fleets = {}
    NoFleet = noFleet
    Clients = {c1}
    Admins = {c2}
    Names = {alice}
    NoSession = noSession
    NoInstance = noInstance
    NoUser = noUser
    Ops = {"start", "beat", "end", "stop", "revoke", "restore", "name", "reset", "event"}
    MaxRestarts = 1
    Categories = {unknown}
    Unknown = unknown
    NoIntent = noIntent
    Decisions = {"allow"}
    Blank = blank
    NA = na
PROPERTIES RevokedUserIsStopped PresenceReturns
