SPECIFICATION FairSpec
CONSTANTS
    Users = {u1}
    Tokens = {1, 2}
    Requests = {r1, r2}
    Statuses = {"pending", "active"}
    NoUser = NoUser
    NoToken = NoToken
    Spare = t4
    KeyOrder <- AscendingKeys
    Handlers = {"login", "refresh", "logout", "reset", "verify", "complete", "status"}
    MaxResets = 1
VIEW LockState
INVARIANTS
    DeadlocksAreVerifications
PROPERTIES
    RequestsFinish
