SPECIFICATION Spec
CONSTANTS
    Users = {u1, u2}
    Tokens = {t1, t2, t3}
    Requests = {r1}
    Statuses = {"pending", "active", "suspended"}
    NoUser = NoUser
    NoToken = NoToken
    Spare = t4
    KeyOrder = {}
    Handlers = {"login", "refresh", "logout", "reset", "verify", "complete", "status"}
    MaxResets = 1
SYMMETRY Symmetry
VIEW Sessions
INVARIANTS
    TypeOK
    RotatedOnce
    EndedSessionsStayDead
    LiveTokensUseCurrentPassword
PROPERTIES
    SessionsStartActive
    ImplementsRotationChain
