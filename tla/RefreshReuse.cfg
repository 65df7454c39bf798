SPECIFICATION Spec
CONSTANTS
    Users = {u1}
    Tokens = {t1, t2, t3}
    Requests = {r1, r2}
    Statuses = {"pending", "active", "suspended"}
    NoUser = NoUser
    NoToken = NoToken
    Spare = t4
    KeyOrder = {}
    Handlers = {"login", "refresh", "logout", "reset", "verify", "complete", "status"}
    MaxResets = 0
SYMMETRY Symmetry
INVARIANTS
    RotatedOnce
