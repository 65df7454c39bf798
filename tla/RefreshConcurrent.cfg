SPECIFICATION Spec
CONSTANTS
    Users = {u1}
    Tokens = {t1, t2, t3, t4}
    Requests = {r1, r2}
    Statuses = {"pending", "active"}
    NoUser = NoUser
    NoToken = NoToken
    Spare = t4
    KeyOrder = {}
    Handlers = {"login", "refresh", "logout", "reset", "verify", "complete", "status"}
    MaxResets = 1
SYMMETRY Symmetry
CONSTRAINT TokensInUse
VIEW ProgramState
INVARIANTS
    RotationSpendsParent
    RefusalsOfStoredFinal
    ReuseBoundedByConcurrency
