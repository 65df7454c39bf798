SPECIFICATION Spec
CONSTANTS
    t1 = t1
    t2 = t2
    u1 = u1
    u2 = u2
    e1 = e1
    e2 = e2
    Tenants = {t1, t2}
    Users = {u1, u2, u3, u4}
    Emails = {e1, e2, e3}
    Founder <- MCFounder
    Address <- MCAddress
    Invites = {i1, i2}
    Requests = {r1, r2}
    Statuses = {"pending", "active"}
    Handlers = {"invite", "accept", "register", "verify", "self_status", "profile",
                "status"}
    MaxUndone = 2
    None = None
CHECK_DEADLOCK FALSE
CONSTRAINT InvitedOrUndone
SYMMETRY Symmetry
VIEW ReadState
INVARIANTS
    TypeOK
    AdminsBelong
    InvitationsSingleUse
    DashboardCountsPeople
    CompletionsMailed
PROPERTIES
    NoLateAcceptance
