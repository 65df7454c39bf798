SPECIFICATION Spec
CONSTANTS
    Personal = {p1}
    Business = {b1}
    Accounts = {a1, a2}
    Tenants = {t1, t2}
    Requests = {r1, r2}
    Remote = TRUE
    Paths = {"organization", "legacy_tenant", "complete", "verify", "resend", "profile"}
    None = None
    MaxFaults = 1
SYMMETRY Symmetry
VIEW ProgramState
INVARIANTS
    AccountsHaveTenant
PROPERTIES
    LegacyFailureLeavesNothing
