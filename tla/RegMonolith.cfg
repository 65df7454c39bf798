SPECIFICATION FairSpec
CONSTANTS
    Personal = {p1}
    Business = {b1, b2}
    Accounts = {a1, a2, a3}
    Tenants = {t1, t2}
    Requests = {r1, r2}
    Remote = FALSE
    Paths = {"individual", "organization", "complete"}
    None = None
    MaxFaults = 2
VIEW ProgramState
INVARIANTS
    TypeOK
    EmailsUnique
    TenantsOwned
    ActivationAtomic
PROPERTIES
    ConflictMeansRegistered
    ImplementsAccountRegistry
    RequestsFinish
