SPECIFICATION Spec
CONSTANTS
    Personal = {}
    Business = {b1}
    Accounts = {a1}
    Tenants = {t1}
    Requests = {r1}
    Remote = TRUE
    Paths = {"organization", "complete"}
    None = None
    MaxFaults = 0
SYMMETRY Symmetry
VIEW ProgramState
PROPERTIES
    ConflictMeansRegistered
