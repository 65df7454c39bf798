SPECIFICATION Spec
CONSTANTS
    o1 = o1
    o2 = o2
    k1 = k1
    k2 = k2
    k3 = k3
    Browsers = {b1}
    Emails = {e1}
    Otps = {o1, o2}
    Tokens = {k1, k2, k3}
    Resets = {p1}
    Requests = {r1, r2}
    Organizations = {e1}
    Endpoints = {"register", "verify", "resend", "login", "refresh", "logout",
                 "forgot", "verify_forgot", "reset"}
    None = None
    AccessExpire = 1
    RefreshExpire = 2
    OtpExpire = 1
    TokenExpire = 1
    ResetExpire = 2
    Cooldown = 1
    Window = 2
    MaxResends = 2
    MaxAttempts = 2
    MaxTime = 2
    MaxFaults = 1
CONSTRAINT Scenarios
SYMMETRY Symmetry
VIEW View
CHECK_DEADLOCK FALSE
INVARIANTS
    TypeOK
    ResetsBounded
    RotatedOnlyInFlight
    HeldTokensAccepted
PROPERTIES
    ResetsProved
    GuessesInFlow
