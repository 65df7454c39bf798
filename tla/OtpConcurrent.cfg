SPECIFICATION Spec
CONSTANTS
    Channels = {forgot}
    CookieChannels = {forgot}
    ForgotChannels = {forgot}
    Otps = {o1, o2, o3}
    Requests = {r1, r2}
    NoChannel = NoChannel
    NoOtp = NoOtp
    OtpExpire = 2
    TokenExpire = 3
    Cooldown = 1
    Window = 1
    MaxResends = 1
    MaxAttempts = 2
    MaxTime = 3
SYMMETRY Symmetry
VIEW ProgramState
INVARIANTS
    SpentStaysRevoked
    UsesBounded
    ActiveBounded
    ResendsBounded
