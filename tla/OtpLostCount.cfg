SPECIFICATION Spec
CONSTANTS
    Channels = {forgot}
    CookieChannels = {forgot}
    ForgotChannels = {forgot}
    Otps = {o1, o2}
    Requests = {r1, r2}
    NoChannel = NoChannel
    NoOtp = NoOtp
    OtpExpire = 2
    TokenExpire = 2
    Cooldown = 1
    Window = 3
    MaxResends = 2
    MaxAttempts = 2
    MaxTime = 2
SYMMETRY Symmetry
INVARIANTS
    AttemptsCounted
