SPECIFICATION Spec
CONSTANTS
    Channels = {forgot, verify}
    CookieChannels = {forgot}
    ForgotChannels = {forgot}
    Otps = {o1, o2, o3}
    Requests = {r1}
    NoChannel = NoChannel
    NoOtp = NoOtp
    OtpExpire = 3
    TokenExpire = 3
    Cooldown = 2
    Window = 3
    MaxResends = 2
    MaxAttempts = 2
    MaxTime = 4
SYMMETRY Symmetry
INVARIANTS
    TypeOK
    AttemptsCounted
    ResendsSpaced
PROPERTIES
    ImplementsChallenge
