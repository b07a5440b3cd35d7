SPECIFICATION AccountSpec
CONSTANTS
    Reqs = {r1}
    Devices = {d1}
    NoDevice = NoDevice
    MaxDevices = 1
    MaxJti = 2
    MaxVersion = 2
    MaxCodes = 3
    OtpMaxAttempts = 2
SYMMETRY Symmetry
INVARIANTS
    RedeemedOnce
    PendingPasswordHasCode
PROPERTY SignupSparesActive
