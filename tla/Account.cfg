SPECIFICATION AccountSpec
CONSTANTS
    Reqs = {r1, r2}
    Devices = {d1}
    NoDevice = NoDevice
    MaxDevices = 1
    MaxJti = 2
    MaxVersion = 1
    MaxCodes = 1
    OtpMaxAttempts = 2
SYMMETRY Symmetry
INVARIANTS
    AccountTypeOK
PROPERTY
    ImplementsContract
