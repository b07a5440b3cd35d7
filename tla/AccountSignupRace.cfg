SPECIFICATION AccountSpec
CONSTANTS
    Reqs = {r1, r2}
    Devices = {d1}
    NoDevice = NoDevice
    MaxDevices = 1
    MaxJti = 2
    MaxVersion = 1
    MaxCodes = 2
    OtpMaxAttempts = 2
PROPERTY
    SignupSparesActive
