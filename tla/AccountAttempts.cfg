SPECIFICATION AccountSpec
CONSTANTS
    Reqs = {r1}
    Devices = {d1}
    NoDevice = NoDevice
    MaxDevices = 1
    MaxJti = 1
    MaxVersion = 1
    MaxCodes = 1
    OtpMaxAttempts = 2
PROPERTY
    WrongCodesCounted
