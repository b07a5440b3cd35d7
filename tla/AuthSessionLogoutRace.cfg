SPECIFICATION Spec
CONSTANTS
    Reqs = {r1, r2}
    Devices = {d1, d2}
    NoDevice = NoDevice
    MaxDevices = 1
    MaxJti = 3
    MaxVersion = 2
PROPERTY
    RevokedUntilLogin
