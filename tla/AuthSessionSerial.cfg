SPECIFICATION Spec
CONSTANTS
    Reqs = {r1}
    Devices = {d1, d2, d3}
    NoDevice = NoDevice
    MaxDevices = 2
    MaxJti = 5
    MaxVersion = 1
SYMMETRY Symmetry
INVARIANTS
    RowsAgree
    DeviceLimit
    SingleUse
    ActiveRowIsLive
PROPERTIES
    RevokedUntilLogin
