SPECIFICATION Spec
CONSTANTS
    Reqs = {r1}
    Devices = {d1, d2, d3}
    NoDevice = NoDevice
    MaxDevices = 2
    MaxJti = 3
    MaxVersion = 1
PROPERTY
    BreachTerminatesSessions
