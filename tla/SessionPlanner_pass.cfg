SPECIFICATION Spec
CONSTANTS
    Devices = {d1, d2, d3}
    Ids = {c1, c2}
    CallerSerialises = TRUE
    MaxRotations = 1
    None = None
    Msgs = {m1, m2, m3}
    RotationMsgs = 2
INVARIANT TypeOK
PROPERTY AllDevicesReached
