SPECIFICATION Spec
CONSTANTS
    Devices = {d1, d2}
    Ids = {c1, c2}
    CallerSerialises = FALSE
    MaxRotations = 1
    None = None
    Msgs = {m1, m2, m3}
    RotationMsgs = 2
INVARIANT NoDoubleClaim
