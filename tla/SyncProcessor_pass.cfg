SPECIFICATION Spec
CONSTANTS
    N = 3
    Requests = {2}
    MaxCrashes = 2
    NoToDevice = {1}
    KeyBatch = 3
    Timeline = {1, 3}
INVARIANTS TypeOK NoEventLost
PROPERTY EventuallyDecrypted
