SPECIFICATION Spec
CONSTANTS
    Ids = {r1, r2, r3}
    CallerFollowsBridge = TRUE
    CallerDedups = TRUE
    MaxSends = 2
    MaxFailures = 1
    MaxStoreErrors = 1
INVARIANT NoAbort
