SPECIFICATION Spec
CONSTANTS
    Ids = {r1, r2, r3}
    CallerFollowsBridge = FALSE
    CallerDedups = TRUE
    MaxSends = 2
    MaxFailures = 1
    MaxStoreErrors = 1
INVARIANTS TypeOK NoAbort
PROPERTY LedgerRefinement
