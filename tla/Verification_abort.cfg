\* A remote cancel between the client's poll and its call makes the glue panic.
CONSTANTS
    SingleSendQueue = TRUE
    RemoteMayCancel = TRUE
    MaxBatch = 2
SPECIFICATION Spec
INVARIANT NoAbort
CHECK_DEADLOCK FALSE
