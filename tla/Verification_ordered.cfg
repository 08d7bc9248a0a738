\* The caller sends returned requests through the outgoing FIFO; the remote
\* user never cancels.  Both devices must end the flow Done.
CONSTANTS
    SingleSendQueue = TRUE
    RemoteMayCancel = FALSE
    MaxBatch = 2
SPECIFICATION Spec
PROPERTY BothEndDone
\* A finished flow is the end of this one-flow system.
CHECK_DEADLOCK FALSE
