\* Requests returned by glue calls travel apart from the engine's outgoing queue.
CONSTANTS
    SingleSendQueue = FALSE
    RemoteMayCancel = FALSE
    MaxBatch = 2
SPECIFICATION Spec
PROPERTY BothEndDone
CHECK_DEADLOCK FALSE
