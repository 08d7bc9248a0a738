\* The caller sends returned requests on its own path, as lib.rs leaves it to;
\* the remote user may cancel at any time and stale calls may crash the process.
CONSTANTS
    SingleSendQueue = FALSE
    RemoteMayCancel = TRUE
    MaxBatch = 2
SPECIFICATION Spec
INVARIANT TypeOK
PROPERTY FlowSettles
CHECK_DEADLOCK FALSE
