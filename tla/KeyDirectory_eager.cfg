SPECIFICATION Spec
CONSTANTS
    Users = {a, b}
    Own = a
    MaxChanges = 2
    MaxFailures = 1
    CallerAcksBeforeUse = FALSE
    Failed = Failed
INVARIANT NoAbort
