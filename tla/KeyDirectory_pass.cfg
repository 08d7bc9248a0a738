SPECIFICATION Spec
CONSTANTS
    Users = {a, b}
    Own = a
    MaxChanges = 2
    MaxFailures = 1
    CallerAcksBeforeUse = TRUE
    Failed = Failed
INVARIANTS TypeOK ChangedUserRequeried
PROPERTY DirectoryConverges
