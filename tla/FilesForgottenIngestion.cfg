SPECIFICATION Spec
CONSTANTS
    None = None
    FileIds = {f1}
    Requests = {r1}
    MaxBatch = 1
    Faults = {"index"}
    Crashes = FALSE
CHECK_DEADLOCK FALSE
INVARIANT NoOrphans
