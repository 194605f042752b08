SPECIFICATION Spec
CONSTANTS
    None = None
    FileIds = {f1}
    Requests = {r1}
    MaxBatch = 1
    Faults = {}
    Crashes = FALSE
CHECK_DEADLOCK FALSE
INVARIANT NothingOutlivesSpace
