SPECIFICATION FairSpec
CONSTANTS
    None = None
    Ids = {s1, s2, s3}
    Slugs = {a, b}
    Requests = {r1, r2}
    Faults = {"createStore", "insert", "cleanup", "deleteStore", "dropRow"}
    Crashes = TRUE
CHECK_DEADLOCK FALSE
INVARIANTS TypeOK StoresMatchRows
PROPERTIES DeletionCompletes
