SPECIFICATION Spec
CONSTANTS
    None = None
    FileIds = {f1, f2}
    Requests = {r1, r2}
    MaxBatch = 2
    Faults = {"db", "s3Put", "s3Delete", "fileCreate", "index", "fileDelete"}
    Crashes = TRUE
CHECK_DEADLOCK FALSE
SYMMETRY Symmetry
INVARIANTS TypeOK SuccessIsBacked ProgressMatchesUploads StoredIsKnown
PROPERTIES ImplementsFileStore
