SPECIFICATION FairSpec
CONSTANTS
    None = None
    FileIds = {f1, f2}
    Requests = {r1, r2}
    MaxBatch = 2
    Faults = {"s3Put", "s3Delete", "fileCreate", "index"}
    Crashes = FALSE
CHECK_DEADLOCK FALSE
PROPERTIES UploadSettles
