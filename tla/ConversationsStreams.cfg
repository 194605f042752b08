SPECIFICATION FairSpec
CONSTANTS
    None = None
    ConvIds = {c1}
    Questions = {q1, q2}
    FileIds = {f1}
    MaxTokens = 1
    Faults = {"db", "hydrate", "stream", "failed", "broken", "silent"}
CHECK_DEADLOCK FALSE
INVARIANTS TypeOK FinalIsPersisted ErrorMeansUnanswered TranscriptInOrder
PROPERTIES StreamEnds
