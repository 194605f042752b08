SPECIFICATION Spec
CONSTANTS
    None = None
    Emails = {e1, e2}
    Codes = {c1}
    OtpIds = {t1, t2}
    ResetIds = {p1}
    Requests = {r1}
    Collisions = TRUE
    Aborts = FALSE
    MaxTrades = 1
    MaxResets = 1
CHECK_DEADLOCK FALSE
SYMMETRY Symmetry
INVARIANTS OwnCodeVerifies
