SPECIFICATION Spec
CONSTANTS
    None = None
    Emails = {e1}
    Codes = {c1, c2}
    OtpIds = {t1, t2}
    ResetIds = {p1}
    Requests = {r1, r2}
    Collisions = FALSE
    Aborts = FALSE
    MaxTrades = 1
    MaxResets = 1
CHECK_DEADLOCK FALSE
SYMMETRY Symmetry
INVARIANTS AtMostOneValidOtp
