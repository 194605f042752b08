SPECIFICATION Spec
CONSTANTS
    None = None
    Emails = {e1}
    Codes = {c1}
    OtpIds = {t1}
    ResetIds = {p1}
    Requests = {r1}
    Collisions = FALSE
    Aborts = FALSE
    MaxTrades = 1
    MaxResets = 2
CHECK_DEADLOCK FALSE
SYMMETRY Symmetry
INVARIANTS ResetTokenConsumed

