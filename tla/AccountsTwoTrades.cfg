SPECIFICATION Spec
CONSTANTS
    None = None
    Emails = {e1}
    Codes = {c1}
    OtpIds = {t1}
    ResetIds = {p1}
    Requests = {r1, r2}
    Collisions = FALSE
    Aborts = FALSE
    MaxTrades = 2
    MaxResets = 1
CHECK_DEADLOCK FALSE
SYMMETRY Symmetry
INVARIANTS ResetCodeTradedOnce
