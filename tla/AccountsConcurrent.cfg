SPECIFICATION Spec
CONSTANTS
    None = None
    Emails = {e1, e2}
    Codes = {c1, c2}
    OtpIds = {t1, t2}
    ResetIds = {p1}
    Requests = {r1, r2}
    Collisions = TRUE
    Aborts = TRUE
    MaxTrades = 2
    MaxResets = 2
CHECK_DEADLOCK FALSE
SYMMETRY Symmetry
ACTION_CONSTRAINT OneKind
INVARIANTS TypeOK LocalVerifiedByCode OlderOtpsAreDead ThankedIsVerified OnlyLocalPasswords
PROPERTIES MethodNeverChanges
