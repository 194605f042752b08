SPECIFICATION Spec
CONSTANTS
    None = None
    Users = {u1}
    SessionIds = {s1}
    Requests = {r1, r2}
    BcryptInput <- First72
    RefreshTTL = 2
    MaxTime = 1
    MaxPassword = 1
    Aborts = {}
CHECK_DEADLOCK FALSE
INVARIANTS PasswordChangeEndsSessions
