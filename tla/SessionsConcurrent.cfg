SPECIFICATION Spec
CONSTANTS
    None = None
    Users = {u1, u2}
    SessionIds = {s1, s2}
    Requests = {r1, r2}
    BcryptInput <- First72
    RefreshTTL = 1
    MaxTime = 1
    MaxPassword = 1
    Aborts = {"create", "issue", "read", "write", "expire", "revokeOne", "revokeAll", "change", "update"}
CHECK_DEADLOCK FALSE
SYMMETRY Symmetry
INVARIANTS TypeOK RowTokensMatchRow ChangeReachesSessions
PROPERTIES OnlyOwnSessionsRevoked ImplementsRegistry
