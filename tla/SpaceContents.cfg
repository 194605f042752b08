SPECIFICATION ContentsSpec
CONSTANTS
    None = None
    FileIds = {f1, f2}
    Elsewhere = {x}
    ShareIds = {s1, s2}
    ReminderIds = {m1}
    Requests = {r1, r2}
CHECK_DEADLOCK FALSE
SYMMETRY Symmetry
ACTION_CONSTRAINT OneKind
VIEW View
INVARIANTS TypeOK NoDanglingReference DeadLinkOpensNothing AddTakesEffect
