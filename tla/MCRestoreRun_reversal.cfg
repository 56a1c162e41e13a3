SPECIFICATION Spec
CONSTANTS
    r1 = r1
    r2 = r2
    c1 = c1
    w1 = w1
    w2 = w2
    NoOp = NoOp
    Restores = {r1}
    Compensations = {c1}
    Reverses <- ReversesR1
    Workers = {w1}
    N = 2
    Deferred = {2}
    SendErrors = {r1, c1}
    TTL = 2
    MaxStall = 1
INVARIANTS
    AppliedIsRecorded
    AppliedIsReversible
    SuccessIsComplete
    CompensatedByAPlan
PROPERTIES
    ClosedStaysClosed
CHECK_DEADLOCK FALSE
