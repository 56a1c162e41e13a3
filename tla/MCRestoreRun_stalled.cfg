SPECIFICATION Spec
CONSTANTS
    r1 = r1
    r2 = r2
    c1 = c1
    w1 = w1
    w2 = w2
    NoOp = NoOp
    Restores = {r1}
    Compensations = {}
    Reverses <- NoReverses
    Workers = {w1}
    N = 1
    Deferred = {1}
    SendErrors = {}
    TTL = 2
    MaxStall = 2
PROPERTIES
    ClosedNeverReachesMist
CHECK_DEADLOCK FALSE
