SPECIFICATION LiveSpec
CONSTANTS
    NoToken = 0
    Workers = {w1, w2}
    Tokens = {1, 2, 3, 4, 5, 6, 7}
    MaxAttempts = 2
    EarlyCutoff = 2
    FinalMinimum = 2
    FinalForced = 3
    Lease = 1
    Skew = 1
    MaxFaults = 1
INVARIANTS
    TypeOK
    SucceededIsPublished
    ResultIsLatest
    ExhaustedAfterLast
PROPERTIES
    TerminalRunsStay
    RecordSpec
    RootEnds
CHECK_DEADLOCK FALSE
