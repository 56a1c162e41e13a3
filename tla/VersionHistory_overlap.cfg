SPECIFICATION Spec
CONSTANTS
    Absent = Absent
    Configs = {a, b}
    Workers = {w1, w2}
    Mortal = {}
    Crawlers = {}
    MaxChanges = 3
    RecordAttempts = 2
INVARIANTS
    SettledIsCurrent
CHECK_DEADLOCK FALSE
