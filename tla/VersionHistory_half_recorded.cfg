SPECIFICATION Spec
CONSTANTS
    Absent = Absent
    Configs = {a, b}
    Workers = {w1}
    Mortal = {w1}
    Crawlers = {}
    MaxChanges = 2
    RecordAttempts = 2
INVARIANTS
    SettledIsSummarized
CHECK_DEADLOCK FALSE
