SPECIFICATION Spec
CONSTANTS
    NoInput = NoInput
    Audits = {a}
    Events = {d}
    Polls = {p}
    Harmful = {d, p}
    Receivers = {w1, w2}
    Pollers = {w3}
    Mortal = {w1}
    MaxDeaths = 1
    Attempts = 3
INVARIANTS
    TypeOK
    PictureIsComplete
PROPERTIES
    PictureAdvances
    MergesAreKept
CHECK_DEADLOCK FALSE
