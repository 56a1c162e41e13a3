SPECIFICATION Spec
CONSTANTS
    NoInput = NoInput
    Audits = {a}
    Events = {d}
    Polls = {p}
    Harmful = {d, p}
    Receivers = {w1}
    Pollers = {w3}
    Mortal = {w3}
    MaxDeaths = 1
    Attempts = 3
INVARIANTS
    PictureIsComplete
CHECK_DEADLOCK FALSE
