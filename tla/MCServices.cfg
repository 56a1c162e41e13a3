SPECIFICATION Spec
INVARIANTS
    TypeOK
    TwoPersons
    WritesAreKnown
    AccountsAreHeld
    SettingsAreTrue
    PlansAreSafe
PROPERTIES
    EventsTakeEffect
    HistoryIsTrue
    JournalSpec
    CompensationsAreFaithful
    SignInsHappenOnce
    PastIsSettled
CHECK_DEADLOCK FALSE
