--------------------------- MODULE VersionJournal ---------------------------
\* What the history of one object promises: versions are only ever
\* appended, a capture records a difference from the version before it, and
\* a deletion is recorded once, over the configuration it deleted.  What a
\* restore wrote is recorded whether or not it was captured first.
EXTENDS Integers, SequencesExt

CONSTANT Configs
VARIABLE journal

Capture(c) ==
    /\ journal # <<>> => Last(journal).deleted \/ Last(journal).config # c
    /\ \E e \in {"initial", "created", "updated"} :
          /\ e = "initial" => journal = <<>>
          /\ e = "created" => journal = <<>> \/ Last(journal).deleted
          /\ e = "updated" => journal # <<>>
          /\ journal' = Append(journal, [config |-> c, deleted |-> FALSE, event |-> e])

Delete ==
    /\ journal # <<>>
    /\ ~Last(journal).deleted
    /\ journal' = Append(journal, [config |-> Last(journal).config, deleted |-> TRUE,
                                   event |-> "deleted"])

Restore(c) ==
    /\ journal # <<>>
    /\ journal' = Append(journal, [config |-> c, deleted |-> FALSE, event |-> "restored"])

RestoreDelete ==
    /\ journal # <<>>
    /\ journal' = Append(journal, [config |-> Last(journal).config, deleted |-> TRUE,
                                   event |-> "restored"])

Init == journal = <<>>
Next ==
    \/ \E c \in Configs : Capture(c) \/ Restore(c)
    \/ Delete \/ RestoreDelete
Spec == Init /\ [][Next]_journal
=============================================================================
