------------------------ MODULE InvestigationRecord ------------------------
\* What an investigation promises its readers: attempts of each kind are
\* numbered and bounded, one is open at a time, each ends once, a success
\* is published before anything else is tried, and the investigation closes
\* with its final run or when every final attempt has failed.
EXTENDS Integers

CONSTANTS Kinds, MaxAttempts

VARIABLES
    outcome,    \* of every attempt: "none", "open", "succeeded" or "failed"
    published,  \* the attempt published of each kind, or 0
    closed

Numbers == 1 .. MaxAttempts
Settled(o) == o \in {"none", "failed"}

Init ==
    /\ outcome = [k \in Kinds |-> [n \in Numbers |-> "none"]]
    /\ published = [k \in Kinds |-> 0]
    /\ closed = FALSE

Begin(k, n) ==
    /\ outcome[k][n] = "none" /\ outcome'[k][n] = "open"
    /\ ~closed /\ published[k] = 0
    /\ \A l \in Kinds, m \in Numbers : Settled(outcome[l][m]) \/ published[l] = m
    /\ \A m \in 1 .. n - 1 : outcome[k][m] = "failed"
    /\ outcome' = [outcome EXCEPT ![k][n] = "open"]
    /\ UNCHANGED <<published, closed>>

End(k, n) ==
    /\ outcome[k][n] = "open"
    /\ \E o \in {"succeeded", "failed"} : outcome' = [outcome EXCEPT ![k][n] = o]
    /\ UNCHANGED <<published, closed>>

Publish(k, n) ==
    /\ ~closed /\ published[k] = 0 /\ outcome[k][n] = "succeeded"
    /\ published' = [published EXCEPT ![k] = n]
    /\ closed' = (k = "final")
    /\ UNCHANGED outcome

Exhaust ==
    /\ ~closed /\ closed'
    /\ \A n \in Numbers : outcome["final"][n] = "failed"
    /\ UNCHANGED <<outcome, published>>

Next ==
    \/ \E k \in Kinds, n \in Numbers : Begin(k, n) \/ End(k, n) \/ Publish(k, n)
    \/ Exhaust

Spec == Init /\ [][Next]_<<outcome, published, closed>>
=============================================================================
