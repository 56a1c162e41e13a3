--------------------------- MODULE SerialRestores ---------------------------
\* What the organization lease promises (services/restore_lease.py): the
\* restores of one organization write to Mist one after another.  Each has
\* one tenure; nothing is written outside one, two never overlap, a
\* restore that has written never gets a second one, and no action is
\* applied twice.
CONSTANTS Ops, Actions

VARIABLES
    tenure,     \* "before", "writing" or "over", per operation
    written     \* actions Mist applied, per operation

Init ==
    /\ tenure = [op \in Ops |-> "before"]
    /\ written = [op \in Ops |-> {}]

Begin(op) ==
    /\ tenure[op] = "before"
    /\ \A o \in Ops : tenure[o] # "writing"
    /\ tenure' = [tenure EXCEPT ![op] = "writing"]
    /\ UNCHANGED written

Write(op, i) ==
    /\ tenure[op] = "writing"
    /\ i \notin written[op]
    /\ written' = [written EXCEPT ![op] = @ \union {i}]
    /\ tenure' \in {tenure, [tenure EXCEPT ![op] = "over"]}

End(op) ==
    /\ tenure[op] = "writing"
    /\ tenure' = [tenure EXCEPT ![op] = IF written[op] = {} THEN "before" ELSE "over"]
    /\ UNCHANGED written

Next == \E op \in Ops : Begin(op) \/ End(op) \/ \E i \in Actions : Write(op, i)

Spec == Init /\ [][Next]_<<tenure, written>>
=============================================================================
