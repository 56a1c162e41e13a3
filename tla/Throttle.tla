------------------------------- MODULE Throttle -------------------------------
\* Counting attempts at a password or a code.
\*
\* An attempt is counted in each of its scopes before it is made.  A count
\* past a scope's limit refuses the attempt, and everything counted for it is
\* given back.  A success forgets its account's count and gives back one of
\* its address's, which others share.  One window is modelled: no count
\* expires.
EXTENDS Integers, FiniteSets, Sequences

CONSTANTS
    Requests,    \* attempts in progress
    Scopes,      \* the scopes of an attempt, in the order they are counted
    Cleared,     \* the one a success forgets
    Limit,       \* the attempts each scope tolerates
    MaxFailures  \* bound on the failures of a window

VARIABLES
    count,    \* the stored count of each scope
    failed,   \* the failures each scope has seen since it was forgotten
    attempt   \* each request's place

vars == <<count, failed, attempt>>

Keys == {Scopes[i] : i \in DOMAIN Scopes}
\* held: the scopes counted for the attempt and not given back.
Idle == [pc |-> "idle", held |-> {}]

Init ==
    /\ count = [k \in Keys |-> 0]
    /\ failed = [k \in Keys |-> 0]
    /\ attempt = [r \in Requests |-> Idle]

Next_(r) == Scopes[Cardinality(attempt[r].held) + 1]
Move(r, pc, held) == attempt' = [attempt EXCEPT ![r] = [pc |-> pc, held |-> held]]

\* reserve: count first, and let that count decide.
Reserve(r) ==
    LET k == Next_(r)
        held == attempt[r].held \cup {k} IN
    /\ attempt[r].pc = "idle" \/ (attempt[r].pc = "reserve" /\ attempt[r].held # Keys)
    /\ \A q \in Keys : failed[q] <= MaxFailures
    /\ count' = [count EXCEPT ![k] = @ + 1]
    /\ Move(r, IF count'[k] > Limit[k] THEN "refused" ELSE IF held = Keys THEN "check" ELSE "reserve", held)
    /\ UNCHANGED failed

\* release: give one back, of whatever is still counted.
Give(r, k) == count' = [count EXCEPT ![k] = IF @ > 0 THEN @ - 1 ELSE 0]
\* Only the scopes counted before the one that refused are given back.
GiveBackSlip(r) ==
    /\ attempt[r].pc = "refused"
    /\ Move(r, "idle", {})
    /\ UNCHANGED <<count, failed>>
GiveBack(r) ==
    /\ attempt[r].pc = "refused"
    /\ \E k \in attempt[r].held :
           /\ Give(r, k)
           /\ Move(r, IF attempt[r].held = {k} THEN "idle" ELSE "refused", attempt[r].held \ {k})
    /\ UNCHANGED failed

\* The credential was wrong: the counts stay.
Fail(r) ==
    /\ attempt[r].pc = "check"
    /\ failed' = [k \in Keys |-> failed[k] + 1]
    /\ Move(r, "idle", {})
    /\ UNCHANGED count

\* succeeded, then release of the others.
Succeed(r) ==
    /\ attempt[r].pc = "check"
    /\ count' = [count EXCEPT ![Cleared] = 0]
    /\ failed' = [failed EXCEPT ![Cleared] = 0]
    /\ Move(r, "release", attempt[r].held \ {Cleared})
Release(r) ==
    /\ attempt[r].pc = "release"
    /\ \E k \in attempt[r].held : Give(r, k) /\ Move(r, "idle", {})
    /\ UNCHANGED failed

Next == \E r \in Requests : Reserve(r) \/ GiveBack(r) \/ Fail(r) \/ Succeed(r) \/ Release(r)
Spec == Init /\ [][Next]_vars

------------------------
\* Properties.
TypeOK ==
    /\ count \in [Keys -> Nat]
    /\ \A r \in Requests : attempt[r].held \subseteq Keys /\ (attempt[r].pc = "idle" => attempt[r].held = {})

\* A shared scope counts the failures it saw and the attempts in progress, and
\* nothing else: refusals and successes leave nothing behind however they
\* interleave, and so the attempts being checked never exceed its limit
\* (ThrottleService.reserve, release).
SharedCountIsExact ==
    \A k \in Keys \ {Cleared} :
        /\ count[k] = failed[k] + Cardinality({r \in Requests : k \in attempt[r].held})
        /\ failed[k] + Cardinality({r \in Requests : attempt[r].pc = "check"}) <= Limit[k]
=============================================================================
