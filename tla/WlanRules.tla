------------------------------ MODULE WlanRules ------------------------------
\* What Guardian concludes of the clients of a WLAN that a change removed, or
\* whose authentication it changed (guardian/plugins/wlan_removal.py and
\* wlan_auth.py).  Clients join, are refused and leave at instants; each rule
\* reads the same window before and after the change, in whole seconds and one
\* page of rows each, and compares every client with itself.
EXTENDS Integers, Sequences, FiniteSets, FiniteSetsExt

CONSTANTS
    Clients,
    PerSecond,      \* instants in a second
    WINDOW_CAP,     \* in instants
    ROW_LIMIT,      \* rows of a page
    MaxTick

ClientsAssumption == IsFiniteSet(Clients) /\ PerSecond \in Nat \ {0} /\ WINDOW_CAP \in Nat

VARIABLES now, history, change
vars == <<now, history, change>>

Never == -1
Second(tick) == tick \div PerSecond

Init == now = 0 /\ history = <<>> /\ change = Never

OfClient(c) == {i \in DOMAIN history : history[i].client = c}
Connected(c) == OfClient(c) # {} /\ history[Max(OfClient(c))].kind = "success"
Happens(c, kind) ==
    /\ now < MaxTick /\ now' = now + 1
    /\ history' = Append(history, [client |-> c, kind |-> kind, at |-> now])
    /\ UNCHANGED change

\* A client authenticates and is connected until it leaves; one refused is not.
Joins == \E c \in Clients : ~Connected(c) /\ Happens(c, "success")
Refused == \E c \in Clients : ~Connected(c) /\ Happens(c, "failure")
Leaves == \E c \in Clients : Connected(c) /\ Happens(c, "left")
Passes == now < MaxTick /\ now' = now + 1 /\ UNCHANGED <<history, change>>
Applies == change = Never /\ change' = now /\ UNCHANGED <<now, history>>

Next == Joins \/ Refused \/ Leaves \/ Passes \/ Applies
Spec == Init /\ [][Next]_vars

------------------------
\* The reads.
\* evidence_windows: the request carries whole seconds, and both windows name
\* the second of the change.
duration == Min({WINDOW_CAP, now - change})
end == change + duration
before == Second(change - duration) .. Second(change)
after == Second(change) .. Second(end)

\* A page of a window's rows: more than it holds make the read partial.
Page(found) == {i \in found : Cardinality({j \in found : j < i}) < ROW_LIMIT}
read_rowsSlip(found) == [complete |-> TRUE, rows |-> Page(found)]
read_rows(found) == [complete |-> Page(found) = found, rows |-> Page(found)]

------------------------
\* The removal rule: sessions.
Sessions == {i \in DOMAIN history : history[i].kind = "success"}
Since(i) == {j \in OfClient(history[i].client) : j > i}
Ended(i) == Since(i) # {}
ConnectedIn(i) == Second(history[i].at)
LeftIn(i) == Second(history[Min(Since(i))].at)
\* A session's row is in each window the session was open in.
SessionsIn(window) ==
    {i \in Sessions : ConnectedIn(i) <= Max(window) /\ (Ended(i) => LeftIn(i) >= Min(window))}

_departedSlip(i) == Ended(i) /\ change <= LeftIn(i) * PerSecond /\ LeftIn(i) * PerSecond <= end
_departed(i) ==
    /\ Ended(i) /\ ConnectedIn(i) * PerSecond < change
    /\ change <= LeftIn(i) * PerSecond /\ LeftIn(i) * PerSecond <= end
_sessions ==
    LET earlier == read_rows(SessionsIn(before))
        later == read_rows(SessionsIn(after))
    IN  [satisfied |-> earlier.complete /\ later.complete,
         clients |-> {history[i].client : i \in {j \in later.rows : _departed(j)}}]

\* Sessions that ended after the change are a disruption that still stands.
removal_evaluate ==
    LET read == _sessions
        severity == IF read.satisfied /\ read.clients # {} THEN 2 ELSE 0
    IN  [satisfied |-> read.satisfied, peak |-> severity, current |-> severity]

------------------------
\* The authentication rule: attempts.
AttemptsIn(window) ==
    {i \in DOMAIN history : history[i].kind \in {"success", "failure"} /\ Second(history[i].at) \in window}
LastIs(rows, kind) ==
    \E i \in rows : history[i].kind = kind /\ \A j \in rows : Second(history[j].at) <= Second(history[i].at)

ContradictsSlip(rows) == FALSE
Contradicts(rows) ==
    \E i, j \in rows : /\ history[i].client = history[j].client /\ history[i].kind # history[j].kind
                       /\ Second(history[i].at) = Second(history[j].at)
_affected(earlier, later) ==
    {c \in Clients : /\ LastIs(earlier \intersect OfClient(c), "success")
                     /\ \E i \in later \intersect OfClient(c) : history[i].kind = "failure"}
_attempts ==
    LET earlier == read_rows(AttemptsIn(before))
        later == read_rows(AttemptsIn(after))
        rows == earlier.rows \union later.rows
        affected == _affected(earlier.rows, later.rows)
    IN  [usable |-> earlier.complete /\ later.complete /\ ~Contradicts(rows),
         attempted |-> rows # {},
         affected |-> affected,
         recovered |-> {c \in affected : LastIs(later.rows \intersect OfClient(c), "success")}]
\* Only counts are compared: the clients themselves are never reported.
auth_evaluate ==
    LET read == _attempts
        judged == read.usable /\ read.attempted
    IN  [status |-> IF ~read.usable THEN "unsatisfied" ELSE IF ~read.attempted THEN "not_exercised" ELSE "satisfied",
         peak |-> IF judged /\ read.affected # {} THEN 2 ELSE 0,
         current |-> IF judged /\ Cardinality(read.recovered) # Cardinality(read.affected) THEN 2 ELSE 0]

------------------------
\* Properties, against what happened.
Applied == change # Never
SecondOf(i) == Second(history[i].at)
Now == Second(change)

\* A client counted as disconnected was connected as the change came, to the
\* second, and left after; and when none is counted, none did.
DeparturesAreTrue ==
    (Applied /\ removal_evaluate.satisfied) =>
        /\ removal_evaluate.peak > 0 =>
               \E i \in Sessions : ConnectedIn(i) <= Now /\ Ended(i) /\ LeftIn(i) >= Now
        /\ removal_evaluate.peak = 0 =>
               ~\E i \in Sessions : ConnectedIn(i) < Now /\ Ended(i) /\ LeftIn(i) > Now /\ LeftIn(i) <= Second(end)

\* Each client counted as affected authenticated by the change, to the second,
\* and was refused after it; the harm is said to be over only when each of them
\* was let in at its last attempt.
AffectedAreTrue ==
    (Applied /\ auth_evaluate.peak > 0) =>
        LET affected == _attempts.affected
        IN  /\ \A c \in affected : \E i, j \in OfClient(c) :
                   /\ history[i].kind = "success" /\ SecondOf(i) <= Now
                   /\ history[j].kind = "failure" /\ SecondOf(j) >= Now /\ i < j
            /\ auth_evaluate.current = 0 <=>
                   \A c \in affected : history[Max(AttemptsIn(after) \intersect OfClient(c))].kind = "success"

\* That nobody was affected, or nobody tried, is said of every client's attempts:
\* one that tried in the very second of the change belongs to both windows and
\* is not promised.
QuietIsTrue ==
    Applied =>
        LET said == auth_evaluate
        IN  /\ said.status = "not_exercised" => AttemptsIn(before) \union AttemptsIn(after) = {}
            /\ (said.status = "satisfied" /\ said.peak = 0) =>
                   \A c \in Clients :
                       LET earlier == AttemptsIn(before) \intersect OfClient(c)
                           later == AttemptsIn(after) \intersect OfClient(c)
                       IN  ~(/\ earlier # {} /\ history[Max(earlier)].kind = "success"
                             /\ earlier \intersect later = {}
                             /\ \E j \in later : history[j].kind = "failure")
=============================================================================
