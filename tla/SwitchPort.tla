------------------------------ MODULE SwitchPort ------------------------------
\* What Guardian concludes of a switch port that a change disabled, or took
\* power from (guardian/plugins/switch_port.py).  The link and the power go
\* up and down at instants; Mist's event rows show the second, its port row
\* the state when the switch last reported, and its list of access points one
\* page.  The rule sees those rows and must not say what did not happen.
EXTENDS Integers, Sequences, FiniteSets, FiniteSetsExt

CONSTANTS
    PerSecond,        \* instants in a second
    WINDOW_CAP, POWER_BASELINE,             \* in instants
    EVENT_LIMIT, AP_LIMIT,                  \* rows of a page
    MaxTick, MaxAccessPoints

PortAssumption ==
    /\ PerSecond \in Nat \ {0} /\ WINDOW_CAP \in Nat /\ POWER_BASELINE \in Nat
    /\ AP_LIMIT \in Nat /\ MaxAccessPoints \in Nat

VARIABLES now, port, powered, history, report, change
vars == <<now, port, powered, history, report, change>>

Never == -1
Second(tick) == tick \div PerSecond
Moment(tick) == Second(tick) * PerSecond

\* The port's link, its PoE setting and whether what is attached draws power.
Init ==
    /\ now = 0 /\ history = <<>> /\ powered = {} /\ change = Never
    /\ port \in [up : BOOLEAN, poe : BOOLEAN, draws : BOOLEAN]
    /\ report = [at |-> Never, poe_on |-> FALSE, power_draw |-> 0]

Delivers(p) == p.poe /\ p.draws
\* An instant passes, in which one thing happens.
Tick ==
    /\ now < MaxTick /\ now' = now + 1
    /\ powered' = IF Delivers(port) THEN powered \union {now} ELSE powered
Logged(kind) == history' = Append(history, [kind |-> kind, at |-> now])

LinkFlips ==
    /\ Tick /\ port' = [port EXCEPT !.up = ~@]
    /\ Logged(IF port.up THEN "SW_PORT_DOWN" ELSE "SW_PORT_UP")
    /\ UNCHANGED <<report, change>>
PowerSwitches ==
    /\ Tick /\ port' = [port EXCEPT !.poe = ~@]
    /\ Logged(IF port.poe THEN "SW_POE_PORT_DISABLED" ELSE "SW_POE_PORT_ENABLED")
    /\ UNCHANGED <<report, change>>
SwitchReports ==
    /\ Tick
    /\ report' = [at |-> Moment(now), poe_on |-> port.poe, power_draw |-> IF Delivers(port) THEN 1 ELSE 0]
    /\ UNCHANGED <<port, history, change>>
Passes == Tick /\ UNCHANGED <<port, history, report, change>>
\* The audit is applied: its effects on the port come after.
Applies == change = Never /\ change' = now /\ UNCHANGED <<now, port, powered, history, report>>

Next == LinkFlips \/ PowerSwitches \/ SwitchReports \/ Passes \/ Applies
Spec == Init /\ [][Next]_vars

------------------------
\* The reads.
\* evidence_windows: equal halves around the change; a request carries whole seconds.
duration == Min({WINDOW_CAP, now - change})
start == change - duration
end == change + duration
_epochs == Second(start) .. Second(end)

Row(i) == [kind |-> history[i].kind, at |-> Moment(history[i].at)]
Matching == {i \in DOMAIN history : Second(history[i].at) \in _epochs}
\* One page, oldest first: more rows than it holds make the read partial.
read_rows ==
    LET found == Matching
        page == {i \in found : Cardinality({j \in found : j < i}) < EVENT_LIMIT}
    IN  [complete |-> page = found, rows |-> {Row(i) : i \in page}]

------------------------
\* The rule.
ATTRIBUTES == [disabled |-> [down |-> "SW_PORT_DOWN", severity |-> 2],
               poe_disabled |-> [down |-> "SW_POE_PORT_DISABLED", severity |-> 3]]

ContradictsSlip(rows) == FALSE
Contradicts(rows) == \E e, f \in rows : e.at = f.at /\ e.kind # f.kind
\* The history cannot be relied on when rows are missing, out of place or of one second.
_usable(read) ==
    [usable |-> /\ read.complete
                /\ \A e \in read.rows : start <= e.at /\ e.at <= end
                /\ ~Contradicts(read.rows),
     events |-> read.rows]
_history == _usable(read_rows)
losses(events, kind) == {e \in events : e.kind = kind /\ change <= e.at /\ e.at <= end}
\* Sorted by time, then by name: the last one of several.
LastIs(events, kind) == \E e \in events : e.kind = kind /\ \A f \in events : f.at <= e.at

\* A baseline is measured delivery before the change, never an enabled setting.
PoweredSlip == report.poe_on /\ report.power_draw > 0 /\ change - POWER_BASELINE <= report.at
Powered == report.poe_on /\ report.power_draw > 0 /\ change - POWER_BASELINE <= report.at /\ report.at < change
WasUp(events) == LastIs({e \in events : e.at < change}, "SW_PORT_UP")
RecoveredAfter(events) ==
    LET lost == losses(events, "SW_PORT_DOWN")
    IN  LastIs({e \in events : \E l \in lost : e.at > l.at}, "SW_PORT_UP")

\* The managed access points of the site: which switch port each one's LLDP names.
Lists == UNION {[1 .. n -> {"port", "namesake", "none"}] : n \in 0 .. MaxAccessPoints}
Listed(list) == SubSeq(list, 1, Min({Len(list), AP_LIMIT}))
_attached(link) == link = "port"
SettledListSlip(rows) == TRUE
SettledList(rows) == Len(rows) < AP_LIMIT
_neighbour(list) ==
    LET rows == Listed(list)
    IN  IF ~SettledList(rows) THEN "unsettled"
        ELSE IF \E i \in DOMAIN rows : _attached(rows[i]) THEN "attached"
        ELSE "unattached"

\* One attribute's judgement.  The loss stands on its own evidence; the
\* observation is covered only when what hangs on the port was told too.
_judged(attribute, list, seen) ==
    LET events == seen.events
        lost == seen.usable /\ losses(events, ATTRIBUTES[attribute].down) # {}
        found == lost /\ (IF attribute = "disabled" THEN WasUp(events) ELSE Powered)
        recovered == attribute = "disabled" /\ RecoveredAfter(events)
        severity == ATTRIBUTES[attribute].severity
    IN  [found |-> found,
         satisfied |-> found /\ _neighbour(list) # "unsettled",
         peak |-> IF found THEN severity ELSE 0,
         current |-> IF found /\ ~recovered THEN severity ELSE 0]
_outcome(attribute, list) == _judged(attribute, list, _history)
\* The worst of both, when the change wrote both.
evaluate(list) ==
    LET outcomes == {_outcome(a, list) : a \in DOMAIN ATTRIBUTES}
    IN  [peak |-> Max({o.peak : o \in outcomes}), current |-> Max({o.current : o \in outcomes})]

------------------------
\* Properties, against what happened.
Applied == change # Never
LinkEvents(t) == {i \in DOMAIN history : history[i].at <= t /\ history[i].kind \in {"SW_PORT_UP", "SW_PORT_DOWN"}}
\* The link at the end of an instant: a later flip tells what it was before any.
UpAfter(before, all) ==
    IF before # {} THEN history[Max(before)].kind = "SW_PORT_UP"
    ELSE IF all # {} THEN history[Min(all)].kind = "SW_PORT_DOWN"
    ELSE port.up
UpAt(t) == UpAfter(LinkEvents(t), LinkEvents(now))
OfTheChange == {t \in 0 .. now : Second(t) = Second(change)}

\* A port reported as lost was up as the change came, to the second, and went
\* down after: not a port that was down already and flapped since, whatever two
\* rows of one second or a page cut short suggest.
LossIsTrue ==
    (Applied /\ _outcome("disabled", <<>>).found) =>
        /\ \E t \in OfTheChange \union {Moment(change) - 1} : UpAt(t)
        /\ \E i \in DOMAIN history : history[i].kind = "SW_PORT_DOWN" /\ Second(history[i].at) >= Second(change)

\* Harm reported as over is of a port that is up when the window closes: power
\* switched on again ends nothing.
RecoveryIsTrue ==
    Applied =>
        LET said == evaluate(<<>>)
        IN  (said.peak > 0 /\ said.current = 0) => UpAt(Moment(end) + PerSecond - 1)

\* A port reported to have lost its power delivered some before the change, and
\* was switched off after.
PowerLossIsTrue ==
    (Applied /\ _outcome("poe_disabled", <<>>).found) =>
        /\ \E t \in powered : change - POWER_BASELINE <= t /\ Second(t) <= Second(change) /\ Moment(t) < change
        /\ \E i \in DOMAIN history :
               history[i].kind = "SW_POE_PORT_DISABLED" /\ Second(history[i].at) >= Second(change)

\* That no managed access point hangs on the port is said of the whole list, and
\* one that hangs on a port of the same name elsewhere is not counted.
NeighbourIsTrue ==
    \A list \in Lists :
        /\ _neighbour(list) = "unattached" => \A i \in DOMAIN list : list[i] # "port"
        /\ _neighbour(list) = "attached" => \E i \in DOMAIN list : list[i] = "port"
=============================================================================
