-------------------------- MODULE DeploymentPairing --------------------------
\* Whether one device applied an audit's change (guardian/deployment.py).
\* Triggers - configuration changes of several audits, or of none - and their
\* outcomes happen at instants; a receipt shows only the second, and whose the
\* outcome is only when the provider said so; some receipts carry no provider
\* time at all, only when they came.  Pairing sees the receipts and must not
\* say what did not happen.  Each state is a whole history: the function sorts
\* what it is given, so the order receipts came in shows only in what is
\* displayed.
EXTENDS Integers, Sequences, FiniteSets, FiniteSetsExt

CONSTANTS
    Audit,          \* the audit being judged
    Changes,        \* whose trigger it may be: an audit, "rrm" or "unlinked"
    Kinds,          \* outcome kinds: "configured", "failed", "reverted"
    PAIRING_BOUND,  \* in seconds
    PerSecond,      \* instants in a second
    MaxTick, MaxUntimed, MaxLag

VARIABLES now, history, stated, received
vars == <<now, history, stated, received>>

Unlinked == "unlinked"
RRM == "rrm"
Trigger == "trigger"
Audits == Changes \ {Unlinked, RRM}
KindsAssumption ==
    /\ Audit \in Audits /\ Kinds \intersect {Trigger, "unknown", "ambiguous"} = {}
    /\ PAIRING_BOUND \in Nat /\ PerSecond \in Nat \ {0} /\ MaxTick \in Nat /\ MaxLag \in Nat
_TROUBLE == {"failed", "reverted"}
Warns == 2

\* A receipt: the second it is placed in, and whether the provider gave it.
provider_second(tick) == tick \div PerSecond
Event(kind, of, whose, timed, lag) ==
    [kind |-> kind, of |-> of, whose |-> whose, timed |-> timed, at |-> provider_second(now),
     second |-> provider_second(now) + (IF timed THEN 0 ELSE lag)]
Shown == {FALSE} \X (0 .. MaxLag) \union {<<TRUE, 0>>}
Untimed == Cardinality({i \in DOMAIN history : ~history[i].timed})

\* The audit's own event may state its time; its receipt has one in any case.
Init == now = 0 /\ history = <<>> /\ stated \in BOOLEAN /\ received \in 0 .. provider_second(MaxTick)

\* The device answers the change it applied last, within the bound; an answer the
\* provider links to its audit may come later still.
Latest == LET triggers == {i \in DOMAIN history : history[i].kind = Trigger}
          IN  IF triggers = {} THEN {} ELSE {Max(triggers)}
Happens(kind, of, whose) ==
    /\ now < MaxTick /\ now' = now + 1
    /\ \E s \in Shown :
           /\ s[1] \/ Untimed < MaxUntimed
           /\ history' = Append(history, Event(kind, of, whose, s[1], s[2]))
    /\ UNCHANGED <<stated, received>>

Triggered == \E c \in Changes : Happens(Trigger, c, c)
Answered ==
    \E k \in Kinds :
       \/ \E a \in Audits : (\E i \in DOMAIN history : history[i].of = a /\ history[i].kind = Trigger)
                            /\ Happens(k, a, a)
       \/ \E i \in Latest : /\ provider_second(now) - history[i].at <= PAIRING_BOUND
                            /\ Happens(k, Unlinked, history[i].whose)
Passes == now < MaxTick /\ now' = now + 1 /\ UNCHANGED <<history, stated, received>>

Next == Triggered \/ Answered \/ Passes
Spec == Init /\ [][Next]_vars

------------------------
\* Pairing.
resolve_anchor ==
    LET triggered == {history[i].second : i \in {j \in DOMAIN history :
                         history[j].kind = Trigger /\ history[j].of = Audit /\ history[j].timed}}
    IN  IF stated THEN 0 ELSE IF triggered # {} THEN Min(triggered) ELSE received
\* pair_deployments: what falls in the window the anchor opens.
pairing_start == resolve_anchor - PAIRING_BOUND
Events == {i \in DOMAIN history : history[i].second >= pairing_start}
Triggers == {i \in Events : history[i].kind = Trigger}
Outcomes == Events \ Triggers
identity(t) == history[t].of

may_precede(t, o) == ~history[t].timed \/ history[t].second <= history[o].second
surely_betweenSlip(u, t, o) ==
    /\ history[u].timed /\ history[o].timed
    /\ history[t].second <= history[u].second /\ history[u].second <= history[o].second /\ u # t
surely_between(u, t, o) ==
    /\ history[u].timed /\ history[o].timed
    /\ history[t].second < history[u].second /\ history[u].second < history[o].second

Assigned(o) == [said |-> "assigned", at |-> history[o].second, kind |-> history[o].kind]
Uncertain(o) == [said |-> "uncertain", at |-> history[o].second, kind |-> history[o].kind]

\* An outcome its audit is known of: only that audit's own trigger, not after it.
_exact_link(o) ==
    LET linked == {t \in Triggers : history[t].of = history[o].of /\ may_precede(t, o)}
    IN  IF linked = {} \/ history[o].of # Audit THEN {}
        ELSE IF history[o].timed /\ \E t \in linked : history[t].timed THEN {Assigned(o)}
        ELSE {Uncertain(o)}

\* Every trigger that may be the latest at or before an outcome without one.
_fallback_triggers(o) ==
    LET possible == {t \in Triggers : /\ may_precede(t, o)
                                      /\ \/ ~history[o].timed
                                         \/ history[o].second - Min({history[t].second, history[o].second})
                                                <= PAIRING_BOUND}
    IN  {t \in possible : ~\E u \in Triggers : surely_between(u, t, o)}
_time_fallbackSlip(o) ==
    LET found == _fallback_triggers(o)
    IN  IF Audit \notin {identity(t) : t \in found} THEN {}
        ELSE IF \E t \in found \union {o} : ~history[t].timed THEN {Uncertain(o)}
        ELSE {Assigned(o)}
_time_fallback(o) ==
    LET found == _fallback_triggers(o)
    IN  IF Audit \notin {identity(t) : t \in found} THEN {}
        ELSE IF \E t \in found \union {o} : ~history[t].timed THEN {Uncertain(o)}
        ELSE IF {identity(t) : t \in found} # {Audit} THEN {Uncertain(o)}
        ELSE {Assigned(o)}
_assign == UNION {IF history[o].of = Unlinked THEN _time_fallback(o) ELSE _exact_link(o) : o \in Outcomes}

State(state, peak, current) == [state |-> state, peak |-> peak, current |-> current]
_pair_device ==
    LET assigned == {x \in _assign : x.said = "assigned"}
        last == {x.at : x \in {y \in assigned : \A z \in assigned : z.at <= y.at}}
        unsettling == {x \in _assign : x.said = "uncertain" /\ \A l \in last : x.at >= l}
        final == {x.kind : x \in {y \in assigned : y.at \in last}}
        peak == IF \E x \in assigned : x.kind \in _TROUBLE THEN Warns ELSE 0
    IN  IF ~\E t \in Triggers : history[t].of = Audit THEN State("unknown", 0, 0)
        ELSE IF unsettling # {} THEN State("ambiguous", peak, 0)
        ELSE IF assigned = {} THEN State("unknown", 0, 0)
        ELSE IF Cardinality(final) > 1 THEN State("ambiguous", peak, IF final \subseteq _TROUBLE THEN Warns ELSE 0)
        ELSE State(CHOOSE k \in final : TRUE, peak, IF final \subseteq _TROUBLE THEN Warns ELSE 0)

------------------------
\* Properties, against what happened.
\* The outcomes that were the audit's own, as they happened.
Own == {i \in DOMAIN history : history[i].kind # Trigger /\ history[i].whose = Audit}
InSight == {i \in Own : history[i].second >= pairing_start}

\* Once pairing settles on a state, that was the last outcome of the audit's
\* change on the device: neither two events of one second, nor a receipt with
\* no provider time, nor another change's trigger makes it name another.
SettledIsTrue ==
    _pair_device.state \in Kinds => InSight # {} /\ history[Max(InSight)].kind = _pair_device.state

\* A warning is never another change's failure: one of the audit's own
\* outcomes did fail or was reverted.
WarnedForItsOwn ==
    /\ _pair_device.peak = Warns => \E i \in Own : history[i].kind \in _TROUBLE
    /\ _pair_device.current <= _pair_device.peak
=============================================================================
