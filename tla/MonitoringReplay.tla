--------------------------- MODULE MonitoringReplay ---------------------------
\* How harmful a monitored change looks, computed twice from one record.
\* Monitoring assesses a session as its observations, incidents and device
\* comparisons come in (services/monitoring.py, impact_analysis.py,
\* impact_evidence.py); the Guardian replays the record later, for the metrics,
\* incident types and findings its plug-ins selected (guardian/monitoring.py).
\* Bands are 0 .. 3: none, info, warning, critical.
EXTENDS Integers, Sequences, FiniteSets, FiniteSetsExt, Functions

CONSTANTS
    Samples,      \* SLE samples: [scope, values, counts, no_data, states, errors, metric_errors]
    Plans,        \* relevance plans: [mode, metrics, incident_types, finding_kinds]
    Selections,   \* what the Guardian's plug-ins may select of a session, the same shape
    Incidents,    \* [type, severity]
    Findings,     \* [kind, severity]: what a device comparison may find
    WARNING_DELTA, CRITICAL_DELTA,
    MaxObservations, MaxIncidents, MaxFollowups

\* Bands of incidents and findings; what a sample measured is a number, and what is
\* a critical drop is a drop.
SamplesAssumption ==
    /\ \A i \in Incidents : i = [type |-> i.type, severity |-> i.severity] /\ i.severity \in 0 .. 3
    /\ \A f \in Findings : f.severity \in 0 .. 3
    /\ \A s \in Selections : {"mode", "metrics", "incident_types"} \subseteq DOMAIN s
    /\ \A s \in Samples : \A m \in DOMAIN s.values : s.values[m] \in Int
    /\ WARNING_DELTA \in Int /\ CRITICAL_DELTA \in Int /\ WARNING_DELTA <= CRITICAL_DELTA

VARIABLES plan, baseline, observations, incidents, comparison, severity, peak, stored
vars == <<plan, baseline, observations, incidents, comparison, severity, peak, stored>>

Info == 1
Warning == 2
Critical == 3
_worst(bands) == Max(bands \union {0})

------------------------
\* impact_evidence.py: what two samples say of a metric.
Count(sample, m) == IF m \in DOMAIN sample.counts THEN sample.counts[m] ELSE 0
_state(sample, m) ==
    IF sample = {} THEN "pending"
    ELSE LET s == CHOOSE x \in sample : TRUE
         IN  IF m \in s.metric_errors \union s.errors THEN "error"
             ELSE IF m \in s.no_data \/ (m \in DOMAIN s.counts /\ s.counts[m] = 0) THEN "no_data"
             ELSE IF m \in DOMAIN s.values /\ s.values[m] = 0 /\ Count(s, m) <= 0 THEN "missing"
             ELSE IF m \in DOMAIN s.states
                  THEN IF s.states[m] = "measured" /\ m \notin DOMAIN s.values THEN "missing" ELSE s.states[m]
             ELSE IF m \in DOMAIN s.values THEN "measured" ELSE "missing"
same_scope(before, after) == \E b \in before, a \in after : b.scope = a.scope
_names(sample) ==
    UNION {DOMAIN s.values \union s.no_data \union DOMAIN s.states \union s.metric_errors
           \union (s.errors \ {"general"}) : s \in sample}

evidence_rows(before, after, p) ==
    {LET old == {b.values[m] : b \in {x \in before : _state(before, m) = "measured"}}
         new == {a.values[m] : a \in {x \in after : _state(after, m) = "measured"}}
     IN  [name |-> m, before |-> _state(before, m), after |-> _state(after, m),
          delta |-> IF same_scope(before, after) THEN {y - x : x \in old, y \in new} ELSE {},
          selected |-> p.mode = "legacy_all" \/ m \in p.metrics] :
        m \in _names(before) \union _names(after) \union p.metrics}

Observed == {"measured", "no_data"}
evidence_coverage(rows, before, after, p) ==
    LET selected == {r \in rows : r.selected}
        excluded(s) == (s.errors \union s.metric_errors) \ (p.metrics \union {"general"})
        failures == \/ \E r \in selected : r.before \notin Observed \/ r.after \notin Observed
                    \/ \E s \in before \union after : \E e \in s.errors :
                           p.mode = "legacy_all" \/ e \notin excluded(s)
    IN  IF selected = {}
        THEN IF p.mode = "selected" /\ p.metrics = {} THEN "not_applicable" ELSE "insufficient"
        ELSE IF ~same_scope(before, after) \/ \A r \in selected : r.delta = {} THEN "insufficient"
        ELSE IF failures THEN "partial" ELSE "complete"

------------------------
\* impact_analysis.py assess_impact.
Deltas(rows) == UNION {r.delta : r \in {x \in rows : x.selected}}
assess_impact(before, after, open, found, p) ==
    LET rows == evidence_rows(before, after, p)
        coverage == evidence_coverage(rows, before, after, p)
        relevant == {i \in open : p.mode = "legacy_all" \/ i.type \in p.incident_types}
        findings == {f \in found : p.mode = "legacy_all" \/ f.kind \in p.finding_kinds}
        critical == \/ \E x \in relevant \union findings : x.severity = Critical
                    \/ \E d \in Deltas(rows) : d <= -CRITICAL_DELTA
        warning == \/ relevant \union findings # {} \/ \E d \in Deltas(rows) : d <= -WARNING_DELTA
    IN  [severity |-> IF critical THEN Critical ELSE IF warning THEN Warning
                      ELSE IF Deltas(rows) # {} /\ coverage = "complete" THEN 0 ELSE Info,
         coverage |-> coverage, rows |-> rows, plan |-> p, evidence |-> relevant \union findings]

has_unverified_zero(sample) ==
    \E s \in sample : \E m \in DOMAIN s.values : s.values[m] = 0 /\ Count(s, m) <= 0

\* A stored numeric verdict is repaired when it rests on a zero nothing sampled.
validate_zero_evidenceSlip(a, before, after) == a
validate_zero_evidence(a, before, after) ==
    IF ~has_unverified_zero(before) /\ ~has_unverified_zero(after) THEN a
    ELSE LET rows == evidence_rows(before, after, a.plan)
             coverage == evidence_coverage(rows, before, after, a.plan)
         IN  [a EXCEPT !.rows = rows, !.coverage = coverage,
                       !.severity = IF a.evidence # {} THEN @
                                    ELSE IF \E d \in Deltas(rows) : d <= -CRITICAL_DELTA THEN Critical
                                    ELSE IF \E d \in Deltas(rows) : d <= -WARNING_DELTA THEN Warning
                                    ELSE IF coverage = "complete" THEN 0 ELSE Info]
legacy_all == [mode |-> "legacy_all", metrics |-> {}, incident_types |-> {}, finding_kinds |-> {}]
legacy_assessment(before, after, said, evidence) ==
    LET rows == evidence_rows(before, after, legacy_all)
        coverage == evidence_coverage(rows, before, after, legacy_all)
        healthy == coverage = "complete" /\ \A r \in rows, d \in Deltas(rows) : d > -WARNING_DELTA
    IN  validate_zero_evidence([severity |-> IF said = 0 /\ ~healthy THEN Info ELSE said, coverage |-> coverage,
                                rows |-> rows, plan |-> legacy_all, evidence |-> evidence], before, after)

------------------------
\* Monitoring: the session's record and its own verdict.
Latest == IF observations = <<>> THEN {} ELSE {observations[Len(observations)]}
Unresolved(except) ==
    {[type |-> incidents[i].type, severity |-> incidents[i].severity] :
        i \in {j \in DOMAIN incidents \ except : ~incidents[j].resolved}}
Open == Unresolved({})
Current == UNION {c.current : c \in comparison}
AssessedSlip(after, open, found) ==
    LET now == assess_impact(baseline, after, open, found, plan).severity
    IN  /\ severity' = now /\ peak' = _worst({severity, now})
\* The verdict before this, the one now, and whichever is worst.
Assessed(after, open, found) ==
    LET now == assess_impact(baseline, after, open, found, plan).severity
    IN  /\ severity' = now /\ peak' = _worst({peak, severity, now})

Init ==
    /\ plan \in Plans /\ baseline \in {{}} \union {{s} : s \in Samples}
    /\ observations = <<>> /\ incidents = <<>> /\ comparison = {}
    /\ severity = assess_impact(baseline, {}, {}, {}, plan).severity /\ peak = severity
    /\ stored \in 0 .. 3

\* A device comparison's follow-up, recorded with the poll's observation.
Followed(found) ==
    comparison' = IF comparison = {} THEN {[initial |-> found, current |-> found, followups |-> 1]}
                  ELSE {[c EXCEPT !.current = found, !.followups = @ + 1] : c \in comparison}
_record ==
    /\ Len(observations) < MaxObservations
    /\ \E s \in Samples, found \in SUBSET Findings, due \in BOOLEAN :
           /\ IF due /\ \A c \in comparison : c.followups < MaxFollowups THEN Followed(found)
              ELSE found = {} /\ UNCHANGED comparison
           /\ observations' = Append(observations, s)
           /\ Assessed({s}, Open, UNION {c.current : c \in comparison'})
    /\ UNCHANGED <<plan, baseline, incidents, stored>>

\* _record_incident: the incident counts toward the peak even where a later
\* success, already on the timeline, closes it in the same step.
_record_incident ==
    /\ Len(incidents) < MaxIncidents
    /\ \E i \in Incidents, resolved \in BOOLEAN :
           LET open == IF resolved /\ i.type = "failed" THEN Open ELSE Open \union {i}
           IN  /\ incidents' = Append(incidents, [type |-> i.type, severity |-> i.severity,
                                                   resolved |-> resolved /\ i.type = "failed"])
               /\ severity' = assess_impact(baseline, Latest, open, Current, plan).severity
               /\ peak' = _worst({peak, assess_impact(baseline, Latest, Open \union {i}, Current, plan).severity})
    /\ UNCHANGED <<plan, baseline, observations, comparison, stored>>

\* _resolve_incidents: a success closes the failures before it of its kind.
_resolve_incidents ==
    \E closed \in SUBSET {i \in DOMAIN incidents : ~incidents[i].resolved} \ {{}} :
        /\ incidents' = [i \in DOMAIN incidents |-> [incidents[i] EXCEPT !.resolved = @ \/ i \in closed]]
        /\ severity' = assess_impact(baseline, Latest, Unresolved(closed), Current, plan).severity
        /\ UNCHANGED <<plan, baseline, observations, comparison, peak, stored>>

Next == _record \/ _record_incident \/ _resolve_incidents
Spec == Init /\ [][Next]_vars

------------------------
\* The Guardian's replay, of what a selection is about.
Selected(s) == [s EXCEPT !.mode = "selected"]
metric_checkSlip(before, after, m) ==
    [before |-> _state(before, m), after |-> _state(after, m),
     delta |-> IF _state(before, m) = "measured" /\ _state(after, m) = "measured"
               THEN {a.values[m] - b.values[m] : b \in before, a \in after} ELSE {}]
metric_check(before, after, m) ==
    [before |-> _state(before, m), after |-> _state(after, m),
     delta |-> IF _state(before, m) = "measured" /\ _state(after, m) = "measured" /\ same_scope(before, after)
               THEN {a.values[m] - b.values[m] : b \in before, a \in after} ELSE {}]
metric_severity(before, after, metrics) ==
    LET checks == {metric_check(before, after, m) : m \in metrics}
        deltas == UNION {c.delta : c \in checks}
        failed == \/ \E c \in checks : c.before \notin Observed \/ c.after \notin Observed
                  \/ \E s \in before \union after : \E e \in s.errors : e = "general" \/ e \in metrics
    IN  IF \E d \in deltas : d <= -CRITICAL_DELTA THEN Critical
        ELSE IF \E d \in deltas : d <= -WARNING_DELTA THEN Warning
        ELSE IF deltas # {} /\ ~failed THEN 0 ELSE Info

_metric_component(s) ==
    IF s.metrics = {} \/ observations = <<>> THEN {}
    ELSE LET bands == [i \in DOMAIN observations |-> metric_severity(baseline, {observations[i]}, s.metrics)]
         IN  {[peak |-> _worst(Range(bands)), current |-> bands[Len(bands)]]}
_incident_component(s) ==
    LET relevant == {i \in DOMAIN incidents : incidents[i].type \in s.incident_types}
    IN  IF s.incident_types = {} THEN {}
        ELSE {[peak |-> _worst({incidents[i].severity : i \in relevant}),
               current |-> _worst({incidents[i].severity : i \in {j \in relevant : ~incidents[j].resolved}})]}
_device_state_component(s) ==
    IF s.finding_kinds = {} THEN {}
    ELSE {[peak |-> _worst({f.severity : f \in {g \in c.initial \union c.current : g.kind \in s.finding_kinds}}),
           current |-> _worst({f.severity : f \in {g \in c.current : g.kind \in s.finding_kinds}})] : c \in comparison}
Replay(s) == _metric_component(s) \union _incident_component(s) \union _device_state_component(s)
replay_peak(s) == _worst({c.peak : c \in Replay(s)})
replay_current(s) == _worst({c.current : c \in Replay(s)})

------------------------
\* Properties.
\* The two implementations agree: the Guardian rates selected metrics exactly
\* as monitoring would have rated them, whatever is missing or failed in either
\* sample.
Parity ==
    \A s \in Selections : s.metrics # {} =>
        metric_severity(baseline, Latest, s.metrics)
            = assess_impact(baseline, Latest, {}, {}, [Selected(s) EXCEPT !.incident_types = {}]).severity

\* A replay finds no harm monitoring never recorded: a session whose own plan
\* covers the selection reached at least the replay's peak and, while it lasts,
\* is at least at the replay's current.
Covers(p, s) ==
    \/ p.mode = "legacy_all"
    \/ /\ s.metrics \subseteq p.metrics /\ s.incident_types \subseteq p.incident_types
       /\ s.finding_kinds \subseteq p.finding_kinds
ReplayIsRecorded ==
        \A s \in {x \in Selections : Covers(plan, x)} :
            /\ replay_peak(s) >= Warning => peak >= replay_peak(s)
            /\ replay_current(s) >= Warning => severity >= replay_current(s)
            /\ replay_current(s) <= replay_peak(s)

\* Read back from a document of before the stored verdicts, an alarm without an
\* incident or a finding rests on traffic that was measured, where a zero
\* nothing sampled is in the record; and health on a complete comparison.
ZeroRaisesNoAlarm ==
    LET read == legacy_assessment(baseline, Latest, stored, Open \union Current)
    IN  /\ read.severity = 0 => read.coverage = "complete"
        /\ read.severity >= Warning /\ Open \union Current = {}
           /\ (has_unverified_zero(baseline) \/ has_unverified_zero(Latest))
           => \E d \in Deltas(read.rows) : d <= -WARNING_DELTA
=============================================================================
