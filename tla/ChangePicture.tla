----------------------------- MODULE ChangePicture -----------------------------
\* What a change group shows of a change's outcome. The projector stores a
\* picture computed from the audit's object versions and monitoring sessions
\* (services/change_groups.py _rebuild_once); the list and the detail read it
\* back, correcting it from the sessions as they are now (_summarize,
\* get_group, validated_group). network_impact_policy.py excludes changes that
\* cannot touch the network, once in Python and once as a Mongo expression.
\* One SLE metric is kept; a reading of 0 is a zero no sampled traffic backs.
\* How concurrent rebuilds contend is ChangeProjection's subject: a rebuild is
\* one step here. Bands are 0 .. 3: none, info, warning, critical.
EXTENDS Integers, Sequences, FiniteSets, FiniteSetsExt, Functions

CONSTANTS
    Audits, Devices,
    Refs,            \* versions an audit may produce: [object, version, kind, event, fields, site]
    AuditSite,       \* the sites an audit's own webhook names, for each audit
    Messages,        \* messages an audit may carry, by the object kind they resolve to
    Earlier,         \* sessions as an earlier release may have stored them
    Home,            \* the site of each device
    Scope,           \* whether a device's SLE is its own or its site's
    Readings,
    EXCLUDED_OBJECTS, METADATA_FIELDS,
    TILE_BAND, WARNING_DELTA, CRITICAL_DELTA, HIGH_CONFIDENCE_SAMPLES,
    MaxTime, MaxReadings

\* A session as it is stored: its levels are percentages.
SessionFields == {"site", "audits", "created", "ended", "open", "before", "after", "failed", "severity", "peak",
                  "degraded", "assessed"}
Levels == 0 .. 100
SessionRow(s) == DOMAIN s = SessionFields /\ s.before \subseteq Levels /\ s.after \in Seq(Levels)
LevelsAssumption ==
    /\ Readings \subseteq Levels /\ \A s \in Earlier : SessionRow(s)
    /\ \A r \in Refs : IsFiniteSet(r.fields)
    /\ Scope \in [Devices -> {"site", "device"}] /\ TILE_BAND \in Int

VARIABLES
    now, versions, session, group,
    settled          \* the audits none of whose sources changed since their last rebuild
vars == <<now, versions, session, group, settled>>

Info == 1
Warning == 2
Critical == 3
worst_severity(bands) == Max(bands \union {0})

------------------------
\* network_impact_policy.py
object_exclusion(ref) ==
    \/ ref.kind \in EXCLUDED_OBJECTS
    \/ /\ ref.event = "updated" /\ ref.fields # {} /\ ref.kind \in DOMAIN METADATA_FIELDS
       /\ ref.fields \subseteq METADATA_FIELDS[ref.kind]
exclusion_reason(objects, message) ==
    IF objects # {} THEN \A ref \in objects : object_exclusion(ref) ELSE message \in EXCLUDED_OBJECTS
confirmed_changes(g) == g.objects # {}
\* What the database is asked to evaluate.
excluded_expressionSlip(objects) ==
    /\ objects # {}
    /\ \A ref \in objects :
           \/ ref.kind \in EXCLUDED_OBJECTS
           \/ \E kind \in DOMAIN METADATA_FIELDS :
                  ref.kind = kind /\ ref.event = "updated" /\ ref.fields \subseteq METADATA_FIELDS[kind]
excluded_expression(objects) ==
    /\ objects # {}
    /\ \A ref \in objects :
           \/ ref.kind \in EXCLUDED_OBJECTS
           \/ \E kind \in DOMAIN METADATA_FIELDS :
                  /\ ref.kind = kind /\ ref.event = "updated"
                  /\ Cardinality(ref.fields) > 0 /\ ref.fields \subseteq METADATA_FIELDS[kind]

------------------------
\* A session's own verdict, and its correction.
Usable(s, reading) == s.before # {} /\ 0 \notin s.before /\ reading # 0
Drops(s, reading) == IF Usable(s, reading) THEN {b - reading : b \in s.before} ELSE {}
assess_impact(s, readings) ==
    LET drops == UNION {Drops(s, r) : r \in readings}
    IN  IF \E d \in drops : d >= CRITICAL_DELTA THEN Critical
        ELSE IF s.failed \in {"open", "answered"} \/ \E d \in drops : d >= WARNING_DELTA THEN Warning
        ELSE IF drops # {} THEN 0 ELSE Info
Latest(s) == IF s.after = <<>> THEN {} ELSE {s.after[Len(s.after)]}
Stored(s) ==
    [s EXCEPT !.severity = assess_impact(s, Latest(s)), !.assessed = TRUE,
              !.degraded = \E r \in Latest(s) : \E d \in Drops(s, r) : d >= WARNING_DELTA]

\* A configuration failure the session's own timeline shows was followed by a
\* success counts as resolved from then on.
reconciled_session(s) ==
    IF s.failed = "answered" THEN Stored([s EXCEPT !.failed = "resolved"]) ELSE s
has_unverified_zero(readings) == 0 \in readings
validated_session(original) ==
    LET s == reconciled_session(original)
        kept == \/ s.assessed /\ ~has_unverified_zero(s.before \union Latest(s))
                \/ ~has_unverified_zero(s.before \union Range(s.after))
        verdicts == IF s.after = <<>> THEN {assess_impact(s, {})}
                    ELSE {assess_impact(s, {r}) : r \in Range(s.after)}
    IN  IF kept THEN s
        ELSE [Stored(s) EXCEPT
                  !.peak = worst_severity(verdicts \union (IF s.failed = "none" THEN {} ELSE {Warning}))]
validated_sessions(ss) == [d \in DOMAIN ss |-> validated_session(ss[d])]

------------------------
\* The picture of a group, from its sessions (a function of their devices).
ScopeId(ss, d) == IF Scope[d] = "site" THEN ss[d].site ELSE d
_pairs(ss, family, id) ==
    UNION {UNION {Drops(ss[d], r) : r \in Latest(ss[d])} :
               d \in {x \in DOMAIN ss : Scope[x] = family /\ ScopeId(ss, x) = id}}
_movement(family, drops) ==
    [scope |-> family, drop |-> Max(UNION Range(drops)), sessions |-> Cardinality(DOMAIN drops),
     degraded |-> Cardinality({id \in DOMAIN drops : Max(drops[id]) >= TILE_BAND})]
\* The worst of each scope's readings; a scope shared by devices counts once.
measure_movementsSlip(ss) ==
    {LET drops == [id \in {i \in {ScopeId(ss, d) : d \in DOMAIN ss} : _pairs(ss, family, i) # {}} |->
                       {Min(_pairs(ss, family, id))}]
     IN  _movement(family, drops) :
         family \in {f \in {"site", "device"} :
                         \E d \in DOMAIN ss : _pairs(ss, f, ScopeId(ss, d)) # {}}}
measure_movements(ss) ==
    {LET drops == [id \in {i \in {ScopeId(ss, d) : d \in DOMAIN ss} : _pairs(ss, family, i) # {}} |->
                       _pairs(ss, family, id)]
     IN  _movement(family, drops) :
         family \in {f \in {"site", "device"} :
                         \E d \in DOMAIN ss : _pairs(ss, f, ScopeId(ss, d)) # {}}}

\* An open failure stands for every finding of a device and unresolved incident.
resolve_recovery_state(ss, movements) ==
    LET impacting == {d \in DOMAIN ss : ss[d].degraded \/ ss[d].severity >= Warning \/ ss[d].peak >= Warning}
    IN  IF DOMAIN ss = {} THEN "not_applicable"
        ELSE IF \E d \in DOMAIN ss : ss[d].open THEN "monitoring"
        ELSE IF \E d \in DOMAIN ss : ss[d].failed \in {"open", "answered"} THEN "unrecovered"
        ELSE IF impacting = {} THEN "completed"
        ELSE IF \E m \in movements : m.drop >= TILE_BAND THEN "unrecovered" ELSE "recovered"

resolve_baseline_confidence(ss) ==
    LET based == {d \in DOMAIN ss : ss[d].before # {}}
        usable(d) == SelectSeq(ss[d].after, LAMBDA r : Usable(ss[d], r))
    IN  IF based = {} THEN "none"
        ELSE IF based # DOMAIN ss \/ \E d \in DOMAIN ss : ~\E r \in Latest(ss[d]) : Usable(ss[d], r) THEN "low"
        ELSE IF \A d \in DOMAIN ss : Len(usable(d)) >= HIGH_CONFIDENCE_SAMPLES THEN "high" ELSE "medium"

\* What the sentence under the title and the assessment paragraph come to.
Worst(movements) == {m \in movements : m.drop > 0 /\ \A o \in movements : o.drop <= m.drop}
_impact_sentence(movements, recovery) ==
    IF recovery = "not_applicable" THEN "uncorrelated"
    ELSE IF Worst(movements) = {} THEN IF recovery = "monitoring" THEN "running" ELSE "completed"
    ELSE recovery
build_assessment(movements, recovery, monitored_for) ==
    IF recovery = "not_applicable" THEN "unmeasured"
    ELSE IF Worst(movements) = {} THEN "noise"
    ELSE IF recovery = "unrecovered" /\ monitored_for THEN "not recovered"
    ELSE IF recovery = "recovered" THEN "recovered" ELSE "still monitored"

\* The part of the picture measured from sessions; a correction made by a read
\* knows no monitoring window.
Picture(ss, movements, recovery, monitored_for) ==
    [severity |-> worst_severity({ss[d].severity : d \in DOMAIN ss}), recovery |-> recovery,
     confidence |-> resolve_baseline_confidence(ss), degraded |-> \E d \in DOMAIN ss : ss[d].degraded,
     summary |-> _impact_sentence(movements, recovery),
     assessment |-> build_assessment(movements, recovery, monitored_for)]
MeasuredFrom(ss, movements, monitored_for) ==
    Picture(ss, movements, resolve_recovery_state(ss, movements), monitored_for)
Measured(ss, monitored_for) == MeasuredFrom(ss, measure_movements(ss), monitored_for)

------------------------
\* Sources: audits, versions and sessions.
NoPicture == [severity |-> 0, recovery |-> "not_applicable", confidence |-> "none", degraded |-> FALSE,
              summary |-> "excluded", assessment |-> "excluded"]
Linked(a) == {d \in Devices : \E s \in session[d] : a \in s.audits}
\* What a device's session measured; the audits it is linked to are no part of that.
SessionsOf(ids) == [d \in {x \in ids : session[x] # {}} |-> [(CHOOSE s \in session[d] : TRUE) EXCEPT !.audits = {}]]

Init ==
    /\ now = 0 /\ settled = {} /\ versions = [a \in Audits |-> {}] /\ group = [a \in Audits |-> {}]
    /\ session \in [Devices -> {{}} \union {{s} : s \in Earlier}]
    /\ \A d \in Devices : \A s \in session[d] : s.site = Home[d]

\* An audit event opens its group, or is told of again.
_upsert_audit_group(a) ==
    /\ group[a] = {}
    /\ \E message \in Messages :
           group' = [group EXCEPT ![a] =
               {[occurred |-> now, message |-> message, objects |-> {}, ids |-> {},
                 sites |-> AuditSite[a], picture |-> NoPicture]}]
    /\ UNCHANGED <<now, versions, session, settled>>
Record(a) ==
    /\ \E ref \in Refs \ versions[a] :
           /\ \A v \in versions[a] : v.object = ref.object => v.version < ref.version
           /\ versions' = [versions EXCEPT ![a] = @ \union {ref}]
    /\ settled' = settled \ {a}
    /\ UNCHANGED <<now, session, group>>
Correlate(d, a) ==
    /\ group[a] # {} /\ d \notin Linked(a)
    /\ IF \E s \in session[d] : s.open
       THEN session' = [session EXCEPT ![d] = {[s EXCEPT !.audits = @ \union {a}] : s \in @}]
       ELSE /\ session[d] = {}
            /\ \E before \in {{}} \union {{r} : r \in Readings} :
                   session' = [session EXCEPT ![d] =
                       {Stored([site |-> Home[d], audits |-> {a}, created |-> now, ended |-> MaxTime, open |-> TRUE,
                                before |-> before, after |-> <<>>, failed |-> "none", severity |-> 0, peak |-> 0,
                                degraded |-> FALSE, assessed |-> TRUE])}]
    /\ settled' = settled \ {a}
    /\ UNCHANGED <<now, versions, group>>
Peaked(s, t) == [t EXCEPT !.peak = worst_severity({s.peak, s.severity, t.severity})]
Change(d, After(_)) ==
    /\ \E s \in session[d] : s.open
    /\ session' = [session EXCEPT ![d] = {Peaked(s, Stored(After(s))) : s \in @}]
    /\ settled' = settled \ UNION {s.audits : s \in session[d]}
    /\ UNCHANGED <<now, versions, group>>
Poll(d) ==
    /\ \A s \in session[d] : Len(s.after) < MaxReadings
    /\ \E r \in Readings : LET after(s) == [s EXCEPT !.after = Append(@, r)] IN Change(d, after)
Fail(d) ==
    /\ \A s \in session[d] : s.failed = "none"
    /\ LET after(s) == [s EXCEPT !.failed = "open"] IN Change(d, after)
Succeed(d) ==
    /\ \A s \in session[d] : s.failed \in {"open", "answered"}
    /\ LET after(s) == [s EXCEPT !.failed = "resolved"] IN Change(d, after)
Close(d) == LET after(s) == [s EXCEPT !.open = FALSE, !.ended = now] IN Change(d, after)

------------------------
\* The projector: one whole rebuild.
\* Only the newest version an audit produced of an object counts.
_project_objects(vs) == {v \in vs : \A w \in vs : w.object = v.object => w.version <= v.version}
_rebuild_once(a) ==
    /\ \E g \in group[a] :
           LET objects == _project_objects(versions[a])
               excluded == exclusion_reason(objects, g.message)
               ss == IF excluded THEN <<>> ELSE validated_sessions(SessionsOf(Linked(a)))
           IN  group' = [group EXCEPT ![a] =
                   {[g EXCEPT !.objects = objects, !.ids = DOMAIN ss, !.picture = IF excluded THEN NoPicture ELSE Measured(ss, DOMAIN ss # {}),
                              !.sites = @ \union {r.site : r \in {x \in objects : x.site # "org"}}
                                          \union {ss[d].site : d \in DOMAIN ss}]}]
    /\ group[a] # {} /\ settled' = settled \union {a}
    /\ UNCHANGED <<now, versions, session>>
Tick == now < MaxTime /\ now' = now + 1 /\ UNCHANGED <<versions, session, group, settled>>

Next ==
    \/ \E a \in Audits : _upsert_audit_group(a) \/ Record(a) \/ _rebuild_once(a) \/ \E d \in Devices : Correlate(d, a)
    \/ \E d \in Devices : Poll(d) \/ Fail(d) \/ Succeed(d) \/ Close(d)
    \/ Tick
Spec == Init /\ [][Next]_vars

------------------------
\* The reads.
\* A correction to no impact says so in a sentence of its own.
Corrected(clean) ==
    LET p == Measured(clean, FALSE)
    IN  IF p.severity >= Warning THEN p ELSE [p EXCEPT !.assessment = "not established"]
validated_groupSlip(g, ss) ==
    LET clean == validated_sessions(ss)
    IN  IF clean = ss THEN g.picture ELSE [Corrected(clean) EXCEPT !.recovery = Measured(ss, FALSE).recovery]
\* The stored picture stands unless one of its sessions needed correcting.
validated_group(g, ss) ==
    LET clean == validated_sessions(ss) IN IF clean = ss THEN g.picture ELSE Corrected(clean)
build_impact_label(picture) ==
    IF picture.recovery = "recovered" THEN "RECOVERED"
    ELSE IF picture.severity = Info THEN "NO DATA"
    ELSE IF picture.severity < Warning THEN "NO IMPACT" ELSE "IMPACT"
Summary(excluded, picture, ss) ==
    [picture |-> picture, label |-> IF excluded THEN "NOT APPLICABLE" ELSE build_impact_label(picture),
     tiles |-> {m \in measure_movements(validated_sessions(ss)) : m.drop >= TILE_BAND}]
_summarize(g) ==
    LET excluded == exclusion_reason(g.objects, g.message)
        ss == IF excluded THEN <<>> ELSE SessionsOf(g.ids)
    IN  Summary(excluded, IF excluded THEN NoPicture ELSE validated_group(g, ss), ss)
\* The rows a severity filter returns.
build_criteria(g, filter) ==
    /\ confirmed_changes(g)
    /\ CASE filter = "critical" -> g.picture.severity = Critical /\ ~excluded_expression(g.objects)
         [] filter = "warning" -> g.picture.severity = Warning /\ ~excluded_expression(g.objects)
         [] filter = "none" -> g.picture.severity <= Info \/ excluded_expression(g.objects)

\* The other changes a detail names, live or as of a past instant: a past view
\* looks only at the sites the audit itself named, and not past the instant.
Named(g) == {r.site : r \in {x \in g.objects : x.site # "org"}}
groups_touching_sites(a, sites, start, end) ==
    {b \in Audits \ {a} : \E g \in group[b] :
         /\ g.sites \intersect sites # {} /\ g.occurred \in start .. end
         /\ confirmed_changes(g) /\ ~excluded_expression(g.objects)}
get_group_competing(a, g, as_of) ==
    LET ss == IF exclusion_reason(g.objects, g.message) THEN <<>> ELSE SessionsOf(g.ids)
    IN  IF as_of = {}
        THEN groups_touching_sites(a, g.sites, Min({g.occurred} \union {ss[d].created : d \in DOMAIN ss}),
                 IF DOMAIN ss = {} THEN now ELSE Max({ss[d].ended : d \in DOMAIN ss}))
        ELSE groups_touching_sites(a, Named(g), g.occurred, Min({now} \union as_of))

------------------------
\* Properties.
\* The picture a row shows of a settled group is the one its rebuild measured:
\* correcting zeroes and answered failures at read time and at rebuild time
\* come to the same severity, recovery, confidence, degradation and summary.
DisplayedIsRebuilt ==
    \A a \in settled : \A g \in group[a] :
        [_summarize(g).picture EXCEPT !.assessment = ""] = [g.picture EXCEPT !.assessment = ""]

\* The rows a severity filter returns are the rows that show that severity: the
\* exclusion the database evaluates is the one Python applies.
FilterReturns(g, shown) ==
    /\ build_criteria(g, "critical") <=> shown = Critical
    /\ build_criteria(g, "warning") <=> shown = Warning
    /\ build_criteria(g, "none") <=> shown <= Info
FilterIsTheRow ==
    \A a \in settled : \A g \in group[a] :
        confirmed_changes(g) => FilterReturns(g, _summarize(g).picture.severity)

\* A settled change shown as recovered has no device that is still down: each
\* session has ended, no failure is open, and no latest reading is below the band.
RecoveredIsUp ==
    \A a \in settled : \A g \in group[a] :
        _summarize(g).label = "RECOVERED" =>
            \A d \in g.ids : \A s \in session[d] :
                /\ ~s.open /\ s.failed # "open"
                /\ \A r \in Latest(s) : \A drop \in Drops(s, r) : drop < TILE_BAND

\* A settled group's assessment says that monitoring goes on only while it does.
AssessmentIsTheRow ==
    \A a \in settled : \A g \in group[a] :
        _summarize(g).picture.assessment = "still monitored" => \E d \in g.ids : \E s \in session[d] : s.open

\* A past detail's competing changes are those the viewer could have known of:
\* none is found through a session that began after the instant viewed.
PastIsKnown ==
    \A a \in Audits, cut \in 0 .. now : \A g \in group[a] : g.occurred <= cut =>
        \A b \in get_group_competing(a, g, {cut}) : \E h \in group[b] :
            \E site \in Named(g) :
                \/ site \in AuditSite[b] \union Named(h)
                \/ \E d \in h.ids : \E s \in session[d] : s.site = site /\ s.created <= cut
================================================================================
