--------------------------- MODULE GuardianVerdict ---------------------------
\* One attempt of the Guardian, from the change to its verdict
\* (services/guardian.py execute_attempt): the plug-ins' plans, the coverage
\* ledger (guardian/ledger.py), the two replays and the plug-ins' evaluations,
\* each isolated from the others, the agent, and composition
\* (guardian/composition.py).  What each phase finds on a device is chosen
\* freely; the module says what the attempt makes of it.  Bands are 0 .. 3:
\* none, info, warning, critical.
EXTENDS Integers, Sequences, FiniteSets, FiniteSetsExt, SequencesExt, Functions

CONSTANTS
    Audits,      \* [atoms, expected, anchor, unseen]: what an attempt starts from
    Plans,       \* by plug-in, the plans it may make
    Outcomes,    \* what deployment pairing may say of a device
    Sessions,    \* [kind, empty, peak, current]: a device's monitoring session as replayed
    Judged,      \* [peak, current, devices]: what a plug-in may conclude
    Agents,      \* the same of the agent, with .cites: service health is cited
    Failures,    \* phases that may raise
    Place,       \* by MAC address of a device, where it is in their order
    Bytes,       \* by the addresses of those listed, what the list of their rows takes
    Digest,      \* what the counts of those left out take: two bands at most
    Budget       \* IMPACTED_DEVICES_BUDGET

\* Bands are ordered, and no device is worse than the conclusion that lists it.
InOrder(c) == c.peak \in 0 .. 3 /\ c.current \in 0 .. 3 /\ c.current <= c.peak
Concludes(c) == InOrder(c) /\ \A m \in DOMAIN c.devices : c.devices[m] \in 0 .. 3 /\ c.devices[m] <= c.peak
BandsAssumption ==
    /\ \A s \in Sessions : InOrder(s)
    /\ \A c \in Judged \union Agents : Concludes(c)
\* The core owns no plan, and a plug-in plans nothing of the core's kinds (contracts.py RulePlan).
PlansAssumption ==
    /\ "core" \notin DOMAIN Plans
    /\ \A p \in DOMAIN Plans : \A plan \in Plans[p] :
           \A o \in ToSet(plan.obligations) : o.kind \in {"rule", "monitoring"}
    /\ \A a \in Audits : a.unseen \in Nat
\* Addresses are told apart and a verdict that only counts devices fits (evidence.py
\* BudgetError); a change is of finitely many, each at one site (ledger.py RowDevices).
DevicesAssumption ==
    /\ Place \in [DOMAIN Place -> Nat] /\ IsInjective(Place) /\ "none" \notin DOMAIN Place
    /\ Bytes \in [SUBSET DOMAIN Place -> Nat] /\ Digest \in Nat /\ Budget \in Nat /\ Bytes[{}] + Digest <= Budget
    /\ \A a \in Audits :
           /\ IsFiniteSet(a.expected) /\ \A t \in a.expected : t.mac \in DOMAIN Place
           /\ IsFiniteSet(ToSet(a.atoms)) /\ \A x \in ToSet(a.atoms) : x.device.mac \in DOMAIN Place \union {"none"}
           /\ \A t, u \in a.expected \union {x.device : x \in ToSet(a.atoms)} : t.mac = u.mac => t.mac = "none" \/ t = u

VARIABLES step, audit, plans, ledger, paired, replayed, failed, rules, agent, verdict
vars == <<step, audit, plans, ledger, paired, replayed, failed, rules, agent, verdict>>

None == "none"
Warning == 2
_worst(bands) == Max(bands \union {0})
Target(mac, site) == [mac |-> mac, site |-> site]
Nothing == [peak |-> 0, current |-> 0, devices |-> <<>>]

------------------------
\* Planning.  A plan that names an atom of no change, or paths the atom did
\* not change, is refused: its plug-in then has no plan.
covers(prefix, path) == IsPrefix(prefix, path)
validate_plan(plan) ==
    \A x \in ToSet(plan.obligations) \union plan.exclusions :
        \E a \in ToSet(audit.atoms) : a.id = x.atom /\ \A p \in x.paths : \E q \in a.paths : covers(p, q)

Init ==
    /\ audit \in Audits
    /\ step = "plan" /\ plans = <<>> /\ ledger = {} /\ paired = <<>> /\ replayed = <<>>
    /\ failed = {} /\ rules = <<>> /\ agent = {} /\ verdict = {}

_planned ==
    /\ step = "plan"
    /\ \E planning \in SUBSET DOMAIN Plans : \E chosen \in [planning -> UNION Range(Plans)] :
           /\ \A p \in planning : chosen[p] \in Plans[p] /\ validate_plan(chosen[p])
           /\ plans' = chosen
    /\ step' = "ledger"
    /\ UNCHANGED <<audit, ledger, paired, replayed, failed, rules, agent, verdict>>

------------------------
\* The ledger: every atom on every device it applies to, and every obligation,
\* as a set: what its numbers identify is never asked.
reaches(target, row) ==
    IF target.mac # None THEN target.mac = row.mac /\ target.site \in {None, row.site}
    ELSE target.site # None /\ target.site = row.site

_row_targets(a) == IF a.device.mac # None THEN {a.device} ELSE audit.expected
Rows == UNION {{[atom |-> a, target |-> t] : t \in _row_targets(a)} : a \in ToSet(audit.atoms)}
RowDevices == {r.target : r \in Rows}

Obligation(owner, kind, role, target, policy, metric) ==
    [owner |-> owner, kind |-> kind, role |-> role, target |-> target, policy |-> policy, metric |-> metric]
Core(kind, role, target) == Obligation("core", kind, role, target, None, None)

\* A monitoring obligation of a target and metric already numbered is folded into
\* that one, so both are held to the stricter policy of the two.
Claimed == UNION {ToSet(plans[p].obligations) : p \in DOMAIN plans}
Same(o, other) == o.kind = "monitoring" /\ other.kind = "monitoring" /\ other.target = o.target /\ other.metric = o.metric
_strictestSlip(o) ==
    IF \E other \in Claimed : Same(o, other) /\ other.policy = "not_exercised" THEN "not_exercised" ELSE o.policy
_strictest(o) == IF \E other \in Claimed : Same(o, other) /\ other.policy = "incomplete" THEN "incomplete" ELSE o.policy
Planned(plugin) ==
    {Obligation(plugin, o.kind, "observation", o.target, _strictest(o), o.metric) : o \in ToSet(plans[plugin].obligations)}
_number_plan_obligations == UNION {Planned(p) : p \in DOMAIN plans}

Exclusions == UNION {plans[p].exclusions : p \in DOMAIN plans}
\* _RowResolver.resolve: the paths of a row that no claim and no exclusion covers.
_uncovered(row) ==
    LET reaching == {x \in Claimed \union Exclusions : x.atom = row.atom.id /\ reaches(x.target, row.target)}
    IN  {q \in row.atom.paths : ~\E x \in reaching : \E p \in x.paths : covers(p, q)}

_untargeted == {a \in ToSet(audit.atoms) : _row_targets(a) = {}}
\* _append_gaps: what the attempt could not see holds coverage down.
Inputs(missing) == IF missing THEN {Core("input", "observation", Target(None, None))} ELSE {}

Obligations ==
    (IF audit.anchor = "receipt" THEN {Core("anchor", "precondition", Target(None, None))} ELSE {})
    \union _number_plan_obligations
    \union {Core("deployment", "precondition", t) : t \in {u \in RowDevices : \E o \in Claimed : reaches(o.target, u)}}
    \union {Core("rule", "observation", r.target) : r \in {x \in Rows : ~x.atom.complete \/ _uncovered(x) # {}}}
    \union Inputs(audit.unseen > 0 \/ _untargeted # {})
build_ledger ==
    /\ step = "ledger"
    /\ ledger' = Obligations
    /\ step' = "deployment"
    /\ UNCHANGED <<audit, plans, paired, replayed, failed, rules, agent, verdict>>

------------------------
\* The replays.  _isolate: a phase that raises reports nothing and leaves one
\* more observation nothing satisfies.  What a replay measured stays known when
\* only the recording of its evidence fails.
deployment_phase ==
    /\ step = "deployment"
    /\ \E f \in SUBSET (Failures \intersect {"pairing", "deployment evidence"}) :
       \E said \in [RowDevices -> Outcomes] :
           /\ failed' = failed \union f
           /\ paired' = IF "pairing" \in f THEN <<>> ELSE said
    /\ step' = "monitoring"
    /\ UNCHANGED <<audit, plans, ledger, replayed, rules, agent, verdict>>

Selected == {t \in RowDevices : \E o \in ledger : o.owner # "core" /\ reaches(o.target, t)}
monitoring_phase ==
    /\ step = "monitoring"
    /\ \E f \in SUBSET (Failures \intersect {"replay", "monitoring evidence"}) :
       \E said \in [Selected -> Sessions] :
           /\ failed' = failed \union f
           /\ replayed' = IF "replay" \in f THEN <<>> ELSE said
    /\ step' = "rules"
    /\ UNCHANGED <<audit, plans, ledger, paired, rules, agent, verdict>>

\* run_rules, the evaluations: a plug-in that raises reports no status.
_evaluated ==
    /\ step = "rules"
    /\ \E raised \in SUBSET (DOMAIN plans \intersect Failures) :
       \E said \in [DOMAIN plans \ raised -> Judged],
          held \in [DOMAIN plans \ raised -> {"satisfied", "not_exercised", "unsatisfied"}] :
           rules' = [p \in DOMAIN plans \ raised |->
                        [peak |-> said[p].peak, current |-> said[p].current, devices |-> said[p].devices,
                         status |-> held[p]]]
    /\ step' = "agent"
    /\ UNCHANGED <<audit, plans, ledger, paired, replayed, failed, agent, verdict>>

\* _agent_run: nothing it does fails the attempt.
_agent_run ==
    /\ step = "agent"
    /\ agent' \in {{}} \union {{r} : r \in Agents}
    /\ step' = "compose"
    /\ UNCHANGED <<audit, plans, ledger, paired, replayed, failed, rules, verdict>>

------------------------
\* Statuses and coverage.
\* A required check on one device: check_status under the obligation's policy.
check_status(session, policy) ==
    IF session.kind # "done" THEN "unsatisfied"
    ELSE IF session.empty THEN IF policy = "not_exercised" THEN "not_exercised" ELSE "unsatisfied"
    ELSE "satisfied"
_aggregate(statuses) ==
    IF statuses = {} \/ "unsatisfied" \in statuses THEN "unsatisfied"
    ELSE IF statuses = {"not_exercised"} THEN "not_exercised" ELSE "satisfied"

Precondition(t) == IF paired[t] \in {"configured", "recovered"} THEN "satisfied" ELSE "unsatisfied"
Reported(o) ==
    CASE o.kind = "deployment" /\ o.target \in DOMAIN paired /\ "deployment evidence" \notin failed ->
             Precondition(o.target)
      [] o.kind = "monitoring" /\ failed \intersect {"replay", "monitoring evidence"} = {} ->
             _aggregate({check_status(replayed[t], o.policy) :
                            t \in {u \in DOMAIN replayed : reaches(o.target, u)}})
      [] o.kind = "rule" /\ o.owner \in DOMAIN rules -> rules[o.owner].status
      [] OTHER -> "unsatisfied"

with_gaps == ledger \union Inputs(failed # {})
coverage ==
    LET Of(role) == {Reported(o) : o \in {x \in with_gaps : x.role = role}}
    IN  IF Of("observation") = {} THEN "insufficient"
        ELSE IF "unsatisfied" \in Of("observation") \/ Of("precondition") \ {"satisfied"} # {} THEN "partial"
        ELSE IF Of("observation") = {"not_exercised"} THEN "not_applicable"
        ELSE "complete"

------------------------
\* Composition.
Deployed(outcome) ==
    [peak |-> IF outcome \in {"failed", "recovered"} THEN Warning ELSE 0,
     current |-> IF outcome = "failed" THEN Warning ELSE 0]
Exclusive(session) == session.kind \in {"done", "active"}
\* Only an exclusive session measures a device; it is also listed by its site.
Measured == {t \in DOMAIN replayed : Exclusive(replayed[t])}
Folded(bands, said) ==
    [peak |-> _worst({b.peak : b \in Range(bands)}), current |-> _worst({b.current : b \in Range(bands)}),
     devices |-> said]
deployment ==
    IF "deployment evidence" \in failed THEN Nothing
    ELSE LET bands == [t \in DOMAIN paired |-> Deployed(paired[t])]
         IN  Folded(bands, [m \in {t.mac : t \in {u \in DOMAIN paired : bands[u].peak > 0}} |-> Warning])
monitoring ==
    IF "monitoring evidence" \in failed THEN Nothing
    ELSE LET bands == [t \in Measured |-> replayed[t]]
         IN  Folded(bands, [m \in {t.mac : t \in {u \in Measured : replayed[u].peak >= Warning}} |->
                               Max({replayed[t].peak : t \in {u \in Measured : u.mac = m}})])

_device_severitiesSlip == {[mac |-> t.mac, peak |-> replayed[t].peak, current |-> replayed[t].current] : t \in Measured}
_device_severities ==
    {[mac |-> t.mac, peak |-> replayed[t].peak, current |-> replayed[t].current] : t \in Measured}
    \union {[mac |-> t.mac, peak |-> 0, current |-> 0] : t \in DOMAIN paired \ Measured}

_contribution == {a \in agent : a.cites}
Floored == {monitoring, deployment} \union Range(rules)
_above_info(band) == IF band >= Warning THEN band ELSE 0
_FloorSlip(measured, said) == _worst({_above_info(b) : b \in said})
_Floor(measured, said) == _worst({_above_info(b) : b \in measured \union said})
_at_most(band, ceiling) == Min({band, ceiling})

\* _impacted: the devices of a known site at warning or more.
_impacted ==
    LET known == _device_severities
        voices == Floored \union _contribution
        claims(m) == {[peak |-> s.devices[m], current |-> _at_most(s.devices[m], s.current)] :
                          s \in {x \in voices : m \in DOMAIN x.devices}}
        rows == {[mac |-> k.mac, peak |-> _worst({k.peak} \union {c.peak : c \in claims(k.mac)}),
                  current |-> _worst({k.current} \union {c.current : c \in claims(k.mac)})] : k \in known}
    IN  {r \in rows : r.peak >= Warning}

\* evidence.py pack and bounded, of the rows and those of them kept: worst first, each
\* that fits beside those kept before it and the counts of all the others.
Fits(rows, whole) == Bytes[{r.mac : r \in rows}] + (IF whole THEN 0 ELSE Digest) <= Budget
BeforeSlip(r, s) ==
    \/ r.peak < s.peak
    \/ r.peak = s.peak /\ r.current < s.current
    \/ r.peak = s.peak /\ r.current = s.current /\ Place[r.mac] < Place[s.mac]
Before(r, s) ==
    \/ r.peak > s.peak
    \/ r.peak = s.peak /\ r.current > s.current
    \/ r.peak = s.peak /\ r.current = s.current /\ Place[r.mac] < Place[s.mac]
packSlip(rows, kept) ==
    \A r \in rows : r \in kept <=> Fits({k \in kept : Before(k, r)} \union {r}, TRUE)
pack(rows, kept) ==
    \A r \in rows :
        LET tried == {k \in kept : Before(k, r)} \union {r} IN r \in kept <=> Fits(tried, tried = rows)

compose(rows, kept) ==
    LET base == IF coverage = "complete" THEN 0 ELSE 1
        peak == _worst({base, _Floor({k.peak : k \in _device_severities}, {s.peak : s \in Floored})}
                       \union {a.peak : a \in _contribution})
        current == _worst({base, _Floor({k.current : k \in _device_severities}, {s.current : s \in Floored})}
                          \union {a.current : a \in _contribution})
    IN  [peak |-> peak, current |-> current, coverage |-> coverage,
         confidence |-> IF \E a \in _contribution : a.peak = peak THEN "medium" ELSE "low",
         devices |-> kept, omitted |-> Cardinality(rows \ kept)]

\* What the Verdict contract accepts (contracts.py consistent_bands).
consistent_bands(v) ==
    /\ v.current <= v.peak /\ (v.current = 0 => v.coverage = "complete")
    /\ \A d \in v.devices : d.current <= d.peak /\ d.peak <= v.peak

Compose ==
    /\ step = "compose"
    /\ LET rows == _impacted IN \E kept \in SUBSET rows :
           /\ pack(rows, kept)
           /\ LET v == compose(rows, kept) IN IF consistent_bands(v) THEN step' = "succeeded" /\ verdict' = {v}
                                                              ELSE step' = "failed" /\ UNCHANGED verdict
    /\ UNCHANGED <<audit, plans, ledger, paired, replayed, failed, rules, agent>>

Next ==
    \/ _planned \/ build_ledger \/ deployment_phase \/ monitoring_phase
    \/ _evaluated \/ _agent_run \/ Compose
Spec == Init /\ [][Next]_vars

------------------------
\* Properties.
\* An attempt that reached composition publishes: no mixture of findings, failed
\* phases and agent reports composes a verdict its own contract refuses.
NeverRefused == step # "failed"

Items(p) == ToSet(plans[p].obligations) \union plans[p].exclusions
Answered(p, o, t) ==
    IF o.kind = "rule" THEN p \in DOMAIN rules /\ rules[p].status # "unsatisfied"
    ELSE /\ replayed[t].kind = "done"
         /\ replayed[t].empty => o.policy = "not_exercised"

\* Complete coverage is what it says, read off the plans and the findings and
\* not off the ledger: nothing was unseen, the change's time is known, no phase
\* failed, every path of every change is addressed on every device it applies
\* to, every observation asked for was answered on every device it reaches -
\* under each asking plug-in's own policy - and each of those devices applied
\* the change.
CompleteIsCovered ==
    \A v \in verdict : v.coverage = "complete" =>
        /\ audit.unseen = 0 /\ audit.anchor # "receipt" /\ failed = {}
        /\ \A a \in ToSet(audit.atoms) :
               /\ a.complete /\ _row_targets(a) # {}
               /\ \A t \in _row_targets(a), q \in a.paths : \E p \in DOMAIN plans : \E x \in Items(p) :
                      x.atom = a.id /\ reaches(x.target, t) /\ \E prefix \in x.paths : covers(prefix, q)
        /\ \A p \in DOMAIN plans : \A o \in ToSet(plans[p].obligations) :
               \A t \in {u \in RowDevices : reaches(o.target, u)} :
                   Answered(p, o, t) /\ paired[t] \in {"configured", "recovered"}

\* What the replays found of harm, and recorded.
Harmed ==
    {[mac |-> t.mac, peak |-> replayed[t].peak, current |-> replayed[t].current] :
        t \in {u \in Measured : replayed[u].peak >= Warning}}
    \union {[mac |-> t.mac, peak |-> Warning, current |-> Deployed(paired[t]).current] :
               t \in {u \in DOMAIN paired : "deployment evidence" \notin failed /\ paired[u] \in {"failed", "recovered"}}}

\* Every device a replay found harmed is named on the verdict, at no less than was
\* found, or counted among those left out; the list and the counts keep within the
\* budget; and one is left out only where devices listed as no less harmed leave it
\* no room.
HarmIsCounted ==
    \A v \in verdict :
        LET unnamed == {h \in Harmed : \A d \in v.devices : d.mac # h.mac}
        IN  /\ \A h \in Harmed \ unnamed :
                   \E d \in v.devices : d.mac = h.mac /\ d.peak >= h.peak /\ d.current >= h.current
            /\ Cardinality({h.mac : h \in unnamed}) <= v.omitted
            /\ Fits(v.devices, v.omitted = 0)
            /\ \A h \in unnamed : \E worse \in SUBSET v.devices :
                   (\A d \in worse : d.peak >= h.peak) /\ ~Fits(worse \union {h}, FALSE)
=============================================================================
