------------------------------ MODULE RulePlans ------------------------------
\* What Guardian's rules take on of a change (the plan of each plug-in under
\* guardian/plugins).  An audit writes paths of configuration objects while
\* device events name more of the devices it concerns; each rule plans
\* observations of what it handles, of one port or one WLAN if it must read, and
\* tells the rest as gaps.
EXTENDS Integers, Sequences, FiniteSets

CONSTANTS
    Objects,    \* [id, type, scope, site, mac, mist, kind]: "none" where there is none
    Paths,      \* of an object: what an audit may write of it, a set of <<attribute, ...>>
    Devices,    \* [mac, type, site]: which device events may name
    MAPPINGS,   \* [type, attribute, classes, family, patterns]: the verified DNS settings
    Concrete    \* the segments that name one port

ObjectsAssumption == IsFiniteSet(Objects)

VARIABLES changed, devices
vars == <<changed, devices>>

None == "none"
\* What was written: an object, a path of it, and whether it now reads "true".
Init == changed = {} /\ devices = {}
Writes ==
    \E o \in Objects, on \in BOOLEAN : \E p \in Paths[o.id] :
        /\ ~\E w \in changed : w.object = o /\ w.path = p
        /\ on => p = <<"enabled">>
        /\ changed' = changed \union {[object |-> o, path |-> p, on |-> on]}
        /\ UNCHANGED devices
Named == \E d \in Devices \ devices : devices' = devices \union {d} /\ UNCHANGED changed

Next == Writes \/ Named
Spec == Init /\ [][Next]_vars

------------------------
\* The vocabulary of the rules (guardian/plugins/base.py).
\* One atom per object and attribute.
Atoms == {[object |-> w.object, attribute |-> w.path[1]] : w \in changed}
atoms_of(o) == {a \in Atoms : a.object = o}
paths_of(a) == {w.path : w \in {x \in changed : x.object = a.object /\ x.path[1] = a.attribute}}
cohort(family, site) == {d.mac : d \in {e \in devices : e.type = family /\ site \in {None, e.site}}}
Obligation(atom, paths, subject, mac) == [atom |-> atom, paths |-> paths, subject |-> subject, mac |-> mac]
NoPlan == [obligations |-> {}, gaps |-> {}]

------------------------
\* The switch port rule.
CONTAINERS == {"port_config", "port_config_overwrite"}
HandledPort == {"disabled", "poe_disabled"}
Switches == cohort("switch", None)
\* What switches' own configurations say of their ports.
PortWrites ==
    {w \in changed : w.path[1] \in CONTAINERS /\ w.object.mac # None /\ w.object.site # None}
Handles(w) == Len(w.path) = 3 /\ w.path[3] \in HandledPort
Port(w) == <<w.object.site, w.object.mac, w.path[2]>>
_claimsSlip == {w \in PortWrites : Handles(w) /\ w.path[2] \in Concrete}
_claims == {w \in PortWrites : Handles(w) /\ w.object.mac \in Switches /\ w.path[2] \in Concrete}
port_plan ==
    LET ports == {Port(w) : w \in _claims}
        chosen == CHOOSE p \in ports : TRUE
        taken == {w \in _claims : Port(w) = chosen}
        Together(w) == {x.path : x \in {y \in taken : y.object = w.object /\ y.path[1] = w.path[1]
                                                      /\ y.path[3] = w.path[3]}}
        gaps == {"device" : w \in {x \in PortWrites : x.object.mac \notin Switches}}
                \union {"selector" : w \in {x \in PortWrites : /\ Handles(x) /\ x.object.mac \in Switches
                                                              /\ x.path[2] \notin Concrete}}
    IN  IF ports = {} THEN [NoPlan EXCEPT !.gaps = gaps]
        ELSE [obligations |-> {Obligation([object |-> w.object, attribute |-> w.path[1]], Together(w), chosen,
                                          w.object.mac) : w \in taken},
              gaps |-> gaps \union (IF Cardinality(ports) > 1 THEN {"further"} ELSE {})]

------------------------
\* The two WLAN rules.
AUTH_ATTRIBUTES == {"auth"}
_turned_on(a) == \E w \in changed : w.object = a.object /\ w.path[1] = a.attribute /\ w.on
Lifecycle(o) ==
    {a \in atoms_of(o) : o.kind = "deleted" \/ (o.kind # "created" /\ a.attribute = "enabled" /\ ~_turned_on(a))}
Auth(o) == {a \in atoms_of(o) : o.kind # "deleted" /\ a.attribute \in AUTH_ATTRIBUTES}
Resolved(o) == o.scope # "org" /\ o.site # None /\ o.mist # None
Gap(o) == IF o.scope = "org" THEN "org" ELSE "identity"

\* An atom of the WLAN that is read is claimed on every access point of its site.
_wlan_claims(atoms, o) ==
    {Obligation(a, paths_of(a), o.mist, m) : a \in atoms, m \in cohort("ap", o.site)}
wlan_plan(handled) ==
    LET concerned == {o \in Objects : o.type = "wlans" /\ handled[o] # {}}
        candidates == {o \in concerned : Resolved(o)}
        chosen == CHOOSE o \in candidates : TRUE
        gaps == {Gap(o) : o \in concerned \ candidates}
    IN  IF candidates = {} THEN [NoPlan EXCEPT !.gaps = gaps]
        ELSE [obligations |-> _wlan_claims(handled[chosen], chosen),
              gaps |-> gaps \union (IF Cardinality(candidates) > 1 THEN {"further"} ELSE {})
                            \union (IF cohort("ap", chosen.site) = {} THEN {"cohort"} ELSE {})]
removal_plan == wlan_plan([o \in Objects |-> Lifecycle(o)])
auth_plan == wlan_plan([o \in Objects |-> Auth(o)])

------------------------
\* The DNS rule: it reads nothing, and plans what monitoring must answer.
_segment(pattern, segment) == pattern = "*" \/ pattern = segment
\* A pattern names a path at it or below it.
matches(patterns, path) ==
    \E p \in patterns : Len(p) <= Len(path) /\ \A i \in DOMAIN p : _segment(p[i], path[i])
_mappings(a) ==
    {m \in MAPPINGS : m.type = <<a.object.scope, a.object.type>> /\ m.attribute = a.attribute}
Matched(a, m) == {p \in paths_of(a) : matches(m.patterns, p)}
Monitored == {"ap", "switch", "gateway"}
_targets(m, o) ==
    IF m.family \notin Monitored THEN {}
    ELSE IF o.mac # None THEN {o.mac} \intersect cohort(m.family, o.site)
    ELSE cohort(m.family, o.site)
\* Own connectivity must be seen; what clients are handed may go unexercised.
_observation(m, class) ==
    <<m.family, class, IF class = "management" THEN "incomplete" ELSE "not_exercised">>

\* One observation per device, metric and policy, of every path that calls for it.
Claims ==
    UNION {UNION {{[atom |-> a, mac |-> d, seen |-> _observation(m, c), mapping |-> m] :
                      d \in _targets(m, a.object), c \in m.classes} :
                  m \in {x \in _mappings(a) : Matched(a, x) # {}}} : a \in Atoms}
Same(x, y) == x.atom = y.atom /\ x.mac = y.mac /\ x.seen = y.seen
_claimSlip(x) == Matched(x.atom, (CHOOSE y \in Claims : Same(x, y)).mapping)
_claim(x) == UNION {Matched(y.atom, y.mapping) : y \in {z \in Claims : Same(x, z)}}
dns_plan == {Obligation(x.atom, _claim(x), x.seen, x.mac) : x \in Claims}

------------------------
\* Properties.
\* A DNS setting that serves a device and its clients is observed for both, on
\* every device of the family it reaches, with each path that was written: two
\* settings of one attribute share an observation and neither takes the other's.
DnsIsWhole ==
    \A w \in changed, m \in MAPPINGS :
        (m.type = <<w.object.scope, w.object.type>> /\ m.attribute = w.path[1] /\ matches(m.patterns, w.path)) =>
            \A d \in devices, c \in m.classes :
                (d.type = m.family /\ m.family \in Monitored /\ w.object.site \in {None, d.site}
                 /\ w.object.mac \in {None, d.mac}) =>
                    \E x \in dns_plan : x.mac = d.mac /\ x.subject = _observation(m, c) /\ w.path \in x.paths

\* What a rule that reads takes on is of one port or WLAN, on devices that are
\* expected; and each port or WLAN it handles is taken on, or told as a gap.
RulesTellTheRest ==
    /\ \A plan \in {port_plan, removal_plan, auth_plan} :
           \A x, y \in plan.obligations : x.subject = y.subject /\ x.mac \in {d.mac : d \in devices}
    /\ \A w \in PortWrites :
           Handles(w) => \/ \E x \in port_plan.obligations : w.path \in x.paths /\ x.mac = w.object.mac
                         \/ w.object.mac \notin Switches /\ "device" \in port_plan.gaps
                         \/ w.path[2] \notin Concrete /\ "selector" \in port_plan.gaps
                         \/ "further" \in port_plan.gaps
    /\ \A o \in {x \in Objects : x.type = "wlans"} :
           /\ \A a \in Lifecycle(o) : \/ removal_plan.gaps # {}
                                      \/ \E x \in removal_plan.obligations : x.atom = a /\ x.subject = o.mist
           /\ \A a \in Auth(o) : \/ auth_plan.gaps # {}
                                 \/ \E x \in auth_plan.obligations : x.atom = a /\ x.subject = o.mist
=============================================================================
