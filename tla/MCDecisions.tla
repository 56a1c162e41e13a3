------------------------------ MODULE MCDecisions ------------------------------
\* Instances for TLC of the parts of the service that decide from recorded
\* evidence what a change is and what it did to the network.
EXTENDS MCParts, Sequences, FiniteSets, TLC

------------------------
\* What a change is.
Leaf(l) == [is |-> "leaf", items |-> <<"" :> l>>]
Object(f) == [is |-> "map", items |-> <<f>>]
Items(s) == [is |-> "list", items |-> s]
Text(t) == <<"v", t, "">>
\* A secret's ciphertext and fingerprint: an early release stored none.
Secret(cipher, print) == <<"s", cipher, print>>
One(t) == "id" :> Text(t) @@ "x" :> Text(t)
Documents ==
    {Leaf(Text("1")), Leaf(Text("null")), Leaf(Secret("c1", "F")), Leaf(Secret("c2", "F")), Leaf(Secret("c3", "")),
     Object(<<>>), Object("x" :> Text("1")), Object("x" :> Text("1") @@ "p" :> Secret("c1", "F")),
     Object("x" :> Text("1") @@ "p" :> Secret("c2", "G") @@ "m" :> Text("9")),
     Items(<<>>), Items(<<"" :> Text("1")>>), Items(<<"" :> Text("2"), "" :> Text("1")>>),
     Items(<<"" :> Text("1"), "" :> Text("2")>>), Items(<<One("1")>>), Items(<<One("1"), One("2")>>),
     Items(<<"id" :> Text("2") @@ "x" :> Text("2"), "id" :> Text("1") @@ "x" :> Text("2")>>),
     Items(<<"id" :> Text("3") @@ "p" :> Secret("c1", "F"), "" :> Text("1")>>),
     Items(<<"n" :> Text("1") @@ "p" :> Secret("c1", "F"), "n" :> Text("2") @@ "p" :> Secret("c2", "G")>>),
     Items(<<"n" :> Text("2") @@ "p" :> Secret("c3", "F"), "n" :> Text("1") @@ "p" :> Secret("c4", "G")>>)}
Diff == INSTANCE ConfigurationDiff WITH
    before <- v1, after <- v2,
    Keys <- <<"a", "b", "id", "m", "n", "p", "t", "x">>,
    Values <- [a |-> Documents, b |-> {Leaf(Text("1")), Leaf(Text("2"))}],
    Ignored <- {"m", "t"}, IDENTITY_KEYS <- <<"id", "x">>, MAX_ENTRIES <- 2

\* Two audits that write two objects; one of them is investigated.
Audited == INSTANCE AuditChanges WITH
    history <- v1, gone <- v2, Objects <- {1, 2}, Configurations <- {[a |-> 0], [a |-> 1], [a |-> 0, b |-> 1]},
    Audits <- {"x", "y"}, Audit <- "x", MAX_AUDIT_VERSIONS <- 3, MaxVersions <- 4

------------------------
\* What a change did.
\* Triggers and outcomes of three changes of one device, half a second apart.
Pairing == INSTANCE DeploymentPairing WITH
    now <- v1, history <- v2, stated <- v3, received <- v4,
    Audit <- "x", Changes <- {"x", "y", "unlinked"}, Kinds <- {"configured", "failed"},
    PAIRING_BOUND <- 1, PerSecond <- 2, MaxTick <- 4, MaxUntimed <- 1, MaxLag <- 1

Missing == {[absent |-> TRUE]}
Port(up, poe, errors) == {[up |-> up, poe |-> poe, errors |-> errors]}
Peer(up) == {[up |-> up]}
Device(connected, uptime, cpu) == {[connected |-> connected, uptime |-> uptime, cpu |-> cpu]}
Wlan(enabled) == {[enabled |-> enabled]}
Radio(n) == {[num_wlans |-> n]}
Healthy ==
    [device |-> Device({TRUE}, {2}, {0}), wlans |-> Wlan({TRUE}), ports |-> Port({TRUE}, {TRUE}, {0}),
     radios |-> Radio({1}), peers |-> Peer({TRUE})]
Told == {{}, {TRUE}, {FALSE}}
Taken ==
    {[Healthy EXCEPT !.ports = p] :
        p \in {{}, Missing} \union {Port(u, q, {0}) : u \in Told, q \in Told}
              \union {Port({TRUE}, {TRUE}, {1}), Port({TRUE}, {TRUE}, {})}}
    \union {[Healthy EXCEPT !.peers = p] : p \in {{}, Missing, Peer({}), Peer({FALSE})}}
    \union {[Healthy EXCEPT !.device = d] :
               d \in {{}, Device({FALSE}, {2}, {0}), Device({}, {}, {}), Device({TRUE}, {1}, {1})}}
    \union {[Healthy EXCEPT !.wlans = w] : w \in {{}, Missing, Wlan({FALSE})}}
    \union {[Healthy EXCEPT !.radios = r] : r \in {{}, Missing, Radio({}), Radio({0})}}
Followed == INSTANCE DeviceFollowups WITH
    followups <- v1, initial <- v2, current <- v3, recovered <- v4,
    Captures <- Taken, Baseline <- Healthy, MaxFollowups <- 3

Sample(scope, values, counts, no_data, states, errors, metric_errors) ==
    [scope |-> scope, values |-> values, counts |-> counts, no_data |-> no_data, states |-> states,
     errors |-> errors, metric_errors |-> metric_errors]
Sampled ==
    {Sample("site", [m |-> 2, n |-> 2], [m |-> 1, n |-> 1], {}, <<>>, {}, {}),
     Sample("site", [m |-> 0, n |-> 1], [n |-> 1], {}, <<>>, {}, {}),
     Sample("site", [m |-> 0], [m |-> 3], {"n"}, <<>>, {}, {}),
     Sample("device", [m |-> 1, n |-> 0], [m |-> 1], {}, <<>>, {}, {}),
     Sample("site", [m |-> 2], [m |-> 1], {}, <<>>, {"n", "general"}, {}),
     Sample("site", [n |-> 2], <<>>, {}, [n |-> "measured", m |-> "measured"], {"n"}, {"m"}),
     Sample("site", [m |-> 2], <<>>, {}, [n |-> "no_data"], {}, {})}
Relevance(mode, metrics, types, kinds) ==
    [mode |-> mode, metrics |-> metrics, incident_types |-> types, finding_kinds |-> kinds]
Replayed == INSTANCE MonitoringReplay WITH
    plan <- v1, baseline <- v2, observations <- v3, incidents <- v4, comparison <- v5, severity <- v6,
    peak <- v7, stored <- v8, Samples <- Sampled,
    Plans <- {Relevance("legacy_all", {}, {}, {}), Relevance("selected", {"m"}, {"failed"}, {})},
    Selections <- {Relevance("selected", {"m"}, {"failed"}, {"k"}), Relevance("selected", {"m", "n"}, {}, {"j"}),
                   Relevance("selected", {}, {"down"}, {})},
    Incidents <- {[type |-> "failed", severity |-> 3], [type |-> "down", severity |-> 2]},
    Findings <- {[kind |-> "k", severity |-> 3], [kind |-> "j", severity |-> 2]},
    WARNING_DELTA <- 1, CRITICAL_DELTA <- 2, MaxObservations <- 1, MaxIncidents <- 1, MaxFollowups <- 1

Row(object, version, kind, event, fields, site) ==
    [object |-> object, version |-> version, kind |-> kind, event |-> event, fields |-> fields, site |-> site]
Before(after, failed, severity) ==
    [site |-> "s1", audits |-> {"a"}, created |-> 0, ended |-> 0, open |-> FALSE, before |-> {99}, after |-> after,
     failed |-> failed, severity |-> severity, peak |-> severity, degraded |-> severity = 3, assessed |-> FALSE]
\* One audit of rows that may be left out, one device.
Filtered == INSTANCE ChangePicture WITH
    now <- v1, versions <- v2, session <- v3, group <- v4, settled <- v5, Audits <- {"a"}, Devices <- {"d1"},
    Refs <- {Row("o1", 1, "assets", "created", {}, "org"), Row("o2", 1, "devices", "updated", {"name"}, "s1"),
             Row("o2", 2, "devices", "updated", {}, "s1")},
    AuditSite <- [a |-> {}], Messages <- {"none", "assets"}, Home <- [d1 |-> "s1"], Scope <- [d1 |-> "site"],
    Earlier <- {Before(<<0>>, "none", 3), Before(<<99>>, "answered", 2)}, Readings <- {0, 60, 99},
    EXCLUDED_OBJECTS <- {"assets"}, METADATA_FIELDS <- [devices |-> {"name", "notes"}], TILE_BAND <- 5,
    WARNING_DELTA <- 10, CRITICAL_DELTA <- 25, HIGH_CONFIDENCE_SAMPLES <- 1, MaxTime <- 0, MaxReadings <- 1
\* Two devices that show their site's levels.
Shared == INSTANCE ChangePicture WITH
    now <- v1, versions <- v2, session <- v3, group <- v4, settled <- v5, Audits <- {"a"}, Devices <- {"d1", "d2"},
    Refs <- {Row("o2", 1, "wlans", "updated", {}, "s1")},
    AuditSite <- [a |-> {}], Messages <- {"none"}, Home <- [d1 |-> "s1", d2 |-> "s1"],
    Scope <- [d1 |-> "site", d2 |-> "site"], Earlier <- {}, Readings <- {60, 99},
    EXCLUDED_OBJECTS <- {"assets"}, METADATA_FIELDS <- [devices |-> {"name", "notes"}], TILE_BAND <- 5,
    WARNING_DELTA <- 10, CRITICAL_DELTA <- 25, HIGH_CONFIDENCE_SAMPLES <- 1, MaxTime <- 0, MaxReadings <- 1
\* Two audits of one site, in time.
Competing == INSTANCE ChangePicture WITH
    now <- v1, versions <- v2, session <- v3, group <- v4, settled <- v5, Audits <- {"a", "b"}, Devices <- {"d1"},
    Refs <- {Row("o1", 1, "wlans", "updated", {}, "org"), Row("o2", 1, "wlans", "updated", {}, "s1")},
    AuditSite <- [a |-> {}, b |-> {}], Messages <- {"none"}, Home <- [d1 |-> "s1"], Scope <- [d1 |-> "site"],
    Earlier <- {}, Readings <- {99}, EXCLUDED_OBJECTS <- {"assets"},
    METADATA_FIELDS <- [devices |-> {"name", "notes"}], TILE_BAND <- 5,
    WARNING_DELTA <- 10, CRITICAL_DELTA <- 25, HIGH_CONFIDENCE_SAMPLES <- 1, MaxTime <- 1, MaxReadings <- 1

------------------------
\* An investigation: what is read, and what is concluded.
Windowed == [requires_org |-> TRUE, site_scopable |-> TRUE, time_ranged |-> TRUE]
Untimed == [Windowed EXCEPT !.time_ranged = FALSE]
Frozen == [stats |-> Windowed, config |-> Untimed, search |-> Windowed]
Call(tool, kind, org, site, window) ==
    [tool |-> tool, kind |-> kind, org |-> org, site |-> site, window |-> window, valid |-> TRUE, nested |-> "fine"]
Stats == Call("stats", "service_health", "absent", "in", "after")
Asked(kind, site, macs) ==
    [plugin |-> "dns", kind |-> kind, route |-> "scoped", org_neutral |-> FALSE, org |-> "own", site |-> site,
     time |-> FALSE, secret |-> FALSE, device_macs |-> macs]
Answer(rows) == [foreign |-> FALSE, failed |-> FALSE, rows |-> rows, more |-> FALSE, large |-> FALSE]
Finding(impact, evidence) == [impact |-> impact, evidence |-> evidence]
Report(peak, current, confidence, evidence, findings, devices) ==
    [peak |-> peak, current |-> current, confidence |-> confidence, evidence |-> evidence,
     findings |-> findings, devices |-> devices]
Reading == INSTANCE GuardianAgent WITH
    clock <- v1, catalogue <- v2, items <- v3, cache <- v4, agent <- v5,
    MAX_MODEL_TURNS <- 5, MAX_MCP_CALLS <- 3, MAX_RULE_READS <- 1, REPORT_ONLY_TURNS <- 1, Tools <- Frozen,
    Advertised <- [t \in DOMAIN Frozen |-> [read_only |-> TRUE, scopes |-> IF t = "search" THEN Untimed ELSE Frozen[t]]],
    Calls <- {Stats, [Stats EXCEPT !.org = "own"], [Stats EXCEPT !.site = "none"], [Stats EXCEPT !.window = "before"],
              [Stats EXCEPT !.nested = "site"], Call("config", "configuration", "other", "none", "none"),
              Call("config", "configuration", "absent", "none", "none"),
              Call("search", "service_health", "own", "in", "after")},
    Requests <- {Asked("service_health", "in", {"mine"}), Asked("configuration", "out", {})},
    Allowance <- [dns |-> 1],
    Results <- {Answer({"mine", "theirs"}), Answer({"theirs"}), [Answer({"mine"}) EXCEPT !.large = TRUE],
                [Answer({}) EXCEPT !.failed = TRUE]},
    Reports <- {Report("none", "none", "low", {1}, <<>>, <<>>),
                Report("warning", "none", "medium", {2}, <<Finding("info", {1}), Finding("warning", {2})>>, <<>>),
                Report("warning", "warning", "low", {}, <<Finding("info", {3}), Finding("warning", {2})>>,
                       <<[mac |-> "mine", impact |-> "warning", evidence |-> {2}]>>),
                Report("warning", "info", "low", {}, <<Finding("info", {1}), Finding("warning", {3})>>, <<>>)},
    Authority <- {"in"}, OrgWide <- FALSE, Site <- [mine |-> "in", theirs |-> "out"], Room <- 2, Kept <- 1

On(mac, site) == [mac |-> mac, site |-> site]
SiteAtom(complete) ==
    [id |-> "A1", device |-> On("none", "none"), paths |-> {<<"x">>, <<"y", "z">>}, complete |-> complete]
DeviceAtom == [id |-> "A2", device |-> On("d1", "s"), paths |-> {<<"x">>}, complete |-> TRUE]
Attempt(atoms, expected, anchor, unseen) ==
    [atoms |-> atoms, expected |-> expected, anchor |-> anchor, unseen |-> unseen]
Rule(atom, paths, target) ==
    [kind |-> "rule", atom |-> atom, paths |-> paths, target |-> target, policy |-> "none", metric |-> "none"]
Measure(paths, target, policy) ==
    [kind |-> "monitoring", atom |-> "A1", paths |-> paths, target |-> target, policy |-> policy, metric |-> "m"]
Plan(obligations, exclusions) == [obligations |-> obligations, exclusions |-> exclusions]
SessionOf(kind, empty, worst, last) == [kind |-> kind, empty |-> empty, peak |-> worst, current |-> last]
Judging == INSTANCE GuardianVerdict WITH
    step <- v1, audit <- v2, plans <- v3, ledger <- v4, paired <- v5, replayed <- v6, failed <- v7, rules <- v8,
    agent <- v9, verdict <- v10,
    Audits <- {Attempt(<<SiteAtom(TRUE)>>, {On("d1", "s"), On("d2", "s"), On("d3", "s")}, "audit", 0),
               Attempt(<<SiteAtom(TRUE), DeviceAtom>>, {}, "audit", 0),
               Attempt(<<SiteAtom(FALSE)>>, {On("d1", "s")}, "audit", 0),
               Attempt(<<DeviceAtom>>, {}, "receipt", 0), Attempt(<<DeviceAtom>>, {}, "audit", 1)},
    Plans <- [p |-> {Plan(<<Rule("A1", {<<"x">>, <<"y">>}, On("none", "s"))>>, {}),
                     Plan(<<Measure({<<"x">>}, On("none", "s"), "not_exercised")>>,
                          {[atom |-> "A1", paths |-> {<<"y">>}, target |-> On("d1", "none")]}),
                     Plan(<<Rule("A2", {<<"x">>}, On("d1", "none"))>>, {})},
              q |-> {Plan(<<Measure({<<"y">>}, On("none", "s"), "incomplete")>>, {}),
                     Plan(<<Measure({<<"y", "z">>}, On("d2", "s"), "incomplete"),
                            Rule("A1", {<<"y", "z">>}, On("d1", "s"))>>, {})}],
    Outcomes <- {"configured", "failed", "recovered"},
    Sessions <- {SessionOf("done", FALSE, 0, 0), SessionOf("done", TRUE, 3, 1), SessionOf("shared", FALSE, 0, 0)},
    Judged <- {[peak |-> 2, current |-> 1, devices |-> [d2 |-> 2, d9 |-> 2]]},
    Agents <- {[peak |-> 3, current |-> 0, devices |-> [d1 |-> 3], cites |-> FALSE]},
    Failures <- {"deployment evidence", "monitoring evidence", "p"},
    Place <- [d1 |-> 1, d2 |-> 2, d3 |-> 3],
    Bytes <- [macs \in SUBSET {"d1", "d2", "d3"} |-> Cardinality(macs) + (IF "d2" \in macs THEN 1 ELSE 0)],
    Digest <- 1, Budget <- 3

\* A change of one port, half a second apart.
Ported == INSTANCE SwitchPort WITH
    now <- v1, port <- v2, powered <- v3, history <- v4, report <- v5, change <- v6,
    PerSecond <- 2, WINDOW_CAP <- 3, POWER_BASELINE <- 3, EVENT_LIMIT <- 4, AP_LIMIT <- 2,
    MaxTick <- 6, MaxAccessPoints <- 3
\* A change of one WLAN and two clients, half a second apart, or one for longer.
Joined == INSTANCE WlanRules WITH
    now <- v1, history <- v2, change <- v3,
    Clients <- {"c", "d"}, PerSecond <- 2, WINDOW_CAP <- 3, ROW_LIMIT <- 2, MaxTick <- 5
Tried == INSTANCE WlanRules WITH
    now <- v1, history <- v2, change <- v3,
    Clients <- {"c"}, PerSecond <- 2, WINDOW_CAP <- 4, ROW_LIMIT <- 3, MaxTick <- 8
Thing(id, type, scope, site, mac, mist, kind) ==
    [id |-> id, type |-> type, scope |-> scope, site |-> site, mac |-> mac, mist |-> mist, kind |-> kind]
Machine(mac, type, site) == [mac |-> mac, type |-> type, site |-> site]
Setting(type, attribute, classes, family, pattern) ==
    [type |-> <<"site", type>>, attribute |-> attribute, classes |-> classes, family |-> family, patterns |-> {pattern}]
\* A switch, three WLANs and a site's settings, written by one audit.
Ruled == INSTANCE RulePlans WITH
    changed <- v1, devices <- v2,
    Objects <- {Thing("sw", "devices", "site", "s", "m1", "x1", "modified"),
                Thing("w1", "wlans", "site", "s", "none", "x2", "modified"),
                Thing("w2", "wlans", "site", "s", "none", "x3", "deleted"),
                Thing("w3", "wlans", "org", "none", "none", "x4", "deleted"),
                Thing("set", "settings", "site", "s", "none", "x5", "modified")},
    Paths <- [sw |-> {<<"port_config", "p1", "disabled">>, <<"port_config", "p2", "poe_disabled">>,
                      <<"port_config", "p1-2", "disabled">>, <<"ip_config", "dns">>},
              w1 |-> {<<"enabled">>, <<"auth">>}, w2 |-> {<<"enabled">>}, w3 |-> {<<"auth">>},
              set |-> {<<"gateway", "dns_servers", "0">>, <<"gateway", "dhcpd_config", "n", "dns_servers">>}],
    Devices <- {Machine("m1", "switch", "s"), Machine("m2", "ap", "s"), Machine("m3", "gateway", "s"),
                Machine("m4", "gateway", "t")},
    MAPPINGS <- {Setting("devices", "ip_config", {"management"}, "ap", <<"ip_config", "dns">>),
                 Setting("devices", "ip_config", {"management", "client"}, "switch", <<"ip_config", "dns">>),
                 Setting("settings", "gateway", {"management", "client"}, "gateway", <<"gateway", "dns_servers">>),
                 Setting("settings", "gateway", {"client"}, "gateway",
                         <<"gateway", "dhcpd_config", "*", "dns_servers">>)},
    Concrete <- {"p1", "p2"}

\* Each instance meets what the theorems about its module assume.
ASSUME InstancesQualify ==
    /\ Audited!AuditAssumption
    /\ Pairing!KindsAssumption
    /\ Followed!CapturesAssumption
    /\ Replayed!SamplesAssumption
    /\ Filtered!LevelsAssumption /\ Shared!LevelsAssumption /\ Competing!LevelsAssumption
    /\ Reading!CallsAssumption /\ Reading!RoomAssumption
    /\ Judging!BandsAssumption /\ Judging!PlansAssumption /\ Judging!DevicesAssumption
    /\ Ported!PortAssumption
    /\ Joined!ClientsAssumption /\ Tried!ClientsAssumption
    /\ Ruled!ObjectsAssumption

Init ==
    \/ Start("diff", 2) /\ Diff!Init
    \/ Start("audited", 2) /\ Audited!Init
    \/ Start("pairing", 4) /\ Pairing!Init
    \/ Start("followed", 4) /\ Followed!Init
    \/ Start("replayed", 8) /\ Replayed!Init
    \/ Start("filtered", 5) /\ Filtered!Init
    \/ Start("shared", 5) /\ Shared!Init
    \/ Start("competing", 5) /\ Competing!Init
    \/ Start("reading", 5) /\ Reading!Init
    \/ Start("judging", 10) /\ Judging!Init
    \/ Start("ported", 6) /\ Ported!Init
    \/ Start("joined", 3) /\ Joined!Init
    \/ Start("tried", 3) /\ Tried!Init
    \/ Start("ruled", 2) /\ Ruled!Init

Next ==
    \/ Move("diff", 2) /\ Diff!Next
    \/ Move("audited", 2) /\ Audited!Next
    \/ Move("pairing", 4) /\ Pairing!Next
    \/ Move("followed", 4) /\ Followed!Next
    \/ Move("replayed", 8) /\ Replayed!Next
    \/ Move("filtered", 5) /\ Filtered!Next
    \/ Move("shared", 5) /\ Shared!Next
    \/ Move("competing", 5) /\ Competing!Next
    \/ Move("reading", 5) /\ Reading!Next
    \/ Move("judging", 10) /\ Judging!Next
    \/ Move("ported", 6) /\ Ported!Next
    \/ Move("joined", 3) /\ Joined!Next
    \/ Move("tried", 3) /\ Tried!Next
    \/ Move("ruled", 2) /\ Ruled!Next

Spec == Init /\ [][Next]_vars

------------------------
\* Properties: each is its module's, of the parts that have it.
\* Two configurations that differ show an entry, or say that they cannot tell.
NothingUnsaid == part = "diff" => Diff!NothingUnsaid

\* Every attribute that changed is an atom of the investigation.
EveryChangeIsAnAtom == part = "diff" => Diff!EveryChangeIsAnAtom

\* The patch shown turns the configuration before into the one after.
PatchReproduces == part = "diff" => Diff!PatchReproduces

\* The net change of an audit spans all it wrote of an object.
NetIsWhole == part = "audited" => Audited!NetIsWhole

\* What an audit changed and undid is told as unseen, not left out.
NothingElided == part = "audited" => Audited!NothingElided

\* A deployment is settled with an outcome of this audit's own.
SettledIsTrue == part = "pairing" => Pairing!SettledIsTrue

\* A warning is of a failure of this audit's own.
WarnedForItsOwn == part = "pairing" => Pairing!WarnedForItsOwn

\* Harm found stands while nothing was seen to end it.
HarmOutlivesSilence == part = "followed" => Followed!HarmOutlivesSilence

\* Harm that was seen to end is cleared.
WellIsCleared == part = "followed" => Followed!WellIsCleared

\* Guardian's replay of a session gives the session's own verdict.
Parity == part = "replayed" => Replayed!Parity

\* The replayed peak is one the session recorded.
ReplayIsRecorded == part = "replayed" => Replayed!ReplayIsRecorded

\* A zero nobody sampled raises no alarm.
ZeroRaisesNoAlarm == part = "replayed" => Replayed!ZeroRaisesNoAlarm

\* What is displayed of a group is what a rebuild would store.
DisplayedIsRebuilt ==
    /\ part = "filtered" => Filtered!DisplayedIsRebuilt
    /\ part = "shared" => Shared!DisplayedIsRebuilt
    /\ part = "competing" => Competing!DisplayedIsRebuilt

\* The list's filter leaves out the rows the page marks as left out.
FilterIsTheRow ==
    /\ part = "filtered" => Filtered!FilterIsTheRow
    /\ part = "shared" => Shared!FilterIsTheRow
    /\ part = "competing" => Competing!FilterIsTheRow

\* A level shown as recovered is up on every device that shows it.
RecoveredIsUp ==
    /\ part = "filtered" => Filtered!RecoveredIsUp
    /\ part = "shared" => Shared!RecoveredIsUp
    /\ part = "competing" => Competing!RecoveredIsUp

\* Evidence holds no row of another site or organization.
EvidenceStaysInside == part = "reading" => Reading!EvidenceStaysInside

\* A call that succeeded is not sent again.
ReadOnce == part = "reading" => Reading!ReadOnce

\* The newest answer is in the prompt of the turn that follows it.
NewestIsShown == part = "reading" => Reading!NewestIsShown

\* Harm reported rests on service health that was read.
ReportRestsOnHealth == part = "reading" => Reading!ReportRestsOnHealth

\* A verdict is composed of every attempt.
NeverRefused == part = "judging" => Judging!NeverRefused

\* A complete verdict covers each change on each device with evidence.
CompleteIsCovered == part = "judging" => Judging!CompleteIsCovered

\* A device found harmed is named, or counted for want of room.
HarmIsCounted == part = "judging" => Judging!HarmIsCounted

\* A port said to be lost, restored or without power was.
LossIsTrue == part = "ported" => Ported!LossIsTrue
RecoveryIsTrue == part = "ported" => Ported!RecoveryIsTrue
PowerLossIsTrue == part = "ported" => Ported!PowerLossIsTrue

\* That no access point hangs on the port is said of all of them.
NeighbourIsTrue == part = "ported" => Ported!NeighbourIsTrue

\* The clients counted as disconnected or refused were, and no other.
DeparturesAreTrue ==
    /\ part = "joined" => Joined!DeparturesAreTrue
    /\ part = "tried" => Tried!DeparturesAreTrue
AffectedAreTrue ==
    /\ part = "joined" => Joined!AffectedAreTrue
    /\ part = "tried" => Tried!AffectedAreTrue
QuietIsTrue ==
    /\ part = "joined" => Joined!QuietIsTrue
    /\ part = "tried" => Tried!QuietIsTrue

\* A DNS setting is observed for all it serves, on every device it reaches.
DnsIsWhole == part = "ruled" => Ruled!DnsIsWhole

\* What a rule handles it takes on, or tells as a gap.
RulesTellTheRest == part = "ruled" => Ruled!RulesTellTheRest

------------------------
\* What the run checks: the properties above, by theme.
\* No difference between two configurations is passed over in silence.
ChangesAreTold ==
    /\ NothingUnsaid
    /\ EveryChangeIsAnAtom
    /\ PatchReproduces
    /\ NetIsWhole
    /\ NothingElided

\* Harm is laid to a change for evidence of its own, and stands until that ends.
ImpactIsEarned ==
    /\ SettledIsTrue
    /\ WarnedForItsOwn
    /\ HarmOutlivesSilence
    /\ WellIsCleared
    /\ Parity
    /\ ReplayIsRecorded
    /\ ZeroRaisesNoAlarm
    /\ LossIsTrue
    /\ RecoveryIsTrue
    /\ PowerLossIsTrue
    /\ NeighbourIsTrue
    /\ DeparturesAreTrue
    /\ AffectedAreTrue
    /\ QuietIsTrue

\* What is stored, listed and shown of a change agree.
PicturesAgree ==
    /\ DisplayedIsRebuilt
    /\ FilterIsTheRow
    /\ RecoveredIsUp

\* An investigation reads within its authority, concludes from what it read, and
\* covers what it was asked.
InvestigationsAreGrounded ==
    /\ EvidenceStaysInside
    /\ ReadOnce
    /\ NewestIsShown
    /\ ReportRestsOnHealth
    /\ NeverRefused
    /\ CompleteIsCovered
    /\ HarmIsCounted
    /\ DnsIsWhole
    /\ RulesTellTheRest
=============================================================================
