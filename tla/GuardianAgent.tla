---------------------------- MODULE GuardianAgent ----------------------------
\* What one attempt of the Guardian reads and reports: the rule plug-ins'
\* reads, then the agent's conversation of at most MAX_MODEL_TURNS turns
\* (guardian/agent.py), both through the Reader (guardian/reader.py), which
\* numbers and bounds the evidence (guardian/evidence.py, payloads.py).
\* An attempt is one coroutine; only time passes beside it.
\*
\* A call, a request and a result are records of what their checks tell
\* apart; a row of a result is named by the device it is about.
EXTENDS Integers, Sequences, FiniteSets, FiniteSetsExt, SequencesExt

CONSTANTS
    MAX_MODEL_TURNS, MAX_MCP_CALLS, MAX_RULE_READS, REPORT_ONLY_TURNS,
    Tools,      \* by name: [requires_org, site_scopable, time_ranged] as frozen
    Advertised, \* what the endpoint says of each: read_only, and the same facts
    Calls,      \* calls the model may ask for
    Requests,   \* reads the plug-ins may ask for
    Allowance,  \* max_reads of each plug-in
    Results,    \* what Mist may answer
    Reports,    \* reports the model may give
    Authority,  \* the sites of the attempt
    OrgWide,    \* the change is one of the organization
    Site,       \* the site of each row
    Room,       \* payloads that fit the prompt beside its fixed part
    Kept        \* findings that fit CONCLUSIONS_BUDGET

\* A call names its scope, or says that it does not; a report has its parts.
CallsAssumption ==
    /\ \A c \in Calls : {"org", "site"} \subseteq DOMAIN c
    /\ \A c \in Reports : {"peak", "confidence", "evidence", "findings", "devices"} \subseteq DOMAIN c

\* What the plug-ins may read fits, and one payload more.
RoomAssumption == MAX_RULE_READS \in Nat /\ Room \in Nat /\ MAX_RULE_READS < Room

VARIABLES
    clock,      \* the phase whose deadline has not passed
    catalogue,  \* the tools of the attempt
    items,      \* the evidence, by its E-id
    cache,      \* the E-id of each call that succeeded
    agent       \* the conversation

vars == <<clock, catalogue, items, cache, agent>>

\* visible: the evidence of the prompt the model is answering.
Silent == [pc |-> "discover", turn |-> 0, visible |-> {}, conclusion |-> {}]

Init ==
    /\ clock = "rule" /\ catalogue = {} /\ items = <<>> /\ cache = <<>> /\ agent = Silent

From(family) == {e \in DOMAIN items : items[e].family = family}
MadeBy(plugin) == {e \in From("rule") : items[e].by.plugin = plugin}

------------------------
\* What is kept of a result: rows of other sites are left out, and a result
\* of another organization, or with no row left, is an error.
WithinSlip(result) == result.rows
_within_authority(result) == {r \in result.rows : OrgWide \/ Site[r] \in Authority}
Omitted(result) == result.rows \ _within_authority(result)
_foreign(result) == result.foreign
Unusable(result) ==
    result.failed \/ _foreign(result) \/ (Omitted(result) # {} /\ _within_authority(result) = {})

Evidence(family, kind, by, result) ==
    [family |-> family, kind |-> kind, by |-> by,
     collection |-> IF Unusable(result) THEN "error"
                    ELSE IF Omitted(result) # {} \/ result.more THEN "partial" ELSE "complete",
     \* shrink: a digest of a large result shows none of its rows.
     rows |-> IF Unusable(result) \/ result.large THEN {} ELSE _within_authority(result)]
citable(e) == items[e].collection # "error"

------------------------
\* A read of a rule plug-in.
_rule_params(q) ==
    /\ ~q.time /\ ~q.secret
    /\ IF q.org_neutral THEN q.route = "const" /\ q.kind = "reference" ELSE q.route = "scoped"
    /\ q.org = "own" /\ q.site \in Authority \union {"none"}

Read(q) ==
    /\ agent.pc = "discover" /\ clock = "rule"
    /\ _rule_params(q)
    /\ Cardinality(MadeBy(q.plugin)) < Allowance[q.plugin]
    /\ Cardinality(From("rule")) < MAX_RULE_READS
    /\ \E result \in Results : items' = Append(items, Evidence("rule", q.kind, q, result))
    /\ UNCHANGED <<clock, catalogue, cache, agent>>

------------------------
\* A call of the agent, checked against the frozen allowlist.
Prepared(c) == [c EXCEPT !.org = IF Tools[c.tool].requires_org THEN "own" ELSE c.org]

_check_nested(c) == c.nested = "fine"  \* no window, no credential, no other scope
_check_site(c) ==
    /\ c.site \in Authority \union {"none"}
    /\ c.site = "none" /\ Tools[c.tool].site_scopable /\ ~OrgWide => c.kind # "service_health"
_check_window(c) ==
    IF Tools[c.tool].time_ranged THEN c.window \in {"before", "after", "combined"} ELSE c.window = "none"
Accepted(c) ==
    /\ c.tool \in catalogue /\ c.kind # "none" /\ c.valid
    /\ c.org \in {"own", "absent"} /\ _check_nested(c) /\ _check_site(c) /\ _check_window(c)

CacheKeySlip(c) == c
CacheKey(c) == Prepared(c)
Hit(c) == CacheKey(c) \in DOMAIN cache
Spent == Cardinality(From("mcp"))

Asking(c) == agent.pc = "asked" /\ MAX_MODEL_TURNS - agent.turn + 1 > REPORT_ONLY_TURNS
NextTurn == agent' = [agent EXCEPT !.pc = "turn"]
End == agent' = [agent EXCEPT !.pc = "ended"]

Call(c) ==
    /\ Asking(c) /\ Accepted(c) /\ ~Hit(c) /\ clock # "over" /\ Spent < MAX_MCP_CALLS
    /\ \E result \in Results :
           /\ items' = Append(items, Evidence("mcp", c.kind, Prepared(c), result))
           /\ cache' = IF Unusable(result) THEN cache
                       ELSE [k \in DOMAIN cache \union {CacheKey(c)} |->
                                IF k \in DOMAIN cache THEN cache[k] ELSE Len(items) + 1]
    /\ NextTurn /\ UNCHANGED <<clock, catalogue>>

CallTooLate(c) ==
    /\ Asking(c) /\ Accepted(c) /\ ~Hit(c) /\ clock = "over"
    /\ End /\ UNCHANGED <<clock, catalogue, items, cache>>

\* A refused call, a cached one and an answer that is no action spend a turn.
NothingRead(c) ==
    /\ agent.pc = "asked"
    /\ \/ ~Asking(c) \/ ~Accepted(c) \/ Hit(c)
       \/ clock # "over" /\ Spent >= MAX_MCP_CALLS
    /\ NextTurn /\ UNCHANGED <<clock, catalogue, items, cache>>

------------------------
\* The prompt withholds payloads, the oldest of the agent's first.
Payloads == {e \in DOMAIN items : citable(e)}
Rank(e) == IF items[e].family = "mcp" THEN 0 ELSE 1
WithholdFirstSlip(e, f) == Rank(e) < Rank(f) \/ (Rank(e) = Rank(f) /\ e > f)
WithholdFirst(e, f) == Rank(e) < Rank(f) \/ (Rank(e) = Rank(f) /\ e < f)
\* One after another, until those that are left fit.
Withheld ==
    {e \in DOMAIN items :
        Cardinality({f \in Payloads : ~WithholdFirst(f, e)}) > Room}
build_prompt == DOMAIN items \ Withheld

\* A schema that contradicts the frozen scope facts, either way, is refused;
\* a tool may also be left out because the prompt has no room for it.
Usable(t) == Advertised[t].read_only /\ Advertised[t].scopes = Tools[t]

Discover ==
    /\ agent.pc = "discover"
    \* clock = "over": no call may start; the catalogue is empty.
    /\ catalogue' \in IF clock = "over" THEN {{}} ELSE SUBSET {t \in DOMAIN Tools : Usable(t)}
    /\ NextTurn /\ UNCHANGED <<clock, items, cache>>

Turn ==
    /\ agent.pc = "turn"
    /\ IF agent.turn = MAX_MODEL_TURNS \/ clock = "over"
       THEN End
       ELSE agent' = [agent EXCEPT !.pc = "asked", !.turn = @ + 1, !.visible = build_prompt]
    /\ UNCHANGED <<clock, catalogue, items, cache>>

ProviderFails == agent.pc = "asked" /\ End /\ UNCHANGED <<clock, catalogue, items, cache>>

------------------------
\* A report: its checks, in their order, and what of it is stored.
band_rank == [none |-> 0, info |-> 1, warning |-> 2, critical |-> 3]
cited(c) ==
    c.evidence \union UNION {f.evidence : f \in ToSet(c.findings) \union ToSet(c.devices)}
health(es) == {e \in es : items[e].kind = "service_health"}

_ordered(c) ==
    /\ band_rank[c.current] <= band_rank[c.peak]
    /\ \A d \in ToSet(c.devices) : band_rank[d.impact] <= band_rank[c.peak]
_citable(c) == cited(c) \subseteq {e \in agent.visible : citable(e)}
_covered(c, coverage) == c.peak = "none" => coverage = "complete"
needs_health(c) == band_rank[c.peak] >= band_rank["warning"] \/ c.peak = "none" \/ c.confidence = "medium"
_supported(c) ==
    /\ needs_health(c) => health(cited(c)) # {}
    /\ \A f \in ToSet(c.findings) : band_rank[f.impact] >= band_rank["warning"] => f.evidence # {}
mentions_device(e, d) == d \in items[e].rows \/ (items[e].family = "rule" /\ d \in items[e].by.device_macs)
NamesItsDevices(c) == \A d \in ToSet(c.devices) : \E e \in d.evidence : mentions_device(e, d.mac)

\* bounded: the worst findings are kept; the bands keep a citation to rest on.
KeptFindings(c) ==
    LET worst == SortSeq(c.findings, LAMBDA f, g : band_rank[f.impact] > band_rank[g.impact])
    IN  SubSeq(worst, 1, Min({Kept, Len(worst)}))
KeptSupportSlip(c) == {}
kept_support(c) ==
    LET rest == [c EXCEPT !.findings = KeptFindings(c)]
        support == health(cited(c))
    IN  IF support = {} \/ cited(rest) \cap support # {} THEN {} ELSE {Min(support)}
_reported(c) == [c EXCEPT !.findings = KeptFindings(c), !.evidence = @ \union kept_support(c)]

Acceptable(c, coverage) ==
    _ordered(c) /\ _citable(c) /\ _covered(c, coverage) /\ _supported(c) /\ NamesItsDevices(c)

Report(c, coverage) ==
    /\ agent.pc = "asked"
    /\ agent' = IF Acceptable(c, coverage)
                THEN [agent EXCEPT !.pc = "ended", !.conclusion = {_reported(c)}]
                ELSE [agent EXCEPT !.pc = "turn"]
    /\ UNCHANGED <<clock, catalogue, items, cache>>

TimePasses ==
    /\ agent.pc # "ended"
    /\ clock' = [rule |-> "agent", agent |-> "over", over |-> "over"][clock] /\ clock' # clock
    /\ UNCHANGED <<catalogue, items, cache, agent>>

Next ==
    \/ \E q \in Requests : Read(q)
    \/ Discover \/ Turn \/ ProviderFails \/ TimePasses
    \/ \E c \in Calls : Call(c) \/ CallTooLate(c) \/ NothingRead(c)
    \/ \E c \in Reports, coverage \in {"complete", "partial"} : Report(c, coverage)

Spec == Init /\ [][Next]_vars

------------------------
\* Properties.
\* What is stored, and so what the prompt shows, never leaves the sites of the
\* attempt, though results mix them and a call may name none (_within_authority,
\* _check_site, _check_nested).
EvidenceStaysInside ==
    \A e \in DOMAIN items :
        /\ \A r \in items[e].rows : OrgWide \/ Site[r] \in Authority
        /\ items[e].by.org \in {"own", "absent"} /\ items[e].by.site \in Authority \union {"none"}

\* Nothing that was read is read again, however the model words the call: only
\* a read that failed may be (_canonical, Reader._cache).
ReadOnce ==
    \A e, f \in From("mcp") : citable(e) /\ citable(f) /\ items[e].by = items[f].by => e = f

\* The agent sees what it read last: the room beside the fixed part exceeds
\* what the plug-ins may fill, and the oldest payloads give way first
\* (build_prompt, PROMPT_CAP).
NewestIsShown ==
    agent.pc = "asked" /\ From("mcp") # {} => \A e \in From("mcp") : (\A f \in From("mcp") : f <= e) => e \in agent.visible

\* The severity of an accepted report rests, as it is stored, on evidence of
\* service health that was read and shown: composition, which reads only what is
\* stored, lets it count (_conclusion, _reported, _Contribution.of).
ReportRestsOnHealth ==
    \A c \in agent.conclusion : needs_health(c) =>
        \E e \in health(cited(c)) : citable(e) /\ e \in agent.visible
=============================================================================
