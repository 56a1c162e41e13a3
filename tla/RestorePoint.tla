------------------------------ MODULE RestorePoint ------------------------------
\* Choosing what to restore: the configuration as it stood at an instant
\* (services/point_in_time.py) and the picker of restorable objects
\* (services/restore_targets.py), which is written twice: in Python, as the
\* reference, and as the one aggregation a deployment runs. Names compare by
\* their folded form, given as a rank; what a needle is found in is a constant.
EXTENDS Integers, Sequences, FiniteSets, FiniteSetsExt, SequencesExt, Functions

CONSTANTS
    Objects,         \* logical objects, each [id, type, scope]: ids in their stored order
    Names, MistIds,
    Fold,            \* the rank of each name, Mist id and type with its case folded
    Order,           \* the rank of each name, Mist id and type as written
    Needles,         \* searches: the names and types each is found in
    SCOPE_LIMIT, Limit,
    MaxTime, MaxVersions    \* how many versions are recorded in all

RanksAssumption ==
    /\ IsFiniteSet(Objects) /\ SCOPE_LIMIT \in Nat /\ "none" \notin MistIds
    /\ \A o \in Objects : o.id \in Int /\ Order[o.type] \in Int
    /\ \A n \in Names : Order[n] \in Int

VARIABLES
    now,
    logical,         \* LogicalObject of each: none, or [mist, site, name, deleted]
    history          \* ObjectVersion of each, in version order: [at, deleted]
vars == <<now, logical, history>>

None == "none"       \* no site: a field of an organization's own object
Stored == {o \in Objects : logical[o] # {}}
Doc(o) == CHOOSE d \in logical[o] : TRUE
Sites == {o \in Stored : o.type = "sites"}
\* Mist ids are never used again.
Unused == MistIds \ UNION {{d.mist : d \in logical[o]} : o \in Objects}

Init == now = 0 /\ logical = [o \in Objects |-> {}] /\ history = [o \in Objects |-> <<>>]

Recorded(o, deleted) ==
    /\ SumFunction([p \in Objects |-> Len(history[p])]) < MaxVersions
    /\ history' = [history EXCEPT ![o] = Append(@, [at |-> now, deleted |-> deleted])]
    /\ UNCHANGED now
\* A backup or an audit captures an object, newly met, changed or recreated
\* under another Mist id.
Capture(o) ==
    /\ \E mist \in IF logical[o] # {} /\ ~Doc(o).deleted THEN {Doc(o).mist} ELSE Unused,
          name \in Names, site \in IF o.scope = "site" THEN {Doc(s).mist : s \in Sites} ELSE {None} :
           logical' = [logical EXCEPT ![o] = {[mist |-> mist, site |-> site, name |-> name, deleted |-> FALSE]}]
    /\ Recorded(o, FALSE)
Delete(o) ==
    /\ logical[o] # {} /\ ~Doc(o).deleted
    /\ logical' = [logical EXCEPT ![o] = {[d EXCEPT !.deleted = TRUE] : d \in @}]
    /\ Recorded(o, TRUE)
Tick == now < MaxTime /\ now' = now + 1 /\ UNCHANGED <<logical, history>>
Next == Tick \/ \E o \in Objects : Capture(o) \/ Delete(o)
Spec == Init /\ [][Next]_vars

------------------------
\* point_in_time.py
\* 0 when the object had no version yet.
version_at(o, at) == Max({0} \union {v \in DOMAIN history[o] : history[o][v].at <= at})
object_at(o, at) ==
    LET v == version_at(o, at) IN IF logical[o] = {} \/ v = 0 \/ history[o][v].deleted THEN 0 ELSE v

By(x, y) == \E i \in DOMAIN x : x[i] < y[i] /\ \A j \in 1 .. i - 1 : x[j] = y[j]
\* What has keys, in the order of its keys.
Sorted(key) == SetToSortSeq(DOMAIN key, LAMBDA a, b : By(key[a], key[b]))
Head_(s, n) == SubSeq(s, 1, IF Len(s) < n THEN Len(s) ELSE n)

\* The first SCOPE_LIMIT of the objects in scope.
scope_objects(site) ==
    LET found == {o \in Stored : site = {} \/ Doc(o).site \in site}
        key(o) == <<Order[o.type], Order[Doc(o).name], o.id>>
    IN  {o \in found : Cardinality({p \in found : By(key(p), key(o))}) < SCOPE_LIMIT}
versions_atSlip(S, at) ==
    {[object |-> o, version |-> Max({v \in DOMAIN history[o] : history[o][v].at <= at /\ ~history[o][v].deleted})] :
        o \in {x \in S : \E v \in DOMAIN history[x] : history[x][v].at <= at /\ ~history[x][v].deleted}}
\* The newest version of each, then only those that are no tombstone.
versions_at(S, at) ==
    {[object |-> o, version |-> version_at(o, at)] :
        o \in {x \in S : version_at(x, at) # 0 /\ ~history[x][version_at(x, at)].deleted}}
state_atSlip(site, at) == {i \in versions_at(scope_objects(site), at) : ~Doc(i.object).deleted}
state_at(site, at) == versions_at(scope_objects(site), at)

------------------------
\* restore_targets.py: the reference, in Python.
restorable_versions(o) == {v \in DOMAIN history[o] : ~history[o][v].deleted}
SiteName(id) == {Doc(s).name : s \in {x \in Sites : Doc(x).mist = id /\ ~Doc(x).deleted}}
Target(o) ==
    [object |-> o, version |-> Max(restorable_versions(o)), name |-> Doc(o).name, site |-> Doc(o).site,
     site_name |-> IF Doc(o).site = None THEN {} ELSE SiteName(Doc(o).site)]
Found(q, t) == q.q = {} \/ \E needle \in q.q : {t.name, t.object.type} \intersect Needles[needle] # {}
_filter(targets, q, use_type, use_site) ==
    {t \in targets : /\ q.scope \in {"all", t.object.scope}
                     /\ use_site /\ q.site # {} => t.site \in q.site
                     /\ use_type /\ q.type # {} => t.object.type \in q.type
                     /\ Found(q, t)}
InPage(t) == <<Order[t.object.type], Fold[t.name], t.object.id>>
ByCount(row) == <<-row[2], Order[row[1]]>>
ByName(row) == <<Fold[row[2]], Order[row[1]]>>
_type_facets(targets) ==
    LET counts == [type \in {t.object.type : t \in targets} |->
                       Cardinality({t \in targets : t.object.type = type})]
    IN  Sorted([row \in {<<type, counts[type]>> : type \in DOMAIN counts} |-> ByCount(row)])
_site_facets(targets) ==
    LET Shown(t) == IF t.site_name = {} THEN t.site ELSE CHOOSE n \in t.site_name : TRUE
    IN  Sorted([row \in {<<t.site, Shown(t)>> : t \in {x \in targets : x.site # None}} |-> ByName(row)])
InMemorySearch(q) ==
    LET targets == {Target(o) : o \in {x \in Stored : restorable_versions(x) # {}}}
        matched == Sorted([t \in _filter(targets, q, TRUE, TRUE) |-> InPage(t)])
    IN  [items |-> Head_(SubSeq(matched, q.skip + 1, Len(matched)), Limit), total |-> Len(matched),
         types |-> _type_facets(_filter(targets, q, FALSE, TRUE)),
         sites |-> _site_facets(_filter(targets, q, TRUE, FALSE))]

------------------------
\* restore_targets.py _pipeline: the aggregation.
\* Each stage maps rows; a lookup is a set, $unwind drops a row whose is empty.
_lookups ==
    {[object |-> o, name |-> Doc(o).name, site |-> Doc(o).site,
      newest |-> {v \in DOMAIN history[o] : ~history[o][v].deleted
                                            /\ \A w \in v + 1 .. Len(history[o]) : history[o][w].deleted},
      site_name |-> {Doc(s).name : s \in {x \in Sites : ~Doc(x).deleted /\ Doc(x).mist = Doc(o).site}}] :
        o \in Stored}
_unwound == {r \in _lookups : r.newest # {}}
_common_match(q, r) ==
    /\ q.scope = "all" \/ r.object.scope = q.scope
    /\ q.q = {} \/ \E needle \in q.q : r.name \in Needles[needle] \/ r.object.type \in Needles[needle]
_pipelineSlip(q) ==
    LET both == {r \in _unwound : /\ _common_match(q, r) /\ (q.site # {} => r.site \in q.site)
                                  /\ (q.type # {} => r.object.type \in q.type)}
    IN  [site |-> both, type |-> both]
\* The rows the type facet counts, which honour the site alone, and the site
\* facet's, which honour the type alone; the page honours both.
_pipeline(q) ==
    [site |-> {r \in _unwound : _common_match(q, r) /\ (q.site # {} => r.site \in q.site)},
     type |-> {r \in _unwound : _common_match(q, r) /\ (q.type # {} => r.object.type \in q.type)}]
_target(r) ==
    [object |-> r.object, version |-> CHOOSE v \in r.newest : TRUE, name |-> r.name, site |-> r.site,
     site_name |-> r.site_name]
MongoSearch(q) ==
    LET matches == _pipeline(q)
        page == Sorted([t \in {_target(r) : r \in matches.site \intersect matches.type} |-> InPage(t)])
        counted(type) == Cardinality({r \in matches.site : r.object.type = type})
    IN  [items |-> Head_(SubSeq(page, q.skip + 1, Len(page)), Limit), total |-> Len(page),
         types |-> Sorted([row \in {<<r.object.type, counted(r.object.type)>> : r \in matches.site} |-> ByCount(row)]),
         sites |-> Sorted([row \in {<<r.site, IF r.site_name = {} THEN r.site ELSE CHOOSE n \in r.site_name : TRUE>> :
                                        r \in {x \in matches.type : x.site # None}} |-> ByName(row)])]

------------------------
\* Properties.
Queries ==
    [scope : {"all", "org", "site"}, site : {{}} \union {{i} : i \in {Doc(s).mist : s \in Sites}},
     type : {{}} \union {{o.type} : o \in Objects}, q : {{}} \union {{n} : n \in DOMAIN Needles}, skip : {0, 1}]

\* The aggregation a deployment runs agrees with the reference it is specified
\* by: the same page in the same order, total, type rows and site rows.
SearchesAgree == \A q \in Queries : MongoSearch(q) = InMemorySearch(q)

\* The two point-in-time endpoints agree on what existed at an instant: the
\* state of the organization holds an object at the version the object's own
\* view gives, and a site's state is its part of it.
EndpointsAgree ==
    Cardinality(Stored) <= SCOPE_LIMIT => \A at \in 0 .. now :
        /\ \A o \in Objects : object_at(o, at) = Max({0} \union {i.version : i \in {x \in state_at({}, at) : x.object = o}})
        /\ \A s \in Sites : state_at({Doc(s).mist}, at) =
               {i \in state_at({}, at) : Doc(i.object).site = Doc(s).mist}

\* A past instant keeps its state: nothing recorded later, a deletion or a
\* recreation under another Mist id included, changes which objects existed at
\* it or at which version.
KeepsThePast ==
    Cardinality(Stored') <= SCOPE_LIMIT =>
        \A at \in 0 .. now' - 1 : at < now => state_at({}, at)' = state_at({}, at)
PastIsSettled == [][KeepsThePast]_vars
=================================================================================
