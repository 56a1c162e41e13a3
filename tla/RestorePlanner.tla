---------------------------- MODULE RestorePlanner ----------------------------
\* A restore plan, from an organization's history to what running it leaves
\* (services/restore_planner.py).
\*
\* A first backup reads every object one after the other; then objects are
\* changed, removed, created, and brought back by a restore under a new id, each
\* recorded as it is audited.  A plan selects versions, expands what they reach,
\* and orders its actions; running it writes them to Mist in that order.
EXTENDS Integers, Sequences, FiniteSets, FiniteSetsExt

CONSTANTS
    Objects,     \* logical objects
    Type,        \* each one's object_type: "data", "sites", "list" or "single"
    Site,        \* the site each is in, NoSite for an organization's
    Name,        \* each one's explicit name
    MayRefer,    \* pairs <<o, p>>: the configuration of o may name p
    Instants,    \* how many versions one request may select
    MaxEvents    \* bound on the history

NoSite == "none"

\* Only a site contains what is in it, and no site does a site.
ObjectsAssumption ==
    /\ IsFiniteSet(Objects) /\ NoSite \notin Objects
    /\ \A o \in Objects : Site[o] # NoSite =>
           Site[o] \in Objects /\ Type[Site[o]] = "sites" /\ Site[Site[o]] = NoSite

VARIABLES
    mist,       \* what Mist holds: [live, inc, content, refs] of each object
    versions,   \* ObjectVersion, in the order recorded, which is that of observed_at
    snapshot,   \* completed_at of the first backup, 0 while it is not
    events,
    pc, request,
    sel, force, rewrites, instants, pending,   \* PlanningContext
    actions, rank,   \* the actions, and those placed and not yet written
    after       \* what Mist holds as the plan runs

history == <<mist, versions, snapshot, events>>
context == <<sel, force, rewrites, instants, pending>>
vars == <<history, pc, request, context, actions, rank, after>>

\* A Mist id: an object's incarnation.
Id(o, inc) == <<o, inc>>
CurrentId(o) == Id(o, mist[o].inc)
LiveIds(m) == {Id(o, m[o].inc) : o \in {x \in Objects : m[x].live}}
\* One namespace in Mist: objects of one type and site may not share a name.
Alike(o, p) == Type[o] = Type[p] /\ Site[o] = Site[p] /\ Name[o] = Name[p]

------------------------
\* History.
Held(live, inc, content, refs, seen) ==
    [live |-> live, inc |-> inc, content |-> content, refs |-> refs, seen |-> seen]
\* With each version, the id its object's site has: a site that comes back has another.
Home(o) == IF Site[o] = NoSite THEN 0 ELSE mist[Site[o]].inc
Version(o, m, snap) ==
    [obj |-> o, inc |-> m.inc, snap |-> snap, deleted |-> ~m.live, content |-> m.content, refs |-> m.refs,
     home |-> Home(o)]

RefSets(m, o) == SUBSET {Id(p, m[p].inc) : p \in {x \in Objects : m[x].live /\ <<o, x>> \in MayRefer}}

\* A first backup of some of the objects, read in any order.
There(E) == [o \in Objects |-> Held(o \in E, 1, 0, {}, o \in E)]
FirstBackup(E, order, refs) ==
    /\ \A i, j \in DOMAIN order : order[i] = order[j] => i = j
    /\ E = {order[i] : i \in DOMAIN order}
    /\ \A o \in Objects : IF o \in E THEN refs[o] \in RefSets(There(E), o) ELSE refs[o] = {}
    /\ \A o \in E : Site[o] = NoSite \/ Site[o] \in E
    /\ \A o, p \in E : Alike(o, p) => o = p
    /\ mist = [o \in Objects |-> Held(o \in E, 1, 0, refs[o], o \in E)]
    /\ versions = [i \in DOMAIN order |-> Version(order[i], mist[order[i]], 1)]
    /\ snapshot \in {0, Cardinality(E)}

Init ==
    /\ \E E \in SUBSET Objects : \E order \in [1 .. Cardinality(E) -> E] :
           \E refs \in [Objects -> UNION {RefSets(There(E), o) : o \in Objects}] : FirstBackup(E, order, refs)
    /\ events = 0 /\ pc = "history" /\ request = [objects |-> {}]
    /\ sel = <<>> /\ force = {} /\ rewrites = {} /\ instants = <<>> /\ pending = <<>>
    /\ actions = <<>> /\ rank = <<>> /\ after = mist

Event(o, m, recorded) ==
    /\ pc = "history" /\ events < MaxEvents
    /\ mist' = [mist EXCEPT ![o] = m] /\ after' = mist'
    /\ events' = events + 1
    /\ versions' = IF recorded THEN Append(versions, Version(o, m, 0)) ELSE versions
    /\ UNCHANGED <<snapshot, pc, request, context, actions, rank>>

Known(o) == \E v \in DOMAIN versions : versions[v].obj = o
NameFree(o) == \A p \in Objects : mist[p].live /\ p # o => ~Alike(p, o)
Placed(o) == Site[o] # NoSite => mist[Site[o]].live

\* A creation whose audit event is late is recorded only after what follows it.
Create(o) ==
    /\ ~mist[o].live /\ ~Known(o) /\ NameFree(o) /\ Placed(o)
    /\ \E recorded \in BOOLEAN : Event(o, Held(TRUE, 1, 0, {}, recorded), recorded)
Late(o) ==
    /\ mist[o].live /\ ~mist[o].seen
    /\ Event(o, Held(TRUE, mist[o].inc, mist[o].content, mist[o].refs, TRUE), TRUE)
Change(o) ==
    /\ mist[o].live /\ mist[o].seen
    /\ \E refs \in RefSets(mist, o), content \in {0, 1} :
           /\ <<content, refs>> # <<mist[o].content, mist[o].refs>>
           /\ Event(o, Held(TRUE, mist[o].inc, content, refs, TRUE), TRUE)
Dropped(o) ==
    /\ mist[o].live /\ mist[o].seen /\ Type[o] # "data"
    /\ \A p \in Objects : mist[p].live => Site[p] # o
    /\ Event(o, Held(FALSE, mist[o].inc, mist[o].content, mist[o].refs, TRUE), TRUE)
\* A restore brought it back: the same logical object, with a new id.
Recreate(o) ==
    /\ ~mist[o].live /\ Known(o) /\ Type[o] # "single" /\ NameFree(o) /\ Placed(o)
    /\ Event(o, Held(TRUE, mist[o].inc + 1, mist[o].content, mist[o].refs \intersect LiveIds(mist), TRUE), TRUE)

------------------------
\* Reads of the history.
VersionsOf(o) == {v \in DOMAIN versions : versions[v].obj = o}
latest_version(o) == Max(VersionsOf(o))
is_deleted(o) == versions[latest_version(o)].deleted
current_mist_id(o) == Id(o, versions[latest_version(o)].inc)
\* The site as it was last recorded with the object, and not as it is by now.
site_mist_id(o) == Id(Site[o], versions[latest_version(o)].home)

InstantSlip(v) == [at |-> v, snap |-> 0]
\* A version a snapshot recorded stands for everything that snapshot recorded.
InstantOf(v) ==
    IF versions[v].snap = 0 THEN [at |-> v, snap |-> 0]
    ELSE [at |-> IF snapshot # 0 THEN snapshot ELSE v, snap |-> versions[v].snap]

VersionsAt(o, t) == {v \in VersionsOf(o) : v <= t.at \/ (t.snap # 0 /\ versions[v].snap = t.snap)}
\* 0 when there is none.
_version_at(o, t) == IF VersionsAt(o, t) = {} THEN 0 ELSE Max(VersionsAt(o, t))

\* The incarnations the collector or a restore recorded.
Incarnation(id) == \E v \in DOMAIN versions : Id(versions[v].obj, versions[v].inc) = id
Referred(v) == {id[1] : id \in {r \in versions[v].refs : Incarnation(r)}}

Contained(o) ==
    CASE Type[o] = "data" -> {p \in Objects : Known(p)}
      [] Type[o] = "sites" -> {p \in Objects : Known(p) /\ site_mist_id(p) = current_mist_id(o)}
      [] OTHER -> {}
_related_logical_objects(o, v) == Referred(v) \union (IF o \in request.objects THEN Contained(o) ELSE {})

_reverse_dependents(o) ==
    {p \in Objects : Known(p) /\ ~is_deleted(p) /\ current_mist_id(o) \in versions[latest_version(p)].refs}

------------------------
\* create_plan.
Selection(chosen, o) == CHOOSE v \in chosen : versions[v].obj = o
Ask(chosen, asked) ==
    /\ request' = asked
    /\ sel' = [o \in asked.objects |-> Selection(chosen, o)]
    /\ instants' = [o \in asked.objects |-> InstantOf(Selection(chosen, o))]
    /\ pending' = [o \in asked.objects |-> 0]
    /\ pc' = IF asked.deps THEN "expand" ELSE "mark"
Request ==
    /\ pc = "history"
    /\ \E chosen \in UNION {kSubset(k, DOMAIN versions) : k \in 1 .. Instants} :
           /\ \A v, u \in chosen : versions[v].obj = versions[u].obj => v = u
           /\ \E mode \in {"exact", "non_destructive"}, deps \in BOOLEAN, prepared \in BOOLEAN :
                 Ask(chosen, [mode |-> mode, deps |-> deps, prepared |-> prepared,
                              objects |-> {versions[v].obj : v \in chosen}])
    /\ UNCHANGED <<history, force, rewrites, actions, rank, after>>

CameSinceSlip(o, v) == v = 0
\* Absent at the target yet live now.
CameSince(o, v) == v = 0 \/ (versions[v].deleted /\ ~is_deleted(o))

\* The queue is by the order things were reached in, the latest instant first among
\* what was requested.
First(o) ==
    /\ o \in DOMAIN pending
    /\ \A p \in DOMAIN pending :
           pending[o] < pending[p] \/ (pending[o] = pending[p] /\ instants[p].at <= instants[o].at)

\* _expand_dependencies, for one object of the queue: what it reaches at its
\* instant, and what must follow it to its new id.
Reached(o) ==
    {p \in _related_logical_objects(o, sel[o]) \ DOMAIN sel :
        ~(request.mode = "non_destructive" /\ CameSince(p, _version_at(p, instants[o])))}
Repointed(o) ==
    IF is_deleted(o) /\ ~versions[sel[o]].deleted
    THEN _reverse_dependents(o) \ (DOMAIN sel \union Reached(o)) ELSE {}
Unrecorded(o) == {p \in Reached(o) : _version_at(p, instants[o]) = 0}
Expand(o) ==
    /\ sel' = [p \in DOMAIN sel \union Reached(o) \union Repointed(o) |->
                  IF p \in DOMAIN sel THEN sel[p]
                  ELSE IF p \in Reached(o) \ Unrecorded(o) THEN _version_at(p, instants[o]) ELSE latest_version(p)]
    /\ force' = force \union Unrecorded(o)
    /\ rewrites' = rewrites \union Repointed(o)
    /\ instants' = [p \in DOMAIN instants \union Reached(o) |-> IF p \in Reached(o) THEN instants[o] ELSE instants[p]]
    /\ pending' = [p \in (DOMAIN pending \ {o}) \union Reached(o) |->
                      IF p \in Reached(o) THEN Cardinality(DOMAIN sel) ELSE pending[p]]

\* What a version that stays references is kept, and what that references in turn.
Kept == {o \in DOMAIN sel \ force : ~versions[sel[o]].deleted}
_expand_dependencies ==
    /\ pc = "expand"
    /\ \/ \E o \in Objects : First(o) /\ Expand(o) /\ UNCHANGED pc
       \/ /\ DOMAIN pending = {}
          /\ pc' = "spare" /\ pending' = [o \in Kept |-> sel[o]]
          /\ UNCHANGED <<sel, force, rewrites, instants>>
    /\ UNCHANGED <<history, request, actions, rank, after>>

\* A round: what it spares leaves the plan.
Named == UNION {Referred(pending[o]) : o \in DOMAIN pending}
_spare_referenced_objects ==
    /\ pc = "spare"
    /\ LET spared == Named \intersect force
           kept == {o \in spared : ~versions[sel[o]].deleted}
       IN /\ sel' = [o \in DOMAIN sel \ spared |-> sel[o]]
          /\ force' = force \ spared
          /\ pending' = [o \in kept |-> sel[o]]
          /\ pc' = IF spared = {} THEN "mark" ELSE "spare"
    /\ UNCHANGED <<history, request, rewrites, instants, actions, rank, after>>

\* _recreated_mist_ids
Recreated == {o \in Kept : is_deleted(o)}
RecreatedIds == {current_mist_id(o) : o \in Recreated}
_references_any(v) == versions[v].refs \intersect RecreatedIds # {}

_mark_selected_reference_rewrites ==
    /\ pc = "mark" /\ pc' = "build"
    /\ rewrites' = rewrites \union
           {o \in Kept : ~is_deleted(o) /\ sel[o] = latest_version(o) /\ _references_any(sel[o])}
    /\ UNCHANGED <<history, request, sel, force, instants, pending, actions, rank, after>>

------------------------
\* _build_actions, for one selected object.
SameConfiguration(v, u) == versions[v].content = versions[u].content /\ versions[v].refs = versions[u].refs
_action_type(o) ==
    LET v == sel[o] IN
    CASE o \in rewrites -> "update"
      [] o \notin rewrites /\ (o \in force \/ versions[v].deleted) -> IF is_deleted(o) THEN "none" ELSE "delete"
      [] OTHER ->
           IF is_deleted(o) THEN IF Type[o] = "single" THEN "update" ELSE "create"
           ELSE IF v = latest_version(o) THEN "none"
           \* With a fresh backup as its baseline, what already stands is left alone.
           ELSE IF request.prepared /\ SameConfiguration(v, latest_version(o)) /\ ~_references_any(v) THEN "none"
           ELSE "update"

\* The version written, and its references to earlier incarnations of an object
\* that lives on, or that the plan brings back.
Source(o) == IF o \in rewrites THEN latest_version(o) ELSE sel[o]
_live_replacements(o) ==
    LET old == {r \in versions[Source(o)].refs :
                  /\ Incarnation(r) /\ current_mist_id(r[1]) # r
                  /\ ~is_deleted(r[1]) \/ current_mist_id(r[1]) \in RecreatedIds}
    IN [r \in old |-> current_mist_id(r[1])]

Planned == {o \in DOMAIN sel : _action_type(o) # "none"}
Deleted == {o \in Planned : _action_type(o) = "delete"}

_action_dependencies(o) ==
    IF o \in Deleted THEN {}
    ELSE {p \in Referred(Source(o)) \intersect DOMAIN sel : is_deleted(p)}
         \union {s \in DOMAIN sel : is_deleted(s) /\ site_mist_id(o) = current_mist_id(s)}
\* Sites, and the organization's data, go after what they contain.
_add_containment_delete_dependencies(o) ==
    IF o \notin Deleted THEN {}
    ELSE CASE Type[o] = "sites" -> {p \in Deleted : site_mist_id(p) = current_mist_id(o)}
           [] Type[o] = "data" -> Deleted \ {o}
           [] OTHER -> {}
NameReuseSlip(o) == {}
_add_name_reuse_dependencies(o) ==
    IF _action_type(o) # "create" THEN {}
    ELSE {p \in Deleted : Type[p] = Type[o] /\ Name[p] = Name[o] /\ site_mist_id(p) = site_mist_id(o)}
depends_on(o) ==
    _action_dependencies(o) \union _add_containment_delete_dependencies(o) \union _add_name_reuse_dependencies(o)

Build ==
    /\ pc = "build" /\ pc' = "order"
    /\ actions' = [o \in Planned |->
           [action |-> _action_type(o), source |-> Source(o), needs |-> depends_on(o) \intersect Planned,
            remap |-> IF o \in Deleted THEN <<>> ELSE _live_replacements(o)]]
    /\ UNCHANGED <<history, request, context, rank, after>>

\* order_restore_actions: layer after layer of what is ready, or a cycle.
order_restore_actions ==
    /\ pc = "order"
    /\ LET left == DOMAIN actions \ DOMAIN rank
           ready == {o \in left : actions[o].needs \subseteq DOMAIN rank}
       IN /\ rank' = [o \in DOMAIN rank \union ready |-> IF o \in ready THEN Cardinality(DOMAIN rank) ELSE rank[o]]
          /\ pc' = IF left = {} THEN "run" ELSE IF ready = {} THEN "cycle" ELSE "order"
    /\ UNCHANGED <<history, request, context, actions, after>>
_action_priority(o) == CASE actions[o].action = "create" -> 0 [] actions[o].action = "update" -> 1 [] OTHER -> 2
OrderSlip(o) == o \in DOMAIN rank /\ \A p \in DOMAIN rank : _action_priority(o) <= _action_priority(p)
\* The next of the order.
Due(o) ==
    /\ o \in DOMAIN rank
    /\ \A p \in DOMAIN rank :
           rank[o] < rank[p] \/ (rank[o] = rank[p] /\ _action_priority(o) <= _action_priority(p))

------------------------
\* The run, as RestoreRun has it: each payload is rewritten with the ids the
\* run has created so far and those the plan remapped (payload_id_map).
Created == {o \in DOMAIN actions \ DOMAIN rank : actions[o].action = "create"}
Followed(id) == IF \E o \in Created : id = CurrentId(o) THEN Id(id[1], after[id[1]].inc) ELSE id
payload_id_map(remap, id) ==
    IF Followed(id) = id /\ id \in DOMAIN remap THEN Followed(remap[id]) ELSE Followed(id)
\* remap_target: what is in a site is written where its site now is, if this run
\* knows; Mist refuses a site that is not, and the run ends there.
Homed(o) ==
    Site[o] # NoSite => after[Site[o]].live /\ Followed(site_mist_id(o)) = Id(Site[o], after[Site[o]].inc)
Refused(o) ==
    /\ pc = "run" /\ Due(o) /\ ~Homed(o)
    /\ pc' = "failed"
    /\ UNCHANGED <<history, request, context, actions, rank, after>>
Write(o) ==
    /\ pc = "run" /\ Due(o) /\ Homed(o)
    /\ LET a == actions[o]
           inc == IF a.action = "create" THEN mist[o].inc + 1 ELSE mist[o].inc
           refs == {payload_id_map(a.remap, id) : id \in versions[a.source].refs}
       IN after' = [after EXCEPT ![o] = IF a.action = "delete"
                                        THEN Held(FALSE, mist[o].inc, mist[o].content, mist[o].refs, TRUE)
                                        ELSE Held(TRUE, inc, versions[a.source].content, refs, TRUE)]
    /\ rank' = [p \in DOMAIN rank \ {o} |-> rank[p]]
    /\ UNCHANGED <<history, pc, request, context, actions>>

Next ==
    \/ \E o \in Objects : Create(o) \/ Late(o) \/ Change(o) \/ Dropped(o) \/ Recreate(o)
    \/ Request \/ _expand_dependencies \/ _spare_referenced_objects
    \/ _mark_selected_reference_rewrites \/ Build \/ order_restore_actions
    \/ \E o \in Objects : Write(o) \/ Refused(o)

Spec == Init /\ [][Next]_vars

------------------------
\* Properties, of what running a plan leaves.
Ran == pc = "run" /\ DOMAIN rank = {}
\* With its dependencies expanded, a plan leaves no reference to nothing, but
\* where one already named nothing in Mist, what it names was requested as
\* deleted, or it was not there at an instant restored; and what was merely not
\* recorded by then is never taken from what the plan leaves or writes
\* (_spare_referenced_objects, _live_replacements, order_restore_actions).
NoDanglingReference ==
    Ran /\ request.deps => \A o \in Objects : after[o].live => \A r \in after[o].refs :
        \/ r \in LiveIds(after)
        \/ mist[o].live /\ r \in mist[o].refs \ LiveIds(mist)
        \/ r[1] \in request.objects /\ versions[sel[r[1]]].deleted
        \/ \E p \in DOMAIN instants : LET v == _version_at(r[1], instants[p]) IN
               IF v = 0 THEN o \notin DOMAIN sel \/ ~mist[r[1]].live ELSE versions[v].deleted

\* A non-destructive plan deletes only what was itself requested as deleted.
NonDestructive ==
    pc = "run" /\ request.mode = "non_destructive" => \A o \in Objects :
        mist[o].live /\ ~after[o].live => o \in request.objects /\ versions[sel[o]].deleted

\* What the history had by a version, all of its snapshot included.
HadBy(v, o) == {u \in VersionsOf(o) : u <= v \/ (versions[v].snap # 0 /\ versions[u].snap = versions[v].snap)}

\* An exact plan of the organization's data brings everything known back to what
\* it was when the version requested was recorded, but for what was recorded
\* since and is referenced by what stays.
ExactIsTheInstant ==
    Ran /\ request.mode = "exact" /\ request.deps =>
        \A d \in Objects : request.objects = {d} /\ Type[d] = "data" =>
            \A o \in {x \in Objects : Known(x)} :
                LET had == HadBy(sel[d], o) IN
                IF had # {} /\ ~versions[Max(had)].deleted
                THEN after[o].live /\ after[o].content = versions[Max(had)].content
                ELSE after[o].live => had = {} /\ \E p \in Objects : after[p].live /\ \E r \in after[p].refs : r[1] = o

\* No object is created beside a live one of its name and type that the plan
\* was to delete, and no site is deleted before what it contains that goes too.
NothingInTheWay ==
    pc = "run" => \A o \in Objects : \A p \in Objects \ {o} :
        /\ Due(o) /\ after[p].live
        /\ \/ actions[o].action = "create" /\ Homed(o) /\ Alike(o, p)
           \/ actions[o].action = "delete" /\ Site[p] = o
        => ~(p \in DOMAIN actions /\ actions[p].action = "delete")
=============================================================================
