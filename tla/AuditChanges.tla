----------------------------- MODULE AuditChanges -----------------------------
\* What the Guardian loads of an audit (services/guardian.py): of every object
\* the audit changed, the net change from the version before its first to its
\* last, under a cap on versions read, and the gaps that say what the net
\* change does not show.  Several audits write the same objects; an object may
\* be deleted and come back as another incarnation.
EXTENDS Integers, Sequences, FiniteSets, FiniteSetsExt, SequencesExt

CONSTANTS
    Objects,              \* logical objects, numbers in the order of their ids
    Configurations,       \* [attribute -> value] functions
    Audits, Audit,        \* who writes, and the audit investigated
    MAX_AUDIT_VERSIONS, MaxVersions

AuditAssumption == Objects \subseteq Int /\ IsFiniteSet(Objects) /\ MAX_AUDIT_VERSIONS \in Nat

VARIABLES history, gone
vars == <<history, gone>>

Nothing == <<>>
Shown(version) == IF version.is_deleted THEN Nothing ELSE version.configuration
Differ(b, a) ==
    {k \in DOMAIN b \union DOMAIN a : k \in DOMAIN b \intersect DOMAIN a => b[k] # a[k]}
Latest(o) == history[o][Len(history[o])]
Live(o) == history[o] # <<>> /\ ~Latest(o).is_deleted
Total == FoldLeft(LAMBDA n, o : n + Len(history[o]), 0, SetToSeq(Objects))

Version(audit, configuration, deleted, incarnation, fields) ==
    [audit |-> audit, configuration |-> configuration, is_deleted |-> deleted,
     incarnation |-> incarnation, changed_fields |-> fields]
Record(o, version) == history' = [history EXCEPT ![o] = Append(@, version)] /\ UNCHANGED gone

Init == history = [o \in Objects |-> <<>>] /\ gone \in SUBSET Objects

\* next_version: unchanged configurations make no version; what a creation
\* changed is not recorded, nor what a deletion did.
Capture(o, audit) ==
    /\ Total < MaxVersions
    /\ \E c \in Configurations :
           IF Live(o)
           THEN /\ Latest(o).configuration # c
                /\ Record(o, Version(audit, c, FALSE, Latest(o).incarnation, Differ(Latest(o).configuration, c)))
           ELSE Record(o, Version(audit, c, FALSE, Len(history[o]) + 1, {}))
Delete(o, audit) ==
    /\ Live(o) /\ Total < MaxVersions
    /\ Record(o, Version(audit, Latest(o).configuration, TRUE, Latest(o).incarnation, {}))

Next == \E o \in Objects, a \in Audits : Capture(o, a) \/ Delete(o, a)
Spec == Init /\ [][Next]_vars

------------------------
\* Loading, of rows <<object, version>> in that order.
Rows == UNION {{o} \X {v \in DOMAIN history[o] : history[o][v].audit = Audit} : o \in Objects}
Precedes(x, y) == x[1] < y[1] \/ (x[1] = y[1] /\ x[2] < y[2])
\* How many rows come before r.
Place(r) == Cardinality({x \in Rows : Precedes(x, r)})
Capped == Cardinality(Rows) > MAX_AUDIT_VERSIONS
_audit_versionsSlip == IF Capped THEN {r \in Rows : Place(r) < MAX_AUDIT_VERSIONS} ELSE Rows
\* An object whose versions the cap cut is dropped whole.
_audit_versions ==
    IF ~Capped THEN Rows
    ELSE LET overflow == CHOOSE r \in Rows : Place(r) = MAX_AUDIT_VERSIONS
         IN  {r \in Rows : Place(r) < MAX_AUDIT_VERSIONS /\ r[1] # overflow[1]}

Spans(o) == {r[2] : r \in {x \in _audit_versions : x[1] = o}}
priors(o) ==
    LET first == Min(Spans(o))
    IN  IF first = 1 THEN {} ELSE {p \in {history[o][first - 1]} : ~p.is_deleted}
superseded(o) ==
    [versions |-> Cardinality(Spans(o)),
     attributes |-> UNION {history[o][v].changed_fields : v \in Spans(o)}]
\* One provider identity holds only while every version shares an incarnation.
single(o) ==
    LET mine == {history[o][v].incarnation : v \in Spans(o)}
    IN  Cardinality(mine) = 1 /\ \A p \in priors(o) : {p.incarnation} = mine
_object_changes ==
    {[object |-> o,
      before |-> IF priors(o) = {} THEN Nothing ELSE (CHOOSE p \in priors(o) : TRUE).configuration,
      after |-> Shown(history[o][Max(Spans(o))]),
      mist_id |-> IF single(o) THEN {history[o][Max(Spans(o))].incarnation} ELSE {}] :
         o \in {x \in Objects \ gone : Spans(x) # {}}}
unidentified == {o \in gone : Spans(o) # {}}

\* build_change_set, then _unseen_inputs: what was put back yields no atom.
Atoms(c) == Differ(c.before, c.after)
_unseen_inputsSlip(c) == IF superseded(c.object).versions > 1 /\ Atoms(c) = {} THEN {"whole"} ELSE {}
_unseen_inputs(c) ==
    LET seen == superseded(c.object)
        reverted == seen.attributes \ Atoms(c)
    IN  IF seen.versions = 1 THEN {}
        ELSE IF reverted # {} THEN reverted
        ELSE IF Atoms(c) = {} THEN {"whole"} ELSE {}
gaps == {g \in {"versions"} : Capped} \union {g \in {"unidentified"} : unidentified # {}}

------------------------
\* Properties, against the whole history.
Own(o) == {v \in DOMAIN history[o] : history[o][v].audit = Audit}
Before(o, v) == IF v = 1 THEN Nothing ELSE Shown(history[o][v - 1])
\* The attributes each of the audit's versions changed, seen for itself.
Touched(o) == UNION {Differ(Before(o, v), Shown(history[o][v])) : v \in Own(o)}
Recreated(o) == \E v, w \in Own(o) : v < w /\ history[o][v].is_deleted /\ ~history[o][w].is_deleted
Created(o, v) == v = 1 \/ history[o][v - 1].is_deleted
\* Created or deleted by the audit, and written by another between its versions.
Interleaved(o) ==
    /\ Min(Own(o)) .. Max(Own(o)) # Own(o)
    /\ \E v \in Own(o) : Created(o, v) \/ history[o][v].is_deleted
Passing(o) == Created(o, Min(Own(o))) /\ history[o][Max(Own(o))].is_deleted

\* A change is from what stood before the audit's first version of the object to
\* what its last one left, whatever the cap dropped and whoever wrote between.
NetIsWhole ==
    \A c \in _object_changes :
        /\ c.before = Before(c.object, Min(Own(c.object)))
        /\ c.after = Shown(history[c.object][Max(Own(c.object))])

\* Every object of the audit is loaded or a gap says so, and every attribute
\* the audit touched, even to put it back, is an atom or named in a gap; of one it
\* created and deleted, a gap tells that there was something.
Accounted(o) ==
    \/ {"versions", "unidentified"} \intersect gaps # {} /\ ~\E c \in _object_changes : c.object = o
    \/ \E c \in _object_changes :
           /\ c.object = o
           /\ \/ "whole" \in _unseen_inputs(c)
              \/ Touched(o) \subseteq Atoms(c) \union _unseen_inputs(c)
              \/ Passing(o) /\ _unseen_inputs(c) # {}
NothingElided == \A o \in Objects : (Own(o) # {} /\ ~Recreated(o) /\ ~Interleaved(o)) => Accounted(o)

\* The same of an object the audit deleted and created again.
RecreationIsSeen == \A o \in Objects : Recreated(o) => Accounted(o)
=============================================================================
