------------------------- MODULE RestorePlannerProofs -------------------------
\* Theorems about RestorePlanner, for every history and every plan of it.
EXTENDS RestorePlanner, FiniteSetTheorems, SequenceTheorems, WellFoundedInduction, TLAPS

LEMMA LeastOf ==
    ASSUME NEW S, S \subseteq Nat, S # {}
    PROVE  \E n \in S : \A m \in S : m >= n
<1>1. PICK n \in S : \A m \in S : ~(<<m, n>> \in OpToRel(<, Nat))
  BY NatLessThanWellFounded, WFMin
<1>2. ASSUME NEW m \in S
      PROVE  m >= n
 <2>1. <<m, n>> \in Nat \X Nat
   OBVIOUS
 <2>2. ~(m < n)
   BY <1>1, <2>1 DEF OpToRel
 <2>. QED BY <2>2
<1>. QED BY <1>2

LEMMA GreatestOf ==
    ASSUME NEW n \in Nat, NEW S, S \subseteq 0 .. n, S # {}
    PROVE  \E m \in S : \A k \in S : m >= k
<1>. DEFINE D == {n - k : k \in S}
<1>1. D \subseteq Nat /\ D # {}
 <2>1. \A k \in S : n - k \in Nat
   OBVIOUS
 <2>. QED BY <2>1
<1>2. PICK d \in D : \A e \in D : e >= d
 <2>. HIDE DEF D
 <2>. QED BY <1>1, LeastOf
<1>3. PICK m \in S : d = n - m
  BY <1>2
<1>4. ASSUME NEW k \in S
      PROVE  m >= k
 <2>1. n - k >= d
   BY <1>2
 <2>. QED BY <1>3, <2>1
<1>. QED BY <1>4


\* The order: what an action needs is placed, and run, before it.
Stages == {"history", "expand", "spare", "mark", "build"}

\* What is selected, and what the plan has of it.
Plan ==
    /\ pc \in Stages \union {"order", "run", "cycle", "failed"}
    /\ mist = [o \in Objects |-> mist[o]] /\ after = [o \in Objects |-> after[o]]
    /\ \A v \in DOMAIN versions : versions[v].obj \in Objects
    /\ DOMAIN sel \subseteq Objects
    /\ pc \in Stages => DOMAIN rank = {}
    /\ pc \notin {"run", "failed"} => after = mist

\* A delete goes first of what it has to make way for.
Needed ==
    pc \notin Stages =>
        /\ DOMAIN actions \subseteq DOMAIN sel
        /\ \A o, p \in DOMAIN actions :
               /\ actions[p].action = "delete" /\ p # o
               /\ \/ /\ actions[o].action = "create" /\ Type[p] = Type[o] /\ Name[p] = Name[o]
                     /\ site_mist_id(p) = site_mist_id(o)
                  \/ /\ actions[o].action = "delete" /\ Type[o] = "sites"
                     /\ site_mist_id(p) = current_mist_id(o)
               => p \in actions[o].needs

Placement ==
    /\ pc = "order" =>
           /\ DOMAIN rank \subseteq DOMAIN actions
           /\ \A o \in DOMAIN rank :
                  /\ rank[o] \in Nat /\ rank[o] < Cardinality(DOMAIN rank)
                  /\ \A p \in actions[o].needs : p \in DOMAIN rank /\ rank[p] < rank[o]
    /\ pc = "run" =>
           /\ DOMAIN rank \subseteq DOMAIN actions
           /\ \A o \in DOMAIN rank :
                  /\ rank[o] \in Nat
                  /\ \A p \in actions[o].needs \intersect DOMAIN rank : rank[p] < rank[o]
           /\ \A o \in Objects :
                  IF o \in DOMAIN actions \ DOMAIN rank
                  THEN (after[o].live <=> actions[o].action # "delete")
                  ELSE after[o] = mist[o]

OrderInv == Plan /\ Needed /\ Placement

EventStep(o) == Create(o) \/ Late(o) \/ Change(o) \/ Dropped(o) \/ Recreate(o)

LEMMA EventIs ==
    ASSUME NEW o \in Objects, EventStep(o)
    PROVE  \E m, recorded : Event(o, m, recorded)
<1>1. CASE Create(o)
  BY <1>1, Zenon DEF Create
<1>2. CASE Late(o)
  BY <1>2, Zenon DEF Late
<1>3. CASE Change(o)
  BY <1>3, Zenon DEF Change
<1>4. CASE Dropped(o)
  BY <1>4, Zenon DEF Dropped
<1>5. CASE Recreate(o)
  BY <1>5, Zenon DEF Recreate
<1>. QED
  BY <1>1, <1>2, <1>3, <1>4, <1>5, Zenon DEF EventStep

\* Every step: an event of the history, a step of the planner, or a write.
LEMMA StepsAre ==
    ASSUME [Next]_vars
    PROVE  \/ \E o \in Objects : EventStep(o)
           \/ Request \/ _expand_dependencies \/ _spare_referenced_objects
           \/ _mark_selected_reference_rewrites \/ Build \/ order_restore_actions
           \/ \E o \in Objects : Write(o)
           \/ \E o \in Objects : Refused(o)
           \/ UNCHANGED vars
  BY Zenon DEF Next, EventStep

LEMMA PlanInit == Init => Plan
<1>. SUFFICES ASSUME Init PROVE Plan
  OBVIOUS
<1>0. PICK E \in SUBSET Objects : \E order \in [1 .. Cardinality(E) -> E] : \E refs : FirstBackup(E, order, refs)
  BY Zenon DEF Init
<1>1. PICK order \in [1 .. Cardinality(E) -> E] : \E refs : FirstBackup(E, order, refs)
  BY <1>0, Zenon
<1>1a. PICK refs : FirstBackup(E, order, refs)
  BY <1>1, Zenon
<1>2. pc = "history" /\ sel = <<>> /\ rank = <<>> /\ after = mist
  BY Zenon DEF Init
<1>3. mist = [o \in Objects |-> Held(o \in E, 1, 0, refs[o], o \in E)]
  BY <1>1a, Zenon DEF FirstBackup
<1>4. mist = [o \in Objects |-> mist[o]] /\ after = [o \in Objects |-> after[o]]
  BY <1>2, <1>3, Zenon
<1>5. \A v \in DOMAIN versions : versions[v].obj \in Objects
  BY <1>1a, SMT DEF FirstBackup, Version
<1>6. DOMAIN sel = {} /\ DOMAIN rank = {}
  BY <1>2, SMT
<1>. QED
  BY <1>2, <1>4, <1>5, <1>6, Zenon DEF Plan, Stages

LEMMA EventPlan ==
    ASSUME Plan, NEW o \in Objects, EventStep(o)
    PROVE  Plan' /\ pc = "history" /\ pc' = "history" /\ after' = mist'
<1>1. PICK m, recorded : Event(o, m, recorded)
  BY EventIs, Zenon
<1>2. /\ pc = "history" /\ pc' = "history"
      /\ mist' = [mist EXCEPT ![o] = m] /\ after' = mist'
      /\ versions' = IF recorded THEN Append(versions, Version(o, m, 0)) ELSE versions
      /\ UNCHANGED <<rank, sel>>
  BY <1>1, Zenon DEF Event, context
<1>3. mist' = [p \in Objects |-> mist'[p]] /\ after' = [p \in Objects |-> after'[p]]
 <2>1. mist = [p \in Objects |-> mist[p]]
   BY Zenon DEF Plan
 <2>. QED
   BY <1>2, <2>1, SMT
<1>4. \A v \in DOMAIN versions' : versions'[v].obj \in Objects
  BY <1>2, SMT DEF Plan, Version
<1>. QED
  BY <1>2, <1>3, <1>4, Zenon DEF Plan, Stages

\* What a step of the planner leaves alone.
LEMMA PlannerKeeps ==
    ASSUME \/ Request \/ _expand_dependencies \/ _spare_referenced_objects
           \/ _mark_selected_reference_rewrites \/ Build \/ order_restore_actions
    PROVE  UNCHANGED <<mist, versions, snapshot, events, after>>
  BY Zenon DEF Request, _expand_dependencies, _spare_referenced_objects,
     _mark_selected_reference_rewrites, Build, order_restore_actions, history

LEMMA RelatedIn ==
    ASSUME \A v \in DOMAIN versions : versions[v].obj \in Objects, NEW o, NEW v
    PROVE  _related_logical_objects(o, v) \subseteq Objects
<1>1. Referred(v) \subseteq Objects
 <2>. SUFFICES ASSUME NEW r \in versions[v].refs, Incarnation(r) PROVE r[1] \in Objects
   BY SMT DEF Referred
 <2>1. PICK u \in DOMAIN versions : Id(versions[u].obj, versions[u].inc) = r
   BY Zenon DEF Incarnation
 <2>2. r[1] = versions[u].obj
   BY <2>1, SMT DEF Id
 <2>. QED
   BY <2>2, Zenon
<1>2. Contained(o) \subseteq Objects
  BY SMT DEF Contained
<1>. QED
  BY <1>1, <1>2, SMT DEF _related_logical_objects

LEMMA RequestIs ==
    ASSUME \A v \in DOMAIN versions : versions[v].obj \in Objects, Request
    PROVE  /\ pc = "history" /\ pc' = (IF request'.deps THEN "expand" ELSE "mark")
           /\ UNCHANGED <<mist, versions, snapshot, force, rewrites, actions, rank, after>>
           /\ request'.objects \subseteq Objects
           /\ DOMAIN sel' = request'.objects /\ DOMAIN instants' = request'.objects
           /\ DOMAIN pending' = request'.objects
           /\ \A o \in request'.objects : sel'[o] \in VersionsOf(o) /\ instants'[o] = InstantOf(sel'[o])
<1>1. PICK chosen \in UNION {kSubset(k, DOMAIN versions) : k \in 1 .. Instants} :
          \E mode \in {"exact", "non_destructive"}, deps \in BOOLEAN, prepared \in BOOLEAN :
               Ask(chosen, [mode |-> mode, deps |-> deps, prepared |-> prepared,
                            objects |-> {versions[v].obj : v \in chosen}])
  BY Zenon DEF Request
<1>2. PICK mode, deps, prepared : Ask(chosen, [mode |-> mode, deps |-> deps, prepared |-> prepared,
                                              objects |-> {versions[v].obj : v \in chosen}])
  BY <1>1, Zenon
<1>3. pc = "history" /\ UNCHANGED <<mist, versions, snapshot, force, rewrites, actions, rank, after>>
  BY Zenon DEF Request, history
<1>4. chosen \subseteq DOMAIN versions
  BY SMT DEF kSubset
<1>5. request'.objects = {versions[v].obj : v \in chosen}
  BY <1>2, SMT DEF Ask
<1>6. /\ sel' = [o \in request'.objects |-> Selection(chosen, o)]
      /\ instants' = [o \in request'.objects |-> InstantOf(Selection(chosen, o))]
      /\ pending' = [o \in request'.objects |-> 0]
      /\ pc' = (IF request'.deps THEN "expand" ELSE "mark")
  BY <1>2, Zenon DEF Ask
<1>7. \A o \in request'.objects : Selection(chosen, o) \in chosen /\ versions[Selection(chosen, o)].obj = o
  BY <1>5, SMT DEF Selection
<1>. QED
  BY <1>3, <1>4, <1>5, <1>6, <1>7, SMT DEF VersionsOf

LEMMA RequestPlan ==
    ASSUME Plan, Request
    PROVE  Plan'
<1>1. UNCHANGED <<mist, versions, after, rank>> /\ pc = "history" /\ pc' \in {"expand", "mark"}
  BY SMT DEF Request, Ask, history
<1>2. DOMAIN sel' \subseteq Objects
  BY RequestIs, Zenon DEF Plan
<1>. QED
  BY <1>1, <1>2, SMT DEF Plan, Stages

LEMMA ExpandPlan ==
    ASSUME Plan, _expand_dependencies
    PROVE  Plan'
<1>1. UNCHANGED <<mist, versions, after, rank>> /\ pc = "expand" /\ pc' \in {"expand", "spare"}
  BY Zenon DEF _expand_dependencies, history
<1>2. DOMAIN sel' \subseteq Objects
 <2>1. CASE UNCHANGED sel
   BY <2>1, Zenon DEF Plan
 <2>2. ASSUME NEW o \in Objects, Expand(o) PROVE DOMAIN sel' \subseteq Objects
  <3>1. DOMAIN sel' = DOMAIN sel \union Reached(o) \union Repointed(o)
    BY <2>2, SMT DEF Expand
  <3>2. Reached(o) \subseteq Objects
    BY RelatedIn, SMT DEF Plan, Reached
  <3>3. Repointed(o) \subseteq Objects
    BY SMT DEF Repointed, _reverse_dependents
  <3>. QED
    BY <3>1, <3>2, <3>3, SMT DEF Plan
 <2>. QED
   BY <2>1, <2>2, Zenon DEF _expand_dependencies
<1>. QED
  BY <1>1, <1>2, SMT DEF Plan, Stages

LEMMA PlannerPlan ==
    ASSUME Plan, _spare_referenced_objects \/ _mark_selected_reference_rewrites \/ Build
    PROVE  Plan'
<1>1. UNCHANGED <<mist, versions, after, rank>> /\ pc \in Stages
      /\ pc' \in Stages \union {"order"} /\ pc' # "run"
  BY SMT DEF _spare_referenced_objects, _mark_selected_reference_rewrites, Build, history, Stages
<1>2. DOMAIN sel' \subseteq Objects
  BY SMT DEF _spare_referenced_objects, _mark_selected_reference_rewrites, Build, context, Plan
<1>. QED
  BY <1>1, <1>2, SMT DEF Plan, Stages

LEMMA OrderPlan ==
    ASSUME Plan, order_restore_actions
    PROVE  Plan'
<1>1. UNCHANGED <<mist, versions, after, sel>> /\ pc = "order" /\ pc' \in {"order", "run", "cycle"}
  BY Zenon DEF order_restore_actions, history, context
<1>. QED
  BY <1>1, SMT DEF Plan, Stages

LEMMA WritePlan ==
    ASSUME Plan, NEW o \in Objects, Write(o)
    PROVE  Plan'
<1>1. UNCHANGED <<mist, versions, sel>> /\ pc = "run" /\ pc' = "run"
  BY Zenon DEF Write, history, context
<1>2. after' = [p \in Objects |-> after'[p]]
 <2>1. \E e : after' = [after EXCEPT ![o] = e]
   BY Zenon DEF Write
 <2>2. after = [p \in Objects |-> after[p]]
   BY Zenon DEF Plan
 <2>. QED
   BY <2>1, <2>2, SMT
<1>. QED
  BY <1>1, <1>2, SMT DEF Plan, Stages

\* The reads of a history that stays.
LEMMA ReadsStay ==
    ASSUME versions' = versions
    PROVE  /\ \A o : VersionsOf(o)' = VersionsOf(o) /\ latest_version(o)' = latest_version(o)
           /\ \A o : (is_deleted(o) <=> is_deleted(o)') /\ current_mist_id(o)' = current_mist_id(o)
           /\ \A o : site_mist_id(o)' = site_mist_id(o)
  BY Zenon DEF is_deleted, current_mist_id, site_mist_id, latest_version, VersionsOf

\* What an action needs is kept with what is planned and what is recorded.
LEMMA NeededStays ==
    ASSUME Needed, pc \notin Stages, UNCHANGED <<versions, sel, actions>>
    PROVE  Needed'
<1>1. /\ DOMAIN actions \subseteq DOMAIN sel
      /\ \A o, p \in DOMAIN actions :
            /\ actions[p].action = "delete" /\ p # o
            /\ \/ /\ actions[o].action = "create" /\ Type[p] = Type[o] /\ Name[p] = Name[o]
                  /\ site_mist_id(p) = site_mist_id(o)
               \/ /\ actions[o].action = "delete" /\ Type[o] = "sites"
                  /\ site_mist_id(p) = current_mist_id(o)
            => p \in actions[o].needs
  BY Zenon DEF Needed
<1>2. \A o : site_mist_id(o)' = site_mist_id(o) /\ current_mist_id(o)' = current_mist_id(o)
  BY ReadsStay, Zenon
<1>. QED
  BY <1>1, <1>2, Zenon DEF Needed

LEMMA BuildNeeded ==
    ASSUME Plan, Build
    PROVE  Needed' /\ Placement'
<1>1. /\ pc = "build" /\ pc' = "order"
      /\ actions' = [o \in Planned |->
            [action |-> _action_type(o), source |-> Source(o), needs |-> depends_on(o) \intersect Planned,
             remap |-> IF o \in Deleted THEN <<>> ELSE _live_replacements(o)]]
      /\ rank' = rank /\ sel' = sel /\ versions' = versions
  BY Zenon DEF Build, context, history
<1>2. DOMAIN actions' = Planned
  BY <1>1, Zenon
<1>3. \A o \in Planned : /\ actions'[o].action = _action_type(o)
                         /\ actions'[o].needs = depends_on(o) \intersect Planned
  BY <1>1, SMT
<1>4. Needed'
 <2>. SUFFICES ASSUME NEW o \in Planned, NEW p \in Planned, p # o,
                      actions'[p].action = "delete",
                      \/ /\ actions'[o].action = "create" /\ Type[p] = Type[o] /\ Name[p] = Name[o]
                         /\ site_mist_id(p) = site_mist_id(o)
                      \/ /\ actions'[o].action = "delete" /\ Type[o] = "sites"
                         /\ site_mist_id(p) = current_mist_id(o)
               PROVE  p \in actions'[o].needs
  <3>1. \A q : site_mist_id(q)' = site_mist_id(q) /\ current_mist_id(q)' = current_mist_id(q)
    BY <1>1, ReadsStay, Zenon
  <3>2. Planned \subseteq DOMAIN sel
    BY Zenon DEF Planned
  <3>. QED
    BY <1>1, <1>2, <3>1, <3>2, Zenon DEF Needed
 <2>1. p \in Deleted
   BY <1>3, Zenon DEF Deleted
 <2>2. CASE /\ actions'[o].action = "create" /\ Type[p] = Type[o] /\ Name[p] = Name[o]
            /\ site_mist_id(p) = site_mist_id(o)
  <3>1. _action_type(o) = "create"
    BY <1>3, <2>2, Zenon
  <3>2. p \in _add_name_reuse_dependencies(o)
    BY <2>1, <2>2, <3>1, SMT DEF _add_name_reuse_dependencies
  <3>. QED
    BY <1>3, <3>2, SMT DEF depends_on
 <2>3. CASE /\ actions'[o].action = "delete" /\ Type[o] = "sites"
            /\ site_mist_id(p) = current_mist_id(o)
  <3>1. o \in Deleted
    BY <1>3, <2>3, Zenon DEF Deleted
  <3>2. p \in _add_containment_delete_dependencies(o)
    BY <2>1, <2>3, <3>1, SMT DEF _add_containment_delete_dependencies
  <3>. QED
    BY <1>3, <3>2, SMT DEF depends_on
 <2>. QED
   BY <2>2, <2>3, Zenon
<1>5. DOMAIN rank' = {}
  BY <1>1, Zenon DEF Plan, Stages
<1>. QED
  BY <1>1, <1>4, <1>5, SMT DEF Placement

LEMMA OrderPlacement ==
    ASSUME ObjectsAssumption, OrderInv, order_restore_actions
    PROVE  Needed' /\ Placement'
<1>. DEFINE left == DOMAIN actions \ DOMAIN rank
            ready == {o \in left : actions[o].needs \subseteq DOMAIN rank}
<1>1. /\ pc = "order" /\ actions' = actions /\ sel' = sel /\ after' = after /\ mist' = mist
      /\ versions' = versions
      /\ rank' = [o \in DOMAIN rank \union ready |-> IF o \in ready THEN Cardinality(DOMAIN rank) ELSE rank[o]]
      /\ pc' = IF left = {} THEN "run" ELSE IF ready = {} THEN "cycle" ELSE "order"
  BY Zenon DEF order_restore_actions, history, context
<1>2. Needed'
 <2>1. pc \notin Stages
   BY <1>1, SMT DEF Stages
 <2>. QED
   BY <1>1, <2>1, NeededStays, Zenon DEF OrderInv
<1>3. IsFiniteSet(DOMAIN rank) /\ IsFiniteSet(ready)
 <2>1. DOMAIN rank \subseteq Objects /\ ready \subseteq Objects
   BY <1>1, SMT DEF OrderInv, Plan, Needed, Placement, Stages
 <2>. QED
   BY <2>1, FS_Subset, SMT DEF ObjectsAssumption
<1>4. Cardinality(DOMAIN rank) \in Nat
  BY <1>3, FS_CardinalityType
<1>5. /\ DOMAIN rank \subseteq DOMAIN actions
      /\ \A o \in DOMAIN rank :
            /\ rank[o] \in Nat /\ rank[o] < Cardinality(DOMAIN rank)
            /\ \A p \in actions[o].needs : p \in DOMAIN rank /\ rank[p] < rank[o]
  BY <1>1, Zenon DEF OrderInv, Placement
<1>6. DOMAIN rank' = DOMAIN rank \union ready
  BY <1>1, Zenon
<1>7. \A o \in DOMAIN rank' : /\ o \in ready => rank'[o] = Cardinality(DOMAIN rank)
                              /\ o \notin ready => rank'[o] = rank[o] /\ o \in DOMAIN rank
  BY <1>1, SMT
<1>8. \A o \in DOMAIN rank' : /\ rank'[o] \in Nat
                              /\ \A p \in actions[o].needs : p \in DOMAIN rank' /\ rank'[p] < rank'[o]
 <2>. SUFFICES ASSUME NEW o \in DOMAIN rank'
               PROVE  /\ rank'[o] \in Nat
                      /\ \A p \in actions[o].needs : p \in DOMAIN rank' /\ rank'[p] < rank'[o]
   OBVIOUS
 <2>. HIDE DEF left
 <2>1. CASE o \in ready
  <3>1. actions[o].needs \subseteq DOMAIN rank /\ DOMAIN rank \intersect ready = {}
    BY <2>1, Zenon DEF left
  <3>. QED
    BY <1>4, <1>5, <1>6, <1>7, <2>1, <3>1, SMT
 <2>2. CASE o \notin ready
  <3>1. \A p \in DOMAIN rank : p \notin ready
    BY Zenon DEF left
  <3>. QED
    BY <1>4, <1>5, <1>6, <1>7, <2>2, <3>1, SMT
 <2>. QED
   BY <2>1, <2>2
<1>9. DOMAIN rank' \subseteq DOMAIN actions
  BY <1>5, <1>6, SMT
<1>10. CASE pc' = "order"
 <2>1. ready # {} /\ DOMAIN rank \intersect ready = {}
  <3>1. ready # {}
   <4>. HIDE DEF ready, left
   <4>. QED
     BY <1>1, <1>10, SMT
  <3>2. DOMAIN rank \intersect ready = {}
    BY Zenon
  <3>. QED
    BY <3>1, <3>2
 <2>2. IsFiniteSet(DOMAIN rank') /\ Cardinality(DOMAIN rank') > Cardinality(DOMAIN rank)
  <3>1. Cardinality(DOMAIN rank \union ready)
          = Cardinality(DOMAIN rank) + Cardinality(ready) - Cardinality(DOMAIN rank \intersect ready)
    BY <1>3, FS_Union
  <3>2. Cardinality(ready) \in Nat /\ Cardinality(ready) # 0 /\ Cardinality({}) = 0
    BY <1>3, <2>1, FS_CardinalityType, FS_EmptySet
  <3>3. IsFiniteSet(DOMAIN rank \union ready)
    BY <1>3, FS_Union
  <3>. HIDE DEF ready
  <3>. QED
    BY <1>4, <1>6, <2>1, <3>1, <3>2, <3>3, SMT
 <2>3. \A o \in DOMAIN rank' : rank'[o] < Cardinality(DOMAIN rank')
  <3>1. \A o \in DOMAIN rank' : rank'[o] \in Nat /\ rank'[o] <= Cardinality(DOMAIN rank)
   <4>. HIDE DEF ready
   <4>. QED
     BY <1>4, <1>5, <1>7, SMT
  <3>2. Cardinality(DOMAIN rank') \in Nat
    BY <2>2, FS_CardinalityType
  <3>. QED
    BY <1>4, <2>2, <3>1, <3>2, SMT
 <2>. QED
   BY <1>1, <1>2, <1>8, <1>9, <1>10, <2>3, Zenon DEF Placement
<1>11. CASE pc' = "run"
 <2>1. left = {}
  <3>. HIDE DEF ready, left
  <3>. QED
    BY <1>1, <1>11, SMT
 <2>2. DOMAIN actions' \ DOMAIN rank' = {}
   BY <1>1, <1>6, <2>1, SMT
 <2>3. after' = mist'
   BY <1>1, Zenon DEF OrderInv, Plan
 <2>4. \A o \in DOMAIN rank' : \A p \in actions[o].needs \intersect DOMAIN rank' : rank'[p] < rank'[o]
   BY <1>8, Zenon
 <2>5. \A o \in Objects : IF o \in DOMAIN actions \ DOMAIN rank'
                          THEN (after'[o].live <=> actions[o].action # "delete")
                          ELSE after'[o] = mist'[o]
  <3>1. \A o \in Objects : o \notin DOMAIN actions \ DOMAIN rank'
    BY <1>1, <2>2, SMT
  <3>. QED
    BY <2>3, <3>1, Zenon
 <2>6. Placement'
  <3>. HIDE DEF ready, left
  <3>1. \A o \in DOMAIN rank' : rank'[o] \in Nat
    BY <1>8, Zenon
  <3>. QED
    BY <1>1, <1>9, <1>11, <2>4, <2>5, <3>1, SMT DEF Placement
 <2>. QED
   BY <1>2, <2>6
<1>12. CASE pc' = "cycle"
  BY <1>2, <1>12, SMT DEF Placement
<1>. QED
  BY <1>1, <1>10, <1>11, <1>12, SMT

LEMMA WritePlacement ==
    ASSUME OrderInv, NEW o \in Objects, Write(o)
    PROVE  Needed' /\ Placement'
<1>1. /\ pc = "run" /\ pc' = "run" /\ o \in DOMAIN rank
      /\ actions' = actions /\ sel' = sel /\ mist' = mist /\ versions' = versions
      /\ rank' = [p \in DOMAIN rank \ {o} |-> rank[p]]
  BY Zenon DEF Write, Due, history, context
<1>2. (after'[o].live <=> actions[o].action # "delete") /\ \A p \in Objects \ {o} : after'[p] = after[p]
 <2>1. \E e, f : /\ after' = [after EXCEPT ![o] = IF actions[o].action = "delete" THEN e ELSE f]
                 /\ ~e.live /\ f.live
  <3>. DEFINE e == Held(FALSE, mist[o].inc, mist[o].content, mist[o].refs, TRUE)
              f == Held(TRUE, IF actions[o].action = "create" THEN mist[o].inc + 1 ELSE mist[o].inc,
                        versions[actions[o].source].content,
                        {payload_id_map(actions[o].remap, id) : id \in versions[actions[o].source].refs}, TRUE)
  <3>1. after' = [after EXCEPT ![o] = IF actions[o].action = "delete" THEN e ELSE f]
    BY Zenon DEF Write
  <3>2. ~e.live /\ f.live
    BY SMT DEF Held
  <3>. HIDE DEF e, f
  <3>. QED
    BY <3>1, <3>2
 <2>2. after = [p \in Objects |-> after[p]]
   BY Zenon DEF OrderInv, Plan
 <2>3. PICK e, f : /\ after' = [after EXCEPT ![o] = IF actions[o].action = "delete" THEN e ELSE f]
                   /\ ~e.live /\ f.live
   BY <2>1, Zenon
 <2>4. after'[o] = (IF actions[o].action = "delete" THEN e ELSE f) /\ \A p \in Objects \ {o} : after'[p] = after[p]
   BY <2>2, <2>3, SMT
 <2>. QED
   BY <2>3, <2>4, SMT
<1>3. Needed'
 <2>1. pc \notin Stages
   BY <1>1, SMT DEF Stages
 <2>. QED
   BY <1>1, <2>1, NeededStays, Zenon DEF OrderInv
<1>4. /\ DOMAIN rank \subseteq DOMAIN actions
      /\ \A p \in DOMAIN rank :
            /\ rank[p] \in Nat
            /\ \A q \in actions[p].needs \intersect DOMAIN rank : rank[q] < rank[p]
      /\ \A p \in Objects :
            IF p \in DOMAIN actions \ DOMAIN rank
            THEN (after[p].live <=> actions[p].action # "delete")
            ELSE after[p] = mist[p]
  BY <1>1, Zenon DEF OrderInv, Placement
<1>5. DOMAIN rank' = DOMAIN rank \ {o} /\ \A p \in DOMAIN rank' : rank'[p] = rank[p]
  BY <1>1, SMT
<1>6. \A p \in Objects : IF p \in DOMAIN actions \ DOMAIN rank'
                         THEN (after'[p].live <=> actions[p].action # "delete")
                         ELSE after'[p] = mist[p]
  BY <1>1, <1>2, <1>4, <1>5, SMT
<1>. QED
  BY <1>1, <1>3, <1>4, <1>5, <1>6, SMT DEF Placement

LEMMA OrderStep ==
    ASSUME ObjectsAssumption, OrderInv, [Next]_vars
    PROVE  OrderInv'
<1>1. CASE \E o \in Objects : EventStep(o)
 <2>1. Plan' /\ pc' = "history"
   BY <1>1, EventPlan, Zenon DEF OrderInv
 <2>. QED
   BY <2>1, Zenon DEF OrderInv, Needed, Placement, Stages
<1>2. CASE Request \/ _expand_dependencies \/ _spare_referenced_objects \/ _mark_selected_reference_rewrites
 <2>1. Plan'
   BY <1>2, RequestPlan, ExpandPlan, PlannerPlan, Zenon DEF OrderInv
 <2>2. pc' \in {"expand", "spare", "mark", "build"}
  <3>1. Request => pc' \in {"expand", "mark"}
    BY SMT DEF Request, Ask
  <3>2. _expand_dependencies => pc' \in {"expand", "spare"}
    BY Zenon DEF _expand_dependencies
  <3>3. _spare_referenced_objects => pc' \in {"spare", "mark"}
    BY Zenon DEF _spare_referenced_objects
  <3>4. _mark_selected_reference_rewrites => pc' = "build"
    BY Zenon DEF _mark_selected_reference_rewrites
  <3>. QED
    BY <1>2, <3>1, <3>2, <3>3, <3>4, SMT
 <2>. QED
   BY <2>1, <2>2, SMT DEF OrderInv, Needed, Placement, Stages
<1>3. CASE Build
  BY <1>3, PlannerPlan, BuildNeeded, Zenon DEF OrderInv
<1>4. CASE order_restore_actions
  BY <1>4, OrderPlan, OrderPlacement, Zenon DEF OrderInv
<1>5. CASE \E o \in Objects : Write(o)
  BY <1>5, WritePlan, WritePlacement, Zenon DEF OrderInv
<1>6. CASE \E o \in Objects : Refused(o)
 <2>1. pc = "run" /\ pc' = "failed" /\ UNCHANGED <<mist, versions, after, sel, actions, rank>>
   BY <1>6, Zenon DEF Refused, history, context
 <2>2. Plan'
   BY <2>1, SMT DEF OrderInv, Plan, Stages
 <2>3. Needed'
  <3>1. pc \notin Stages
    BY <2>1, SMT DEF Stages
  <3>. QED
    BY <2>1, <3>1, NeededStays, Zenon DEF OrderInv
 <2>4. Placement'
   BY <2>1, SMT DEF Placement
 <2>. QED
   BY <2>2, <2>3, <2>4, Zenon DEF OrderInv
<1>7. CASE UNCHANGED vars
 <2>1. UNCHANGED <<pc, mist, versions, after, sel, actions, rank>>
   BY <1>7, Zenon DEF vars, history, context
 <2>2. Needed'
  <3>1. CASE pc \in Stages
    BY <2>1, <3>1, Zenon DEF Needed, Stages
  <3>2. CASE pc \notin Stages
    BY <2>1, <3>2, NeededStays, Zenon DEF OrderInv
  <3>. QED
    BY <3>1, <3>2
 <2>. QED
   BY <2>1, <2>2, Zenon DEF OrderInv, Plan, Placement, Stages
<1>. QED
  BY <1>1, <1>2, <1>3, <1>4, <1>5, <1>6, <1>7, StepsAre, Zenon

LEMMA OrderHolds == ObjectsAssumption => (Spec => []OrderInv)
<1>. SUFFICES ASSUME ObjectsAssumption PROVE Spec => []OrderInv
  OBVIOUS
<1>1. Init => OrderInv
 <2>1. Init => pc = "history"
   BY Zenon DEF Init
 <2>. QED
   BY PlanInit, <2>1, Zenon DEF OrderInv, Needed, Placement, Stages
<1>2. OrderInv /\ [Next]_vars => OrderInv'
  BY OrderStep, Zenon
<1>. QED
  BY <1>1, <1>2, PTL DEF Spec

\* What a plan takes away.
\* What a non-destructive plan selects unasked is neither absent at its instant
\* nor to be left as it was.
Gentle ==
    pc \in Stages \ {"history"} /\ request.mode = "non_destructive" =>
        /\ force = {}
        /\ \A o \in DOMAIN sel :
               o \in request.objects \union rewrites \/ ~versions[sel[o]].deleted \/ is_deleted(o)
Spared ==
    pc \notin Stages /\ request.mode = "non_destructive" =>
        \A o \in DOMAIN actions :
            actions[o].action = "delete" => o \in request.objects /\ versions[sel[o]].deleted

LEMMA RequestGentle ==
    ASSUME OrderInv, pc = "history", force = {}, Request
    PROVE  Gentle' /\ Spared'
<1>1. force' = force /\ pc' \in {"expand", "mark"}
  BY SMT DEF Request, Ask
<1>2. DOMAIN sel' = request'.objects
  BY RequestIs, Zenon DEF OrderInv, Plan
<1>. QED
  BY <1>1, <1>2, SMT DEF Gentle, Spared, Stages

LEMMA ExpandGentle ==
    ASSUME Gentle, _expand_dependencies
    PROVE  Gentle' /\ Spared'
<1>1. /\ pc = "expand" /\ pc' \in {"expand", "spare"} /\ versions' = versions
      /\ request' = request
  BY Zenon DEF _expand_dependencies, history
<1>2. Spared'
  BY <1>1, SMT DEF Spared, Stages
<1>. SUFFICES ASSUME request.mode = "non_destructive"
              PROVE  /\ force' = {}
                     /\ \A o \in DOMAIN sel' :
                           o \in request.objects \union rewrites' \/ ~versions[sel'[o]].deleted \/ is_deleted(o)
  BY <1>1, <1>2, ReadsStay, Zenon DEF Gentle
<1>3. /\ force = {}
      /\ \A o \in DOMAIN sel :
            o \in request.objects \union rewrites \/ ~versions[sel[o]].deleted \/ is_deleted(o)
  BY <1>1, SMT DEF Gentle, Stages
<1>4. CASE UNCHANGED <<sel, force, rewrites>>
  BY <1>3, <1>4, SMT
<1>5. ASSUME NEW o \in Objects, Expand(o)
      PROVE  /\ force' = {}
             /\ \A p \in DOMAIN sel' :
                   p \in request.objects \union rewrites' \/ ~versions[sel'[p]].deleted \/ is_deleted(p)
 <2>1. \A p \in Reached(o) : /\ _version_at(p, instants[o]) # 0
                             /\ ~versions[_version_at(p, instants[o])].deleted \/ is_deleted(p)
   BY Zenon DEF Reached, CameSince
 <2>2. Unrecorded(o) = {}
   BY <2>1, Zenon DEF Unrecorded
 <2>3. force' = force \union Unrecorded(o) /\ rewrites' = rewrites \union Repointed(o)
   BY <1>5, Zenon DEF Expand
 <2>4. sel' = [p \in DOMAIN sel \union Reached(o) \union Repointed(o) |->
                  IF p \in DOMAIN sel THEN sel[p]
                  ELSE IF p \in Reached(o) \ Unrecorded(o) THEN _version_at(p, instants[o]) ELSE latest_version(p)]
   BY <1>5, Zenon DEF Expand
 <2>5. \A p \in DOMAIN sel' :
          /\ p \in DOMAIN sel => sel'[p] = sel[p]
          /\ p \notin DOMAIN sel /\ p \in Reached(o) => sel'[p] = _version_at(p, instants[o])
          /\ p \in DOMAIN sel \union Reached(o) \union Repointed(o)
   BY <2>2, <2>4, SMT
 <2>. QED
   BY <1>3, <2>1, <2>2, <2>3, <2>5, SMT
<1>. QED
  BY <1>4, <1>5, Zenon DEF _expand_dependencies

LEMMA SpareGentle ==
    ASSUME Gentle, _spare_referenced_objects
    PROVE  Gentle' /\ Spared'
<1>1. /\ pc = "spare" /\ pc' \in {"spare", "mark"} /\ versions' = versions
      /\ request' = request /\ rewrites' = rewrites
  BY Zenon DEF _spare_referenced_objects, history
<1>2. PICK spared : sel' = [o \in DOMAIN sel \ spared |-> sel[o]] /\ force' = force \ spared
  BY Zenon DEF _spare_referenced_objects
<1>3. \A o \in DOMAIN sel' : o \in DOMAIN sel /\ sel'[o] = sel[o]
  BY <1>2, SMT
<1>4. Spared'
  BY <1>1, SMT DEF Spared, Stages
<1>5. Gentle'
 <2>. SUFFICES ASSUME request.mode = "non_destructive"
               PROVE  /\ force' = {}
                      /\ \A o \in DOMAIN sel' :
                            o \in request.objects \union rewrites \/ ~versions[sel'[o]].deleted \/ is_deleted(o)
   BY <1>1, ReadsStay, Zenon DEF Gentle
 <2>1. /\ force = {}
       /\ \A o \in DOMAIN sel :
             o \in request.objects \union rewrites \/ ~versions[sel[o]].deleted \/ is_deleted(o)
   BY <1>1, SMT DEF Gentle, Stages
 <2>. QED
   BY <1>2, <1>3, <2>1, SMT
<1>. QED
  BY <1>4, <1>5

LEMMA BuildGentle ==
    ASSUME Gentle, Build
    PROVE  Gentle' /\ Spared'
<1>1. /\ pc = "build" /\ pc' = "order"
      /\ actions' = [o \in Planned |->
            [action |-> _action_type(o), source |-> Source(o), needs |-> depends_on(o) \intersect Planned,
             remap |-> IF o \in Deleted THEN <<>> ELSE _live_replacements(o)]]
      /\ sel' = sel /\ request' = request /\ versions' = versions
  BY Zenon DEF Build, context, history
<1>2. Gentle'
  BY <1>1, SMT DEF Gentle, Stages
<1>3. Spared'
 <2>. SUFFICES ASSUME request.mode = "non_destructive", NEW o \in Planned, actions'[o].action = "delete"
               PROVE  o \in request.objects /\ versions[sel[o]].deleted
   BY <1>1, SMT DEF Spared
 <2>1. _action_type(o) = "delete"
   BY <1>1, SMT
 <2>2. o \notin rewrites /\ (o \in force \/ versions[sel[o]].deleted) /\ ~is_deleted(o)
   BY <2>1, SMT DEF _action_type
 <2>3. o \in DOMAIN sel
   BY Zenon DEF Planned
 <2>. QED
   BY <1>1, <2>2, <2>3, SMT DEF Gentle, Stages
<1>. QED
  BY <1>2, <1>3

LEMMA GentleHolds == ObjectsAssumption => (Spec => [](Gentle /\ Spared))
<1>. SUFFICES ASSUME ObjectsAssumption PROVE Spec => [](Gentle /\ Spared)
  OBVIOUS
<1>. DEFINE Quiet == pc = "history" => force = {}
<1>1. Init => Gentle /\ Spared /\ Quiet
 <2>1. Init => pc = "history" /\ force = {}
   BY Zenon DEF Init
 <2>. QED
   BY <2>1, SMT DEF Gentle, Spared, Stages
<1>2. OrderInv /\ Gentle /\ Spared /\ Quiet /\ [Next]_vars => (Gentle /\ Spared /\ Quiet)'
 <2>. SUFFICES ASSUME OrderInv, Gentle, Spared, Quiet, [Next]_vars
               PROVE  Gentle' /\ Spared' /\ Quiet'
   OBVIOUS
 <2>1. CASE \E o \in Objects : EventStep(o)
  <3>1. PICK o \in Objects : EventStep(o)
    BY <2>1
  <3>2. pc = "history" /\ pc' = "history" /\ force' = force
    BY <3>1, EventIs, Zenon DEF Event, context
  <3>. QED
    BY <3>2, SMT DEF Gentle, Spared, Stages
 <2>2. CASE Request
  <3>1. pc = "history" /\ pc' # "history"
    BY <2>2, SMT DEF Request, Ask
  <3>. QED
    BY <2>2, <3>1, RequestGentle, Zenon
 <2>3. CASE _expand_dependencies
  <3>1. pc' # "history"
    BY <2>3, SMT DEF _expand_dependencies
  <3>. QED
    BY <2>3, <3>1, ExpandGentle, Zenon
 <2>4. CASE _spare_referenced_objects
  <3>1. pc' # "history"
    BY <2>4, SMT DEF _spare_referenced_objects
  <3>. QED
    BY <2>4, <3>1, SpareGentle, Zenon
 <2>5. CASE _mark_selected_reference_rewrites
  <3>1. /\ pc = "mark" /\ pc' = "build" /\ UNCHANGED <<versions, request, sel, force>>
        /\ rewrites \subseteq rewrites'
    BY <2>5, Zenon DEF _mark_selected_reference_rewrites, history
  <3>2. \A o : is_deleted(o) <=> is_deleted(o)'
    BY <3>1, ReadsStay, Zenon
  <3>. QED
    BY <3>1, <3>2, SMT DEF Gentle, Spared, Stages
 <2>6. CASE Build
  <3>1. pc' # "history"
    BY <2>6, SMT DEF Build
  <3>. QED
    BY <2>6, <3>1, BuildGentle, Zenon
 <2>7. CASE order_restore_actions \/ (\E o \in Objects : Write(o)) \/ (\E o \in Objects : Refused(o))
  <3>1. pc \notin Stages /\ pc' \in {"order", "run", "cycle", "failed"} /\ UNCHANGED <<versions, request, sel, actions>>
   <4>1. order_restore_actions => pc = "order" /\ pc' \in {"order", "run", "cycle"}
         /\ UNCHANGED <<versions, request, sel, actions>>
     BY Zenon DEF order_restore_actions, history, context
   <4>2. (\E o \in Objects : Write(o)) => pc = "run" /\ pc' = "run" /\ UNCHANGED <<versions, request, sel, actions>>
     BY Zenon DEF Write, history, context
   <4>3. (\E o \in Objects : Refused(o)) => pc = "run" /\ pc' = "failed" /\ UNCHANGED <<versions, request, sel, actions>>
     BY Zenon DEF Refused, history, context
   <4>. QED
     BY <2>7, <4>1, <4>2, <4>3, SMT DEF Stages
  <3>. QED
    BY <3>1, SMT DEF Gentle, Spared, Stages
 <2>8. CASE UNCHANGED vars
  <3>1. UNCHANGED <<pc, versions, request, sel, force, rewrites, actions>>
    BY <2>8, Zenon DEF vars, history, context
  <3>2. \A o : is_deleted(o) <=> is_deleted(o)'
    BY <3>1, ReadsStay, Zenon
  <3>. QED
    BY <3>1, <3>2, SMT DEF Gentle, Spared, Stages
 <2>. QED
   BY <2>1, <2>2, <2>3, <2>4, <2>5, <2>6, <2>7, <2>8, StepsAre, Zenon
<1>. QED
  BY <1>1, <1>2, OrderHolds, PTL DEF Spec

\* At every point of its run a non-destructive plan has deleted only what was
\* itself requested as deleted (_expand_dependencies leaves out what came since).
THEOREM OnlyTheAskedIsDeleted == ObjectsAssumption => (Spec => []NonDestructive)
<1>. SUFFICES ASSUME ObjectsAssumption PROVE Spec => []NonDestructive
  OBVIOUS
<1>1. OrderInv /\ Spared => NonDestructive
 <2>. SUFFICES ASSUME OrderInv, Spared, pc = "run", request.mode = "non_destructive",
                      NEW o \in Objects, mist[o].live, ~after[o].live
               PROVE  o \in request.objects /\ versions[sel[o]].deleted
   BY Zenon DEF NonDestructive
 <2>1. IF o \in DOMAIN actions \ DOMAIN rank
       THEN (after[o].live <=> actions[o].action # "delete") ELSE after[o] = mist[o]
   BY Zenon DEF OrderInv, Placement
 <2>2. o \in DOMAIN actions /\ actions[o].action = "delete"
   BY <2>1, Zenon
 <2>. QED
   BY <2>2, SMT DEF Spared, Stages
<1>. QED
  BY <1>1, OrderHolds, GentleHolds, PTL

\* The history, and what Mist holds.
Ids == Objects \X Nat
Entries == [live : BOOLEAN, inc : Nat, content : {0, 1}, refs : SUBSET Ids, seen : BOOLEAN]
Versions ==
    [obj : Objects, inc : Nat, snap : {0, 1}, deleted : BOOLEAN, content : {0, 1}, refs : SUBSET Ids,
     home : Nat]

Shape ==
    /\ mist \in [Objects -> Entries]
    /\ versions \in Seq(Versions)

\* An object's latest version is how Mist holds it.
Reflected ==
    \A o \in Objects : Known(o) =>
        \E v \in VersionsOf(o) :
            /\ \A u \in VersionsOf(o) : v >= u
            /\ versions[v].inc = mist[o].inc /\ (versions[v].deleted <=> ~mist[o].live)
            /\ versions[v].content = mist[o].content /\ versions[v].refs = mist[o].refs
\* Only what was created and not yet audited is not known.
Audited == \A o \in Objects : mist[o].live /\ mist[o].seen => Known(o)

\* A reference is to a recorded incarnation, or to what is not yet audited.
Recalled(r) ==
    Incarnation(r) \/ (~Known(r[1]) /\ mist[r[1]].live /\ r[2] = mist[r[1]].inc)
Referring ==
    /\ \A v \in DOMAIN versions : \A r \in versions[v].refs : Recalled(r)
    /\ \A o \in Objects : \A r \in mist[o].refs : Recalled(r)

\* The first backup comes first, with a version for each object.
BackedUp ==
    /\ snapshot \in Nat /\ snapshot <= Len(versions)
    /\ \A u \in DOMAIN versions : u <= snapshot => versions[u].snap = 1
    /\ \A u, w \in DOMAIN versions :
           /\ versions[u].snap = 1 /\ versions[w].snap = 0 => u < w
           /\ versions[u].snap = 1 /\ versions[w].snap = 1 /\ versions[u].obj = versions[w].obj => u = w

History == Shape /\ Reflected /\ Audited /\ Referring /\ BackedUp

LEMMA HeldFields ==
    ASSUME NEW l, NEW i, NEW c, NEW R, NEW w
    PROVE  /\ Held(l, i, c, R, w).live = l /\ Held(l, i, c, R, w).inc = i
           /\ Held(l, i, c, R, w).content = c /\ Held(l, i, c, R, w).refs = R /\ Held(l, i, c, R, w).seen = w
  BY Zenon DEF Held

LEMMA VersionFields ==
    ASSUME NEW o, NEW m, NEW x
    PROVE  /\ Version(o, m, x).obj = o /\ Version(o, m, x).inc = m.inc /\ Version(o, m, x).snap = x
           /\ (Version(o, m, x).deleted <=> ~m.live)
           /\ Version(o, m, x).content = m.content /\ Version(o, m, x).refs = m.refs
           /\ Version(o, m, x).home = Home(o)
<1>. DEFINE d == ~m.live
<1>1. Version(o, m, x) = [obj |-> o, inc |-> m.inc, snap |-> x, deleted |-> d, content |-> m.content,
                          refs |-> m.refs, home |-> Home(o)]
  BY Zenon DEF Version
<1>. HIDE DEF d
<1>2. Version(o, m, x).deleted = d
  BY <1>1, SMT
<1>3. /\ Version(o, m, x).obj = o /\ Version(o, m, x).inc = m.inc /\ Version(o, m, x).snap = x
      /\ Version(o, m, x).content = m.content /\ Version(o, m, x).refs = m.refs
      /\ Version(o, m, x).home = Home(o)
  BY <1>1, SMT
<1>. QED
  BY <1>2, <1>3, Zenon DEF d

LEMMA HomeIs ==
    ASSUME ObjectsAssumption, mist \in [Objects -> Entries], NEW o \in Objects
    PROVE  Home(o) \in Nat
<1>1. CASE Site[o] = NoSite
  BY <1>1, SMT DEF Home
<1>2. CASE Site[o] # NoSite
 <2>1. Site[o] \in Objects
   BY <1>2, Zenon DEF ObjectsAssumption
 <2>2. mist[Site[o]].inc \in Nat
   BY <2>1, SMT DEF Entries
 <2>. QED
   BY <1>2, <2>2, Zenon DEF Home
<1>. QED
  BY <1>1, <1>2

LEMMA HistoryInit == ObjectsAssumption /\ Init => History
<1>. SUFFICES ASSUME ObjectsAssumption, Init PROVE History
  OBVIOUS
<1>1. PICK E \in SUBSET Objects : \E order \in [1 .. Cardinality(E) -> E] : \E refs : FirstBackup(E, order, refs)
  BY Zenon DEF Init
<1>2. PICK order \in [1 .. Cardinality(E) -> E] : \E refs : FirstBackup(E, order, refs)
  BY <1>1, Zenon
<1>3. PICK refs : FirstBackup(E, order, refs)
  BY <1>2, Zenon
<1>4. Cardinality(E) \in Nat
  BY FS_Subset, FS_CardinalityType DEF ObjectsAssumption
<1>5. /\ \A i, j \in DOMAIN order : order[i] = order[j] => i = j
      /\ E = {order[i] : i \in DOMAIN order}
      /\ snapshot \in {0, Cardinality(E)}
  BY <1>3, Zenon DEF FirstBackup
<1>6. \A o \in Objects : refs[o] \subseteq {Id(p, 1) : p \in E}
 <2>1. \A p \in Objects : (There(E)[p].live <=> p \in E) /\ There(E)[p].inc = 1
  <3>. DEFINE in(p) == p \in E
  <3>1. \A p \in Objects : There(E)[p] = Held(in(p), 1, 0, {}, in(p))
    BY Zenon DEF There
  <3>. SUFFICES ASSUME NEW p \in Objects PROVE (There(E)[p].live <=> in(p)) /\ There(E)[p].inc = 1
    OBVIOUS
  <3>. HIDE DEF in
  <3>2. There(E)[p] = Held(in(p), 1, 0, {}, in(p))
    BY <3>1, Zenon
  <3>3. There(E)[p].live = in(p) /\ There(E)[p].inc = 1
    BY <3>2, HeldFields, SMT
  <3>. QED
    BY <3>3, Zenon
 <2>. SUFFICES ASSUME NEW o \in Objects, NEW r \in refs[o] PROVE r \in {Id(p, 1) : p \in E}
   OBVIOUS
 <2>2. o \in E /\ refs[o] \in RefSets(There(E), o)
   BY <1>3, Zenon DEF FirstBackup
 <2>3. r \in {Id(p, There(E)[p].inc) : p \in {x \in Objects : There(E)[x].live /\ <<o, x>> \in MayRefer}}
   BY <2>2, Zenon DEF RefSets
 <2>4. PICK p \in Objects : There(E)[p].live /\ r = Id(p, There(E)[p].inc)
   BY <2>3, Zenon
 <2>. QED
   BY <2>1, <2>4, Zenon
<1>m. mist = [o \in Objects |-> Held(o \in E, 1, 0, refs[o], o \in E)]
  BY <1>3, Zenon DEF FirstBackup
<1>v. versions = [i \in DOMAIN order |-> Version(order[i], mist[order[i]], 1)]
  BY <1>3, Zenon DEF FirstBackup
<1>7. \A o \in Objects : /\ (mist[o].live <=> o \in E) /\ mist[o].inc = 1 /\ mist[o].content = 0
                         /\ mist[o].refs = refs[o] /\ (mist[o].seen <=> o \in E)
 <2>. DEFINE in(o) == o \in E
 <2>1. \A o \in Objects : mist[o] = Held(in(o), 1, 0, refs[o], in(o))
   BY <1>m, Zenon
 <2>. SUFFICES ASSUME NEW o \in Objects
               PROVE  /\ (mist[o].live <=> in(o)) /\ mist[o].inc = 1 /\ mist[o].content = 0
                      /\ mist[o].refs = refs[o] /\ (mist[o].seen <=> in(o))
   OBVIOUS
 <2>. HIDE DEF in
 <2>2. mist[o] = Held(in(o), 1, 0, refs[o], in(o))
   BY <2>1, Zenon
 <2>3. /\ mist[o].live = in(o) /\ mist[o].seen = in(o)
       /\ mist[o].inc = 1 /\ mist[o].content = 0 /\ mist[o].refs = refs[o]
   BY <2>2, HeldFields, SMT
 <2>. QED
   BY <2>3, Zenon
<1>8. /\ DOMAIN versions = DOMAIN order /\ DOMAIN order = 1 .. Cardinality(E)
      /\ \A i \in DOMAIN order : order[i] \in E
  BY <1>5, <1>v, SMT
<1>9. \A i \in DOMAIN versions :
          /\ versions[i].obj = order[i] /\ versions[i].inc = 1 /\ versions[i].snap = 1
          /\ ~versions[i].deleted /\ versions[i].content = 0 /\ versions[i].refs = refs[order[i]]
 <2>1. \A i \in DOMAIN versions : versions[i] = Version(order[i], mist[order[i]], 1)
   BY <1>v, Zenon
 <2>2. \A i \in DOMAIN versions : order[i] \in Objects /\ order[i] \in E
   BY <1>8, Zenon
 <2>. SUFFICES ASSUME NEW i \in DOMAIN versions
               PROVE  /\ versions[i].obj = order[i] /\ versions[i].inc = 1 /\ versions[i].snap = 1
                      /\ ~versions[i].deleted /\ versions[i].content = 0 /\ versions[i].refs = refs[order[i]]
   OBVIOUS
 <2>3. versions[i] = Version(order[i], mist[order[i]], 1)
   BY <2>1, Zenon
 <2>. QED
   BY <1>7, <2>2, <2>3, VersionFields, SMT
<1>10. Shape
 <2>1. \A o \in Objects : refs[o] \in SUBSET Ids
   BY <1>6, SMT DEF Ids, Id
 <2>2. mist \in [Objects -> Entries]
   BY <1>m, <2>1, SMT DEF Held, Entries
 <2>3. versions \in [1 .. Cardinality(E) -> Versions]
  <3>1. \A o \in Objects : Home(o) \in Nat
    BY <2>2, HomeIs, Zenon
  <3>. QED
    BY <1>v, <1>7, <1>8, <2>1, <3>1, SMT DEF Version, Versions
 <2>. QED
   BY <1>4, <2>2, <2>3, SMT DEF Shape
<1>11. \A o \in Objects : Known(o) <=> o \in E
 <2>1. \A i \in DOMAIN order : order[i] \in E
   BY <1>8, Zenon
 <2>2. \A o \in E : \E i \in DOMAIN order : order[i] = o
   BY <1>5, SMT
 <2>. QED
   BY <1>8, <1>9, <2>1, <2>2, SMT DEF Known
<1>12. Reflected
 <2>. SUFFICES ASSUME NEW o \in Objects, Known(o)
               PROVE  \E v \in VersionsOf(o) :
                         /\ \A u \in VersionsOf(o) : v >= u
                         /\ versions[v].inc = mist[o].inc /\ (versions[v].deleted <=> ~mist[o].live)
                         /\ versions[v].content = mist[o].content /\ versions[v].refs = mist[o].refs
   BY Zenon DEF Reflected
 <2>1. PICK v \in DOMAIN versions : versions[v].obj = o
   BY Zenon DEF Known
 <2>2. v \in VersionsOf(o) /\ \A u \in VersionsOf(o) : u = v
   BY <1>5, <1>8, <1>9, <2>1, SMT DEF VersionsOf
 <2>3. v \in Nat
   BY <1>8, SMT
 <2>. QED
   BY <1>7, <1>9, <1>11, <2>1, <2>2, <2>3, SMT
<1>13. Audited
  BY <1>7, <1>11, SMT DEF Audited
<1>14. Referring
 <2>1. \A p \in E : Incarnation(Id(p, 1))
  <3>. SUFFICES ASSUME NEW p \in E PROVE Incarnation(Id(p, 1))
    OBVIOUS
  <3>1. PICK v \in DOMAIN versions : versions[v].obj = p
    BY <1>11, Zenon DEF Known
  <3>. QED
    BY <1>9, <3>1, Zenon DEF Incarnation
 <2>2. \A o \in Objects : \A r \in refs[o] : Recalled(r)
   BY <1>6, <2>1, SMT DEF Recalled
 <2>. QED
   BY <1>7, <1>8, <1>9, <2>2, SMT DEF Referring
<1>15. BackedUp
 <2>1. Len(versions) = Cardinality(E)
   BY <1>4, <1>8, <1>10, SMT DEF Shape
 <2>2. snapshot \in Nat /\ snapshot <= Len(versions)
   BY <1>4, <1>5, <2>1, SMT
 <2>3. \A u, w \in DOMAIN versions : versions[u].obj = versions[w].obj => u = w
  <3>. SUFFICES ASSUME NEW u \in DOMAIN versions, NEW w \in DOMAIN versions, versions[u].obj = versions[w].obj
                PROVE  u = w
    OBVIOUS
  <3>1. order[u] = order[w] /\ u \in DOMAIN order /\ w \in DOMAIN order
    BY <1>8, <1>9, Zenon
  <3>. QED
    BY <1>5, <3>1, Zenon
 <2>4. \A u \in DOMAIN versions : versions[u].snap = 1
   BY <1>9, Zenon
 <2>. QED
   BY <2>2, <2>3, <2>4, SMT DEF BackedUp
<1>. QED
  BY <1>10, <1>12, <1>13, <1>14, <1>15, Zenon DEF History

LEMMA LiveRecalled ==
    ASSUME History, NEW x \in Objects, mist[x].live
    PROVE  Recalled(Id(x, mist[x].inc))
<1>1. CASE Known(x)
 <2>1. PICK v \in VersionsOf(x) : versions[v].inc = mist[x].inc
   BY <1>1, Zenon DEF History, Reflected
 <2>2. v \in DOMAIN versions /\ versions[v].obj = x
   BY Zenon DEF VersionsOf
 <2>. QED
   BY <2>1, <2>2, Zenon DEF Recalled, Incarnation
<1>2. CASE ~Known(x)
 <2>1. Id(x, mist[x].inc)[1] = x /\ Id(x, mist[x].inc)[2] = mist[x].inc
   BY SMT DEF Id
 <2>. QED
   BY <1>2, <2>1, SMT DEF Recalled
<1>. QED
  BY <1>1, <1>2

\* What an event leaves of an object, and whether it is recorded.
LEMMA EventEntry ==
    ASSUME History, NEW o \in Objects, EventStep(o)
    PROVE  \E m \in Entries, recorded \in BOOLEAN :
              /\ Event(o, m, recorded)
              /\ \A r \in m.refs : Recalled(r)
              /\ ~recorded => ~Known(o) /\ ~m.seen
              /\ ~Known(o) /\ mist[o].live => recorded /\ m.inc = mist[o].inc
<1>. mist[o] \in Entries
  BY SMT DEF History, Shape
<1>e. mist[o].inc \in Nat /\ mist[o].content \in {0, 1} /\ mist[o].refs \in SUBSET Ids /\ mist[o].seen \in BOOLEAN
  BY SMT DEF Entries
<1>r. \A r \in mist[o].refs : Recalled(r)
  BY Zenon DEF History, Referring
<1>1. CASE Create(o)
 <2>1. PICK recorded \in BOOLEAN : Event(o, Held(TRUE, 1, 0, {}, recorded), recorded)
   BY <1>1, Zenon DEF Create
 <2>2. ~Known(o) /\ ~mist[o].live
   BY <1>1, Zenon DEF Create
 <2>. DEFINE m == Held(TRUE, 1, 0, {}, recorded)
 <2>3. m \in Entries
   BY SMT DEF Held, Entries
 <2>4. m.refs = {} /\ m.seen = recorded
   BY Zenon DEF Held
 <2>5. Event(o, m, recorded)
   BY <2>1
 <2>. HIDE DEF m
 <2>. QED
   BY <2>2, <2>3, <2>4, <2>5, Zenon
<1>2. CASE Late(o)
 <2>. DEFINE m == Held(TRUE, mist[o].inc, mist[o].content, mist[o].refs, TRUE)
 <2>1. Event(o, m, TRUE)
   BY <1>2, Zenon DEF Late
 <2>2. m \in Entries
   BY <1>e, SMT DEF Held, Entries
 <2>3. m.refs = mist[o].refs /\ m.inc = mist[o].inc
   BY Zenon DEF Held
 <2>. HIDE DEF m
 <2>. QED
   BY <1>r, <2>1, <2>2, <2>3, Zenon
<1>3. CASE Change(o)
 <2>1. PICK refs \in RefSets(mist, o), content \in {0, 1} : Event(o, Held(TRUE, mist[o].inc, content, refs, TRUE), TRUE)
   BY <1>3, Zenon DEF Change
 <2>2. Known(o)
   BY <1>3, Zenon DEF Change, History, Audited
 <2>3. \A r \in refs : r \in Ids /\ Recalled(r)
  <3>. SUFFICES ASSUME NEW r \in refs PROVE r \in Ids /\ Recalled(r)
    OBVIOUS
  <3>1. PICK p \in Objects : mist[p].live /\ r = Id(p, mist[p].inc)
    BY <2>1, Zenon DEF RefSets
  <3>2. mist[p].inc \in Nat
    BY SMT DEF History, Shape, Entries
  <3>. QED
    BY <3>1, <3>2, LiveRecalled, SMT DEF Ids, Id
 <2>. DEFINE m == Held(TRUE, mist[o].inc, content, refs, TRUE)
 <2>4. m \in Entries
   BY <1>e, <2>3, SMT DEF Held, Entries
 <2>5. m.refs = refs
   BY Zenon DEF Held
 <2>. HIDE DEF m
 <2>6. Event(o, m, TRUE)
   BY <2>1 DEF m
 <2>. QED
   BY <2>2, <2>3, <2>4, <2>5, <2>6, Zenon
<1>4. CASE Dropped(o)
 <2>. DEFINE m == Held(FALSE, mist[o].inc, mist[o].content, mist[o].refs, TRUE)
 <2>1. Event(o, m, TRUE) /\ Known(o)
   BY <1>4, Zenon DEF Dropped, History, Audited
 <2>2. m \in Entries
   BY <1>e, SMT DEF Held, Entries
 <2>3. m.refs = mist[o].refs
   BY Zenon DEF Held
 <2>. HIDE DEF m
 <2>. QED
   BY <1>r, <2>1, <2>2, <2>3, Zenon
<1>5. CASE Recreate(o)
 <2>. DEFINE R == mist[o].refs \intersect LiveIds(mist)
             m == Held(TRUE, mist[o].inc + 1, mist[o].content, R, TRUE)
 <2>1. Event(o, m, TRUE) /\ Known(o)
   BY <1>5, Zenon DEF Recreate
 <2>2. R \in SUBSET Ids /\ mist[o].inc + 1 \in Nat
   BY <1>e, SMT
 <2>3. m \in Entries
  <3>. HIDE DEF R
  <3>. QED
    BY <1>e, <2>2, SMT DEF Held, Entries
 <2>4. m.refs = R
   BY Zenon DEF Held
 <2>. HIDE DEF m
 <2>. QED
   BY <1>r, <2>1, <2>3, <2>4, Zenon
<1>. QED
  BY <1>1, <1>2, <1>3, <1>4, <1>5, Zenon DEF EventStep

LEMMA EventHistory ==
    ASSUME ObjectsAssumption, History, NEW o \in Objects, EventStep(o)
    PROVE  History'
<1>1. PICK m \in Entries, recorded \in BOOLEAN :
            /\ Event(o, m, recorded)
            /\ \A r \in m.refs : Recalled(r)
            /\ ~recorded => ~Known(o) /\ ~m.seen
            /\ ~Known(o) /\ mist[o].live => recorded /\ m.inc = mist[o].inc
  BY EventEntry, Zenon
<1>2. /\ mist' = [mist EXCEPT ![o] = m] /\ snapshot' = snapshot
      /\ versions' = IF recorded THEN Append(versions, Version(o, m, 0)) ELSE versions
  BY <1>1, Zenon DEF Event
<1>. DEFINE w == Version(o, m, 0)
<1>3. /\ w \in Versions /\ w.obj = o /\ w.inc = m.inc /\ w.snap = 0 /\ (w.deleted <=> ~m.live)
      /\ w.content = m.content /\ w.refs = m.refs
 <2>1. /\ w.obj = o /\ w.inc = m.inc /\ w.snap = 0 /\ (w.deleted <=> ~m.live)
       /\ w.content = m.content /\ w.refs = m.refs
   BY VersionFields, SMT
 <2>2. w \in Versions
  <3>1. Home(o) \in Nat
    BY HomeIs, Zenon DEF History, Shape
  <3>. QED
    BY <3>1, SMT DEF Version, Versions, Entries
 <2>. QED
   BY <2>1, <2>2
<1>. HIDE DEF w
<1>4. versions \in Seq(Versions) /\ Len(versions) \in Nat /\ DOMAIN versions = 1 .. Len(versions)
  BY SMT DEF History, Shape
<1>5. /\ versions' \in Seq(Versions)
      /\ DOMAIN versions' = IF recorded THEN 1 .. Len(versions) + 1 ELSE 1 .. Len(versions)
      /\ Len(versions') = IF recorded THEN Len(versions) + 1 ELSE Len(versions)
      /\ \A v \in DOMAIN versions : versions'[v] = versions[v]
      /\ recorded => versions'[Len(versions) + 1] = w
  BY <1>2, <1>3, <1>4, SMT DEF w
<1>6. mist' \in [Objects -> Entries] /\ mist'[o] = m /\ \A p \in Objects \ {o} : mist'[p] = mist[p]
 <2>1. mist \in [Objects -> Entries]
   BY Zenon DEF History, Shape
 <2>. QED
   BY <1>2, <2>1, SMT
<1>7. /\ \A p \in Objects : Known(p) => Known(p)'
      /\ \A p \in Objects \ {o} : Known(p)' <=> Known(p)
      /\ recorded => Known(o)'
      /\ ~recorded => versions' = versions
 <2>1. ~recorded => versions' = versions
   BY <1>2, Zenon
 <2>2. \A p \in Objects : Known(p) => Known(p)'
   BY <1>4, <1>5, SMT DEF Known
 <2>3. recorded => Known(o)'
  <3>. SUFFICES ASSUME recorded PROVE Known(o)'
    OBVIOUS
  <3>1. Len(versions) + 1 \in DOMAIN versions' /\ versions'[Len(versions) + 1].obj = o
    BY <1>3, <1>4, <1>5, SMT
  <3>. QED
    BY <3>1, Zenon DEF Known
 <2>4. \A p \in Objects \ {o} : Known(p)' => Known(p)
  <3>. SUFFICES ASSUME NEW p \in Objects \ {o}, NEW v \in DOMAIN versions', versions'[v].obj = p
                PROVE  v \in DOMAIN versions /\ versions[v].obj = p
    BY Zenon DEF Known
  <3>. QED
    BY <1>3, <1>4, <1>5, SMT
 <2>. QED
   BY <2>1, <2>2, <2>3, <2>4, Zenon
<1>8. Reflected'
 <2>. SUFFICES ASSUME NEW p \in Objects, Known(p)'
               PROVE  \E v \in VersionsOf(p)' :
                         /\ \A u \in VersionsOf(p)' : v >= u
                         /\ versions'[v].inc = mist'[p].inc /\ (versions'[v].deleted <=> ~mist'[p].live)
                         /\ versions'[v].content = mist'[p].content /\ versions'[v].refs = mist'[p].refs
   BY Zenon DEF Reflected
 <2>1. CASE p = o
  <3>1. recorded
   <4>. SUFFICES ASSUME ~recorded PROVE FALSE
     OBVIOUS
   <4>1. versions' = versions /\ ~Known(o)
     BY <1>1, <1>7, Zenon
   <4>. QED
     BY <2>1, <4>1, Zenon DEF Known
  <3>2. Len(versions) + 1 \in VersionsOf(p)'
    BY <1>3, <1>4, <1>5, <2>1, <3>1, SMT DEF VersionsOf
  <3>3. \A u \in VersionsOf(p)' : Len(versions) + 1 >= u
    BY <1>4, <1>5, <3>1, SMT DEF VersionsOf
  <3>. QED
    BY <1>3, <1>5, <1>6, <2>1, <3>1, <3>2, <3>3, Zenon
 <2>2. CASE p # o
  <3>1. VersionsOf(p)' = VersionsOf(p)
    BY <1>3, <1>4, <1>5, <2>2, SMT DEF VersionsOf
  <3>2. Known(p)
    BY <1>7, <2>2, Zenon
  <3>3. PICK v \in VersionsOf(p) :
                /\ \A u \in VersionsOf(p) : v >= u
                /\ versions[v].inc = mist[p].inc /\ (versions[v].deleted <=> ~mist[p].live)
                /\ versions[v].content = mist[p].content /\ versions[v].refs = mist[p].refs
    BY <3>2, Zenon DEF History, Reflected
  <3>4. versions'[v] = versions[v] /\ mist'[p] = mist[p]
    BY <1>5, <1>6, <2>2, Zenon DEF VersionsOf
  <3>. QED
    BY <3>1, <3>3, <3>4, Zenon
 <2>. QED
   BY <2>1, <2>2
<1>9. Audited'
 <2>1. \A p \in Objects : mist[p].live /\ mist[p].seen => Known(p)
   BY Zenon DEF History, Audited
 <2>. QED
   BY <1>1, <1>6, <1>7, <2>1, Zenon DEF Audited
<1>10. \A r \in Ids : Recalled(r) => Recalled(r)'
 <2>. SUFFICES ASSUME NEW r \in Ids, Recalled(r) PROVE Recalled(r)'
   BY Zenon
 <2>0. r[1] \in Objects
   BY SMT DEF Ids
 <2>1. CASE Incarnation(r)
   BY <1>4, <1>5, <2>1, SMT DEF Recalled, Incarnation
 <2>2. CASE ~Known(r[1]) /\ mist[r[1]].live /\ r[2] = mist[r[1]].inc /\ r[1] # o
   BY <1>6, <1>7, <2>0, <2>2, Zenon DEF Recalled
 <2>3. CASE ~Known(r[1]) /\ mist[r[1]].live /\ r[2] = mist[r[1]].inc /\ r[1] = o
  <3>. USE <2>3
  <3>1. recorded /\ m.inc = r[2]
    BY <1>1, Zenon
  <3>2. r = <<o, m.inc>>
    BY <3>1, SMT DEF Ids
  <3>3. Len(versions) + 1 \in DOMAIN versions' /\ versions'[Len(versions) + 1] = w
    BY <1>4, <1>5, <3>1, SMT
  <3>4. Id(w.obj, w.inc) = r
    BY <1>3, <3>2, Zenon DEF Id
  <3>. QED
    BY <3>3, <3>4, Zenon DEF Recalled, Incarnation
 <2>. QED
   BY <2>1, <2>2, <2>3, Zenon DEF Recalled
<1>11. Referring'
 <2>1. \A v \in DOMAIN versions' : \A r \in versions'[v].refs : Recalled(r)'
  <3>. SUFFICES ASSUME NEW v \in DOMAIN versions', NEW r \in versions'[v].refs PROVE r \in Ids /\ Recalled(r)
    BY <1>10, Zenon
  <3>1. r \in Ids
   <4>1. versions'[v] \in Versions
     BY <1>4, <1>5, SMT
   <4>2. versions'[v].refs \in SUBSET Ids
     BY <4>1, SMT DEF Versions
   <4>. QED
     BY <4>2
  <3>2. CASE v \in DOMAIN versions
    BY <1>5, <3>1, <3>2, SMT DEF Ids, History, Referring
  <3>3. CASE v \notin DOMAIN versions
   <4>1. r \in m.refs
     BY <1>3, <1>4, <1>5, <3>3, SMT
   <4>. QED
     BY <1>1, <3>1, <4>1, SMT DEF Ids
  <3>. QED
    BY <3>2, <3>3
 <2>2. \A p \in Objects : \A r \in mist'[p].refs : Recalled(r)'
  <3>. SUFFICES ASSUME NEW p \in Objects, NEW r \in mist'[p].refs PROVE r \in Ids /\ Recalled(r)
    BY <1>10, Zenon
  <3>1. r \in Ids
    BY <1>6, SMT DEF Entries
  <3>. QED
    BY <1>1, <1>6, <3>1, SMT DEF Ids, History, Referring
 <2>. QED
   BY <2>1, <2>2, Zenon DEF Referring
<1>12. BackedUp'
 <2>1. /\ snapshot \in Nat /\ snapshot <= Len(versions)
       /\ \A u \in DOMAIN versions : u <= snapshot => versions[u].snap = 1
       /\ \A u, v \in DOMAIN versions :
             /\ versions[u].snap = 1 /\ versions[v].snap = 0 => u < v
             /\ versions[u].snap = 1 /\ versions[v].snap = 1 /\ versions[u].obj = versions[v].obj => u = v
   BY Zenon DEF History, BackedUp
 <2>2. \A u \in DOMAIN versions' : u \in DOMAIN versions \/ (u = Len(versions) + 1 /\ versions'[u].snap = 0)
   BY <1>3, <1>4, <1>5, SMT
 <2>. QED
   BY <1>2, <1>4, <1>5, <2>1, <2>2, SMT DEF BackedUp
<1>. QED
  BY <1>5, <1>6, <1>8, <1>9, <1>11, <1>12, Zenon DEF History, Shape

\* The reads of a history.
LEMMA MaxOf ==
    ASSUME NEW n \in Nat, NEW S, S \subseteq 0 .. n, S # {}
    PROVE  Max(S) \in S /\ \A k \in S : Max(S) >= k
  BY GreatestOf, Zenon DEF Max

LEMMA LatestIs ==
    ASSUME History, NEW o \in Objects, Known(o)
    PROVE  /\ latest_version(o) \in VersionsOf(o) /\ \A u \in VersionsOf(o) : latest_version(o) >= u
           /\ (is_deleted(o) <=> ~mist[o].live)
           /\ current_mist_id(o) = CurrentId(o)
           /\ versions[latest_version(o)].content = mist[o].content
           /\ versions[latest_version(o)].refs = mist[o].refs
           /\ Incarnation(CurrentId(o))
<1>1. PICK v \in VersionsOf(o) :
          /\ \A u \in VersionsOf(o) : v >= u
          /\ versions[v].inc = mist[o].inc /\ (versions[v].deleted <=> ~mist[o].live)
          /\ versions[v].content = mist[o].content /\ versions[v].refs = mist[o].refs
  BY Zenon DEF History, Reflected
<1>2. VersionsOf(o) \subseteq 0 .. Len(versions) /\ Len(versions) \in Nat
  BY SMT DEF VersionsOf, History, Shape
<1>3. latest_version(o) \in VersionsOf(o) /\ \A u \in VersionsOf(o) : latest_version(o) >= u
  BY <1>1, <1>2, MaxOf, Zenon DEF latest_version
<1>4. latest_version(o) = v
  BY <1>1, <1>2, <1>3, SMT
<1>5. current_mist_id(o) = CurrentId(o)
  BY <1>1, <1>4, Zenon DEF current_mist_id, CurrentId
<1>6. v \in DOMAIN versions /\ versions[v].obj = o
  BY Zenon DEF VersionsOf
<1>7. Incarnation(CurrentId(o))
  BY <1>1, <1>6, Zenon DEF Incarnation, CurrentId
<1>. QED
  BY <1>1, <1>3, <1>4, <1>5, <1>7, Zenon DEF is_deleted

LEMMA VersionAtIs ==
    ASSUME History, NEW o, NEW t
    PROVE  /\ VersionsAt(o, t) = {} => _version_at(o, t) = 0
           /\ VersionsAt(o, t) # {} => /\ _version_at(o, t) \in VersionsAt(o, t)
                                       /\ _version_at(o, t) = Max(VersionsAt(o, t))
           /\ _version_at(o, t) = 0 <=> VersionsAt(o, t) = {}
           /\ _version_at(o, t) # 0 => _version_at(o, t) \in VersionsOf(o)
<1>1. VersionsAt(o, t) \subseteq VersionsOf(o)
  BY Zenon DEF VersionsAt
<1>2. VersionsOf(o) \subseteq 1 .. Len(versions) /\ Len(versions) \in Nat
  BY SMT DEF VersionsOf, History, Shape
<1>3. VersionsAt(o, t) # {} => Max(VersionsAt(o, t)) \in VersionsAt(o, t)
 <2>1. VersionsAt(o, t) \subseteq 0 .. Len(versions)
   BY <1>1, <1>2, SMT
 <2>. QED
   BY <1>2, <2>1, MaxOf, Zenon
<1>4. VersionsAt(o, t) = {} => _version_at(o, t) = 0
  BY Zenon DEF _version_at
<1>5. VersionsAt(o, t) # {} => _version_at(o, t) = Max(VersionsAt(o, t))
  BY Zenon DEF _version_at
<1>6. 0 \notin VersionsOf(o)
  BY <1>2, SMT
<1>. QED
  BY <1>1, <1>3, <1>4, <1>5, <1>6, Zenon

LEMMA VersionsOfIs ==
    ASSUME History, NEW o \in Objects, NEW v \in VersionsOf(o)
    PROVE  /\ v \in DOMAIN versions /\ versions[v].obj = o /\ Known(o)
           /\ versions[v].refs \subseteq Ids
           /\ \A r \in versions[v].refs : Recalled(r)
           /\ v \in Nat
<1>1. v \in DOMAIN versions /\ versions[v].obj = o
  BY Zenon DEF VersionsOf
<1>2. versions[v] \in Versions /\ v \in Nat
  BY <1>1, SMT DEF History, Shape
<1>3. versions[v].refs \subseteq Ids
  BY <1>2, SMT DEF Versions
<1>. QED
  BY <1>1, <1>2, <1>3, Zenon DEF Known, History, Referring

\* An incarnation is of a known object, and has an id of its own.
LEMMA IncarnationIs ==
    ASSUME History, NEW r, Incarnation(r)
    PROVE  r \in Ids /\ Known(r[1]) /\ r = Id(r[1], r[2])
<1>1. PICK v \in DOMAIN versions : Id(versions[v].obj, versions[v].inc) = r
  BY Zenon DEF Incarnation
<1>2. versions[v] \in Versions
  BY SMT DEF History, Shape
<1>3. versions[v].obj \in Objects /\ versions[v].inc \in Nat
  BY <1>2, SMT DEF Versions
<1>4. r[1] = versions[v].obj /\ r[2] = versions[v].inc
  BY <1>1, SMT DEF Id
<1>. QED
  BY <1>1, <1>3, <1>4, SMT DEF Ids, Id, Known

LEMMA ReferredIs ==
    ASSUME History, NEW v, NEW p \in Referred(v)
    PROVE  p \in Objects /\ Known(p) /\ \E r \in versions[v].refs : Incarnation(r) /\ r[1] = p
<1>1. PICK r \in versions[v].refs : Incarnation(r) /\ r[1] = p
  BY Zenon DEF Referred
<1>2. r \in Ids /\ Known(r[1])
  BY <1>1, IncarnationIs, Zenon
<1>3. r[1] \in Objects
  BY <1>2, SMT DEF Ids
<1>. QED
  BY <1>1, <1>2, <1>3, Zenon

\* What a plan selects.
Planning == pc # "history"

\* Each selected object is at a version of its own: one requested, one to be
\* repointed as it is, one absent at its instant, or one of its instant.
Selected ==
    /\ \A o \in DOMAIN sel : sel[o] \in VersionsOf(o)
    /\ rewrites \subseteq DOMAIN sel /\ force \subseteq DOMAIN sel /\ rewrites \intersect force = {}
    /\ \A o \in rewrites : sel[o] = latest_version(o) /\ ~is_deleted(o)
    /\ \A o \in force : o \in DOMAIN instants /\ _version_at(o, instants[o]) = 0 /\ o \notin request.objects
    /\ \A o \in DOMAIN sel : o \in DOMAIN instants \/ o \in rewrites
    /\ \A o \in DOMAIN sel \ (request.objects \union rewrites \union force) :
           sel[o] = _version_at(o, instants[o]) /\ sel[o] # 0

\* What a selected object reaches is selected, came since its instant, or was not
\* there at one.
Excused(q, o) == request.mode = "non_destructive" /\ CameSince(q, _version_at(q, instants[o]))
Absent(q) == q \in DOMAIN instants /\ _version_at(q, instants[q]) = 0
Reaching(o) == \A q \in Referred(sel[o]) : q \in DOMAIN sel \/ Excused(q, o) \/ Absent(q)
Expanded ==
    /\ pc = "expand" =>
           /\ DOMAIN instants \subseteq DOMAIN sel /\ DOMAIN pending \subseteq DOMAIN instants
           /\ request.objects \subseteq DOMAIN sel
           /\ \A o \in DOMAIN instants \ DOMAIN pending : Reaching(o)
    /\ pc # "expand" /\ request.deps => \A o \in DOMAIN sel \intersect DOMAIN instants : Reaching(o)

\* Nothing that is kept references what is deleted for being absent.
Sparing ==
    /\ pc = "spare" =>
           /\ \A o \in Kept \ DOMAIN pending : Referred(sel[o]) \intersect force = {}
           /\ \A o \in Kept \intersect DOMAIN pending : pending[o] = sel[o]
    /\ request.deps /\ pc \notin {"history", "expand", "spare"} =>
           \A o \in Kept : Referred(sel[o]) \intersect force = {}

Built ==
    pc \notin Stages =>
        actions = [o \in Planned |->
           [action |-> _action_type(o), source |-> Source(o), needs |-> depends_on(o) \intersect Planned,
            remap |-> IF o \in Deleted THEN <<>> ELSE _live_replacements(o)]]

PlanInv == Planning => Selected /\ Expanded /\ Sparing /\ Built

LEMMA AtStays ==
    ASSUME versions' = versions
    PROVE  /\ \A o, t : VersionsAt(o, t)' = VersionsAt(o, t) /\ _version_at(o, t)' = _version_at(o, t)
           /\ \A v : Referred(v)' = Referred(v)
           /\ \A r : Incarnation(r)' <=> Incarnation(r)
           /\ \A o, v : CameSince(o, v)' <=> CameSince(o, v)
  BY Zenon DEF _version_at, VersionsAt, VersionsOf, Referred, Incarnation, CameSince, is_deleted, latest_version

LEMMA SelectedStays ==
    ASSUME UNCHANGED <<versions, request, sel, force, rewrites, instants>>, Selected
    PROVE  Selected'
<1>1. \A o \in DOMAIN sel' : (sel[o] \in VersionsOf(o))'
  BY ReadsStay, Zenon DEF Selected
<1>2. /\ rewrites' \subseteq DOMAIN sel' /\ force' \subseteq DOMAIN sel' /\ rewrites' \intersect force' = {}
      /\ \A o \in DOMAIN sel' : o \in DOMAIN instants' \/ o \in rewrites'
  BY Zenon DEF Selected
<1>3. \A o \in rewrites' : (sel[o] = latest_version(o) /\ ~is_deleted(o))'
  BY ReadsStay, Zenon DEF Selected
<1>4. \A o : _version_at(o, instants[o])' = _version_at(o, instants[o])
  BY AtStays, Zenon
<1>5. \A o \in force' : (o \in DOMAIN instants /\ _version_at(o, instants[o]) = 0 /\ o \notin request.objects)'
  BY <1>4, Zenon DEF Selected
<1>6. \A o \in (DOMAIN sel \ (request.objects \union rewrites \union force))' :
          (sel[o] = _version_at(o, instants[o]) /\ sel[o] # 0)'
  BY <1>4, Zenon DEF Selected
<1>. QED
  BY <1>1, <1>2, <1>3, <1>5, <1>6, Zenon DEF Selected

LEMMA ReachingStays ==
    ASSUME UNCHANGED <<versions, request, sel, instants>>, NEW o
    PROVE  Reaching(o)' <=> Reaching(o)
  BY AtStays, Zenon DEF Reaching, Excused, Absent

LEMMA KeptStays ==
    ASSUME UNCHANGED <<versions, sel, force>>
    PROVE  Kept' = Kept
  BY Zenon DEF Kept

LEMMA PlanInit2 == Init => PlanInv
  BY Zenon DEF Init, PlanInv, Planning

LEMMA RequestPlanInv ==
    ASSUME History, Plan, force = {}, rewrites = {}, Request
    PROVE  PlanInv'
<1>1. /\ pc = "history" /\ pc' = (IF request'.deps THEN "expand" ELSE "mark")
      /\ UNCHANGED <<mist, versions, snapshot, force, rewrites, actions, rank, after>>
      /\ request'.objects \subseteq Objects
      /\ DOMAIN sel' = request'.objects /\ DOMAIN instants' = request'.objects
      /\ DOMAIN pending' = request'.objects
      /\ \A o \in request'.objects : sel'[o] \in VersionsOf(o) /\ instants'[o] = InstantOf(sel'[o])
  BY RequestIs, Zenon DEF Plan
<1>2. Selected'
  BY <1>1, ReadsStay, Zenon DEF Selected
<1>3. Expanded'
 <2>1. pc' = "expand" => DOMAIN instants' \ DOMAIN pending' = {}
   BY <1>1, SMT
 <2>2. pc' # "expand" => ~request'.deps
   BY <1>1, SMT
 <2>. QED
   BY <1>1, <2>1, <2>2, SMT DEF Expanded
<1>4. Sparing'
  BY <1>1, SMT DEF Sparing
<1>5. Built'
  BY <1>1, SMT DEF Built, Stages
<1>. QED
  BY <1>2, <1>3, <1>4, <1>5, Zenon DEF PlanInv

LEMMA RelatedKnown ==
    ASSUME History, NEW o, NEW v, NEW p \in _related_logical_objects(o, v)
    PROVE  p \in Objects /\ Known(p)
<1>1. CASE p \in Referred(v)
  BY <1>1, ReferredIs, Zenon
<1>2. CASE p \in Contained(o)
  BY <1>2, SMT DEF Contained
<1>. QED
  BY <1>1, <1>2, SMT DEF _related_logical_objects

LEMMA ExpandSelected ==
    ASSUME History, Selected, Expanded, pc = "expand", NEW o \in DOMAIN pending, Expand(o),
           UNCHANGED <<versions, request>>
    PROVE  /\ Selected'
           /\ DOMAIN instants' \subseteq DOMAIN sel' /\ DOMAIN pending' \subseteq DOMAIN instants'
           /\ request'.objects \subseteq DOMAIN sel'
           /\ \A p \in DOMAIN instants' \ DOMAIN pending' : Reaching(p)'
<1>. DEFINE N == Reached(o)
            P == Repointed(o)
            U == Unrecorded(o)
<1>1. /\ sel' = [p \in DOMAIN sel \union N \union P |->
                    IF p \in DOMAIN sel THEN sel[p]
                    ELSE IF p \in N \ U THEN _version_at(p, instants[o]) ELSE latest_version(p)]
      /\ force' = force \union U /\ rewrites' = rewrites \union P
      /\ instants' = [p \in DOMAIN instants \union N |-> IF p \in N THEN instants[o] ELSE instants[p]]
      /\ DOMAIN pending' = (DOMAIN pending \ {o}) \union N
  BY Zenon DEF Expand
<1>2. /\ \A p \in N : p \notin DOMAIN sel /\ Known(p) /\ p \in Objects
      /\ U \subseteq N /\ \A p \in N : p \in U <=> _version_at(p, instants[o]) = 0
      /\ \A p \in P : p \notin DOMAIN sel /\ p \notin N /\ Known(p) /\ p \in Objects /\ ~is_deleted(p)
 <2>1. \A p \in N : p \in _related_logical_objects(o, sel[o]) /\ p \notin DOMAIN sel
   BY Zenon DEF Reached
 <2>2. \A p \in N : Known(p) /\ p \in Objects
   BY <2>1, RelatedKnown, Zenon
 <2>3. U \subseteq N /\ \A p \in N : p \in U <=> _version_at(p, instants[o]) = 0
   BY Zenon DEF Unrecorded
 <2>4. \A p \in P : p \in _reverse_dependents(o) /\ p \notin DOMAIN sel /\ p \notin N
   BY SMT DEF Repointed
 <2>5. \A p \in P : Known(p) /\ p \in Objects /\ ~is_deleted(p)
   BY <2>4, Zenon DEF _reverse_dependents
 <2>. QED
   BY <2>1, <2>2, <2>3, <2>4, <2>5
<1>3. /\ \A q \in Referred(sel[o]) : q \in DOMAIN sel \/ q \in N \/ Excused(q, o)
  BY Zenon DEF Reached, Excused, _related_logical_objects
<1>. HIDE DEF N, P, U
<1>4. /\ DOMAIN sel' = DOMAIN sel \union N \union P
      /\ \A p \in DOMAIN sel : sel'[p] = sel[p]
      /\ \A p \in N \ U : sel'[p] = _version_at(p, instants[o]) /\ _version_at(p, instants[o]) # 0
      /\ \A p \in P \union U : sel'[p] = latest_version(p)
  BY <1>1, <1>2, SMT
<1>5. /\ DOMAIN instants' = DOMAIN instants \union N
      /\ \A p \in N : instants'[p] = instants[o]
      /\ \A p \in DOMAIN instants : p \notin N => instants'[p] = instants[p]
  BY <1>1, SMT
<1>6. /\ DOMAIN instants \subseteq DOMAIN sel /\ DOMAIN pending \subseteq DOMAIN instants
      /\ request.objects \subseteq DOMAIN sel
      /\ \A p \in DOMAIN instants \ DOMAIN pending : Reaching(p)
  BY Zenon DEF Expanded
<1>7. \A p : \A t : _version_at(p, t)' = _version_at(p, t)
  BY AtStays, Zenon
<1>8. \A p \in DOMAIN sel' : sel'[p] \in VersionsOf(p)
 <2>1. \A p \in DOMAIN sel : sel[p] \in VersionsOf(p)
   BY Zenon DEF Selected
 <2>2. \A p \in N \ U : sel'[p] \in VersionsOf(p)
  <3>. SUFFICES ASSUME NEW p \in N \ U PROVE sel'[p] \in VersionsOf(p)
    OBVIOUS
  <3>1. sel'[p] = _version_at(p, instants[o]) /\ _version_at(p, instants[o]) # 0
    BY <1>4, Zenon
  <3>2. _version_at(p, instants[o]) \in VersionsOf(p)
    BY <3>1, VersionAtIs, SMT
  <3>. QED
    BY <3>1, <3>2, Zenon
 <2>3. \A p \in P \union U : sel'[p] \in VersionsOf(p)
   BY <1>2, <1>4, LatestIs, Zenon
 <2>. QED
   BY <1>4, <2>1, <2>2, <2>3, Zenon
<1>9. /\ rewrites' \subseteq DOMAIN sel' /\ force' \subseteq DOMAIN sel' /\ rewrites' \intersect force' = {}
  BY <1>1, <1>2, <1>4, SMT DEF Selected
<1>10. \A p \in rewrites' : sel'[p] = latest_version(p) /\ ~is_deleted(p)
  BY <1>1, <1>2, <1>4, SMT DEF Selected
<1>11. \A p \in force' : p \in DOMAIN instants' /\ _version_at(p, instants'[p]) = 0 /\ p \notin request.objects
 <2>. SUFFICES ASSUME NEW p \in force' PROVE p \in DOMAIN instants' /\ _version_at(p, instants'[p]) = 0 /\ p \notin request.objects
   OBVIOUS
 <2>1. CASE p \in force
  <3>1. p \in DOMAIN instants /\ _version_at(p, instants[p]) = 0 /\ p \notin request.objects /\ p \in DOMAIN sel
    BY <2>1, Zenon DEF Selected
  <3>2. instants'[p] = instants[p]
    BY <1>2, <1>5, <3>1, Zenon
  <3>. QED
    BY <1>5, <3>1, <3>2, Zenon
 <2>2. CASE p \in U
  <3>1. p \in N /\ _version_at(p, instants[o]) = 0
    BY <1>2, <2>2, Zenon
  <3>. QED
    BY <1>2, <1>5, <1>6, <3>1, Zenon
 <2>. QED
   BY <1>1, <2>1, <2>2, Zenon
<1>12. \A p \in DOMAIN sel' : p \in DOMAIN instants' \/ p \in rewrites'
  BY <1>1, <1>4, <1>5, SMT DEF Selected
<1>13. \A p \in DOMAIN sel' \ (request.objects \union rewrites' \union force') :
            sel'[p] = _version_at(p, instants'[p]) /\ sel'[p] # 0
 <2>. SUFFICES ASSUME NEW p \in DOMAIN sel', p \notin request.objects, p \notin rewrites', p \notin force'
               PROVE  sel'[p] = _version_at(p, instants'[p]) /\ sel'[p] # 0
   BY Zenon
 <2>1. CASE p \in DOMAIN sel
  <3>1. p \notin rewrites /\ p \notin force
    BY <1>1, Zenon
  <3>2. sel[p] = _version_at(p, instants[p]) /\ sel[p] # 0 /\ p \in DOMAIN instants
    BY <2>1, <3>1, SMT DEF Selected
  <3>. QED
    BY <1>2, <1>4, <1>5, <2>1, <3>2, Zenon
 <2>2. CASE p \in N
  <3>1. p \notin U
    BY <1>1, Zenon
  <3>. QED
    BY <1>4, <1>5, <2>2, <3>1, Zenon
 <2>3. CASE p \in P
   BY <1>1, <2>3, Zenon
 <2>. QED
   BY <1>4, <2>1, <2>2, <2>3, Zenon
<1>14. Selected'
 <2>1. \A p : VersionsOf(p)' = VersionsOf(p) /\ latest_version(p)' = latest_version(p) /\ (is_deleted(p)' <=> is_deleted(p))
   BY ReadsStay, Zenon
 <2>2. \A p : _version_at(p, instants[p])' = _version_at(p, instants'[p])
   BY <1>7, Zenon
 <2>3. \A p \in DOMAIN sel' : (sel[p] \in VersionsOf(p))'
   BY <1>8, <2>1, Zenon
 <2>4. \A p \in rewrites' : (sel[p] = latest_version(p) /\ ~is_deleted(p))'
   BY <1>10, <2>1, Zenon
 <2>5. \A p \in force' : (p \in DOMAIN instants /\ _version_at(p, instants[p]) = 0 /\ p \notin request.objects)'
   BY <1>11, <2>2, Zenon
 <2>6. \A p \in (DOMAIN sel \ (request.objects \union rewrites \union force))' :
           (sel[p] = _version_at(p, instants[p]) /\ sel[p] # 0)'
   BY <1>13, <2>2, Zenon
 <2>. QED
   BY <1>9, <1>12, <2>3, <2>4, <2>5, <2>6, Zenon DEF Selected
<1>15. \A p \in DOMAIN instants' \ DOMAIN pending' : Reaching(p)'
 <2>. SUFFICES ASSUME NEW p \in DOMAIN instants' \ DOMAIN pending', NEW q \in Referred(sel'[p])
               PROVE  q \in DOMAIN sel' \/ Excused(q, p)' \/ Absent(q)'
  <3>1. \A p : Referred(sel[p])' = Referred(sel'[p])
    BY AtStays, Zenon
  <3>. QED
    BY <3>1, Zenon DEF Reaching
 <2>1. p \notin N /\ p \in DOMAIN instants /\ p \in DOMAIN sel
   BY <1>1, <1>5, <1>6, SMT
 <2>2. sel'[p] = sel[p] /\ instants'[p] = instants[p]
   BY <1>4, <1>5, <2>1, Zenon
 <2>3. q \in DOMAIN sel \/ q \in N \/ Excused(q, p) \/ Absent(q)
  <3>1. CASE p = o
    BY <1>3, <2>2, <3>1, Zenon
  <3>2. CASE p # o
   <4>1. p \notin DOMAIN pending
     BY <1>1, <2>1, <3>2, SMT
   <4>. QED
     BY <1>6, <2>1, <2>2, <4>1, Zenon DEF Reaching
  <3>. QED
    BY <3>1, <3>2
 <2>4. Excused(q, p) => Excused(q, p)'
  <3>1. _version_at(q, instants[p])' = _version_at(q, instants[p])
    BY <1>7, <2>2, Zenon
  <3>. QED
    BY <2>2, <3>1, AtStays, Zenon DEF Excused
 <2>5. Absent(q) => Absent(q)'
  <3>. SUFFICES ASSUME Absent(q) PROVE Absent(q)'
    OBVIOUS
  <3>1. q \in DOMAIN instants /\ _version_at(q, instants[q]) = 0
    BY Zenon DEF Absent
  <3>2. instants'[q] = instants[q] /\ q \in DOMAIN instants'
    BY <1>2, <1>5, <1>6, <3>1, SMT
  <3>. QED
    BY <1>7, <3>1, <3>2, Zenon DEF Absent
 <2>. QED
   BY <1>4, <2>3, <2>4, <2>5, SMT
<1>. QED
  BY <1>1, <1>4, <1>5, <1>6, <1>14, <1>15, SMT

LEMMA ExpandPlanInv ==
    ASSUME History, PlanInv, _expand_dependencies
    PROVE  PlanInv'
<1>1. /\ pc = "expand" /\ pc' \in {"expand", "spare"}
      /\ UNCHANGED <<mist, versions, request, actions, rank, after>>
  BY Zenon DEF _expand_dependencies, history
<1>2. Selected /\ Expanded
  BY <1>1, SMT DEF PlanInv, Planning
<1>3. CASE DOMAIN pending = {} /\ pc' = "spare" /\ pending' = [o \in Kept |-> sel[o]]
           /\ UNCHANGED <<sel, force, rewrites, instants>>
 <2>1. Selected'
   BY <1>1, <1>2, <1>3, SelectedStays, Zenon
 <2>2. Expanded'
  <3>1. \A o \in DOMAIN instants : Reaching(o)
    BY <1>1, <1>2, <1>3, SMT DEF Expanded
  <3>2. \A o \in DOMAIN instants' : Reaching(o)'
    BY <1>1, <1>3, <3>1, ReachingStays, Zenon
  <3>. QED
    BY <1>3, <3>2, SMT DEF Expanded
 <2>3. Sparing'
  <3>1. Kept' = Kept
    BY <1>1, <1>3, KeptStays, Zenon
  <3>2. DOMAIN pending' = Kept /\ \A o \in Kept : pending'[o] = sel[o]
    BY <1>3, SMT
  <3>. QED
    BY <1>3, <3>1, <3>2, SMT DEF Sparing
 <2>4. Built'
   BY <1>3, SMT DEF Built, Stages
 <2>. QED
   BY <2>1, <2>2, <2>3, <2>4, Zenon DEF PlanInv
<1>4. CASE pc' = pc /\ \E o \in Objects : First(o) /\ Expand(o)
 <2>1. PICK o \in DOMAIN pending : Expand(o)
   BY <1>4, Zenon DEF First
 <2>2. /\ Selected'
       /\ DOMAIN instants' \subseteq DOMAIN sel' /\ DOMAIN pending' \subseteq DOMAIN instants'
       /\ request'.objects \subseteq DOMAIN sel'
       /\ \A p \in DOMAIN instants' \ DOMAIN pending' : Reaching(p)'
   BY <1>1, <1>2, <2>1, ExpandSelected, Zenon
 <2>3. pc' = "expand"
   BY <1>1, <1>4, Zenon
 <2>4. Expanded' /\ Sparing' /\ Built'
   BY <2>2, <2>3, SMT DEF Expanded, Sparing, Built, Stages
 <2>. QED
   BY <2>2, <2>4, Zenon DEF PlanInv
<1>. QED
  BY <1>3, <1>4, Zenon DEF _expand_dependencies

LEMMA SparePlanInv ==
    ASSUME History, PlanInv, _spare_referenced_objects
    PROVE  PlanInv'
<1>. DEFINE spared == Named \intersect force
            kept == {o \in spared : ~versions[sel[o]].deleted}
<1>1. /\ pc = "spare" /\ pc' = (IF spared = {} THEN "mark" ELSE "spare")
      /\ UNCHANGED <<mist, versions, request, rewrites, instants, actions, rank, after>>
      /\ sel' = [o \in DOMAIN sel \ spared |-> sel[o]]
      /\ force' = force \ spared
      /\ pending' = [o \in kept |-> sel[o]]
  BY Zenon DEF _spare_referenced_objects, history
<1>2. Selected /\ Expanded /\ Sparing
  BY <1>1, SMT DEF PlanInv, Planning
<1>3. spared \subseteq force /\ kept \subseteq spared
  BY SMT
<1>4. \A o \in DOMAIN pending : \A q \in Referred(pending[o]) : q \in force => q \in spared
 <2>1. \A o \in DOMAIN pending : \A q \in Referred(pending[o]) : q \in Named
   BY Zenon DEF Named
 <2>. QED
   BY <2>1, SMT
<1>5. DOMAIN pending' = kept
  BY <1>1, Zenon
<1>. HIDE DEF spared, kept
<1>6. DOMAIN sel' = DOMAIN sel \ spared /\ \A o \in DOMAIN sel' : sel'[o] = sel[o] /\ o \in DOMAIN sel /\ o \notin spared
  BY <1>1, SMT
<1>7. Selected'
 <2>1. \A p : VersionsOf(p)' = VersionsOf(p) /\ latest_version(p)' = latest_version(p) /\ (is_deleted(p)' <=> is_deleted(p))
   BY <1>1, ReadsStay, Zenon
 <2>2. \A p : _version_at(p, instants[p])' = _version_at(p, instants[p])
   BY <1>1, AtStays, Zenon
 <2>3. \A p \in DOMAIN sel' : (sel[p] \in VersionsOf(p))'
   BY <1>2, <1>6, <2>1, Zenon DEF Selected
 <2>4. rewrites' \subseteq DOMAIN sel' /\ force' \subseteq DOMAIN sel' /\ rewrites' \intersect force' = {}
   BY <1>1, <1>2, <1>3, <1>6, SMT DEF Selected
 <2>5. \A p \in rewrites' : (sel[p] = latest_version(p) /\ ~is_deleted(p))'
   BY <1>1, <1>2, <1>6, <2>1, <2>4, SMT DEF Selected
 <2>6. \A p \in force' : (p \in DOMAIN instants /\ _version_at(p, instants[p]) = 0 /\ p \notin request.objects)'
  <3>1. \A p \in force' : p \in force
    BY <1>1, SMT
  <3>. QED
    BY <1>1, <1>2, <2>2, <3>1, Zenon DEF Selected
 <2>7. \A p \in DOMAIN sel' : p \in DOMAIN instants' \/ p \in rewrites'
   BY <1>1, <1>2, <1>6, Zenon DEF Selected
 <2>8. \A p \in (DOMAIN sel \ (request.objects \union rewrites \union force))' :
           (sel[p] = _version_at(p, instants[p]) /\ sel[p] # 0)'
  <3>. SUFFICES ASSUME NEW p \in DOMAIN sel', p \notin request'.objects, p \notin rewrites', p \notin force'
                PROVE  (sel[p] = _version_at(p, instants[p]) /\ sel[p] # 0)'
    BY Zenon
  <3>1. p \in DOMAIN sel \ (request.objects \union rewrites \union force) /\ sel'[p] = sel[p]
    BY <1>1, <1>6, SMT
  <3>. QED
    BY <1>2, <2>2, <3>1, Zenon DEF Selected
 <2>. QED
   BY <2>3, <2>4, <2>5, <2>6, <2>7, <2>8, Zenon DEF Selected
<1>8. Expanded'
 <2>1. pc # "expand" /\ pc' # "expand"
   BY <1>1, SMT
 <2>. SUFFICES ASSUME request.deps, NEW o \in DOMAIN sel', o \in DOMAIN instants'
               PROVE  Reaching(o)'
   BY <1>1, <2>1, SMT DEF Expanded
 <2>2. Reaching(o) /\ sel'[o] = sel[o]
   BY <1>1, <1>2, <1>6, <2>1, SMT DEF Expanded
 <2>. SUFFICES ASSUME NEW q \in Referred(sel[o])
               PROVE  q \in DOMAIN sel' \/ Excused(q, o)' \/ Absent(q)'
  <3>1. Referred(sel[o])' = Referred(sel[o])
    BY <1>1, <2>2, AtStays, Zenon
  <3>. QED
    BY <3>1, Zenon DEF Reaching
 <2>3. Excused(q, o)' <=> Excused(q, o)
   BY <1>1, AtStays, Zenon DEF Excused
 <2>4. Absent(q)' <=> Absent(q)
   BY <1>1, AtStays, Zenon DEF Absent
 <2>5. q \in spared => Absent(q)
   BY <1>2, <1>3, SMT DEF Selected, Absent
 <2>. QED
   BY <1>6, <2>2, <2>3, <2>4, <2>5, SMT DEF Reaching
<1>9. Sparing'
 <2>1. \A o \in Kept' : o \in Kept /\ sel'[o] = sel[o]
  <3>. SUFFICES ASSUME NEW o \in Kept' PROVE o \in Kept /\ sel'[o] = sel[o]
    OBVIOUS
  <3>1. o \in DOMAIN sel' /\ o \notin force' /\ ~versions[sel'[o]].deleted
    BY <1>1, SMT DEF Kept
  <3>2. o \notin force
    BY <1>1, <1>6, <3>1, SMT
  <3>. QED
    BY <1>6, <3>1, <3>2, SMT DEF Kept
 <2>2. \A o \in Kept' : Referred(sel'[o]) \intersect force' = {}
  <3>. SUFFICES ASSUME NEW o \in Kept', NEW q \in Referred(sel'[o]), q \in force' PROVE FALSE
    BY Zenon
  <3>1. o \in Kept /\ sel'[o] = sel[o] /\ q \in force /\ q \notin spared
    BY <1>1, <2>1, SMT
  <3>2. CASE o \in DOMAIN pending
    BY <1>1, <1>2, <1>4, <3>1, <3>2, SMT DEF Sparing
  <3>3. CASE o \notin DOMAIN pending
    BY <1>1, <1>2, <3>1, <3>3, SMT DEF Sparing
  <3>. QED
    BY <3>2, <3>3
 <2>3. \A o \in Kept' : o \notin DOMAIN pending'
  <3>1. \A o \in Kept' : o \in DOMAIN sel'
    BY SMT DEF Kept
  <3>. QED
    BY <1>3, <1>5, <1>6, <3>1, SMT
 <2>4. \A v : Referred(v)' = Referred(v)
   BY <1>1, AtStays, Zenon
 <2>5. \A o \in Kept' : (Referred(sel[o]) \intersect force)' = {}
   BY <2>2, <2>4, Zenon
 <2>. QED
   BY <2>3, <2>5, SMT DEF Sparing
<1>10. Built'
  BY <1>1, SMT DEF Built, Stages
<1>. QED
  BY <1>7, <1>8, <1>9, <1>10, Zenon DEF PlanInv

LEMMA MarkPlanInv ==
    ASSUME PlanInv, _mark_selected_reference_rewrites
    PROVE  PlanInv'
<1>1. /\ pc = "mark" /\ pc' = "build"
      /\ UNCHANGED <<mist, versions, request, sel, force, instants, pending, actions, rank, after>>
      /\ rewrites' = rewrites \union
             {o \in Kept : ~is_deleted(o) /\ sel[o] = latest_version(o) /\ _references_any(sel[o])}
  BY Zenon DEF _mark_selected_reference_rewrites, history
<1>2. Selected /\ Expanded /\ Sparing
  BY <1>1, SMT DEF PlanInv, Planning
<1>3. /\ \A o \in rewrites' : o \in rewrites \/ (o \in Kept /\ ~is_deleted(o) /\ sel[o] = latest_version(o))
      /\ rewrites \subseteq rewrites'
  BY <1>1, SMT
<1>4. Kept \subseteq DOMAIN sel \ force
  BY SMT DEF Kept
<1>5. Selected'
 <2>1. \A p : VersionsOf(p)' = VersionsOf(p) /\ latest_version(p)' = latest_version(p) /\ (is_deleted(p)' <=> is_deleted(p))
   BY <1>1, ReadsStay, Zenon
 <2>2. \A p : _version_at(p, instants[p])' = _version_at(p, instants[p])
   BY <1>1, AtStays, Zenon
 <2>3. \A p \in DOMAIN sel' : (sel[p] \in VersionsOf(p))'
   BY <1>1, <1>2, <2>1, Zenon DEF Selected
 <2>4. rewrites' \subseteq DOMAIN sel' /\ force' \subseteq DOMAIN sel' /\ rewrites' \intersect force' = {}
   BY <1>1, <1>2, <1>3, <1>4, SMT DEF Selected
 <2>5. \A p \in rewrites' : (sel[p] = latest_version(p) /\ ~is_deleted(p))'
   BY <1>1, <1>2, <1>3, <2>1, SMT DEF Selected
 <2>6. \A p \in force' : (p \in DOMAIN instants /\ _version_at(p, instants[p]) = 0 /\ p \notin request.objects)'
   BY <1>1, <1>2, <2>2, Zenon DEF Selected
 <2>7. \A p \in DOMAIN sel' : p \in DOMAIN instants' \/ p \in rewrites'
   BY <1>1, <1>2, <1>3, SMT DEF Selected
 <2>8. \A p \in (DOMAIN sel \ (request.objects \union rewrites \union force))' :
           (sel[p] = _version_at(p, instants[p]) /\ sel[p] # 0)'
  <3>. SUFFICES ASSUME NEW p \in DOMAIN sel, p \notin request.objects, p \notin rewrites', p \notin force
                PROVE  (sel[p] = _version_at(p, instants[p]) /\ sel[p] # 0)'
    BY <1>1, Zenon
  <3>1. p \in DOMAIN sel \ (request.objects \union rewrites \union force)
    BY <1>3, SMT
  <3>. QED
    BY <1>1, <1>2, <2>2, <3>1, Zenon DEF Selected
 <2>. QED
   BY <2>3, <2>4, <2>5, <2>6, <2>7, <2>8, Zenon DEF Selected
<1>6. Expanded'
 <2>1. \A o : Reaching(o)' <=> Reaching(o)
   BY <1>1, ReachingStays, Zenon
 <2>. QED
   BY <1>1, <1>2, <2>1, SMT DEF Expanded
<1>7. Sparing'
 <2>1. Kept' = Kept /\ \A v : Referred(v)' = Referred(v)
   BY <1>1, KeptStays, AtStays, Zenon
 <2>2. request.deps => \A o \in Kept : Referred(sel[o]) \intersect force = {}
   BY <1>1, <1>2, SMT DEF Sparing
 <2>3. request'.deps => \A o \in Kept' : (Referred(sel[o]) \intersect force)' = {}
   BY <1>1, <2>1, <2>2, Zenon
 <2>. QED
   BY <1>1, <2>3, SMT DEF Sparing
<1>8. Built'
  BY <1>1, SMT DEF Built, Stages
<1>. QED
  BY <1>5, <1>6, <1>7, <1>8, Zenon DEF PlanInv

\* What is planned depends on what the plan holds only.
LEMMA PlannedStays ==
    ASSUME UNCHANGED <<mist, versions, request, sel, force, rewrites>>
    PROVE  /\ Planned' = Planned /\ Deleted' = Deleted
           /\ \A o : _action_type(o)' = _action_type(o) /\ Source(o)' = Source(o)
           /\ \A o : depends_on(o)' = depends_on(o) /\ _live_replacements(o)' = _live_replacements(o)
<1>1. \A o : is_deleted(o)' <=> is_deleted(o)
  BY ReadsStay, Zenon
<1>2. \A o : latest_version(o)' = latest_version(o) /\ current_mist_id(o)' = current_mist_id(o)
  BY ReadsStay, Zenon
<1>3. Kept' = Kept /\ (\A v : Referred(v)' = Referred(v)) /\ (\A r : Incarnation(r)' <=> Incarnation(r))
  BY KeptStays, AtStays, Zenon
<1>4. RecreatedIds' = RecreatedIds
  BY <1>1, <1>2, <1>3, Zenon DEF RecreatedIds, Recreated
<1>5. \A v : _references_any(v)' <=> _references_any(v)
  BY <1>4, Zenon DEF _references_any
<1>6. \A v, u : SameConfiguration(v, u)' <=> SameConfiguration(v, u)
  BY Zenon DEF SameConfiguration
<1>7. \A o : _action_type(o)' = _action_type(o)
  BY <1>1, <1>2, <1>5, <1>6, SMT DEF _action_type
<1>8. \A o : Source(o)' = Source(o)
  BY <1>2, Zenon DEF Source
<1>9. Planned' = Planned /\ Deleted' = Deleted
  BY <1>7, Zenon DEF Planned, Deleted
<1>10. \A o : _live_replacements(o)' = _live_replacements(o)
  BY <1>1, <1>2, <1>3, <1>4, <1>8, Zenon DEF _live_replacements
<1>s. \A o : site_mist_id(o)' = site_mist_id(o)
  BY ReadsStay, Zenon
<1>11. \A o : _action_dependencies(o)' = _action_dependencies(o)
  BY <1>1, <1>2, <1>3, <1>8, <1>9, <1>s, Zenon DEF _action_dependencies
<1>12. \A o : _add_containment_delete_dependencies(o)' = _add_containment_delete_dependencies(o)
  BY <1>2, <1>9, <1>s, Zenon DEF _add_containment_delete_dependencies
<1>13. \A o : _add_name_reuse_dependencies(o)' = _add_name_reuse_dependencies(o)
  BY <1>7, <1>9, <1>s, Zenon DEF _add_name_reuse_dependencies
<1>14. \A o : depends_on(o)' = depends_on(o)
  BY <1>11, <1>12, <1>13, Zenon DEF depends_on
<1>. QED
  BY <1>7, <1>8, <1>9, <1>10, <1>14

LEMMA BuildPlanInv ==
    ASSUME PlanInv, Build
    PROVE  PlanInv'
<1>1. /\ pc = "build" /\ pc' = "order"
      /\ UNCHANGED <<mist, versions, request, sel, force, rewrites, instants, pending>>
      /\ actions' = [o \in Planned |->
            [action |-> _action_type(o), source |-> Source(o), needs |-> depends_on(o) \intersect Planned,
             remap |-> IF o \in Deleted THEN <<>> ELSE _live_replacements(o)]]
  BY Zenon DEF Build, context, history
<1>2. Selected /\ Expanded /\ Sparing
  BY <1>1, SMT DEF PlanInv, Planning
<1>3. Selected'
  BY <1>1, <1>2, SelectedStays, Zenon
<1>4. Expanded'
 <2>1. \A o : Reaching(o)' <=> Reaching(o)
   BY <1>1, ReachingStays, Zenon
 <2>. QED
   BY <1>1, <1>2, <2>1, SMT DEF Expanded
<1>5. Sparing'
 <2>1. Kept' = Kept /\ \A v : Referred(v)' = Referred(v)
   BY <1>1, KeptStays, AtStays, Zenon
 <2>2. request.deps => \A o \in Kept : Referred(sel[o]) \intersect force = {}
   BY <1>1, <1>2, SMT DEF Sparing
 <2>3. request'.deps => \A o \in Kept' : (Referred(sel[o]) \intersect force)' = {}
   BY <1>1, <2>1, <2>2, Zenon
 <2>. QED
   BY <1>1, <2>3, SMT DEF Sparing
<1>6. Built'
  BY <1>1, PlannedStays, Zenon DEF Built
<1>. QED
  BY <1>3, <1>4, <1>5, <1>6, Zenon DEF PlanInv

LEMMA LaterPlanInv ==
    ASSUME PlanInv, pc \notin Stages, pc' \notin Stages,
           UNCHANGED <<mist, versions, request, sel, force, rewrites, instants, actions>>
    PROVE  PlanInv'
<1>1. Selected /\ Expanded /\ Sparing /\ Built
  BY SMT DEF PlanInv, Planning, Stages
<1>3. Selected'
  BY <1>1, SelectedStays, Zenon
<1>4. Expanded'
 <2>1. \A o : Reaching(o)' <=> Reaching(o)
   BY ReachingStays, Zenon
 <2>. QED
   BY <1>1, <2>1, SMT DEF Expanded, Stages
<1>5. Sparing'
 <2>1. Kept' = Kept /\ \A v : Referred(v)' = Referred(v)
   BY KeptStays, AtStays, Zenon
 <2>2. request.deps => \A o \in Kept : Referred(sel[o]) \intersect force = {}
   BY <1>1, SMT DEF Sparing, Stages
 <2>3. request'.deps => \A o \in Kept' : (Referred(sel[o]) \intersect force)' = {}
   BY <2>1, <2>2, Zenon
 <2>. QED
   BY <2>3, SMT DEF Sparing, Stages
<1>6. Built'
  BY <1>1, PlannedStays, Zenon DEF Built
<1>. QED
  BY <1>3, <1>4, <1>5, <1>6, Zenon DEF PlanInv

LEMMA HistoryStays ==
    ASSUME UNCHANGED <<mist, versions, snapshot>>, History
    PROVE  History'
<1>1. /\ \A o : VersionsOf(o)' = VersionsOf(o) /\ (Known(o)' <=> Known(o))
      /\ \A r : Incarnation(r)' <=> Incarnation(r)
  BY Zenon DEF VersionsOf, Known, Incarnation
<1>2. \A r : Recalled(r)' <=> Recalled(r)
  BY <1>1, Zenon DEF Recalled
<1>3. Shape' /\ Audited'
  BY <1>1, Zenon DEF History, Shape, Audited
<1>4. Reflected'
  BY <1>1, Zenon DEF History, Reflected
<1>5. Referring' /\ BackedUp'
  BY <1>2, Zenon DEF History, Referring, BackedUp
<1>. QED
  BY <1>3, <1>4, <1>5, Zenon DEF History

\* Before a request nothing is selected.
Idle == pc = "history" => force = {} /\ rewrites = {}

PlannerInv == History /\ OrderInv /\ Idle /\ PlanInv

LEMMA PlannerStep ==
    ASSUME ObjectsAssumption, PlannerInv, [Next]_vars
    PROVE  PlannerInv'
<1>1. OrderInv'
  BY OrderStep, Zenon DEF PlannerInv
<1>2. CASE \E o \in Objects : EventStep(o)
 <2>1. PICK o \in Objects : EventStep(o)
   BY <1>2
 <2>2. History'
   BY <2>1, EventHistory, Zenon DEF PlannerInv
 <2>3. pc = "history" /\ pc' = "history" /\ UNCHANGED <<force, rewrites>>
   BY <2>1, EventIs, Zenon DEF Event, context
 <2>. QED
   BY <1>1, <2>2, <2>3, Zenon DEF PlannerInv, Idle, PlanInv, Planning
<1>3. CASE Request
 <2>1. /\ UNCHANGED <<mist, versions, snapshot>> /\ pc = "history" /\ pc' # "history"
   BY <1>3, SMT DEF Request, Ask, history
 <2>2. PlanInv'
   BY <1>3, <2>1, RequestPlanInv, Zenon DEF PlannerInv, Idle, OrderInv
 <2>. QED
   BY <1>1, <2>1, <2>2, HistoryStays, Zenon DEF PlannerInv, Idle
<1>4. CASE _expand_dependencies \/ _spare_referenced_objects \/ _mark_selected_reference_rewrites \/ Build
 <2>1. UNCHANGED <<mist, versions, snapshot>>
   BY <1>4, PlannerKeeps, Zenon
 <2>2. PlanInv'
   BY <1>4, ExpandPlanInv, SparePlanInv, MarkPlanInv, BuildPlanInv, Zenon DEF PlannerInv
 <2>3. pc' # "history"
  <3>1. _expand_dependencies => pc' # "history"
    BY SMT DEF _expand_dependencies
  <3>2. _spare_referenced_objects => pc' # "history"
    BY SMT DEF _spare_referenced_objects
  <3>3. _mark_selected_reference_rewrites \/ Build => pc' # "history"
    BY SMT DEF _mark_selected_reference_rewrites, Build
  <3>. QED
    BY <1>4, <3>1, <3>2, <3>3, Zenon
 <2>. QED
   BY <1>1, <2>1, <2>2, <2>3, HistoryStays, Zenon DEF PlannerInv, Idle
<1>5. CASE order_restore_actions \/ (\E o \in Objects : Write(o)) \/ (\E o \in Objects : Refused(o))
 <2>1. /\ pc \in {"order", "run"} /\ pc' \in {"order", "run", "cycle", "failed"}
       /\ UNCHANGED <<mist, versions, snapshot, request, sel, force, rewrites, instants, actions>>
  <3>1. order_restore_actions => pc = "order" /\ pc' \in {"order", "run", "cycle"}
        /\ UNCHANGED <<mist, versions, snapshot, request, sel, force, rewrites, instants, actions>>
    BY Zenon DEF order_restore_actions, history, context
  <3>2. (\E o \in Objects : Write(o)) => pc = "run" /\ pc' = "run"
        /\ UNCHANGED <<mist, versions, snapshot, request, sel, force, rewrites, instants, actions>>
    BY Zenon DEF Write, history, context
  <3>3. (\E o \in Objects : Refused(o)) => pc = "run" /\ pc' = "failed"
        /\ UNCHANGED <<mist, versions, snapshot, request, sel, force, rewrites, instants, actions>>
    BY Zenon DEF Refused, history, context
  <3>. QED
    BY <1>5, <3>1, <3>2, <3>3, SMT
 <2>2. pc \notin Stages /\ pc' \notin Stages
   BY <2>1, SMT DEF Stages
 <2>3. PlanInv'
   BY <2>1, <2>2, LaterPlanInv, Zenon DEF PlannerInv
 <2>. QED
   BY <1>1, <2>1, <2>3, HistoryStays, SMT DEF PlannerInv, Idle
<1>6. CASE UNCHANGED vars
 <2>1. UNCHANGED <<mist, versions, snapshot, pc, request, sel, force, rewrites, instants, pending, actions>>
   BY <1>6, Zenon DEF vars, history, context
 <2>2. PlanInv'
  <3>. SUFFICES ASSUME Planning PROVE (Selected /\ Expanded /\ Sparing /\ Built)'
    BY <2>1, Zenon DEF PlanInv, Planning
  <3>0. Selected /\ Expanded /\ Sparing /\ Built
    BY Zenon DEF PlannerInv, PlanInv
  <3>1. Selected'
    BY <2>1, <3>0, SelectedStays, Zenon
  <3>2. Expanded'
   <4>1. \A o : Reaching(o)' <=> Reaching(o)
     BY <2>1, ReachingStays, Zenon
   <4>. QED
     BY <2>1, <3>0, <4>1, Zenon DEF Expanded
  <3>3. Sparing'
   <4>1. Kept' = Kept /\ \A v : Referred(v)' = Referred(v)
     BY <2>1, KeptStays, AtStays, Zenon
   <4>. QED
     BY <2>1, <3>0, <4>1, Zenon DEF Sparing
  <3>4. Built'
    BY <2>1, <3>0, PlannedStays, Zenon DEF Built, Stages
  <3>. QED
    BY <3>1, <3>2, <3>3, <3>4
 <2>. QED
   BY <1>1, <2>1, <2>2, HistoryStays, Zenon DEF PlannerInv, Idle
<1>. QED
  BY <1>2, <1>3, <1>4, <1>5, <1>6, StepsAre, Zenon

LEMMA PlannerHolds == ObjectsAssumption => (Spec => []PlannerInv)
<1>. SUFFICES ASSUME ObjectsAssumption PROVE Spec => []PlannerInv
  OBVIOUS
<1>1. Init => PlannerInv
 <2>1. Init => pc = "history" /\ force = {} /\ rewrites = {}
   BY Zenon DEF Init
 <2>2. Init => OrderInv
   BY PlanInit, <2>1, Zenon DEF OrderInv, Needed, Placement, Stages
 <2>. QED
   BY <2>1, <2>2, HistoryInit, PlanInit2, Zenon DEF PlannerInv, Idle
<1>2. PlannerInv /\ [Next]_vars => PlannerInv'
  BY PlannerStep, Zenon
<1>. QED
  BY <1>1, <1>2, PTL DEF Spec

\* What the plan leaves.
FinalLive(q) == IF q \in DOMAIN actions THEN actions[q].action # "delete" ELSE mist[q].live
FinalInc(q) ==
    IF q \in DOMAIN actions /\ actions[q].action = "create" THEN mist[q].inc + 1 ELSE mist[q].inc
Stands(r) == r[1] \in Objects /\ r = Id(r[1], FinalInc(r[1])) /\ FinalLive(r[1])

\* What NoDanglingReference says of a reference, once all is written.
Good(o, r) ==
    \/ Stands(r)
    \/ mist[o].live /\ r \in mist[o].refs \ LiveIds(mist)
    \/ r[1] \in request.objects /\ versions[sel[r[1]]].deleted
    \/ \E p \in DOMAIN instants : LET v == _version_at(r[1], instants[p]) IN
           IF v = 0 THEN o \notin DOMAIN sel \/ ~mist[r[1]].live ELSE versions[v].deleted

LEMMA SourceIs ==
    ASSUME Selected, NEW o
    PROVE  Source(o) = sel[o]
  BY SMT DEF Source, Selected

LEMMA ActionIs ==
    ASSUME Selected, NEW o \in DOMAIN sel
    PROVE  /\ _action_type(o) \in {"create", "update", "delete", "none"}
           /\ _action_type(o) = "delete" => /\ o \notin rewrites /\ ~is_deleted(o)
                                            /\ o \in force \/ versions[sel[o]].deleted
           /\ _action_type(o) = "create" => o \in Kept /\ is_deleted(o)
           /\ _action_type(o) = "update" => o \in Kept
           /\ _action_type(o) = "none" =>
                 IF is_deleted(o) THEN o \notin rewrites /\ (o \in force \/ versions[sel[o]].deleted)
                 ELSE o \in Kept /\ (sel[o] = latest_version(o) \/ SameConfiguration(sel[o], latest_version(o)))
<1>1. CASE o \in rewrites
 <2>1. o \notin force /\ ~versions[sel[o]].deleted
   BY <1>1, SMT DEF Selected, is_deleted
 <2>2. _action_type(o) = "update"
   BY <1>1, SMT DEF _action_type
 <2>. QED
   BY <2>1, <2>2, SMT DEF Kept
<1>2. CASE o \notin rewrites
 <2>1. CASE o \in force \/ versions[sel[o]].deleted
  <3>1. _action_type(o) = IF is_deleted(o) THEN "none" ELSE "delete"
    BY <1>2, <2>1, SMT DEF _action_type
  <3>. QED
    BY <1>2, <2>1, <3>1, SMT
 <2>2. CASE o \notin force /\ ~versions[sel[o]].deleted
  <3>1. o \in Kept
    BY <2>2, SMT DEF Kept
  <3>2. /\ is_deleted(o) => _action_type(o) \in {"create", "update"}
        /\ ~is_deleted(o) => _action_type(o) \in {"none", "update"}
        /\ ~is_deleted(o) /\ _action_type(o) = "none" =>
              sel[o] = latest_version(o) \/ SameConfiguration(sel[o], latest_version(o))
    BY <1>2, <2>2, SMT DEF _action_type
  <3>. QED
    BY <3>1, <3>2, SMT
 <2>. QED
   BY <2>1, <2>2
<1>. QED
  BY <1>1, <1>2

LEMMA ActionsAre ==
    ASSUME PlannerInv, pc \notin Stages
    PROVE  /\ Selected /\ Expanded /\ Sparing /\ History
           /\ DOMAIN actions = Planned /\ Planned \subseteq DOMAIN sel /\ DOMAIN sel \subseteq Objects
           /\ \A o \in Planned : /\ actions[o].action = _action_type(o) /\ actions[o].source = sel[o]
                                 /\ actions[o].needs = depends_on(o) \intersect Planned
                                 /\ o \notin Deleted => actions[o].remap = _live_replacements(o)
           /\ \A o \in DOMAIN sel : Known(o) /\ (o \notin Planned <=> _action_type(o) = "none")
<1>1. Selected /\ Expanded /\ Sparing /\ Built
  BY SMT DEF PlannerInv, PlanInv, Planning, Stages
<1>2. actions = [o \in Planned |->
         [action |-> _action_type(o), source |-> Source(o), needs |-> depends_on(o) \intersect Planned,
          remap |-> IF o \in Deleted THEN <<>> ELSE _live_replacements(o)]]
  BY <1>1, Zenon DEF Built
<1>3. DOMAIN actions = Planned
  BY <1>2, Zenon
<1>4. \A o \in Planned : /\ actions[o].action = _action_type(o) /\ actions[o].source = Source(o)
                         /\ actions[o].needs = depends_on(o) \intersect Planned
                         /\ o \notin Deleted => actions[o].remap = _live_replacements(o)
  BY <1>2, SMT
<1>5. \A o \in Planned : actions[o].source = sel[o]
  BY <1>1, <1>4, SourceIs, Zenon
<1>6. DOMAIN sel \subseteq Objects
  BY Zenon DEF PlannerInv, OrderInv, Plan
<1>7. \A o \in DOMAIN sel : Known(o)
  BY <1>1, Zenon DEF Selected, VersionsOf, Known
<1>8. Planned \subseteq DOMAIN sel /\ \A o \in DOMAIN sel : o \notin Planned <=> _action_type(o) = "none"
  BY SMT DEF Planned
<1>9. History
  BY Zenon DEF PlannerInv
<1>. QED
  BY <1>1, <1>3, <1>4, <1>5, <1>6, <1>7, <1>8, <1>9, Zenon

\* What a plan takes away, it was asked to, or it was away at an instant.
LEMMA AwayIsAsked ==
    ASSUME PlannerInv, pc \notin Stages, NEW q \in DOMAIN sel, q \notin rewrites, q \notin force,
           versions[sel[q]].deleted, NEW o, NEW r, r[1] = q
    PROVE  Good(o, r)
<1>1. Selected
  BY ActionsAre
<1>2. CASE q \in request.objects
  BY <1>2, Zenon DEF Good
<1>3. CASE q \notin request.objects
 <2>1. q \in DOMAIN instants /\ sel[q] = _version_at(q, instants[q]) /\ sel[q] # 0
   BY <1>1, <1>3, SMT DEF Selected
 <2>2. \E p \in DOMAIN instants : LET v == _version_at(r[1], instants[p]) IN
           IF v = 0 THEN o \notin DOMAIN sel \/ ~mist[r[1]].live ELSE versions[v].deleted
   BY <2>1, Zenon
 <2>. QED
   BY <2>2, Zenon DEF Good
<1>. QED
  BY <1>2, <1>3

\* Of what the plan leaves alone, nothing dangles but what did.
LEMMA LeftGood ==
    ASSUME PlannerInv, pc \notin Stages, request.deps, NEW o \in Objects,
           o \notin DOMAIN actions, mist[o].live, NEW r \in mist[o].refs
    PROVE  Good(o, r)
<1>. USE ActionsAre
<1>1. CASE r \notin LiveIds(mist)
  BY <1>1, SMT DEF Good
<1>2. CASE r \in LiveIds(mist)
 <2>1. PICK q \in Objects : mist[q].live /\ r = Id(q, mist[q].inc)
   BY <1>2, Zenon DEF LiveIds
 <2>2. r[1] = q /\ r = CurrentId(q)
   BY <2>1, SMT DEF Id, CurrentId
 <2>3. q \in DOMAIN sel => ~is_deleted(q) /\ Incarnation(r) /\ q \in Objects
   BY <2>1, <2>2, LatestIs, SMT
 <2>4. CASE q \notin DOMAIN actions
  <3>1. Stands(r)
   <4>1. FinalLive(q) /\ FinalInc(q) = mist[q].inc
     BY <2>1, <2>4, Zenon DEF FinalLive, FinalInc
   <4>. QED
     BY <2>1, <2>2, <4>1, Zenon DEF Stands
  <3>. QED
    BY <3>1, Zenon DEF Good
 <2>5. CASE q \in DOMAIN actions /\ actions[q].action # "delete"
  <3>1. actions[q].action # "create"
    BY <2>3, <2>5, ActionIs, SMT
  <3>2. Stands(r)
   <4>1. FinalLive(q) /\ FinalInc(q) = mist[q].inc
     BY <2>5, <3>1, Zenon DEF FinalLive, FinalInc
   <4>. QED
     BY <2>1, <2>2, <4>1, Zenon DEF Stands
  <3>. QED
    BY <3>2, Zenon DEF Good
 <2>6. CASE q \in DOMAIN actions /\ actions[q].action = "delete"
  <3>1. q \in DOMAIN sel /\ q \notin rewrites /\ (q \in force \/ versions[sel[q]].deleted)
    BY <2>6, ActionIs, SMT
  <3>2. CASE q \notin force
    BY <2>2, <3>1, <3>2, AwayIsAsked, Zenon
  <3>3. CASE q \in force
   <4>1. q \in DOMAIN instants /\ _version_at(q, instants[q]) = 0
     BY <3>3, Zenon DEF Selected
   <4>2. CASE o \notin DOMAIN sel
    <5>1. \E p \in DOMAIN instants : LET v == _version_at(r[1], instants[p]) IN
              IF v = 0 THEN o \notin DOMAIN sel \/ ~mist[r[1]].live ELSE versions[v].deleted
      BY <2>2, <4>1, <4>2, Zenon
    <5>. QED
      BY <5>1, Zenon DEF Good
   <4>3. CASE o \in DOMAIN sel
    <5>1. /\ ~is_deleted(o) /\ versions[latest_version(o)].refs = mist[o].refs
      BY <4>3, LatestIs, SMT
    <5>2. o \in Kept /\ (sel[o] = latest_version(o) \/ SameConfiguration(sel[o], latest_version(o)))
      BY <4>3, <5>1, ActionIs, SMT
    <5>3. versions[sel[o]].refs = mist[o].refs
      BY <5>1, <5>2, SMT DEF SameConfiguration
    <5>4. q \in Referred(sel[o])
      BY <2>2, <2>3, <3>1, <5>3, SMT DEF Referred
    <5>5. Referred(sel[o]) \intersect force = {}
      BY <5>2, SMT DEF Sparing, Stages
    <5>. QED
      BY <3>3, <5>4, <5>5, SMT
   <4>. QED
     BY <4>2, <4>3
  <3>. QED
    BY <3>2, <3>3
 <2>. QED
   BY <2>4, <2>5, <2>6
<1>. QED
  BY <1>1, <1>2

\* The id a reference of o is written with: the new one of what the plan brings
\* back, the current one of an earlier incarnation, or its own.
Resolved(o, id) ==
    IF id[1] \in DOMAIN actions /\ actions[id[1]].action = "create" /\ Incarnation(id)
    THEN Id(id[1], mist[id[1]].inc + 1)
    ELSE IF id \in DOMAIN actions[o].remap THEN CurrentId(id[1]) ELSE id

LEMMA ReplacementsAre ==
    ASSUME Selected, NEW o
    PROVE  /\ \A id : id \in DOMAIN _live_replacements(o) <=>
                 /\ id \in versions[sel[o]].refs /\ Incarnation(id) /\ current_mist_id(id[1]) # id
                 /\ ~is_deleted(id[1]) \/ current_mist_id(id[1]) \in RecreatedIds
           /\ \A id \in DOMAIN _live_replacements(o) : _live_replacements(o)[id] = current_mist_id(id[1])
<1>. DEFINE old == {r \in versions[Source(o)].refs :
                /\ Incarnation(r) /\ current_mist_id(r[1]) # r
                /\ ~is_deleted(r[1]) \/ current_mist_id(r[1]) \in RecreatedIds}
<1>1. _live_replacements(o) = [r \in old |-> current_mist_id(r[1])]
  BY Zenon DEF _live_replacements
<1>2. Source(o) = sel[o]
  BY SourceIs
<1>3. DOMAIN _live_replacements(o) = old /\ \A id \in old : _live_replacements(o)[id] = current_mist_id(id[1])
  BY <1>1, Zenon
<1>. QED
  BY <1>2, <1>3, Zenon

\* Of what the plan writes, nothing dangles but what was away.
LEMMA WrittenGood ==
    ASSUME PlannerInv, pc \notin Stages, request.deps, NEW o \in DOMAIN actions,
           actions[o].action # "delete", NEW id \in versions[sel[o]].refs
    PROVE  Good(o, Resolved(o, id))
<1>. DEFINE q == id[1]
            r == Resolved(o, id)
<1>. USE ActionsAre
<1>1. o \in DOMAIN sel /\ o \in Objects /\ o \in Kept /\ o \notin Deleted
 <2>1. o \in DOMAIN sel /\ o \in Objects /\ o \notin Deleted
   BY SMT DEF Deleted
 <2>2. _action_type(o) \in {"create", "update"}
   BY <2>1, ActionIs, SMT
 <2>. QED
   BY <2>1, <2>2, ActionIs, SMT
<1>2. /\ id \in Ids /\ Recalled(id) /\ q \in Objects /\ id = Id(q, id[2])
 <2>1. id \in Ids /\ Recalled(id)
   BY <1>1, VersionsOfIs, SMT DEF Selected
 <2>. QED
   BY <2>1, SMT DEF Ids, Id
<1>3. \A x : x \in DOMAIN actions[o].remap <=>
               /\ x \in versions[sel[o]].refs /\ Incarnation(x) /\ current_mist_id(x[1]) # x
               /\ ~is_deleted(x[1]) \/ current_mist_id(x[1]) \in RecreatedIds
  BY <1>1, ReplacementsAre, SMT
<1>4. r[1] = q
 <2>1. \A i : Id(q, i)[1] = q
   BY SMT DEF Id
 <2>. QED
   BY <1>2, <2>1, Zenon DEF Resolved, CurrentId
<1>5. \A i : r = Id(q, i) /\ i = FinalInc(q) /\ FinalLive(q) => Good(o, r)
  BY <1>2, <1>4, Zenon DEF Stands, Good
<1>6. q \in DOMAIN sel => Known(q)
  BY SMT
<1>. HIDE DEF q, r
<1>7. CASE ~Incarnation(id)
 <2>1. ~Known(q) /\ mist[q].live /\ id = Id(q, mist[q].inc)
   BY <1>2, <1>7, Zenon DEF Recalled, q
 <2>2. q \notin DOMAIN actions
   BY <2>1, SMT
 <2>3. r = id
   BY <1>3, <1>7, <2>2, Zenon DEF r, q, Resolved
 <2>. QED
   BY <1>5, <2>1, <2>2, <2>3, Zenon DEF FinalLive, FinalInc, r
<1>8. CASE Incarnation(id)
 <2>1. Known(q)
   BY <1>8, IncarnationIs, Zenon DEF q
 <2>2. (is_deleted(q) <=> ~mist[q].live) /\ current_mist_id(q) = CurrentId(q)
   BY <1>2, <2>1, LatestIs, Zenon
 <2>3. q \in Referred(sel[o])
   BY <1>8, Zenon DEF Referred, q
 <2>4. q \notin force
   BY <1>1, <2>3, SMT DEF Sparing, Stages
 <2>5. id \in DOMAIN actions[o].remap <=> CurrentId(q) # id /\ (~is_deleted(q) \/ CurrentId(q) \in RecreatedIds)
   BY <1>3, <1>8, <2>2, SMT DEF q
 <2>6. q \in Kept /\ is_deleted(q) => CurrentId(q) \in RecreatedIds
   BY <2>2, SMT DEF Recreated, RecreatedIds
 <2>7. CASE q \in DOMAIN actions /\ actions[q].action = "create"
  <3>1. r = Id(q, mist[q].inc + 1)
    BY <1>8, <2>7, Zenon DEF r, q, Resolved
  <3>2. FinalInc(q) = mist[q].inc + 1 /\ FinalLive(q)
    BY <2>7, SMT DEF FinalInc, FinalLive
  <3>. QED
    BY <1>5, <3>1, <3>2, Zenon DEF r
 <2>8. CASE ~(q \in DOMAIN actions /\ actions[q].action = "create") /\ FinalLive(q)
  <3>1. FinalInc(q) = mist[q].inc
    BY <2>8, Zenon DEF FinalInc
  <3>2. ~is_deleted(q) \/ CurrentId(q) \in RecreatedIds
   <4>1. CASE q \notin DOMAIN actions
     BY <2>2, <2>8, <4>1, Zenon DEF FinalLive
   <4>2. CASE q \in DOMAIN actions
    <5>1. q \in DOMAIN sel /\ actions[q].action = _action_type(q) /\ actions[q].action # "none"
      BY <4>2, SMT
    <5>2. _action_type(q) = "update"
      BY <2>8, <4>2, <5>1, ActionIs, SMT DEF FinalLive
    <5>3. q \in Kept
      BY <5>1, <5>2, ActionIs, SMT
    <5>. QED
      BY <2>6, <5>3, Zenon
   <4>. QED
     BY <4>1, <4>2
  <3>3. r = Id(q, mist[q].inc)
   <4>1. r = IF id \in DOMAIN actions[o].remap THEN CurrentId(q) ELSE id
     BY <2>8, Zenon DEF r, q, Resolved
   <4>2. r = CurrentId(q)
     BY <2>5, <3>2, <4>1, Zenon
   <4>. QED
     BY <4>2, Zenon DEF CurrentId
  <3>. QED
    BY <1>5, <2>8, <3>1, <3>3, Zenon DEF r
 <2>9. CASE ~FinalLive(q)
  <3>1. CASE q \in DOMAIN sel
   <4>1. q \notin rewrites /\ versions[sel[q]].deleted
    <5>1. CASE q \in DOMAIN actions
     <6>1. actions[q].action = "delete"
       BY <2>9, <5>1, SMT DEF FinalLive
     <6>. QED
       BY <2>4, <3>1, <5>1, <6>1, ActionIs, SMT
    <5>2. CASE q \notin DOMAIN actions
     <6>1. is_deleted(q) /\ _action_type(q) = "none"
       BY <2>2, <2>9, <3>1, <5>2, SMT DEF FinalLive
     <6>. QED
       BY <2>4, <3>1, <6>1, ActionIs, SMT
    <5>. QED
      BY <5>1, <5>2
   <4>. QED
     BY <1>4, <2>4, <3>1, <4>1, AwayIsAsked, Zenon DEF r, q
  <3>2. CASE q \notin DOMAIN sel
   <4>1. q \notin DOMAIN actions /\ ~mist[q].live /\ is_deleted(q)
     BY <2>2, <2>9, <3>2, SMT DEF FinalLive
   <4>2. CASE o \in DOMAIN instants
    <5>1. Excused(q, o) \/ Absent(q)
      BY <1>1, <2>3, <3>2, <4>2, SMT DEF Expanded, Reaching, Stages
    <5>2. \E p \in DOMAIN instants : LET v == _version_at(q, instants[p]) IN
              IF v = 0 THEN o \notin DOMAIN sel \/ ~mist[q].live ELSE versions[v].deleted
     <6>1. CASE Excused(q, o)
      <7>1. LET v == _version_at(q, instants[o]) IN
                IF v = 0 THEN o \notin DOMAIN sel \/ ~mist[q].live ELSE versions[v].deleted
        BY <4>1, <6>1, Zenon DEF Excused, CameSince
      <7>. QED
        BY <4>2, <7>1, Zenon
     <6>2. CASE Absent(q)
       BY <4>1, <6>2, Zenon DEF Absent
     <6>. QED
       BY <5>1, <6>1, <6>2
    <5>. QED
      BY <1>4, <5>2, Zenon DEF Good, r, q
   <4>3. CASE o \notin DOMAIN instants
    <5>1. o \in rewrites
      BY <1>1, <4>3, Zenon DEF Selected
    <5>2. sel[o] = latest_version(o) /\ ~is_deleted(o)
      BY <5>1, Zenon DEF Selected
    <5>3. versions[sel[o]].refs = mist[o].refs /\ mist[o].live
      BY <1>1, <5>2, LatestIs, SMT
    <5>4. CurrentId(q) \notin RecreatedIds
     <6>. SUFFICES ASSUME NEW x \in Recreated, CurrentId(q) = current_mist_id(x) PROVE FALSE
       BY Zenon DEF RecreatedIds
     <6>1. x \in DOMAIN sel
       BY SMT DEF Recreated, Kept
     <6>2. current_mist_id(x)[1] = x /\ CurrentId(q)[1] = q
       BY SMT DEF current_mist_id, CurrentId, Id
     <6>. QED
       BY <3>2, <6>1, <6>2, SMT
    <5>5. r = id
      BY <2>5, <4>1, <5>4, Zenon DEF r, q, Resolved
    <5>6. id \notin LiveIds(mist)
     <6>. SUFFICES ASSUME NEW x \in Objects, mist[x].live, id = Id(x, mist[x].inc) PROVE FALSE
       BY Zenon DEF LiveIds
     <6>1. x = q
       BY SMT DEF Id, q
     <6>. QED
       BY <4>1, <6>1, Zenon
    <5>. QED
      BY <5>3, <5>5, <5>6, SMT DEF Good, r
   <4>. QED
     BY <4>2, <4>3
  <3>. QED
    BY <3>1, <3>2
 <2>. QED
   BY <2>7, <2>8, <2>9
<1>. QED
  BY <1>7, <1>8

\* The run.
Remapped(o) == {Resolved(o, id) : id \in versions[sel[o]].refs}

\* What is written is what the plan leaves.
Run ==
    pc = "run" => \A o \in DOMAIN actions \ DOMAIN rank :
        /\ after[o].inc = FinalInc(o)
        /\ actions[o].action # "delete" =>
              /\ after[o].content = versions[sel[o]].content
              /\ after[o].refs = Remapped(o)

\* What the order waited for is written.
LEMMA DueIsFree ==
    ASSUME Placement, pc = "run", NEW o, Due(o), NEW p \in actions[o].needs
    PROVE  p \notin DOMAIN rank
<1>. SUFFICES ASSUME p \in DOMAIN rank PROVE FALSE
  OBVIOUS
<1>1. o \in DOMAIN rank /\ (rank[o] < rank[p] \/ rank[o] = rank[p])
  BY Zenon DEF Due
<1>2. rank[p] < rank[o] /\ rank[o] \in Nat /\ rank[p] \in Nat
  BY <1>1, Zenon DEF Placement
<1>. QED
  BY <1>1, <1>2, SMT

LEMMA MapIs ==
    ASSUME PlannerInv, Run, NEW o \in Objects, Write(o), actions[o].action # "delete",
           NEW id \in versions[sel[o]].refs
    PROVE  payload_id_map(actions[o].remap, id) = Resolved(o, id)
<1>. DEFINE q == id[1]
<1>0. pc = "run" /\ Due(o) /\ pc \notin Stages
  BY SMT DEF Write, Stages
<1>. USE ActionsAre, <1>0
<1>1. o \in DOMAIN sel /\ o \in DOMAIN actions /\ o \in Kept /\ o \notin Deleted
 <2>1. o \in DOMAIN actions
   BY Zenon DEF Due, PlannerInv, OrderInv, Placement
 <2>2. o \in DOMAIN sel /\ o \notin Deleted
   BY <2>1, SMT DEF Deleted
 <2>3. _action_type(o) \in {"create", "update"}
   BY <2>1, <2>2, ActionIs, SMT
 <2>. QED
   BY <2>1, <2>2, <2>3, ActionIs, SMT
<1>2. /\ id \in Ids /\ q \in Objects /\ id = Id(q, id[2])
 <2>1. id \in Ids
   BY <1>1, VersionsOfIs, SMT DEF Selected
 <2>. QED
   BY <2>1, SMT DEF Ids, Id
<1>3. /\ id \in DOMAIN actions[o].remap <=>
            Incarnation(id) /\ current_mist_id(q) # id /\ (~is_deleted(q) \/ current_mist_id(q) \in RecreatedIds)
      /\ id \in DOMAIN actions[o].remap => actions[o].remap[id] = current_mist_id(q)
  BY <1>1, ReplacementsAre, SMT
<1>4. Incarnation(id) => /\ Known(q) /\ current_mist_id(q) = CurrentId(q)
                         /\ q \in Referred(sel[o])
  BY <1>2, IncarnationIs, LatestIs, SMT DEF Referred
<1>5. \A x, y \in Objects : CurrentId(x) = CurrentId(y) => x = y
  BY SMT DEF CurrentId, Id
<1>6. mist[q].inc \in Nat /\ CurrentId(q)[1] = q /\ CurrentId(q) # Id(q, mist[q].inc + 1)
 <2>1. mist[q].inc \in Nat
   BY <1>2, SMT DEF History, Shape, Entries
 <2>. QED
   BY <2>1, SMT DEF CurrentId, Id
<1>7. \A x \in Created : x \in DOMAIN actions /\ actions[x].action = "create" /\ x \in Objects
                         /\ after[x].inc = mist[x].inc + 1
 <2>. SUFFICES ASSUME NEW x \in Created
               PROVE  x \in DOMAIN actions /\ actions[x].action = "create" /\ x \in Objects
                      /\ after[x].inc = mist[x].inc + 1
   OBVIOUS
 <2>1. x \in DOMAIN actions \ DOMAIN rank /\ actions[x].action = "create"
   BY Zenon DEF Created
 <2>2. after[x].inc = FinalInc(x)
   BY <2>1, Zenon DEF Run
 <2>. QED
   BY <2>1, <2>2, SMT DEF FinalInc
<1>8. \A y : y[1] = q => Followed(y) = IF q \in Created /\ y = CurrentId(q) THEN Id(q, mist[q].inc + 1) ELSE y
 <2>. SUFFICES ASSUME NEW y, y[1] = q
               PROVE  Followed(y) = IF q \in Created /\ y = CurrentId(q) THEN Id(q, mist[q].inc + 1) ELSE y
   OBVIOUS
 <2>1. (\E x \in Created : y = CurrentId(x)) <=> (q \in Created /\ y = CurrentId(q))
  <3>1. \A x \in Created : y = CurrentId(x) => x = q
    BY SMT DEF CurrentId, Id
  <3>. QED
    BY <3>1, Zenon
 <2>2. q \in Created => after[q].inc = mist[q].inc + 1
   BY <1>7, Zenon
 <2>. QED
   BY <2>1, <2>2, Zenon DEF Followed
<1>. HIDE DEF q
<1>9. CASE q \in DOMAIN actions /\ actions[q].action = "create" /\ Incarnation(id)
 <2>1. q \in DOMAIN sel /\ q \in Kept /\ is_deleted(q)
   BY <1>9, ActionIs, SMT
 <2>2. q \in actions[o].needs
  <3>1. q \in _action_dependencies(o)
   <4>1. Source(o) = sel[o]
     BY SourceIs, Zenon
   <4>. QED
     BY <1>1, <1>4, <1>9, <2>1, <4>1, SMT DEF _action_dependencies
  <3>2. q \in Planned
    BY <1>9, Zenon
  <3>. QED
    BY <1>1, <3>1, <3>2, SMT DEF depends_on
 <2>3. q \notin DOMAIN rank
   BY <2>2, DueIsFree, Zenon DEF PlannerInv, OrderInv
 <2>4. q \in Created
   BY <1>9, <2>3, SMT DEF Created
 <2>5. CurrentId(q) \in RecreatedIds
   BY <1>4, <1>9, <2>1, SMT DEF Recreated, RecreatedIds
 <2>6. Resolved(o, id) = Id(q, mist[q].inc + 1)
   BY <1>9, Zenon DEF Resolved, q
 <2>7. Followed(CurrentId(q)) = Id(q, mist[q].inc + 1)
   BY <1>6, <1>8, <2>4, Zenon
 <2>8. CASE id = CurrentId(q)
   BY <1>6, <2>6, <2>7, <2>8, SMT DEF payload_id_map
 <2>9. CASE id # CurrentId(q)
  <3>1. Followed(id) = id
    BY <1>8, <2>9, Zenon DEF q
  <3>2. id \in DOMAIN actions[o].remap /\ actions[o].remap[id] = CurrentId(q)
    BY <1>3, <1>4, <1>9, <2>5, <2>9, Zenon
  <3>. QED
    BY <2>6, <2>7, <3>1, <3>2, Zenon DEF payload_id_map
 <2>. QED
   BY <2>8, <2>9
<1>10. CASE ~(q \in DOMAIN actions /\ actions[q].action = "create" /\ Incarnation(id))
 <2>1. Resolved(o, id) = IF id \in DOMAIN actions[o].remap THEN CurrentId(q) ELSE id
   BY <1>10, Zenon DEF Resolved, q
 <2>2. Followed(id) = id
  <3>1. q \in Created /\ id = CurrentId(q) => Incarnation(id)
    BY <1>2, <1>7, LatestIs, SMT
  <3>2. ~(q \in Created /\ id = CurrentId(q))
    BY <1>7, <1>10, <3>1, Zenon
  <3>. QED
    BY <1>8, <3>2, Zenon DEF q
 <2>3. CASE id \in DOMAIN actions[o].remap
  <3>1. Incarnation(id) /\ actions[o].remap[id] = CurrentId(q)
    BY <1>3, <1>4, <2>3, Zenon
  <3>2. q \notin Created
    BY <1>7, <1>10, <3>1, Zenon
  <3>3. Followed(CurrentId(q)) = CurrentId(q)
    BY <1>6, <1>8, <3>2, Zenon
  <3>. QED
    BY <2>1, <2>2, <2>3, <3>1, <3>3, Zenon DEF payload_id_map
 <2>4. CASE id \notin DOMAIN actions[o].remap
   BY <2>1, <2>2, <2>4, Zenon DEF payload_id_map
 <2>. QED
   BY <2>3, <2>4
<1>. QED
  BY <1>9, <1>10

LEMMA RunOrder ==
    ASSUME order_restore_actions
    PROVE  Run'
<1>. DEFINE left == DOMAIN actions \ DOMAIN rank
            ready == {o \in left : actions[o].needs \subseteq DOMAIN rank}
<1>1. /\ actions' = actions
      /\ rank' = [o \in DOMAIN rank \union ready |-> IF o \in ready THEN Cardinality(DOMAIN rank) ELSE rank[o]]
      /\ pc' = IF left = {} THEN "run" ELSE IF ready = {} THEN "cycle" ELSE "order"
  BY Zenon DEF order_restore_actions
<1>2. DOMAIN rank' = DOMAIN rank \union ready
  BY <1>1, Zenon
<1>3. pc' = "run" => left = {}
 <2>. HIDE DEF left, ready
 <2>. QED
   BY <1>1, SMT
<1>4. pc' = "run" => DOMAIN actions' \ DOMAIN rank' = {}
 <2>. HIDE DEF ready
 <2>. QED
   BY <1>1, <1>2, <1>3, SMT
<1>. QED
  BY <1>4, SMT DEF Run

LEMMA RemappedStays ==
    ASSUME UNCHANGED <<mist, versions, sel, actions>>
    PROVE  \A p : FinalInc(p)' = FinalInc(p) /\ Remapped(p)' = Remapped(p)
<1>1. \A id : Incarnation(id)' <=> Incarnation(id)
  BY AtStays, Zenon
<1>2. \A p : \A id : Resolved(p, id)' = Resolved(p, id)
  BY <1>1, Zenon DEF Resolved, CurrentId
<1>3. \A p : FinalInc(p)' = FinalInc(p)
  BY Zenon DEF FinalInc
<1>4. \A p : Remapped(p)' = Remapped(p)
  BY <1>2, Zenon DEF Remapped
<1>. QED
  BY <1>3, <1>4

LEMMA RunWrite ==
    ASSUME PlannerInv, Run, NEW o \in Objects, Write(o)
    PROVE  Run'
<1>1. /\ pc = "run" /\ Due(o) /\ o \in DOMAIN rank
      /\ rank' = [p \in DOMAIN rank \ {o} |-> rank[p]]
      /\ UNCHANGED <<mist, versions, sel, actions>>
  BY Zenon DEF Write, Due, history, context
<1>2. pc \notin Stages
  BY <1>1, SMT DEF Stages
<1>. DEFINE refs == {payload_id_map(actions[o].remap, id) : id \in versions[actions[o].source].refs}
            inc == IF actions[o].action = "create" THEN mist[o].inc + 1 ELSE mist[o].inc
            e == IF actions[o].action = "delete"
                 THEN Held(FALSE, mist[o].inc, mist[o].content, mist[o].refs, TRUE)
                 ELSE Held(TRUE, inc, versions[actions[o].source].content, refs, TRUE)
<1>3. after' = [after EXCEPT ![o] = e]
  BY Zenon DEF Write
<1>4. after'[o] = e /\ \A p \in Objects \ {o} : after'[p] = after[p]
 <2>1. after = [p \in Objects |-> after[p]]
   BY Zenon DEF PlannerInv, OrderInv, Plan
 <2>. HIDE DEF e
 <2>. QED
   BY <1>3, <2>1, SMT
<1>5. o \in DOMAIN actions /\ DOMAIN actions \subseteq Objects /\ actions[o].source = sel[o]
 <2>1. o \in DOMAIN actions
   BY <1>1, Zenon DEF PlannerInv, OrderInv, Placement
 <2>. QED
   BY <1>2, <2>1, ActionsAre, SMT
<1>6. e.inc = FinalInc(o)
 <2>1. CASE actions[o].action = "delete"
  <3>1. e.inc = mist[o].inc
    BY <2>1, SMT DEF Held
  <3>. QED
   <4>1. FinalInc(o) = mist[o].inc
     BY <2>1, SMT DEF FinalInc
   <4>. QED
     BY <3>1, <4>1, Zenon
 <2>2. CASE actions[o].action # "delete"
  <3>1. e = Held(TRUE, inc, versions[actions[o].source].content, refs, TRUE)
    BY <2>2, Zenon
  <3>2. e.inc = inc
   <4>. HIDE DEF e, inc, refs
   <4>. QED
     BY <3>1, SMT DEF Held
  <3>. QED
    BY <1>5, <3>2, Zenon DEF FinalInc
 <2>. QED
   BY <2>1, <2>2
<1>7. actions[o].action # "delete" =>
            e.content = versions[sel[o]].content /\ e.refs = Remapped(o)
 <2>. SUFFICES ASSUME actions[o].action # "delete"
               PROVE  e.content = versions[sel[o]].content /\ e.refs = Remapped(o)
   OBVIOUS
 <2>1. e = Held(TRUE, inc, versions[actions[o].source].content, refs, TRUE)
   BY Zenon
 <2>2. e.content = versions[actions[o].source].content /\ e.refs = refs
  <3>. HIDE DEF e, inc, refs
  <3>. QED
    BY <2>1, SMT DEF Held
 <2>3. \A id \in versions[sel[o]].refs : payload_id_map(actions[o].remap, id) = Resolved(o, id)
   BY MapIs, Zenon
 <2>4. refs = Remapped(o)
  <3>1. refs = {payload_id_map(actions[o].remap, id) : id \in versions[sel[o]].refs}
    BY <1>5, Zenon
  <3>. HIDE DEF refs
  <3>. QED
    BY <2>3, <3>1, Zenon DEF Remapped
 <2>. QED
   BY <1>5, <2>2, <2>4, Zenon
<1>. HIDE DEF e, inc, refs
<1>8. DOMAIN rank' = DOMAIN rank \ {o}
  BY <1>1, Zenon
<1>9. \A p : FinalInc(p)' = FinalInc(p) /\ Remapped(p)' = Remapped(p)
  BY <1>1, RemappedStays, Zenon
<1>10. \A p \in DOMAIN actions' \ DOMAIN rank' :
      /\ after'[p].inc = FinalInc(p)
      /\ actions[p].action # "delete" =>
            /\ after'[p].content = versions[sel[p]].content
            /\ after'[p].refs = Remapped(p)
 <2>. SUFFICES ASSUME NEW p \in DOMAIN actions, p \notin DOMAIN rank \/ p = o
               PROVE /\ after'[p].inc = FinalInc(p)
                     /\ actions[p].action # "delete" =>
                           /\ after'[p].content = versions[sel[p]].content
                           /\ after'[p].refs = Remapped(p)
   BY <1>1, <1>8, SMT
 <2>1. CASE p = o
   BY <1>4, <1>6, <1>7, <2>1, Zenon
 <2>2. CASE p # o
   BY <1>1, <1>4, <1>5, <2>2, SMT DEF Run
 <2>. QED
   BY <2>1, <2>2
<1>. QED
  BY <1>1, <1>9, <1>10, Zenon DEF Run

LEMMA RunHolds == ObjectsAssumption => (Spec => []Run)
<1>. SUFFICES ASSUME ObjectsAssumption PROVE Spec => []Run
  OBVIOUS
<1>1. Init => Run
  BY SMT DEF Init, Run
<1>2. PlannerInv /\ Run /\ [Next]_vars => Run'
 <2>. SUFFICES ASSUME PlannerInv, Run, [Next]_vars PROVE Run'
   OBVIOUS
 <2>1. CASE \E o \in Objects : EventStep(o)
  <3>1. pc' = "history"
    BY <2>1, EventIs, Zenon DEF Event
  <3>. QED
    BY <3>1, SMT DEF Run
 <2>2. CASE Request
   BY <2>2, SMT DEF Request, Ask, Run
 <2>3. CASE _expand_dependencies
  <3>1. pc' # "run"
    BY <2>3, SMT DEF _expand_dependencies
  <3>. QED
    BY <3>1, Zenon DEF Run
 <2>4. CASE _spare_referenced_objects
  <3>1. pc' # "run"
    BY <2>4, SMT DEF _spare_referenced_objects
  <3>. QED
    BY <3>1, Zenon DEF Run
 <2>5. CASE _mark_selected_reference_rewrites
  <3>1. pc' # "run"
    BY <2>5, SMT DEF _mark_selected_reference_rewrites
  <3>. QED
    BY <3>1, Zenon DEF Run
 <2>6. CASE Build
  <3>1. pc' # "run"
    BY <2>6, SMT DEF Build
  <3>. QED
    BY <3>1, Zenon DEF Run
 <2>7. CASE order_restore_actions
   BY <2>7, RunOrder
 <2>8. CASE \E o \in Objects : Write(o)
   BY <2>8, RunWrite, Zenon
 <2>9. CASE \E o \in Objects : Refused(o)
  <3>1. pc' = "failed"
    BY <2>9, Zenon DEF Refused
  <3>. QED
    BY <3>1, SMT DEF Run
 <2>10. CASE UNCHANGED vars
  <3>1. UNCHANGED <<mist, versions, pc, sel, actions, rank, after>>
    BY <2>10, Zenon DEF vars, history, context
  <3>2. \A p : FinalInc(p)' = FinalInc(p) /\ Remapped(p)' = Remapped(p)
    BY <3>1, RemappedStays, Zenon
  <3>. QED
    BY <3>1, <3>2, Zenon DEF Run
 <2>. QED
   BY <2>1, <2>2, <2>3, <2>4, <2>5, <2>6, <2>7, <2>8, <2>9, <2>10, StepsAre, Zenon
<1>. QED
  BY <1>1, <1>2, PlannerHolds, PTL DEF Spec

\* Where things are.
\* What is in a site was last recorded at an id its site had, at that the site
\* has now if it is live itself; what no version is of has never been away.
Housed ==
    /\ \A o \in Objects : \A v \in VersionsOf(o) :
           IF Site[o] = NoSite THEN versions[v].home = 0 ELSE versions[v].home <= mist[Site[o]].inc
    /\ \A o \in Objects : mist[o].live /\ Site[o] # NoSite =>
           /\ mist[Site[o]].live
           /\ \A v \in VersionsOf(o) :
                 (\A u \in VersionsOf(o) : v >= u) => versions[v].home = mist[Site[o]].inc
    /\ \A o \in Objects : ~Known(o) => mist[o].inc = 1

LEMMA HousedInit == ObjectsAssumption /\ Init => Housed
<1>. SUFFICES ASSUME ObjectsAssumption, Init PROVE Housed
  OBVIOUS
<1>1. PICK E \in SUBSET Objects : \E order \in [1 .. Cardinality(E) -> E] : \E refs : FirstBackup(E, order, refs)
  BY Zenon DEF Init
<1>2. PICK order \in [1 .. Cardinality(E) -> E] : \E refs : FirstBackup(E, order, refs)
  BY <1>1, Zenon
<1>3. PICK refs : FirstBackup(E, order, refs)
  BY <1>2, Zenon
<1>4. \A o \in Objects : (mist[o].live <=> o \in E) /\ mist[o].inc = 1
 <2>. DEFINE in(o) == o \in E
 <2>1. \A o \in Objects : mist[o] = Held(in(o), 1, 0, refs[o], in(o))
   BY <1>3, Zenon DEF FirstBackup
 <2>. SUFFICES ASSUME NEW o \in Objects PROVE (mist[o].live <=> in(o)) /\ mist[o].inc = 1
   OBVIOUS
 <2>. HIDE DEF in
 <2>2. mist[o].live = in(o) /\ mist[o].inc = 1
   BY <2>1, HeldFields, SMT
 <2>. QED
   BY <2>2, Zenon
<1>5. \A o \in Objects : Site[o] # NoSite => Home(o) = 1
  BY <1>4, Zenon DEF Home, ObjectsAssumption
<1>6. \A o \in Objects : \A v \in VersionsOf(o) : versions[v].home = Home(o)
 <2>. SUFFICES ASSUME NEW o \in Objects, NEW v \in VersionsOf(o) PROVE versions[v].home = Home(o)
   OBVIOUS
 <2>1. v \in DOMAIN versions /\ versions[v].obj = o
   BY Zenon DEF VersionsOf
 <2>2. versions[v] = Version(order[v], mist[order[v]], 1)
   BY <1>3, <2>1, Zenon DEF FirstBackup
 <2>. QED
   BY <2>1, <2>2, VersionFields, SMT
<1>7. \A o \in Objects : Site[o] # NoSite => mist[Site[o]].inc = 1 /\ (o \in E => mist[Site[o]].live)
 <2>1. \A o \in E : Site[o] = NoSite \/ Site[o] \in E
   BY <1>3, Zenon DEF FirstBackup
 <2>. QED
   BY <1>4, <2>1, Zenon DEF ObjectsAssumption
<1>8. \A o \in Objects : Site[o] = NoSite => Home(o) = 0
  BY Zenon DEF Home
<1>9. \A o \in Objects : \A v \in VersionsOf(o) :
          IF Site[o] = NoSite THEN versions[v].home = 0 ELSE versions[v].home <= mist[Site[o]].inc
  BY <1>5, <1>6, <1>7, <1>8, SMT
<1>. QED
  BY <1>4, <1>5, <1>6, <1>7, <1>9, Zenon DEF Housed

\* An event leaves an object where it may be, and takes no site from what is in it.
LEMMA EventMoves ==
    ASSUME ObjectsAssumption, History, Housed, NEW o \in Objects, EventStep(o)
    PROVE  \E m : \E recorded \in BOOLEAN :
              /\ Event(o, m, recorded)
              /\ m.inc \in Nat /\ m.inc >= mist[o].inc
              /\ m.live /\ Site[o] # NoSite => mist[Site[o]].live
              /\ (\E p \in Objects : mist[p].live /\ Site[p] = o) => m.live /\ m.inc = mist[o].inc
              /\ ~recorded => ~Known(o) /\ m.inc = 1
<1>e. mist[o].inc \in Nat
  BY SMT DEF History, Shape, Entries
<1>h. \A p \in Objects : mist[p].live /\ Site[p] = o => mist[o].live
  BY Zenon DEF Housed, ObjectsAssumption
<1>p. mist[o].live /\ Site[o] # NoSite => mist[Site[o]].live
  BY Zenon DEF Housed
<1>1. CASE Create(o)
 <2>1. PICK recorded \in BOOLEAN : Event(o, Held(TRUE, 1, 0, {}, recorded), recorded)
   BY <1>1, Zenon DEF Create
 <2>2. ~Known(o) /\ ~mist[o].live /\ Placed(o)
   BY <1>1, Zenon DEF Create
 <2>3. mist[o].inc = 1
   BY <2>2, Zenon DEF Housed
 <2>. DEFINE m == Held(TRUE, 1, 0, {}, recorded)
 <2>4. m.inc = 1 /\ m.live
   BY Zenon DEF Held
 <2>5. Event(o, m, recorded)
   BY <2>1
 <2>. HIDE DEF m
 <2>6. m.inc \in Nat /\ m.inc >= mist[o].inc
   BY <2>3, <2>4, SMT
 <2>. QED
   BY <1>h, <2>2, <2>4, <2>5, <2>6, Zenon DEF Placed
<1>2. CASE Late(o)
 <2>. DEFINE m == Held(TRUE, mist[o].inc, mist[o].content, mist[o].refs, TRUE)
 <2>1. Event(o, m, TRUE) /\ mist[o].live
   BY <1>2, Zenon DEF Late
 <2>2. m.inc = mist[o].inc /\ m.live
   BY Zenon DEF Held
 <2>. HIDE DEF m
 <2>3. m.inc \in Nat /\ m.inc >= mist[o].inc
   BY <1>e, <2>2, SMT
 <2>. QED
   BY <1>p, <2>1, <2>2, <2>3, Zenon
<1>3. CASE Change(o)
 <2>1. PICK refs, content : Event(o, Held(TRUE, mist[o].inc, content, refs, TRUE), TRUE)
   BY <1>3, Zenon DEF Change
 <2>. DEFINE m == Held(TRUE, mist[o].inc, content, refs, TRUE)
 <2>2. m.inc = mist[o].inc /\ m.live
   BY Zenon DEF Held
 <2>3. Event(o, m, TRUE) /\ mist[o].live
   BY <1>3, <2>1, Zenon DEF Change
 <2>. HIDE DEF m
 <2>4. m.inc \in Nat /\ m.inc >= mist[o].inc
   BY <1>e, <2>2, SMT
 <2>. QED
   BY <1>p, <2>2, <2>3, <2>4, Zenon
<1>4. CASE Dropped(o)
 <2>. DEFINE m == Held(FALSE, mist[o].inc, mist[o].content, mist[o].refs, TRUE)
 <2>1. Event(o, m, TRUE) /\ \A p \in Objects : mist[p].live => Site[p] # o
   BY <1>4, Zenon DEF Dropped
 <2>2. m.inc = mist[o].inc /\ ~m.live
   BY Zenon DEF Held
 <2>. HIDE DEF m
 <2>3. m.inc \in Nat /\ m.inc >= mist[o].inc
   BY <1>e, <2>2, SMT
 <2>. QED
   BY <2>1, <2>2, <2>3, Zenon
<1>5. CASE Recreate(o)
 <2>. DEFINE m == Held(TRUE, mist[o].inc + 1, mist[o].content, mist[o].refs \intersect LiveIds(mist), TRUE)
 <2>1. Event(o, m, TRUE) /\ ~mist[o].live /\ Placed(o)
   BY <1>5, Zenon DEF Recreate
 <2>2. m.inc = mist[o].inc + 1 /\ m.live
   BY Zenon DEF Held
 <2>. HIDE DEF m
 <2>3. m.inc \in Nat /\ m.inc >= mist[o].inc
   BY <1>e, <2>2, SMT
 <2>. QED
   BY <1>h, <2>1, <2>2, <2>3, Zenon DEF Placed
<1>. QED
  BY <1>1, <1>2, <1>3, <1>4, <1>5, Zenon DEF EventStep

LEMMA EventHoused ==
    ASSUME ObjectsAssumption, History, Housed, NEW o \in Objects, EventStep(o)
    PROVE  Housed'
<1>0. PICK m : \E recorded \in BOOLEAN :
            /\ Event(o, m, recorded)
            /\ m.inc \in Nat /\ m.inc >= mist[o].inc
            /\ m.live /\ Site[o] # NoSite => mist[Site[o]].live
            /\ (\E p \in Objects : mist[p].live /\ Site[p] = o) => m.live /\ m.inc = mist[o].inc
            /\ ~recorded => ~Known(o) /\ m.inc = 1
  BY EventMoves, Zenon
<1>1. PICK recorded \in BOOLEAN :
            /\ Event(o, m, recorded)
            /\ m.inc \in Nat /\ m.inc >= mist[o].inc
            /\ m.live /\ Site[o] # NoSite => mist[Site[o]].live
            /\ (\E p \in Objects : mist[p].live /\ Site[p] = o) => m.live /\ m.inc = mist[o].inc
            /\ ~recorded => ~Known(o) /\ m.inc = 1
  BY <1>0, Zenon
<1>2. /\ mist' = [mist EXCEPT ![o] = m]
      /\ versions' = IF recorded THEN Append(versions, Version(o, m, 0)) ELSE versions
  BY <1>1, Zenon DEF Event
<1>3. versions \in Seq(Versions) /\ Len(versions) \in Nat /\ DOMAIN versions = 1 .. Len(versions)
  BY SMT DEF History, Shape
<1>. DEFINE w == Version(o, m, 0)
<1>4. w.obj = o /\ w.home = Home(o)
  BY VersionFields, SMT
<1>. HIDE DEF w
<1>5. /\ DOMAIN versions' = IF recorded THEN 1 .. Len(versions) + 1 ELSE 1 .. Len(versions)
      /\ \A v \in DOMAIN versions : versions'[v] = versions[v]
      /\ recorded => versions'[Len(versions) + 1] = w
  BY <1>2, <1>3, SMT DEF w
<1>6. mist'[o] = m /\ \A p \in Objects \ {o} : mist'[p] = mist[p]
 <2>1. mist \in [Objects -> Entries]
   BY Zenon DEF History, Shape
 <2>. QED
   BY <1>2, <2>1, SMT
<1>7. \A p \in Objects : mist[p].inc \in Nat /\ mist'[p].inc \in Nat /\ mist[p].inc <= mist'[p].inc
 <2>1. \A p \in Objects : mist[p].inc \in Nat
   BY SMT DEF History, Shape, Entries
 <2>. QED
   BY <1>1, <1>6, <2>1, SMT
\* The site of an object is another, and is a site as it was.
<1>8. \A p \in Objects : Site[p] # NoSite => Site[p] \in Objects /\ Site[p] # p
  BY Zenon DEF ObjectsAssumption
<1>9. \A p \in Objects \ {o} : VersionsOf(p)' = VersionsOf(p)
  BY <1>3, <1>4, <1>5, SMT DEF VersionsOf
<1>10. /\ VersionsOf(o)' = IF recorded THEN VersionsOf(o) \union {Len(versions) + 1} ELSE VersionsOf(o)
       /\ \A v \in VersionsOf(o) : v \in Nat /\ v < Len(versions) + 1
  BY <1>3, <1>4, <1>5, SMT DEF VersionsOf
<1>11. \A p \in Objects : \A v \in VersionsOf(p) : versions'[v] = versions[v]
  BY <1>5, Zenon DEF VersionsOf
<1>12. Site[o] = NoSite => w.home = 0
  BY <1>4, Zenon DEF Home
<1>13. Site[o] # NoSite => w.home = mist[Site[o]].inc /\ mist'[Site[o]] = mist[Site[o]]
  BY <1>4, <1>6, <1>8, Zenon DEF Home
<1>14. \A p \in Objects : \A v \in VersionsOf(p)' :
          IF Site[p] = NoSite THEN versions'[v].home = 0 ELSE versions'[v].home <= mist'[Site[p]].inc
 <2>. SUFFICES ASSUME NEW p \in Objects, NEW v \in VersionsOf(p)'
               PROVE  IF Site[p] = NoSite THEN versions'[v].home = 0 ELSE versions'[v].home <= mist'[Site[p]].inc
   OBVIOUS
 <2>1. CASE v \in VersionsOf(p)
  <3>1. IF Site[p] = NoSite THEN versions[v].home = 0 ELSE versions[v].home <= mist[Site[p]].inc
    BY <2>1, Zenon DEF Housed
  <3>2. versions'[v] = versions[v]
    BY <1>11, <2>1, Zenon
  <3>3. versions[v].home \in Nat
   <4>1. versions[v] \in Versions
     BY <1>3, <2>1, SMT DEF VersionsOf
   <4>. QED
     BY <4>1, SMT DEF Versions
  <3>4. Site[p] # NoSite => /\ mist[Site[p]].inc \in Nat /\ mist'[Site[p]].inc \in Nat
                            /\ mist[Site[p]].inc <= mist'[Site[p]].inc
    BY <1>7, <1>8, Zenon
  <3>. QED
    BY <3>1, <3>2, <3>3, <3>4, SMT
 <2>2. CASE v \notin VersionsOf(p)
  <3>1. p = o /\ recorded /\ v = Len(versions) + 1
    BY <1>9, <1>10, <2>2, SMT
  <3>2. versions'[v] = w
    BY <1>5, <3>1, Zenon
  <3>3. Site[o] # NoSite => mist'[Site[o]].inc \in Nat
    BY <1>7, <1>8, Zenon
  <3>. QED
    BY <1>12, <1>13, <3>1, <3>2, <3>3, SMT
 <2>. QED
   BY <2>1, <2>2
<1>15. \A p \in Objects : mist'[p].live /\ Site[p] # NoSite =>
          /\ mist'[Site[p]].live
          /\ \A v \in VersionsOf(p)' :
                (\A u \in VersionsOf(p)' : v >= u) => versions'[v].home = mist'[Site[p]].inc
 <2>. SUFFICES ASSUME NEW p \in Objects, mist'[p].live, Site[p] # NoSite
               PROVE  /\ mist'[Site[p]].live
                      /\ \A v \in VersionsOf(p)' :
                            (\A u \in VersionsOf(p)' : v >= u) => versions'[v].home = mist'[Site[p]].inc
   OBVIOUS
 <2>1. CASE p = o
  <3>1. mist'[Site[o]].live
    BY <1>1, <1>6, <1>13, <2>1, Zenon
  <3>2. CASE recorded
   <4>1. \A v \in VersionsOf(o)' : (\A u \in VersionsOf(o)' : v >= u) => v = Len(versions) + 1
     BY <1>3, <1>10, <3>2, SMT
   <4>. QED
     BY <1>5, <1>13, <2>1, <3>1, <3>2, <4>1, Zenon
  <3>3. CASE ~recorded
   <4>1. VersionsOf(o) = {}
     BY <1>1, <3>3, SMT DEF Known, VersionsOf
   <4>. QED
     BY <1>10, <2>1, <3>1, <3>3, <4>1, SMT
  <3>. QED
    BY <3>2, <3>3
 <2>2. CASE p # o
  <3>1. /\ mist[p].live /\ mist[Site[p]].live
        /\ \A v \in VersionsOf(p) :
              (\A u \in VersionsOf(p) : v >= u) => versions[v].home = mist[Site[p]].inc
    BY <1>6, <2>2, Zenon DEF Housed
  <3>2. mist'[Site[p]].live /\ mist'[Site[p]].inc = mist[Site[p]].inc
   <4>1. CASE Site[p] = o
     BY <1>1, <1>6, <3>1, <4>1, Zenon
   <4>2. CASE Site[p] # o
     BY <1>6, <1>8, <3>1, <4>2, Zenon
   <4>. QED
     BY <4>1, <4>2
  <3>3. VersionsOf(p)' = VersionsOf(p)
    BY <1>9, <2>2, Zenon
  <3>. QED
    BY <1>11, <3>1, <3>2, <3>3, Zenon
 <2>. QED
   BY <2>1, <2>2
<1>16. \A p \in Objects : ~Known(p)' => mist'[p].inc = 1
 <2>. SUFFICES ASSUME NEW p \in Objects, ~Known(p)' PROVE mist'[p].inc = 1
   OBVIOUS
 <2>1. ~Known(p)
   BY <1>3, <1>5, SMT DEF Known
 <2>2. CASE p = o
  <3>1. ~recorded
   <4>. SUFFICES ASSUME recorded PROVE FALSE
     OBVIOUS
   <4>1. Len(versions) + 1 \in DOMAIN versions' /\ versions'[Len(versions) + 1].obj = o
     BY <1>3, <1>4, <1>5, SMT
   <4>. QED
     BY <2>2, <4>1, Zenon DEF Known
  <3>. QED
    BY <1>1, <1>6, <2>2, <3>1, Zenon
 <2>3. CASE p # o
   BY <1>6, <2>1, <2>3, Zenon DEF Housed
 <2>. QED
   BY <2>2, <2>3
<1>. QED
  BY <1>14, <1>15, <1>16, Zenon DEF Housed

LEMMA HousedHolds == ObjectsAssumption => (Spec => []Housed)
<1>. SUFFICES ASSUME ObjectsAssumption PROVE Spec => []Housed
  OBVIOUS
<1>1. Init => Housed
  BY HousedInit, Zenon
<1>2. PlannerInv /\ Housed /\ [Next]_vars => Housed'
 <2>. SUFFICES ASSUME PlannerInv, Housed, [Next]_vars PROVE Housed'
   OBVIOUS
 <2>1. CASE \E o \in Objects : EventStep(o)
   BY <2>1, EventHoused, Zenon DEF PlannerInv
 <2>2. CASE UNCHANGED <<mist, versions>>
  <3>1. \A o : VersionsOf(o)' = VersionsOf(o) /\ (Known(o)' <=> Known(o))
    BY <2>2, Zenon DEF VersionsOf, Known
  <3>. QED
    BY <2>2, <3>1, Zenon DEF Housed
 <2>3. (\E o \in Objects : Write(o) \/ Refused(o)) => UNCHANGED <<mist, versions>>
   BY Zenon DEF Write, Refused, history
 <2>4. UNCHANGED vars => UNCHANGED <<mist, versions>>
   BY Zenon DEF vars, history
 <2>. QED
   BY <2>1, <2>2, <2>3, <2>4, PlannerKeeps, StepsAre, Zenon
<1>. QED
  BY <1>1, <1>2, PlannerHolds, PTL DEF Spec

\* The site a live object is recorded in is the one it is in.
LEMMA SiteIs ==
    ASSUME History, Housed, NEW o \in Objects, mist[o].live, Known(o), Site[o] # NoSite
    PROVE  site_mist_id(o) = CurrentId(Site[o])
<1>1. latest_version(o) \in VersionsOf(o) /\ \A u \in VersionsOf(o) : latest_version(o) >= u
  BY LatestIs, Zenon
<1>2. versions[latest_version(o)].home = mist[Site[o]].inc
  BY <1>1, Zenon DEF Housed
<1>. QED
  BY <1>2, Zenon DEF site_mist_id, CurrentId

\* What is written in a site is written where the site was last recorded, by an
\* id the site has and none before it.
LEMMA HomedIs ==
    ASSUME ObjectsAssumption, PlannerInv, Housed, Run, pc = "run",
           NEW o \in Objects, Known(o), Site[o] # NoSite, Homed(o)
    PROVE  site_mist_id(o) = CurrentId(Site[o])
<1>. DEFINE s == Site[o]
            h == versions[latest_version(o)].home
<1>1. s \in Objects /\ site_mist_id(o) = Id(s, h)
  BY Zenon DEF ObjectsAssumption, site_mist_id
<1>2. h \in Nat /\ mist[s].inc \in Nat /\ h <= mist[s].inc
 <2>1. latest_version(o) \in VersionsOf(o)
   BY LatestIs, Zenon DEF PlannerInv
 <2>2. h <= mist[s].inc
   BY <2>1, SMT DEF Housed
 <2>3. versions[latest_version(o)] \in Versions
   BY <2>1, SMT DEF VersionsOf, PlannerInv, History, Shape
 <2>4. h \in Nat
   BY <2>3, SMT DEF Versions
 <2>5. mist[s].inc \in Nat
   BY <1>1, SMT DEF PlannerInv, History, Shape, Entries
 <2>. QED
   BY <2>2, <2>4, <2>5
<1>3. Followed(Id(s, h)) = Id(s, after[s].inc)
  BY <1>1, Zenon DEF Homed
<1>4. after[s].inc \in Nat /\ after[s].inc >= mist[s].inc
 <2>1. CASE s \in DOMAIN actions \ DOMAIN rank
  <3>1. after[s].inc = FinalInc(s)
    BY <2>1, Zenon DEF Run
  <3>. HIDE DEF s
  <3>. QED
    BY <1>2, <3>1, SMT DEF FinalInc
 <2>2. CASE s \notin DOMAIN actions \ DOMAIN rank
  <3>1. after[s] = mist[s]
    BY <1>1, <2>2, Zenon DEF PlannerInv, OrderInv, Placement
  <3>. QED
    BY <1>2, <3>1, SMT
 <2>. QED
   BY <2>1, <2>2
<1>. HIDE DEF s, h
<1>5. \A i, j, p, q : Id(p, i) = Id(q, j) => p = q /\ i = j
  BY SMT DEF Id
<1>6. CASE \E q \in Created : Id(s, h) = CurrentId(q)
 <2>1. h = mist[s].inc
  <3>1. PICK q : Id(s, h) = Id(q, mist[q].inc)
    BY <1>6, Zenon DEF CurrentId
  <3>2. q = s /\ h = mist[q].inc
    BY <3>1, SMT DEF Id
  <3>. QED
    BY <3>2
 <2>. QED
   BY <1>1, <2>1, Zenon DEF CurrentId, s
<1>7. CASE ~\E q \in Created : Id(s, h) = CurrentId(q)
 <2>1. Followed(Id(s, h)) = Id(s, h)
   BY <1>7, Zenon DEF Followed
 <2>2. h = after[s].inc
   BY <1>3, <1>5, <2>1, Zenon
 <2>3. h = mist[s].inc
   BY <1>2, <1>4, <2>2, SMT
 <2>. QED
   BY <1>1, <2>3, Zenon DEF CurrentId, s
<1>. QED
  BY <1>6, <1>7

\* No object is created beside a live one of its name and type that the plan
\* was to delete, and no site is deleted before what it contains that goes too
\* (_add_name_reuse_dependencies, _add_containment_delete_dependencies,
\* order_restore_actions and remap_target): an action waits for what it needs and
\* runs after it, and what is created is in its site where that was last
\* recorded, or is refused.
THEOREM TheWayIsClear == ObjectsAssumption => (Spec => []NothingInTheWay)
<1>. SUFFICES ASSUME ObjectsAssumption PROVE Spec => []NothingInTheWay
  OBVIOUS
<1>1. PlannerInv /\ Housed /\ Run => NothingInTheWay
 <2>. SUFFICES ASSUME PlannerInv, Housed, Run, pc = "run", NEW o \in Objects, NEW p \in Objects, p # o,
                      Due(o), after[p].live,
                      \/ actions[o].action = "create" /\ Homed(o) /\ Alike(o, p)
                      \/ actions[o].action = "delete" /\ Site[p] = o,
                      p \in DOMAIN actions, actions[p].action = "delete"
               PROVE  FALSE
   BY Zenon DEF NothingInTheWay
 <2>0. OrderInv /\ Placement /\ Needed /\ History /\ Selected
   BY SMT DEF PlannerInv, OrderInv, PlanInv, Planning
 <2>1. o \in DOMAIN actions /\ p \in DOMAIN rank
   BY <2>0, Zenon DEF Due, Placement
 <2>2. mist[p].live
   BY <2>0, <2>1, Zenon DEF Placement
 <2>3. Known(o) /\ Known(p)
  <3>1. o \in DOMAIN sel /\ p \in DOMAIN sel
    BY <2>0, <2>1, SMT DEF Needed, Stages
  <3>. QED
    BY <2>0, <3>1, VersionsOfIs, Zenon DEF Selected
 <2>4. p \in actions[o].needs
  <3>1. CASE actions[o].action = "create" /\ Homed(o) /\ Alike(o, p)
   <4>1. site_mist_id(o) = site_mist_id(p)
    <5>1. CASE Site[o] # NoSite
      BY <2>0, <2>2, <2>3, <3>1, <5>1, HomedIs, SiteIs, Zenon DEF Alike
    <5>2. CASE Site[o] = NoSite
     <6>1. latest_version(o) \in VersionsOf(o) /\ latest_version(p) \in VersionsOf(p)
       BY <2>0, <2>3, LatestIs, Zenon
     <6>2. versions[latest_version(o)].home = 0 /\ versions[latest_version(p)].home = 0
       BY <3>1, <5>2, <6>1, Zenon DEF Housed, Alike
     <6>. QED
       BY <3>1, <6>2, Zenon DEF site_mist_id, Alike
    <5>. QED
      BY <5>1, <5>2
   <4>. QED
     BY <2>0, <2>1, <3>1, <4>1, SMT DEF Needed, Stages, Alike
  <3>2. CASE actions[o].action = "delete" /\ Site[p] = o
   <4>1. Site[p] # NoSite /\ Type[o] = "sites"
     BY <3>2, Zenon DEF ObjectsAssumption
   <4>2. site_mist_id(p) = current_mist_id(o)
     BY <2>0, <2>2, <2>3, <3>2, <4>1, SiteIs, LatestIs, Zenon
   <4>. QED
     BY <2>0, <2>1, <3>2, <4>1, <4>2, SMT DEF Needed, Stages
  <3>. QED
    BY <3>1, <3>2
 <2>. QED
   BY <2>0, <2>1, <2>4, DueIsFree, Zenon
<1>. QED
  BY <1>1, PlannerHolds, HousedHolds, RunHolds, PTL

\* With its dependencies expanded, a plan that ran leaves no reference to
\* nothing, but where one already named nothing in Mist, what it names was
\* requested as deleted, or it was not there at an instant restored
\* (_expand_dependencies, _spare_referenced_objects, _live_replacements,
\* order_restore_actions and the id map of the run).
THEOREM NothingDangles == ObjectsAssumption => (Spec => []NoDanglingReference)
<1>. SUFFICES ASSUME ObjectsAssumption PROVE Spec => []NoDanglingReference
  OBVIOUS
<1>1. PlannerInv /\ Run => NoDanglingReference
 <2>. SUFFICES ASSUME PlannerInv, Run, pc = "run", DOMAIN rank = {}, request.deps,
                      NEW o \in Objects, after[o].live, NEW r \in after[o].refs
               PROVE  \/ r \in LiveIds(after)
                      \/ mist[o].live /\ r \in mist[o].refs \ LiveIds(mist)
                      \/ r[1] \in request.objects /\ versions[sel[r[1]]].deleted
                      \/ \E p \in DOMAIN instants : LET v == _version_at(r[1], instants[p]) IN
                             IF v = 0 THEN o \notin DOMAIN sel \/ ~mist[r[1]].live ELSE versions[v].deleted
   BY Zenon DEF NoDanglingReference, Ran
 <2>1. pc \notin Stages
   BY SMT DEF Stages
 <2>2. \A q \in Objects : IF q \in DOMAIN actions \ DOMAIN rank
                          THEN (after[q].live <=> actions[q].action # "delete") ELSE after[q] = mist[q]
   BY Zenon DEF PlannerInv, OrderInv, Placement
 <2>3. \A q \in DOMAIN actions :
           /\ after[q].inc = FinalInc(q)
           /\ actions[q].action # "delete" => after[q].refs = Remapped(q)
   BY Zenon DEF Run
 <2>4. Good(o, r)
  <3>1. CASE o \in DOMAIN actions
   <4>1. actions[o].action # "delete"
     BY <2>2, <3>1, SMT
   <4>2. PICK id \in versions[sel[o]].refs : r = Resolved(o, id)
     BY <2>3, <3>1, <4>1, Zenon DEF Remapped
   <4>. QED
     BY <2>1, <3>1, <4>1, <4>2, WrittenGood, Zenon
  <3>2. CASE o \notin DOMAIN actions
   <4>1. mist[o].live /\ r \in mist[o].refs
     BY <2>2, <3>2, SMT
   <4>. QED
     BY <2>1, <3>2, <4>1, LeftGood, Zenon
  <3>. QED
    BY <3>1, <3>2
 <2>5. Stands(r) => r \in LiveIds(after)
  <3>. SUFFICES ASSUME NEW q \in Objects, q = r[1], r = Id(q, FinalInc(q)), FinalLive(q)
                PROVE  r \in LiveIds(after)
    BY Zenon DEF Stands
  <3>1. after[q].live /\ after[q].inc = FinalInc(q)
   <4>1. CASE q \in DOMAIN actions
     BY <2>2, <2>3, <4>1, SMT DEF FinalLive
   <4>2. CASE q \notin DOMAIN actions
     BY <2>2, <4>2, SMT DEF FinalLive, FinalInc
   <4>. QED
     BY <4>1, <4>2
  <3>2. q \in {x \in Objects : after[x].live}
    BY <3>1, Zenon
  <3>. QED
    BY <3>1, <3>2, SMT DEF LiveIds
 <2>. QED
   BY <2>4, <2>5, Zenon DEF Good
<1>. QED
  BY <1>1, PlannerHolds, RunHolds, PTL

\* An exact plan of the organization's data.
Sole(d) ==
    request.mode = "exact" /\ request.deps /\ request.objects = {d} /\ Type[d] = "data"

\* What was spared is named by what is kept, or by what is left as it is.
MustStay(o) ==
    \/ \E p \in Kept : o \in Referred(sel[p])
    \/ \E p \in Objects \ DOMAIN sel : Known(p) /\ ~is_deleted(p) /\ o \in Referred(latest_version(p))
Brought(o, d) ==
    \/ o \in DOMAIN sel /\ IF _version_at(o, instants[d]) = 0 THEN o \in force
                           ELSE o \notin force /\ sel[o] = _version_at(o, instants[d])
    \/ pc # "expand" /\ o \notin DOMAIN sel /\ _version_at(o, instants[d]) = 0 /\ MustStay(o)
Whole(d) ==
    /\ d \in DOMAIN sel /\ d \in DOMAIN instants /\ instants[d] = InstantOf(sel[d])
    /\ \/ pc = "expand" /\ DOMAIN pending = {d} /\ DOMAIN sel = {d}
       \/ \A o \in Objects \ {d} : Known(o) => Brought(o, d)

\* What is absent goes as it is; what is followed is kept, or left as it is.
Queue ==
    /\ \A o \in force : sel[o] = latest_version(o)
    /\ pc = "spare" => \A o \in DOMAIN pending :
           \/ o \in Kept /\ pending[o] = sel[o]
           \/ o \in Objects \ DOMAIN sel /\ Known(o) /\ ~is_deleted(o) /\ pending[o] = latest_version(o)
WholeInv == Planning => Queue /\ \A d \in Objects : Sole(d) => Whole(d)

LEMMA StayStays ==
    ASSUME UNCHANGED <<versions, sel, force>>
    PROVE  \A o : MustStay(o)' <=> MustStay(o)
<1>1. Kept' = Kept /\ (\A v : Referred(v)' = Referred(v))
  BY KeptStays, AtStays, Zenon
<1>2. \A o : (is_deleted(o)' <=> is_deleted(o)) /\ latest_version(o)' = latest_version(o) /\ (Known(o)' <=> Known(o))
  BY ReadsStay, Zenon DEF Known
<1>. QED
  BY <1>1, <1>2, Zenon DEF MustStay

\* A step that leaves the selection.
LEMMA WholeStays ==
    ASSUME WholeInv, pc \notin {"history", "expand"}, pc' \notin {"expand", "spare"},
           UNCHANGED <<versions, snapshot, request, sel, force, instants>>
    PROVE  WholeInv'
<1>1. Queue /\ \A d \in Objects : Sole(d) => Whole(d)
  BY Zenon DEF WholeInv, Planning
<1>2. Queue'
 <2>1. \A o : latest_version(o)' = latest_version(o)
   BY ReadsStay, Zenon
 <2>. QED
   BY <1>1, <2>1, SMT DEF Queue
<1>3. \A d \in Objects : Sole(d)' => Whole(d)'
 <2>. SUFFICES ASSUME NEW d \in Objects, Sole(d)' PROVE Whole(d)'
   OBVIOUS
 <2>1. Whole(d)
   BY <1>1, Zenon DEF Sole
 <2>2. InstantOf(sel[d])' = InstantOf(sel[d])
   BY Zenon DEF InstantOf
 <2>3. \A o : _version_at(o, instants[d])' = _version_at(o, instants[d])
   BY AtStays, Zenon
 <2>4. \A o : Known(o)' <=> Known(o)
   BY Zenon DEF Known
 <2>5. \A o \in Objects \ {d} : Known(o) => Brought(o, d)
   BY <2>1, SMT DEF Whole
 <2>6. \A o : Brought(o, d) => Brought(o, d)'
   BY <2>3, StayStays, SMT DEF Brought
 <2>. QED
   BY <2>1, <2>2, <2>4, <2>5, <2>6, Zenon DEF Whole
<1>. QED
  BY <1>2, <1>3, Zenon DEF WholeInv

LEMMA WholeRequest ==
    ASSUME History, Plan, force = {}, Request
    PROVE  WholeInv'
<1>1. /\ pc = "history" /\ pc' = (IF request'.deps THEN "expand" ELSE "mark")
      /\ UNCHANGED <<mist, versions, snapshot, force, rewrites, actions, rank, after>>
      /\ request'.objects \subseteq Objects
      /\ DOMAIN sel' = request'.objects /\ DOMAIN instants' = request'.objects
      /\ DOMAIN pending' = request'.objects
      /\ \A o \in request'.objects : sel'[o] \in VersionsOf(o) /\ instants'[o] = InstantOf(sel'[o])
  BY RequestIs, Zenon DEF Plan
<1>2. Queue'
  BY <1>1, SMT DEF Queue
<1>3. \A d \in Objects : Sole(d)' => Whole(d)'
 <2>. SUFFICES ASSUME NEW d \in Objects, Sole(d)' PROVE Whole(d)'
   OBVIOUS
 <2>1. request'.deps /\ request'.objects = {d}
   BY Zenon DEF Sole
 <2>2. \A v : InstantOf(v)' = InstantOf(v)
   BY <1>1, Zenon DEF InstantOf
 <2>. QED
   BY <1>1, <2>1, <2>2, SMT DEF Whole
<1>. QED
  BY <1>2, <1>3, Zenon DEF WholeInv

LEMMA WholeExpand ==
    ASSUME History, PlanInv, WholeInv, _expand_dependencies
    PROVE  WholeInv'
<1>1. /\ pc = "expand" /\ pc' \in {"expand", "spare"}
      /\ UNCHANGED <<mist, versions, snapshot, request, actions, rank, after>>
  BY Zenon DEF _expand_dependencies, history
<1>2. Selected /\ Expanded /\ Queue /\ \A d \in Objects : Sole(d) => Whole(d)
  BY <1>1, SMT DEF PlanInv, WholeInv, Planning
<1>3. \A o : /\ latest_version(o)' = latest_version(o) /\ (is_deleted(o)' <=> is_deleted(o))
             /\ (Known(o)' <=> Known(o))
  BY <1>1, ReadsStay, Zenon DEF Known
<1>4. \A o, t : _version_at(o, t)' = _version_at(o, t)
  BY <1>1, AtStays, Zenon
<1>5. \A v : InstantOf(v)' = InstantOf(v)
  BY <1>1, Zenon DEF InstantOf
<1>6. CASE DOMAIN pending = {} /\ pc' = "spare" /\ pending' = [o \in Kept |-> sel[o]]
           /\ UNCHANGED <<sel, force, rewrites, instants>>
 <2>1. Kept' = Kept
   BY <1>1, <1>6, KeptStays, Zenon
 <2>2. DOMAIN pending' = Kept /\ \A o \in Kept : pending'[o] = sel[o]
   BY <1>6, SMT
 <2>3. Queue'
   BY <1>2, <1>3, <1>6, <2>1, <2>2, SMT DEF Queue
 <2>4. \A d \in Objects : Sole(d)' => Whole(d)'
  <3>. SUFFICES ASSUME NEW d \in Objects, Sole(d)' PROVE Whole(d)'
    OBVIOUS
  <3>1. Whole(d)
    BY <1>1, <1>2, Zenon DEF Sole
  <3>2. /\ d \in DOMAIN sel /\ d \in DOMAIN instants /\ instants[d] = InstantOf(sel[d])
        /\ \A o \in Objects \ {d} : Known(o) => Brought(o, d)
    BY <1>6, <3>1, SMT DEF Whole
  <3>3. \A o : _version_at(o, instants[d])' = _version_at(o, instants[d])
    BY <1>4, <1>6, Zenon
  <3>4. \A o : Brought(o, d) => Brought(o, d)'
    BY <1>1, <1>6, <3>3, SMT DEF Brought
  <3>5. InstantOf(sel[d])' = InstantOf(sel[d])
    BY <1>5, <1>6, Zenon
  <3>. QED
    BY <1>3, <1>6, <3>2, <3>4, <3>5, Zenon DEF Whole
 <2>. QED
   BY <2>3, <2>4, Zenon DEF WholeInv
<1>7. CASE pc' = pc /\ \E o \in Objects : First(o) /\ Expand(o)
 <2>1. PICK o \in DOMAIN pending : Expand(o)
   BY <1>7, Zenon DEF First
 <2>. DEFINE N == Reached(o)
             P == Repointed(o)
             U == Unrecorded(o)
 <2>2. /\ sel' = [p \in DOMAIN sel \union N \union P |->
                     IF p \in DOMAIN sel THEN sel[p]
                     ELSE IF p \in N \ U THEN _version_at(p, instants[o]) ELSE latest_version(p)]
       /\ force' = force \union U
       /\ instants' = [p \in DOMAIN instants \union N |-> IF p \in N THEN instants[o] ELSE instants[p]]
   BY <2>1, Zenon DEF Expand
 <2>3. /\ \A p \in N : p \in _related_logical_objects(o, sel[o]) /\ p \notin DOMAIN sel
       /\ U \subseteq N /\ \A p \in N : p \in U <=> _version_at(p, instants[o]) = 0
       /\ \A p \in P : p \in _reverse_dependents(o) /\ p \notin DOMAIN sel /\ p \notin N
   BY SMT DEF Reached, Repointed, Unrecorded
 <2>4. request.mode = "exact" => N = _related_logical_objects(o, sel[o]) \ DOMAIN sel
   BY SMT DEF Reached
 <2>5. \A p \in P : Known(p) /\ p \in Objects
   BY <2>3, Zenon DEF _reverse_dependents
 <2>6. \A p \in N : Known(p) /\ p \in Objects
   BY <2>3, RelatedKnown, Zenon
 <2>. HIDE DEF N, P, U
 <2>7. /\ DOMAIN sel' = DOMAIN sel \union N \union P
       /\ \A p \in DOMAIN sel : sel'[p] = sel[p]
       /\ \A p \in N \ U : sel'[p] = _version_at(p, instants[o])
       /\ \A p \in P \union U : sel'[p] = latest_version(p)
   BY <2>2, <2>3, SMT
 <2>8. \A p \in DOMAIN instants : p \notin N => p \in DOMAIN instants' /\ instants'[p] = instants[p]
   BY <2>2, SMT
 <2>9. pc' = "expand"
   BY <1>1, <1>7, Zenon
 <2>10. Queue'
  <3>1. \A p \in force : p \in DOMAIN sel /\ sel[p] = latest_version(p)
    BY <1>2, SMT DEF Queue, Selected
  <3>2. \A p \in force' : sel'[p] = latest_version(p)
    BY <2>2, <2>7, <3>1, SMT
  <3>. QED
    BY <1>3, <2>9, <3>2, SMT DEF Queue
 <2>11. \A d \in Objects : Sole(d)' => Whole(d)'
  <3>. SUFFICES ASSUME NEW d \in Objects, Sole(d)' PROVE Whole(d)'
    OBVIOUS
  <3>1. Whole(d) /\ request.mode = "exact" /\ request.objects = {d} /\ Type[d] = "data"
    BY <1>1, <1>2, Zenon DEF Sole
  <3>2. d \in DOMAIN sel /\ d \in DOMAIN instants /\ instants[d] = InstantOf(sel[d]) /\ d \notin N
    BY <2>3, <3>1, Zenon DEF Whole
  <3>3. d \in DOMAIN sel' /\ d \in DOMAIN instants' /\ instants'[d] = instants[d] /\ sel'[d] = sel[d]
    BY <2>7, <2>8, <3>2, SMT
  <3>4. instants'[d] = InstantOf(sel[d])'
    BY <1>5, <3>2, <3>3, Zenon
  <3>5. \A p : _version_at(p, instants[d])' = _version_at(p, instants[d])
    BY <1>4, <3>3, Zenon
  <3>6. \A p \in Objects \ {d} : Known(p) =>
            p \in DOMAIN sel' /\ IF _version_at(p, instants[d]) = 0 THEN p \in force'
                                 ELSE p \notin force' /\ sel'[p] = _version_at(p, instants[d])
   <4>. SUFFICES ASSUME NEW p \in Objects \ {d}, Known(p)
                 PROVE  p \in DOMAIN sel' /\ IF _version_at(p, instants[d]) = 0 THEN p \in force'
                                ELSE p \notin force' /\ sel'[p] = _version_at(p, instants[d])
     OBVIOUS
   <4>1. CASE DOMAIN pending = {d} /\ DOMAIN sel = {d}
    <5>1. o = d
      BY <4>1, SMT
    <5>2. p \in Contained(o)
      BY <3>1, <5>1, SMT DEF Contained
    <5>3. p \in N
      BY <2>4, <3>1, <4>1, <5>1, <5>2, SMT DEF _related_logical_objects
    <5>4. p \notin force
      BY <1>2, <2>3, <5>3, SMT DEF Selected
    <5>. QED
      BY <2>2, <2>3, <2>7, <5>1, <5>3, <5>4, SMT
   <4>2. CASE \A x \in Objects \ {d} : Known(x) => Brought(x, d)
    <5>1. \A x \in Objects : Known(x) => x \in DOMAIN sel
      BY <1>1, <3>2, <4>2, SMT DEF Brought
    <5>2. N = {} /\ P = {}
      BY <2>3, <2>5, <2>6, <5>1, SMT
    <5>3. U = {}
      BY <2>3, <5>2, SMT
    <5>4. /\ p \in DOMAIN sel
          /\ IF _version_at(p, instants[d]) = 0 THEN p \in force
             ELSE p \notin force /\ sel[p] = _version_at(p, instants[d])
      BY <1>1, <4>2, SMT DEF Brought
    <5>5. force' = force /\ sel'[p] = sel[p] /\ p \in DOMAIN sel'
      BY <2>2, <2>7, <5>3, <5>4, SMT
    <5>. QED
      BY <5>4, <5>5, SMT
   <4>. QED
     BY <3>1, <4>1, <4>2, Zenon DEF Whole
  <3>7. \A p \in Objects \ {d} : Known(p)' => Brought(p, d)'
    BY <1>3, <3>5, <3>6, SMT DEF Brought
  <3>. QED
    BY <3>3, <3>4, <3>7, Zenon DEF Whole
 <2>. QED
   BY <2>10, <2>11, Zenon DEF WholeInv
<1>. QED
  BY <1>6, <1>7, Zenon DEF _expand_dependencies

LEMMA WholeSpare ==
    ASSUME History, Plan, PlanInv, WholeInv, _spare_referenced_objects
    PROVE  WholeInv'
<1>. DEFINE spared == Named \intersect force
            kept == {o \in spared : ~versions[sel[o]].deleted}
<1>1. /\ pc = "spare" /\ pc' = (IF spared = {} THEN "mark" ELSE "spare")
      /\ UNCHANGED <<mist, versions, snapshot, request, rewrites, instants, actions, rank, after>>
      /\ sel' = [o \in DOMAIN sel \ spared |-> sel[o]]
      /\ force' = force \ spared
      /\ pending' = [o \in kept |-> sel[o]]
  BY Zenon DEF _spare_referenced_objects, history
<1>2. Selected /\ Queue /\ \A d \in Objects : Sole(d) => Whole(d)
  BY <1>1, SMT DEF PlanInv, WholeInv, Planning
<1>3. \A o : /\ latest_version(o)' = latest_version(o) /\ (is_deleted(o)' <=> is_deleted(o))
             /\ (Known(o)' <=> Known(o))
  BY <1>1, ReadsStay, Zenon DEF Known
<1>4. \A v : InstantOf(v)' = InstantOf(v) /\ Referred(v)' = Referred(v)
  BY <1>1, AtStays, Zenon DEF InstantOf
<1>5. /\ spared \subseteq force /\ kept \subseteq spared
      /\ \A o \in spared : o \in kept <=> ~versions[sel[o]].deleted
  BY SMT
<1>6. \A q \in spared : \E o \in DOMAIN pending : q \in Referred(pending[o])
  BY Zenon DEF Named
<1>7. DOMAIN pending' = kept /\ \A o \in kept : pending'[o] = sel[o]
  BY <1>1, Zenon
<1>. HIDE DEF spared, kept
<1>8. DOMAIN sel' = DOMAIN sel \ spared /\ \A o \in DOMAIN sel' : sel'[o] = sel[o]
  BY <1>1, SMT
<1>9. \A o \in spared : /\ o \in DOMAIN sel /\ o \in Objects /\ Known(o) /\ sel[o] = latest_version(o)
                        /\ o \in DOMAIN instants /\ _version_at(o, instants[o]) = 0
 <2>1. \A o \in spared : o \in DOMAIN sel /\ sel[o] = latest_version(o)
                         /\ o \in DOMAIN instants /\ _version_at(o, instants[o]) = 0
   BY <1>2, <1>5, SMT DEF Selected, Queue
 <2>2. \A o \in DOMAIN sel : Known(o) /\ o \in Objects
   BY <1>2, Zenon DEF Selected, VersionsOf, Known, Plan
 <2>. QED
   BY <2>1, <2>2, Zenon
<1>10. \A o \in Kept : o \in DOMAIN sel /\ o \notin spared /\ o \notin force /\ ~versions[sel[o]].deleted
  BY <1>5, SMT DEF Kept
<1>11. \A o \in Kept : o \in Kept' /\ sel'[o] = sel[o] /\ o \in DOMAIN sel'
 <2>. SUFFICES ASSUME NEW o \in Kept PROVE o \in Kept' /\ sel'[o] = sel[o] /\ o \in DOMAIN sel'
   OBVIOUS
 <2>1. o \in DOMAIN sel' /\ sel'[o] = sel[o]
   BY <1>8, <1>10, SMT
 <2>2. o \in DOMAIN sel' \ force' /\ ~versions'[sel'[o]].deleted
   BY <1>1, <1>10, <2>1, SMT
 <2>. QED
   BY <2>1, <2>2, Zenon DEF Kept
<1>12. Queue'
 <2>1. \A o \in force' : sel'[o] = latest_version(o)
   BY <1>1, <1>2, <1>8, SMT DEF Queue, Selected
 <2>2. \A o \in DOMAIN pending' :
           o \in Objects \ DOMAIN sel' /\ Known(o) /\ ~is_deleted(o) /\ pending'[o] = latest_version(o)
   BY <1>5, <1>7, <1>8, <1>9, SMT DEF is_deleted
 <2>. QED
   BY <1>3, <2>1, <2>2, SMT DEF Queue
<1>13. \A o : MustStay(o) => MustStay(o)'
 <2>. SUFFICES ASSUME NEW o, MustStay(o) PROVE MustStay(o)'
   OBVIOUS
 <2>1. CASE \E p \in Kept : o \in Referred(sel[p])
  <3>1. PICK p \in Kept : o \in Referred(sel[p])
    BY <2>1
  <3>2. p \in Kept' /\ o \in Referred(sel[p])'
    BY <1>4, <1>11, <3>1, Zenon
  <3>. QED
    BY <3>2, Zenon DEF MustStay
 <2>2. CASE \E p \in Objects \ DOMAIN sel : Known(p) /\ ~is_deleted(p) /\ o \in Referred(latest_version(p))
  <3>1. PICK p \in Objects \ DOMAIN sel : Known(p) /\ ~is_deleted(p) /\ o \in Referred(latest_version(p))
    BY <2>2
  <3>2. p \in Objects \ DOMAIN sel' /\ (Known(p) /\ ~is_deleted(p) /\ o \in Referred(latest_version(p)))'
    BY <1>3, <1>4, <1>8, <3>1, SMT
  <3>. QED
    BY <3>2, Zenon DEF MustStay
 <2>. QED
   BY <2>1, <2>2, Zenon DEF MustStay
<1>14. \A q \in spared : MustStay(q)'
 <2>. SUFFICES ASSUME NEW q \in spared PROVE MustStay(q)
   BY <1>13, Zenon
 <2>1. PICK o \in DOMAIN pending : q \in Referred(pending[o])
   BY <1>6, Zenon
 <2>2. \/ o \in Kept /\ pending[o] = sel[o]
       \/ o \in Objects \ DOMAIN sel /\ Known(o) /\ ~is_deleted(o) /\ pending[o] = latest_version(o)
   BY <1>1, <1>2, Zenon DEF Queue
 <2>. QED
   BY <2>1, <2>2, Zenon DEF MustStay
<1>15. \A d \in Objects : Sole(d)' => Whole(d)'
 <2>. SUFFICES ASSUME NEW d \in Objects, Sole(d)' PROVE Whole(d)'
   OBVIOUS
 <2>1. Whole(d) /\ request.objects = {d}
   BY <1>1, <1>2, Zenon DEF Sole
 <2>2. /\ d \in DOMAIN sel /\ d \in DOMAIN instants /\ instants[d] = InstantOf(sel[d])
       /\ \A o \in Objects \ {d} : Known(o) => Brought(o, d)
   BY <1>1, <2>1, SMT DEF Whole
 <2>3. d \notin spared
   BY <1>2, <1>5, <2>1, SMT DEF Selected
 <2>4. \A o : _version_at(o, instants[d])' = _version_at(o, instants[d])
   BY <1>1, AtStays, Zenon
 <2>5. d \in DOMAIN sel' /\ sel'[d] = sel[d] /\ instants'[d] = InstantOf(sel[d])'
  <3>1. d \in DOMAIN sel' /\ sel'[d] = sel[d]
    BY <1>8, <2>2, <2>3, SMT
  <3>. QED
    BY <1>1, <1>4, <2>2, <3>1, Zenon
 <2>6. pc' # "expand"
   BY <1>1, SMT
 <2>7. \A o \in Objects \ {d} : Known(o) => Brought(o, d)'
  <3>. SUFFICES ASSUME NEW o \in Objects \ {d}, Known(o) PROVE Brought(o, d)'
    OBVIOUS
  <3>1. CASE o \notin DOMAIN sel
   <4>1. _version_at(o, instants[d]) = 0 /\ MustStay(o)
     BY <2>2, <3>1, SMT DEF Brought
   <4>2. o \notin DOMAIN sel'
     BY <1>8, <3>1, SMT
   <4>. QED
     BY <1>13, <2>4, <2>6, <4>1, <4>2, Zenon DEF Brought
  <3>2. CASE o \in DOMAIN sel
   <4>1. IF _version_at(o, instants[d]) = 0 THEN o \in force
         ELSE o \notin force /\ sel[o] = _version_at(o, instants[d])
     BY <2>2, <3>2, SMT DEF Brought
   <4>2. CASE o \in spared
    <5>1. o \notin DOMAIN sel' /\ o \in force
      BY <1>5, <1>8, <4>2, SMT
    <5>2. _version_at(o, instants[d]) = 0
      BY <4>1, <5>1, SMT
    <5>. QED
      BY <1>14, <2>4, <2>6, <4>2, <5>1, <5>2, Zenon DEF Brought
   <4>3. CASE o \notin spared
    <5>1. o \in DOMAIN sel' /\ sel'[o] = sel[o] /\ (o \in force' <=> o \in force)
      BY <1>1, <1>8, <3>2, <4>3, SMT
    <5>. QED
      BY <2>4, <4>1, <5>1, SMT DEF Brought
   <4>. QED
     BY <4>2, <4>3
  <3>. QED
    BY <3>1, <3>2
 <2>. QED
   BY <1>1, <1>3, <2>2, <2>5, <2>7, Zenon DEF Whole
<1>. QED
  BY <1>12, <1>15, Zenon DEF WholeInv

\* A step that leaves the plan and its history as they are.
LEMMA WholeStutter ==
    ASSUME WholeInv, UNCHANGED vars
    PROVE  WholeInv'
<1>1. UNCHANGED <<mist, versions, snapshot, pc, request, sel, force, instants, pending>>
  BY Zenon DEF vars, history, context
<1>. SUFFICES ASSUME Planning PROVE Queue' /\ \A d \in Objects : Sole(d)' => Whole(d)'
  BY <1>1, Zenon DEF WholeInv, Planning
<1>2. Queue /\ \A d \in Objects : Sole(d) => Whole(d)
  BY Zenon DEF WholeInv
<1>3. \A o : /\ latest_version(o)' = latest_version(o) /\ (is_deleted(o)' <=> is_deleted(o))
             /\ (Known(o)' <=> Known(o))
  BY <1>1, ReadsStay, Zenon DEF Known
<1>4. Kept' = Kept
  BY <1>1, KeptStays, Zenon
<1>5. Queue'
  BY <1>1, <1>2, <1>3, <1>4, Zenon DEF Queue
<1>6. \A d \in Objects : Sole(d)' => Whole(d)'
 <2>. SUFFICES ASSUME NEW d \in Objects, Sole(d)' PROVE Whole(d)'
   OBVIOUS
 <2>1. Whole(d)
   BY <1>1, <1>2, Zenon DEF Sole
 <2>2. InstantOf(sel[d])' = InstantOf(sel[d])
   BY <1>1, Zenon DEF InstantOf
 <2>3. \A o : _version_at(o, instants[d])' = _version_at(o, instants[d])
   BY <1>1, AtStays, Zenon
 <2>4. \A o : MustStay(o)' <=> MustStay(o)
   BY <1>1, StayStays, Zenon
 <2>5. \A o : Brought(o, d)' <=> Brought(o, d)
   BY <1>1, <2>3, <2>4, Zenon DEF Brought
 <2>. QED
   BY <1>1, <1>3, <2>1, <2>2, <2>5, Zenon DEF Whole
<1>. QED
  BY <1>5, <1>6

LEMMA WholeHolds == ObjectsAssumption => (Spec => []WholeInv)
<1>. SUFFICES ASSUME ObjectsAssumption PROVE Spec => []WholeInv
  OBVIOUS
<1>1. Init => WholeInv
  BY Zenon DEF Init, WholeInv, Planning
<1>2. PlannerInv /\ WholeInv /\ [Next]_vars => WholeInv'
 <2>. SUFFICES ASSUME PlannerInv, WholeInv, [Next]_vars PROVE WholeInv'
   OBVIOUS
 <2>1. CASE \E o \in Objects : EventStep(o)
  <3>1. pc' = "history"
    BY <2>1, EventIs, Zenon DEF Event
  <3>. QED
    BY <3>1, Zenon DEF WholeInv, Planning
 <2>2. CASE Request
  <3>1. force = {}
    BY <2>2, Zenon DEF Request, PlannerInv, Idle
  <3>. QED
    BY <2>2, <3>1, WholeRequest, Zenon DEF PlannerInv, OrderInv
 <2>3. CASE _expand_dependencies
   BY <2>3, WholeExpand, Zenon DEF PlannerInv
 <2>4. CASE _spare_referenced_objects
   BY <2>4, WholeSpare, Zenon DEF PlannerInv, OrderInv
 <2>5. CASE _mark_selected_reference_rewrites
  <3>1. /\ pc = "mark" /\ pc' = "build"
        /\ UNCHANGED <<versions, snapshot, request, sel, force, instants>>
    BY <2>5, Zenon DEF _mark_selected_reference_rewrites, history
  <3>. QED
    BY <3>1, WholeStays, SMT
 <2>6. CASE Build
  <3>1. /\ pc = "build" /\ pc' = "order"
        /\ UNCHANGED <<versions, snapshot, request, sel, force, instants>>
    BY <2>6, Zenon DEF Build, history, context
  <3>. QED
    BY <3>1, WholeStays, SMT
 <2>7. CASE order_restore_actions
  <3>1. /\ pc = "order" /\ pc' \in {"order", "run", "cycle"}
        /\ UNCHANGED <<versions, snapshot, request, sel, force, instants>>
    BY <2>7, Zenon DEF order_restore_actions, history, context
  <3>. QED
    BY <3>1, WholeStays, SMT
 <2>8. CASE \E o \in Objects : Write(o)
  <3>1. /\ pc = "run" /\ pc' = "run"
        /\ UNCHANGED <<versions, snapshot, request, sel, force, instants>>
    BY <2>8, Zenon DEF Write, history, context
  <3>. QED
    BY <3>1, WholeStays, SMT
 <2>9. CASE \E o \in Objects : Refused(o)
  <3>1. /\ pc = "run" /\ pc' = "failed"
        /\ UNCHANGED <<versions, snapshot, request, sel, force, instants>>
    BY <2>9, Zenon DEF Refused, history, context
  <3>. QED
    BY <3>1, WholeStays, SMT
 <2>10. CASE UNCHANGED vars
   BY <2>10, WholeStutter
 <2>. QED
   BY <2>1, <2>2, <2>3, <2>4, <2>5, <2>6, <2>7, <2>8, <2>9, <2>10, StepsAre, Zenon
<1>. QED
  BY <1>1, <1>2, PlannerHolds, PTL DEF Spec

\* What the history had by a version is what it has at the version's instant.
LEMMA HadIs ==
    ASSUME History, NEW v \in DOMAIN versions, NEW o
    PROVE  VersionsAt(o, InstantOf(v)) = HadBy(v, o)
<1>. DEFINE t == InstantOf(v)
<1>1. versions \in Seq(Versions) /\ versions[v] \in Versions
  BY SMT DEF History, Shape
<1>2. versions[v].snap \in {0, 1} /\ v \in 1 .. Len(versions) /\ Len(versions) \in Nat
  BY <1>1, SMT DEF Versions
<1>3. /\ snapshot \in Nat
      /\ \A u \in DOMAIN versions : u <= snapshot => versions[u].snap = 1
      /\ \A u, w \in DOMAIN versions : versions[u].snap = 1 /\ versions[w].snap = 0 => u < w
  BY Zenon DEF History, BackedUp
<1>4. \A u \in VersionsOf(o) : u \in DOMAIN versions /\ u \in Nat /\ versions[u].snap \in {0, 1}
 <2>. SUFFICES ASSUME NEW u \in DOMAIN versions PROVE u \in Nat /\ versions[u].snap \in {0, 1}
   BY Zenon DEF VersionsOf
 <2>1. versions[u] \in Versions /\ u \in Nat
   BY <1>1, SMT
 <2>. QED
   BY <2>1, SMT DEF Versions
<1>5. CASE versions[v].snap = 0
 <2>1. t.at = v /\ t.snap = 0
   BY <1>5, SMT DEF InstantOf
 <2>. HIDE DEF t
 <2>2. \A u : u \in VersionsAt(o, t) <=> u \in HadBy(v, o)
   BY <1>5, <2>1, SMT DEF VersionsAt, HadBy
 <2>. QED
   BY <2>2, Zenon DEF VersionsAt, HadBy, t
<1>6. CASE versions[v].snap = 1
 <2>1. (t.at = snapshot \/ t.at = v) /\ t.snap = 1
   BY <1>6, SMT DEF InstantOf
 <2>. HIDE DEF t
 <2>2. \A u \in VersionsOf(o) : u <= v => versions[u].snap = 1
   BY <1>2, <1>3, <1>4, <1>6, SMT
 <2>3. \A u \in VersionsOf(o) : u <= t.at => versions[u].snap = 1
   BY <1>3, <1>4, <2>1, <2>2, SMT
 <2>4. \A u \in VersionsOf(o) : (u <= t.at \/ (t.snap # 0 /\ versions[u].snap = t.snap))
                                <=> (u <= v \/ (versions[v].snap # 0 /\ versions[u].snap = versions[v].snap))
   BY <1>6, <2>1, <2>2, <2>3, SMT
 <2>. QED
   BY <2>4, Zenon DEF VersionsAt, HadBy, t
<1>. QED
  BY <1>2, <1>5, <1>6, SMT

\* What is kept is left with its version's configuration and references.
LEMMA KeptIsLeft ==
    ASSUME PlannerInv, Run, pc = "run", DOMAIN rank = {}, NEW o \in DOMAIN sel
    PROVE  /\ o \in Kept => /\ after[o].live /\ after[o].content = versions[sel[o]].content
                            /\ \A p \in Referred(sel[o]) : \E r \in after[o].refs : r[1] = p
           /\ o \notin Kept => ~after[o].live
<1>0. pc \notin Stages
  BY SMT DEF Stages
<1>1. o \in Objects /\ Known(o) /\ Selected /\ History
  BY <1>0, ActionsAre, Zenon
<1>2. IF o \in DOMAIN actions THEN (after[o].live <=> actions[o].action # "delete") ELSE after[o] = mist[o]
 <2>1. \A q \in Objects : IF q \in DOMAIN actions \ DOMAIN rank
                          THEN (after[q].live <=> actions[q].action # "delete") ELSE after[q] = mist[q]
   BY Zenon DEF PlannerInv, OrderInv, Placement
 <2>. QED
   BY <1>1, <2>1, SMT
<1>3. o \in DOMAIN actions /\ actions[o].action # "delete" =>
          after[o].content = versions[sel[o]].content /\ after[o].refs = Remapped(o)
  BY Zenon DEF Run
<1>4. o \in DOMAIN actions <=> _action_type(o) # "none"
  BY <1>0, ActionsAre, Zenon
<1>5. o \in DOMAIN actions => actions[o].action = _action_type(o)
  BY <1>0, ActionsAre, Zenon
<1>6. /\ (is_deleted(o) <=> ~mist[o].live)
      /\ versions[latest_version(o)].content = mist[o].content
      /\ versions[latest_version(o)].refs = mist[o].refs
  BY <1>1, LatestIs, Zenon
<1>7. o \in Kept <=> o \notin force /\ ~versions[sel[o]].deleted
  BY SMT DEF Kept
<1>8. CASE o \notin Kept
 <2>1. _action_type(o) = "delete" \/ (_action_type(o) = "none" /\ is_deleted(o))
   BY <1>1, <1>8, ActionIs, SMT
 <2>. QED
   BY <1>2, <1>4, <1>5, <1>6, <1>8, <2>1, SMT
<1>9. CASE o \in Kept
 <2>1. CASE _action_type(o) = "none"
  <3>1. ~is_deleted(o) /\ (sel[o] = latest_version(o) \/ SameConfiguration(sel[o], latest_version(o)))
    BY <1>1, <1>7, <1>9, <2>1, ActionIs, SMT
  <3>2. mist[o].content = versions[sel[o]].content /\ mist[o].refs = versions[sel[o]].refs
    BY <1>6, <3>1, SMT DEF SameConfiguration
  <3>3. after[o] = mist[o] /\ mist[o].live
    BY <1>2, <1>4, <1>6, <2>1, <3>1, SMT
  <3>4. \A p \in Referred(sel[o]) : \E r \in versions[sel[o]].refs : r[1] = p
    BY <1>1, ReferredIs, Zenon
  <3>. QED
    BY <1>9, <3>2, <3>3, <3>4, Zenon
 <2>2. CASE _action_type(o) # "none"
  <3>1. o \in DOMAIN actions /\ actions[o].action # "delete"
   <4>1. _action_type(o) # "delete"
     BY <1>1, <1>7, <1>9, ActionIs, SMT
   <4>. QED
     BY <1>4, <1>5, <2>2, <4>1, Zenon
  <3>2. after[o].live /\ after[o].content = versions[sel[o]].content /\ after[o].refs = Remapped(o)
    BY <1>2, <1>3, <3>1, Zenon
  <3>3. \A p \in Referred(sel[o]) : \E r \in Remapped(o) : r[1] = p
   <4>. SUFFICES ASSUME NEW p \in Referred(sel[o]) PROVE \E r \in Remapped(o) : r[1] = p
     OBVIOUS
   <4>1. PICK id \in versions[sel[o]].refs : id[1] = p
     BY <1>1, ReferredIs, Zenon
   <4>2. Resolved(o, id)[1] = p
     BY <4>1, SMT DEF Resolved, CurrentId, Id
   <4>. QED
     BY <4>2, Zenon DEF Remapped
  <3>. QED
    BY <1>9, <3>2, <3>3, Zenon
 <2>. QED
   BY <2>1, <2>2
<1>. QED
  BY <1>8, <1>9

\* An exact plan of the organization's data that ran has brought every known
\* object back to what it was when the version requested was recorded: what was
\* there is live with the configuration it had, and what was not there is gone,
\* but for what was recorded since and is referenced by what stays
\* (_version_at, _related_logical_objects, _spare_referenced_objects).
THEOREM TheInstantIsBack == ObjectsAssumption => (Spec => []ExactIsTheInstant)
<1>. SUFFICES ASSUME ObjectsAssumption PROVE Spec => []ExactIsTheInstant
  OBVIOUS
<1>1. PlannerInv /\ Run /\ WholeInv => ExactIsTheInstant
 <2>. SUFFICES ASSUME PlannerInv, Run, WholeInv, pc = "run", DOMAIN rank = {},
                      NEW d \in Objects, Sole(d), NEW o \in Objects, Known(o)
               PROVE  LET had == HadBy(sel[d], o) IN
                      IF had # {} /\ ~versions[Max(had)].deleted
                      THEN after[o].live /\ after[o].content = versions[Max(had)].content
                      ELSE after[o].live =>
                             had = {} /\ \E p \in Objects : after[p].live /\ \E r \in after[p].refs : r[1] = o
   BY Zenon DEF ExactIsTheInstant, Ran, Sole
 <2>. DEFINE had == HadBy(sel[d], o)
             at == _version_at(o, instants[d])
 <2>0. pc \notin Stages
   BY SMT DEF Stages
 <2>1. Queue /\ Whole(d)
   BY SMT DEF WholeInv, Planning
 <2>2. /\ d \in DOMAIN sel /\ instants[d] = InstantOf(sel[d])
       /\ \A q \in Objects \ {d} : Known(q) => Brought(q, d)
   BY <2>1, SMT DEF Whole
 <2>3. History /\ Selected /\ sel[d] \in VersionsOf(d) /\ sel[d] \in DOMAIN versions
  <3>1. History /\ Selected
    BY <2>0, ActionsAre, Zenon
  <3>. QED
    BY <2>2, <3>1, Zenon DEF Selected, VersionsOf
 <2>4. VersionsAt(o, instants[d]) = had
   BY <2>2, <2>3, HadIs, Zenon
 <2>5. /\ had = {} <=> at = 0
       /\ had # {} => at = Max(had) /\ at \in had
   BY <2>3, <2>4, VersionAtIs, Zenon
 <2>6. \/ o \in DOMAIN sel /\ IF at = 0 THEN o \in force ELSE o \notin force /\ sel[o] = at
       \/ o \notin DOMAIN sel /\ at = 0 /\ MustStay(o)
  <3>1. CASE o # d
    BY <2>2, <3>1, Zenon DEF Brought
  <3>2. CASE o = d
   <4>1. sel[d] \in Nat
     BY <2>3, VersionsOfIs, Zenon
   <4>2. sel[d] \in had
     BY <2>3, <3>2, <4>1, SMT DEF HadBy
   <4>3. at = Max(had) /\ at \in had /\ \A u \in had : at >= u
    <5>1. had \subseteq 0 .. Len(versions) /\ Len(versions) \in Nat
      BY <2>3, SMT DEF HadBy, VersionsOf, History, Shape
    <5>. HIDE DEF had
    <5>2. Max(had) \in had /\ \A u \in had : Max(had) >= u
      BY <4>2, <5>1, MaxOf, Zenon
    <5>. QED
      BY <2>5, <4>2, <5>2, Zenon
   <4>4. \A u \in had : u <= sel[d] \/ u = sel[d]
    <5>. SUFFICES ASSUME NEW u \in VersionsOf(d), versions[sel[d]].snap # 0,
                         versions[u].snap = versions[sel[d]].snap
                  PROVE  u = sel[d]
      BY <3>2, Zenon DEF HadBy
    <5>1. u \in DOMAIN versions /\ versions[u].obj = versions[sel[d]].obj
      BY <2>3, Zenon DEF VersionsOf
    <5>2. versions[sel[d]].snap = 1
     <6>1. versions[sel[d]] \in Versions
       BY <2>3, SMT DEF History, Shape
     <6>. QED
       BY <6>1, SMT DEF Versions
    <5>. QED
      BY <2>3, <5>1, <5>2, Zenon DEF History, BackedUp
   <4>5. at \in Nat /\ at # 0
    <5>1. had \subseteq DOMAIN versions /\ DOMAIN versions \subseteq Nat \ {0}
      BY <2>3, SMT DEF HadBy, VersionsOf, History, Shape
    <5>. QED
      BY <4>3, <5>1, SMT
   <4>6. at = sel[d]
    <5>. HIDE DEF at, had
    <5>. QED
      BY <4>1, <4>2, <4>3, <4>4, <4>5, SMT
   <4>7. o \notin force
     BY <2>3, <3>2, Zenon DEF Selected, Sole
   <4>. QED
     BY <2>2, <3>2, <4>5, <4>6, <4>7, Zenon
  <3>. QED
    BY <3>1, <3>2
 <2>. HIDE DEF had, at
 <2>7. CASE had # {} /\ ~versions[Max(had)].deleted
  <3>1. o \in DOMAIN sel /\ o \notin force /\ sel[o] = Max(had)
    BY <2>5, <2>6, <2>7, Zenon
  <3>2. o \in Kept
    BY <2>7, <3>1, SMT DEF Kept
  <3>. QED
    BY <2>7, <3>1, <3>2, KeptIsLeft, Zenon DEF had
 <2>8. CASE had # {} /\ versions[Max(had)].deleted
  <3>1. o \in DOMAIN sel /\ sel[o] = Max(had)
    BY <2>5, <2>6, <2>8, Zenon
  <3>2. o \notin Kept
    BY <2>8, <3>1, SMT DEF Kept
  <3>. QED
    BY <2>8, <3>1, <3>2, KeptIsLeft, Zenon DEF had
 <2>9. CASE had = {} /\ o \in DOMAIN sel
  <3>1. o \notin Kept
    BY <2>5, <2>6, <2>9, SMT DEF Kept
  <3>. QED
    BY <2>9, <3>1, KeptIsLeft, Zenon DEF had
 <2>10. CASE had = {} /\ o \notin DOMAIN sel
  <3>. SUFFICES \E p \in Objects : after[p].live /\ \E r \in after[p].refs : r[1] = o
    BY <2>10, Zenon DEF had
  <3>1. MustStay(o)
    BY <2>6, <2>10, Zenon
  <3>2. CASE \E p \in Kept : o \in Referred(sel[p])
   <4>1. PICK p \in Kept : o \in Referred(sel[p])
     BY <3>2
   <4>2. p \in DOMAIN sel /\ p \in Objects
     BY <2>0, ActionsAre, SMT DEF Kept
   <4>3. after[p].live /\ \E r \in after[p].refs : r[1] = o
     BY <4>1, <4>2, KeptIsLeft, Zenon
   <4>. QED
     BY <4>2, <4>3, Zenon
  <3>3. CASE \E p \in Objects \ DOMAIN sel : Known(p) /\ ~is_deleted(p) /\ o \in Referred(latest_version(p))
   <4>1. PICK p \in Objects \ DOMAIN sel : Known(p) /\ ~is_deleted(p) /\ o \in Referred(latest_version(p))
     BY <3>3
   <4>2. mist[p].live /\ versions[latest_version(p)].refs = mist[p].refs
     BY <2>3, <4>1, LatestIs, SMT
   <4>3. after[p] = mist[p]
    <5>1. p \notin DOMAIN actions
      BY <2>0, <4>1, ActionsAre, SMT
    <5>. QED
      BY <5>1, <4>1, SMT DEF PlannerInv, OrderInv, Placement
   <4>4. \E r \in mist[p].refs : r[1] = o
    <5>1. PICK r \in versions[latest_version(p)].refs : r[1] = o
      BY <4>1, Zenon DEF Referred
    <5>. QED
      BY <4>2, <5>1, Zenon
   <4>. QED
     BY <4>1, <4>2, <4>3, <4>4, Zenon
  <3>. QED
    BY <3>1, <3>2, <3>3, Zenon DEF MustStay
 <2>. QED
   BY <2>7, <2>8, <2>9, <2>10
<1>. QED
  BY <1>1, PlannerHolds, RunHolds, WholeHolds, PTL
=============================================================================
