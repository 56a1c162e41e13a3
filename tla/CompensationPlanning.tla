------------------------- MODULE CompensationPlanning -------------------------
\* The compensations of one failed restore (services/restore_compensation.py).
\*
\* A request plans the inverse of every write that reached Mist, or may have,
\* and that no earlier compensation undid.  Running it holds each reversal to
\* what the restore wrote: once for all of them before the first write, and
\* again before each.  Meanwhile the same objects are edited by hand, the run
\* stops anywhere, and what it left is planned again.
EXTENDS Integers, Sequences, FiniteSets

CONSTANTS
    Restores,   \* the failed restores to start from: each a sequence of writes
    Planners,   \* requests planning a compensation
    MaxPlans, MaxEdits, MaxStops, MaxFormulas  \* bounds

VARIABLES
    writes,   \* the restore's actions, in the order they were executed
    live,     \* what Mist holds under the id each action targets
    again,    \* how many objects reversals have created in its place
    byHand,   \* orders someone recreated by hand, under an id of its own
    marked,   \* the restore itself is recorded as compensated
    plans,    \* the compensations, oldest first
    linked,   \* compensation_operation_id, 0 when none is
    planner,  \* the locals of create_compensation_plan
    run,      \* the locals of the restore worker
    edits, stops, formulas

mistVars == <<live, again, byHand>>
planVars == <<plans, linked>>
counts == <<edits, stops, formulas>>
vars == <<writes, mistVars, marked, planVars, planner, run, counts>>

Orders == DOMAIN writes
None == 0

------------------------
\* What a write of the restore left.  did: "read" completed and read back,
\* "unread" completed only, "unconfirmed" failed with outcome_unknown, "none"
\* not attempted.  secret: Mist masks a secret of the object, and the version
\* stored before the write can supply it ("sourced") or cannot ("unsourced").
Before(w) == IF w.kind = "create" THEN "absent" ELSE "old"
Written(w) == IF w.kind = "delete" THEN "absent" ELSE "new"
possibly_applied(w) == w.did # "none"
unconfirmed_write(w) == w.did = "unconfirmed"

\* _invert: the configuration a reversal writes back, masked where the stored
\* version does not describe what was live.
Payload(w) == IF w.secret = "unsourced" THEN "masked" ELSE "old"
inverse(w) == CASE w.kind = "create" -> "delete" [] w.kind = "delete" -> "create" [] OTHER -> "update"
UnavailableSlip(w) == inverse(w) = "create" /\ Payload(w) = "masked"
\* The plan's preflight_errors: a secret it would need and does not have.
unavailable_secret(w) == inverse(w) # "delete" /\ Payload(w) = "masked"

Reversal(o) == [reverses |-> o, status |-> "pending"]

Init ==
    /\ writes \in Restores
    /\ live \in {f \in [Orders -> {"absent", "old", "new"}] : \A o \in Orders :
                    \/ f[o] = Written(writes[o]) /\ writes[o].did # "none"
                    \/ f[o] = Before(writes[o]) /\ writes[o].did \in {"none", "unconfirmed"}}
    /\ again = [o \in Orders |-> 0] /\ byHand = {} /\ marked = FALSE
    /\ plans = <<>> /\ linked = None
    /\ planner = [p \in Planners |-> [pc |-> "idle"]]
    /\ run = [pc |-> "idle"]
    /\ edits = 0 /\ stops = 0 /\ formulas = 0

------------------------
\* create_compensation_plan.
Recorded == {p \in DOMAIN plans : plans[p].recorded}
WithStatus(S) == {p \in Recorded : plans[p].status \in S}
Newest(S) == CHOOSE p \in S : \A q \in S : q <= p
Reusable == {p \in WithStatus({"planned"}) : plans[p].current /\ p = Newest({q \in WithStatus({"planned"}) : plans[q].current})}
\* Every planned compensation but the one reused, whatever its hash.
Stale == WithStatus({"planned"}) \ Reusable
\* The orders that a compensation which is over has reversed.
ReversedWith(statuses) ==
    {o \in Orders : \E p \in Recorded \ WithStatus({"planned", "queued", "running"}) :
        \E i \in DOMAIN plans[p].actions :
            plans[p].actions[i].reverses = o /\ plans[p].actions[i].status \in statuses}
\* Counts a reversal nobody saw the end of.
AlreadyReversedSlip == ReversedWith({"completed", "unconfirmed"})
already_reversed == ReversedWith({"completed"})

\* _reverse: newest first; an unconfirmed create has no id to target.
_reverse(done) ==
    LET left == {o \in Orders : /\ possibly_applied(writes[o]) /\ o \notin done
                                /\ ~(unconfirmed_write(writes[o]) /\ writes[o].kind = "create")}
    IN  CHOOSE s \in [1 .. Cardinality(left) -> left] : \A i, j \in DOMAIN s : i < j => s[i] > s[j]

\* Plans again beside a compensation that is queued or running.
ReadEarlierSlip(p) ==
    /\ planner[p].pc = "idle" /\ ~marked /\ Len(plans) < MaxPlans
    /\ Reusable = {} /\ _reverse(already_reversed) # <<>>
    /\ planner' = [planner EXCEPT ![p] =
           [pc |-> "insert", stale |-> Stale, reverses |-> _reverse(already_reversed)]]
    /\ UNCHANGED <<writes, mistVars, marked, planVars, run, counts>>
ReadEarlier(p) ==
    /\ planner[p].pc = "idle" /\ ~marked /\ Len(plans) < MaxPlans
    /\ \/ /\ Reusable # {}
          /\ planner' = [planner EXCEPT ![p] =
                 [pc |-> "retire", stale |-> Stale, plan |-> Newest(Reusable)]]
       \/ /\ Reusable = {} /\ WithStatus({"queued", "running"}) = {}
          /\ _reverse(already_reversed) # <<>>
          /\ planner' = [planner EXCEPT ![p] =
                 [pc |-> "insert", stale |-> Stale, reverses |-> _reverse(already_reversed)]]
    /\ UNCHANGED <<writes, mistVars, marked, planVars, run, counts>>

Insert(p) ==
    LET l == planner[p] IN
    /\ l.pc = "insert"
    /\ plans' = Append(plans,
           [status |-> "planned", current |-> TRUE, recorded |-> FALSE,
            actions |-> [i \in DOMAIN l.reverses |-> Reversal(l.reverses[i])],
            errors |-> \E i \in DOMAIN l.reverses : unavailable_secret(writes[l.reverses[i]])])
    /\ planner' = [planner EXCEPT ![p] = [pc |-> "record", stale |-> l.stale, plan |-> Len(plans')]]
    /\ UNCHANGED <<writes, mistVars, marked, linked, run, counts>>

Record(p) ==
    LET l == planner[p] IN
    /\ l.pc = "record"
    /\ plans' = [plans EXCEPT ![l.plan].recorded = TRUE]
    /\ planner' = [planner EXCEPT ![p].pc = "link"]
    /\ UNCHANGED <<writes, mistVars, marked, linked, run, counts>>

Link(p) ==
    LET l == planner[p] IN
    /\ l.pc = "link"
    /\ linked' = l.plan
    /\ planner' = [planner EXCEPT ![p].pc = "retire"]
    /\ UNCHANGED <<writes, mistVars, marked, plans, run, counts>>

\* supersede_planned leaves alone a plan that was queued meanwhile.
Superseded(p, stale) == p \in stale /\ plans[p].status = "planned"
_retire_stale(p) ==
    /\ planner[p].pc = "retire"
    /\ plans' = [q \in DOMAIN plans |->
           IF Superseded(q, planner[p].stale) THEN [plans[q] EXCEPT !.status = "superseded"] ELSE plans[q]]
    /\ planner' = [planner EXCEPT ![p] = [pc |-> "idle"]]
    /\ UNCHANGED <<writes, mistVars, marked, linked, run, counts>>

RequestLost(p) ==
    /\ planner[p].pc # "idle" /\ stops < MaxStops
    /\ planner' = [planner EXCEPT ![p] = [pc |-> "idle"]]
    /\ stops' = stops + 1
    /\ UNCHANGED <<writes, mistVars, marked, planVars, run, edits, formulas>>

\* A release with another plan-hash formula: no plan hashes as reviewed.
FormulaChanges ==
    /\ formulas < MaxFormulas
    /\ plans' = [p \in DOMAIN plans |-> [plans[p] EXCEPT !.current = FALSE]]
    /\ formulas' = formulas + 1
    /\ UNCHANGED <<writes, mistVars, marked, linked, planner, run, edits, stops>>

------------------------
\* execute_compensation_plan, then the worker.
\* find_compensation_of: the plan linked, else the newest one recorded.
compensation_for == IF linked # None \/ Recorded = {} THEN linked ELSE Newest(Recorded)
Queue ==
    LET p == compensation_for IN
    /\ p # None /\ run.pc = "idle"
    /\ plans[p].status = "planned" /\ plans[p].current /\ ~plans[p].errors
    /\ plans' = [plans EXCEPT ![p].status = "running"]
    /\ run' = [pc |-> "capture", plan |-> p]
    /\ UNCHANGED <<writes, mistVars, marked, linked, planner, counts>>

\* Without the comparison with what the restore wrote.
AssessSlip(o) ==
    LET w == writes[o] IN
    CASE w.kind = "delete" ->
           IF live[o] = "absent" THEN "proceed" ELSE IF unconfirmed_write(w) THEN "already" ELSE "drift"
      [] w.kind # "delete" /\ live[o] = "absent" -> IF w.kind = "create" THEN "already" ELSE "drift"
      [] OTHER -> "proceed"
\* assess_live_state
assess_live_state(o) ==
    LET w == writes[o] IN
    CASE w.kind = "delete" ->
           IF live[o] = "absent" THEN "proceed" ELSE IF unconfirmed_write(w) THEN "already" ELSE "drift"
      [] w.kind # "delete" /\ live[o] = "absent" -> IF w.kind = "create" THEN "already" ELSE "drift"
      [] OTHER ->
           IF live[o] = "new" \/ unconfirmed_write(w) THEN "proceed"
           ELSE IF w.kind = "update" /\ live[o] = Payload(w) THEN "already" ELSE "drift"

NameTakenSlip(o) == writes[o].named /\ o \in byHand
\* _refuse_name_collision
NameTaken(o) == writes[o].named /\ (again[o] > 0 \/ o \in byHand)

Acts == plans[run.plan].actions
Action == Acts[run.at]
Target == Action.reverses
SetAction(s) == plans' = [plans EXCEPT ![run.plan].actions[run.at].status = s]
Close(status) == plans' = [plans EXCEPT ![run.plan].status = status]

\* capture_safety_snapshot: nothing is written unless every reversal may be.
Refused(o) ==
    \/ assess_live_state(o) = "drift"
    \/ writes[o].kind = "delete" /\ assess_live_state(o) = "proceed" /\ NameTaken(o)
Capture ==
    LET reversals == {Acts[i].reverses : i \in DOMAIN Acts} IN
    /\ run.pc = "capture"
    /\ IF \E o \in reversals : Refused(o)
       THEN Close("failed") /\ run' = [pc |-> "idle"]
       ELSE /\ run' = [pc |-> "check", plan |-> run.plan, at |-> 1, entry |-> live]
            /\ UNCHANGED plans
    /\ UNCHANGED <<writes, mistVars, marked, linked, planner, counts>>

Onward == IF run.at = Len(Acts) THEN [pc |-> "verify", plan |-> run.plan]
          ELSE [run EXCEPT !.pc = "check", !.at = @ + 1]

\* check_before_write; a create is not read again.
Skips(o) == IF writes[o].kind = "delete" THEN run.entry[o] # "absent"
            ELSE assess_live_state(o) = "already"
Drifted(o) == writes[o].kind # "delete" /\ (assess_live_state(o) = "drift" \/ live[o] # run.entry[o])
Check ==
    /\ run.pc = "check"
    /\ \/ Skips(Target) /\ SetAction("skipped") /\ run' = Onward
       \/ ~Skips(Target) /\ Drifted(Target) /\ Close("failed") /\ run' = [pc |-> "idle"]
       \/ /\ ~Skips(Target) /\ ~Drifted(Target)
          /\ SetAction("executing") /\ run' = [run EXCEPT !.pc = "write"]
    /\ UNCHANGED <<writes, mistVars, marked, linked, planner, counts>>

\* Mist answers 404 to a change of what is no longer there.
Gone(o) == inverse(writes[o]) # "create" /\ live[o] = "absent"
Applied ==
    LET o == Target IN
    /\ ~Gone(o)
    /\ IF inverse(writes[o]) = "create"
       THEN again' = [again EXCEPT ![o] = @ + 1] /\ UNCHANGED live
       ELSE /\ live' = [live EXCEPT ![o] = IF inverse(writes[o]) = "delete" THEN "absent" ELSE Payload(writes[o])]
            /\ UNCHANGED again
Write ==
    /\ run.pc = "write"
    /\ \/ Applied /\ SetAction("completed") /\ run' = Onward
       \/ /\ Gone(Target)
          /\ plans' = [plans EXCEPT ![run.plan].status = "failed", ![run.plan].actions[run.at].status = "failed"]
          /\ run' = [pc |-> "idle"] /\ UNCHANGED <<live, again>>
    /\ UNCHANGED <<writes, byHand, marked, linked, planner, counts>>

\* The worker, or Mist's answer, is lost: the write in flight may have happened.
Stop ==
    /\ run.pc # "idle" /\ stops < MaxStops
    /\ \/ run.pc = "write" /\ Applied
       \/ UNCHANGED <<live, again>>
    /\ plans' = [plans EXCEPT ![run.plan].status = "failed",
                     ![run.plan].actions = [i \in DOMAIN Acts |->
                         IF Acts[i].status = "executing" THEN [Acts[i] EXCEPT !.status = "unconfirmed"] ELSE Acts[i]]]
    /\ run' = [pc |-> "idle"] /\ stops' = stops + 1
    /\ UNCHANGED <<writes, byHand, marked, linked, planner, edits, formulas>>

\* The verifier refuses success, or the restore is marked compensated with it.
Verify ==
    /\ run.pc = "verify"
    /\ \/ Close("compensated") /\ marked' = TRUE
       \/ Close("failed") /\ UNCHANGED marked
    /\ run' = [pc |-> "idle"]
    /\ UNCHANGED <<writes, mistVars, linked, planner, counts>>

------------------------
\* Someone else's edits of the same objects.
ByHand(o) ==
    /\ edits < MaxEdits /\ edits' = edits + 1
    /\ \/ live[o] # "absent" /\ \E v \in {"hand", "absent"} : live' = [live EXCEPT ![o] = v] /\ UNCHANGED byHand
       \/ live[o] = "absent" /\ byHand' = byHand \union {o} /\ UNCHANGED live
    /\ UNCHANGED <<writes, again, marked, planVars, planner, run, stops, formulas>>

Next ==
    \/ \E p \in Planners :
          ReadEarlier(p) \/ Insert(p) \/ Record(p) \/ Link(p) \/ _retire_stale(p) \/ RequestLost(p)
    \/ FormulaChanges \/ Queue \/ Capture \/ Check \/ Write \/ Stop \/ Verify
    \/ \E o \in Orders : ByHand(o)

Spec == Init /\ [][Next]_vars

------------------------
\* Properties.
Values == {"absent", "old", "new", "hand", "masked"}
TypeOK ==
    /\ live \in [Orders -> Values] /\ byHand \subseteq Orders
    /\ linked \in 0 .. Len(plans)
    /\ \A p \in DOMAIN plans : plans[p].status \in
           {"planned", "queued", "running", "failed", "compensated", "superseded"}
    /\ Cardinality({p \in DOMAIN plans : plans[p].status = "running"}) = (IF run.pc = "idle" THEN 0 ELSE 1)

\* A fix made by hand after the restore failed is not overwritten: a reversal
\* replaces an edit only where the restore's own write was never confirmed, or
\* where the edit came between the last check and the write
\* (capture_safety_snapshot, check_before_write).
KeepsHandEdits ==
    \A o \in Orders : live[o] = "hand" /\ live'[o] # "hand" /\ edits' = edits =>
        unconfirmed_write(writes[o]) \/ run.entry[o] # "hand"
HandEditsSurvive == [][KeepsHandEdits]_vars

\* However often a compensation stops and is planned again, reversals recreate
\* an object that has a name at most once (_refuse_name_collision).
RecreatedOnce == \A o \in Orders : writes[o].named => again[o] <= 1

\* A restore reported compensated has had each write it may have applied
\* reversed or found already reversed, by this compensation or an earlier one,
\* but for creates no id is known of (_reverse, _earlier_compensations).
NothingIsLeft ==
    marked => \A o \in Orders :
        \/ ~possibly_applied(writes[o])
        \/ unconfirmed_write(writes[o]) /\ writes[o].kind = "create"
        \/ \E p \in DOMAIN plans : \E i \in DOMAIN plans[p].actions :
               plans[p].actions[i].reverses = o /\ plans[p].actions[i].status \in {"completed", "skipped"}

\* A mask Mist returned for a secret is never written back as its value
\* (_describes, unavailable_secret_errors).
NoMaskIsWritten == \A o \in Orders : live[o] # "masked"

\* The compensation a restore leads to is never a retired one: a retired plan is
\* refused, and would leave the restore with none that can ever run
\* (_earlier_compensations, find_compensation_of).
LinkedIsNotRetired == compensation_for # None => plans[compensation_for].status # "superseded"

\* Two compensations that would reverse the same writes never await review or
\* run together (create_compensation_plan).
OneCompensationAtATime ==
    Cardinality({p \in Recorded : plans[p].current /\ plans[p].status \in {"planned", "queued", "running"}}) <= 1
=============================================================================
