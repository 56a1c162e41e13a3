--------------------------- MODULE RestoreApproval ---------------------------
\* Two-person approval of a restore plan.
\*
\* An approval is asked for on a draft, decided by a second administrator,
\* and moved to the plan that a fresh backup of the draft produces, if that
\* plan makes the same changes.  Executing a plan that the policy covers
\* needs it.  Every request reads the approval, folds staleness and expiry
\* into it and works on that copy; decisions are one conditional update, the
\* other writes save the whole copy.
EXTENDS Integers, FiniteSets

CONSTANTS
    Users,       \* administrators
    Prepared,    \* plans that preparations of the draft build
    Changed,     \* those whose backup left other changes to make
    Requests,    \* API requests in progress
    MaxDocs,     \* bound on approvals
    MaxTerms     \* bound on the times one approval is opened

Draft == "draft"
Plans == Prepared \union {Draft}
Docs == 1 .. MaxDocs
Changes(p) == p \in Changed  \* compute_intent_hash and compute_action_signature

VARIABLES
    plan,     \* the restore plans
    doc,      \* the stored approvals
    lapsed,   \* <<approval, term>>: expires_at has passed
    request,  \* each request's locals
    queued    \* for each plan queued, the approval its request found

vars == <<plan, doc, lapsed, request, queued>>

NoPlan == [status |-> "none", by |-> "none"]
NoDoc == [status |-> "none", plan |-> Draft, changes |-> FALSE, term |-> 0,
          by |-> "none", decided |-> "none"]
Idle == [pc |-> "idle", op |-> "none", user |-> "none", plan |-> Draft, doc |-> 0, copy |-> NoDoc]

Init ==
    /\ plan = [p \in Plans |-> IF p = Draft THEN [NoPlan EXCEPT !.status = "planned"] ELSE NoPlan]
    /\ doc = [d \in Docs |-> NoDoc]
    /\ lapsed = {}
    /\ request = [r \in Requests |-> Idle]
    /\ queued = [p \in Plans |-> NoDoc]

Open(d) == doc[d].status \in {"pending", "approved"}
Bound(p) == {d \in Docs : doc[d].status # "none" /\ doc[d].plan = p}

Set(r, l) == request' = [request EXCEPT ![r] = l]
Goto(r, pc) == Set(r, [request[r] EXCEPT !.pc = pc])
Done(r) == Set(r, Idle)

\* A save writes the whole copy, whatever the approval has become.  The unique
\* index refuses a second approval bound to one plan.
Save(r, copy) ==
    LET d == request[r].doc IN
    doc' = IF Bound(copy.plan) \ {d} # {} THEN doc ELSE [doc EXCEPT ![d] = copy]

------------------------
\* Reading an approval, as every request does first.
Load(r, l, d) ==
    /\ request[r] = Idle
    /\ Set(r, [l EXCEPT !.pc = "refresh", !.doc = d, !.copy = doc[d]])
    /\ UNCHANGED <<plan, doc, lapsed, queued>>

Named(op, u, p) == [Idle EXCEPT !.op = op, !.user = u, !.plan = p]
LoadBound(r, op, u, p) == \E d \in Bound(p) : Load(r, Named(op, u, p), d)
LoadNone(r, op, u, p) ==
    /\ request[r] = Idle /\ Bound(p) = {}
    /\ Set(r, [Named(op, u, p) EXCEPT !.pc = op])
    /\ UNCHANGED <<plan, doc, lapsed, queued>>

\* _refresh.  Nothing changes a stored plan's actions, so its hash is the one
\* the approval was bound to; the expiry remains.
Fresh(d, copy) ==
    IF copy.status \in {"pending", "approved"} /\ <<d, copy.term>> \in lapsed
    THEN "expired" ELSE copy.status

Refresh(r) ==
    LET l == request[r]
        copy == [l.copy EXCEPT !.status = Fresh(l.doc, l.copy)] IN
    /\ l.pc = "refresh"
    /\ IF copy = l.copy THEN UNCHANGED doc ELSE Save(r, copy)
    /\ Set(r, IF l.op = "read" THEN Idle ELSE [l EXCEPT !.pc = l.op, !.copy = copy])
    /\ UNCHANGED <<plan, lapsed, queued>>

------------------------
\* Asking and deciding.
AskFor(r, u, p) ==
    /\ plan[p].status = "planned"
    /\ LoadBound(r, "ask", u, p) \/ LoadNone(r, "ask", u, p)

NewTerm(l, term) ==
    [status |-> "pending", plan |-> l.plan, changes |-> Changes(l.plan),
     term |-> term, by |-> l.user, decided |-> "none"]

\* request: insert; of two requests at once the unique index keeps one.
Insert(r) ==
    LET l == request[r] IN
    /\ l.pc = "ask" /\ l.doc = 0
    /\ IF Bound(l.plan) # {} THEN UNCHANGED doc
       ELSE \E d \in Docs : /\ doc[d].status = "none"
                            /\ doc' = [doc EXCEPT ![d] = NewTerm(l, 1)]
    /\ Done(r)
    /\ UNCHANGED <<plan, lapsed, queued>>

\* _reopen: whoever asks again is the requester; a rejection stays.
Reopen(r) ==
    LET l == request[r] IN
    /\ l.pc = "ask" /\ l.doc # 0
    /\ IF l.copy.status \in {"expired", "invalidated"}
       THEN l.copy.term < MaxTerms /\ Save(r, NewTerm(l, l.copy.term + 1))
       ELSE UNCHANGED doc
    /\ Done(r)
    /\ UNCHANGED <<plan, lapsed, queued>>

DecideSlip(r) ==
    LET l == request[r]
        d == l.doc IN
    /\ l.pc = "decide"
    /\ IF l.copy.status = "pending" /\ l.copy.by # l.user /\ doc[d].status = "pending"
       THEN \E s \in {"approved", "rejected"} :
                doc' = [doc EXCEPT ![d].status = s, ![d].decided = l.user]
       ELSE UNCHANGED doc
    /\ Done(r)
    /\ UNCHANGED <<plan, lapsed, queued>>
\* record_decision: one update, conditional on pending and on the requester.
Decide(r) ==
    LET l == request[r]
        d == l.doc IN
    /\ l.pc = "decide"
    /\ IF /\ l.copy.status = "pending" /\ l.copy.by # l.user
          /\ doc[d].status = "pending" /\ doc[d].by # l.user
       THEN \E s \in {"approved", "rejected"} :
                doc' = [doc EXCEPT ![d].status = s, ![d].decided = l.user]
       ELSE UNCHANGED doc
    /\ Done(r)
    /\ UNCHANGED <<plan, lapsed, queued>>

\* expire_pending_approvals
Expire(d) ==
    /\ doc[d].status = "pending" /\ <<d, doc[d].term>> \in lapsed
    /\ doc' = [doc EXCEPT ![d].status = "expired"]
    /\ UNCHANGED <<plan, lapsed, request, queued>>

------------------------
\* Preparing and executing.
\* The prepared plan is stored, then the draft is superseded unless another
\* plan or a start reached it first, then the approval is carried.
Prepare(r, u, p) ==
    /\ request[r] = Idle /\ plan[Draft].status = "planned" /\ plan[p].status = "none"
    /\ plan' = [plan EXCEPT ![p] = [status |-> "planned", by |-> u]]
    /\ Set(r, [Named("carry", u, p) EXCEPT !.pc = "supersede"])
    /\ UNCHANGED <<doc, lapsed, queued>>

Supersede(r) ==
    /\ request[r].pc = "supersede"
    /\ IF plan[Draft].status = "planned"
       THEN plan' = [plan EXCEPT ![Draft].status = "superseded"] /\ Goto(r, "find")
       ELSE UNCHANGED plan /\ Done(r)
    /\ UNCHANGED <<doc, lapsed, queued>>

FindCarried(r) ==
    /\ request[r].pc = "find"
    /\ IF Bound(Draft) = {} THEN Done(r)
       ELSE \E d \in Bound(Draft) : Set(r, [request[r] EXCEPT !.pc = "refresh", !.doc = d, !.copy = doc[d]])
    /\ UNCHANGED <<plan, doc, lapsed, queued>>

\* carry_to_prepared: rebound when the changes are the same, else retired.
Carried(copy, p) ==
    IF copy.changes = Changes(p) THEN [copy EXCEPT !.plan = p]
    ELSE [copy EXCEPT !.status = "invalidated"]

Carry(r) ==
    LET l == request[r] IN
    /\ l.pc = "carry"
    /\ IF l.copy.status \in {"pending", "approved"} THEN Save(r, Carried(l.copy, l.plan))
       ELSE UNCHANGED doc
    /\ Done(r)
    /\ UNCHANGED <<plan, lapsed, queued>>

\* execute: the requester of a prepared plan.
StartExecute(r, u, p) ==
    /\ p \in Prepared /\ plan[p].status = "planned" /\ plan[p].by = u
    /\ LoadBound(r, "execute", u, p) \/ LoadNone(r, "execute", u, p)

\* assert_execution_allowed, then authorize reserves a plan still planned.
Execute(r) ==
    LET l == request[r] IN
    /\ l.pc = "execute"
    /\ IF l.copy.status = "approved" /\ plan[l.plan].status = "planned"
       THEN /\ plan' = [plan EXCEPT ![l.plan].status = "queued"]
            /\ queued' = [queued EXCEPT ![l.plan] = l.copy]
       ELSE UNCHANGED <<plan, queued>>
    /\ Done(r)
    /\ UNCHANGED <<doc, lapsed>>

RequestLost(r) == request[r] # Idle /\ Done(r) /\ UNCHANGED <<plan, doc, lapsed, queued>>

Lapse(d) ==
    /\ Open(d) /\ <<d, doc[d].term>> \notin lapsed
    /\ lapsed' = lapsed \union {<<d, doc[d].term>>}
    /\ UNCHANGED <<plan, doc, request, queued>>

Next ==
    \/ \E r \in Requests :
           \/ Refresh(r) \/ Insert(r) \/ Reopen(r) \/ Decide(r) \/ Supersede(r)
           \/ FindCarried(r) \/ Carry(r) \/ Execute(r) \/ RequestLost(r)
           \/ \E u \in Users, p \in Plans : AskFor(r, u, p) \/ StartExecute(r, u, p)
           \/ \E u \in Users, p \in Prepared : Prepare(r, u, p)
           \/ \E u \in Users, d \in Docs : Open(d) /\ Load(r, Named("decide", u, Draft), d)
           \/ \E d \in Docs : Open(d) /\ Load(r, Named("read", "none", Draft), d)
    \/ \E d \in Docs : Expire(d) \/ Lapse(d)

Spec == Init /\ [][Next]_vars

------------------------
\* Properties.
\* The index on the plan holds, and an approval open on a prepared plan is
\* bound to the changes that plan makes.
TypeOK ==
    /\ \A p \in Plans : Cardinality(Bound(p)) <= 1
    /\ \A d \in Docs : Open(d) => doc[d].changes = Changes(doc[d].plan)

\* Nothing is approved, or queued, that one administrator asked for and
\* decided alone, or that makes other changes than those reviewed, though
\* requests are reopened, carried, expired and decided from copies read
\* earlier (record_decision, _reopen, carry_to_prepared).
TwoPersons ==
    /\ \A d \in Docs : doc[d].status = "approved" => doc[d].decided \notin {"none", doc[d].by}
    /\ \A p \in Plans : plan[p].status = "queued" =>
           /\ queued[p].decided \notin {"none", queued[p].by}
           /\ queued[p].changes = Changes(p)
=============================================================================
