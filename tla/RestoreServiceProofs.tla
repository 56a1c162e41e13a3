----------------------- MODULE RestoreServiceProofs -----------------------
\* The services around a restore: who approved it, what reverses it when it
\* failed, what verifies it.  They share no state, a section is for each.
\*
\* Approvals: two persons stand behind everything approved or queued, however
\* the requests that ask, decide, carry and execute interleave.
EXTENDS RestoreApproval, Sequences, FiniteSetTheorems, SequenceTheorems, WellFoundedInduction, TLAPS

Names == Users \union {"none"}
Doc == [status : {"none", "pending", "approved", "rejected", "expired", "invalidated"},
        plan : Plans, changes : BOOLEAN, term : Nat, by : Names, decided : Names]
Request == [pc : {"idle", "refresh", "supersede", "find", "read", "ask", "decide", "carry", "execute"},
            op : {"none", "read", "ask", "decide", "carry", "execute"},
            user : Names, plan : Plans, doc : Docs \union {0}, copy : Doc]

\* What makes an approval sound, in the database or in a request's hands: a second
\* administrator decided it, and while it is open it is bound to its plan's changes.
Sound(c) ==
    /\ c.status = "approved" => c.decided \notin {"none", c.by}
    /\ c.status \in {"pending", "approved"} => c.changes = Changes(c.plan)

\* A plan is executed on the approval that is bound to it.
RequestOK(l) ==
    /\ Sound(l.copy)
    /\ l.op = "none" => l.pc = "idle"
    /\ l.pc \in {"supersede", "find"} => l.op = "carry"
    /\ l.pc \in {"decide", "execute"} => l.op = l.pc
    /\ l.op = "decide" => l.user \in Users
    /\ l.op = "execute" /\ l.copy.status # "none" => l.copy.plan = l.plan

DocsOK ==
    /\ doc \in [Docs -> Doc]
    /\ \A d \in Docs : Sound(doc[d])
    /\ \A d, e \in Docs : doc[d].status # "none" /\ doc[e].status # "none" /\ doc[d].plan = doc[e].plan => d = e

RequestsOK ==
    /\ request \in [Requests -> Request]
    /\ \A r \in Requests : RequestOK(request[r])

PlansOK ==
    /\ plan \in [Plans -> [status : {"none", "planned", "superseded", "queued"}, by : Names]]
    /\ queued \in [Plans -> Doc]
    /\ \A p \in Plans : plan[p].status = "queued" =>
          queued[p].decided \notin {"none", queued[p].by} /\ queued[p].changes = Changes(p)

Inv == DocsOK /\ RequestsOK /\ PlansOK

-----------------------------------------------------------------------------
LEMMA NoDocOK == NoDoc \in Doc /\ Sound(NoDoc)
  BY DEF NoDoc, Doc, Sound, Names, Plans

LEMMA IdleOK == Idle \in Request /\ RequestOK(Idle)
  BY NoDocOK DEF Idle, Request, RequestOK, Names, Plans, NoDoc

LEMMA Moves ==
    ASSUME RequestsOK, NEW r \in Requests, NEW l \in Request, RequestOK(l), Set(r, l)
    PROVE  RequestsOK'
<1>1. request' = [request EXCEPT ![r] = l] /\ request \in [Requests -> Request]
  BY DEF Set, RequestsOK
<1>2. ASSUME NEW q \in Requests PROVE RequestOK(request'[q])
  BY <1>1 DEF RequestsOK
<1>. QED BY <1>1, <1>2 DEF RequestsOK, RequestOK, Sound, Changes

LEMMA Finishes ==
    ASSUME RequestsOK, NEW r \in Requests, Done(r)
    PROVE  RequestsOK'
  BY IdleOK, Moves DEF Done

\* One approval is written: what is written is sound, and if it exists, no other is
\* bound to its plan.
LEMMA Writes ==
    ASSUME DocsOK, NEW d, NEW c \in Doc, Sound(c), doc' = [doc EXCEPT ![d] = c],
           c.status # "none" => \A e \in Docs : e # d /\ doc[e].status # "none" => doc[e].plan # c.plan
    PROVE  DocsOK'
<1>1. doc \in [Docs -> Doc] /\ doc' \in [Docs -> Doc]
  BY DEF DocsOK
<1>2. \A e \in Docs : doc'[e] = IF e = d THEN c ELSE doc[e]
  BY <1>1
<1>3. \A e \in Docs : Sound(doc'[e])
  BY <1>2 DEF DocsOK
<1>4. \A e, f \in Docs : doc'[e].status # "none" /\ doc'[f].status # "none" /\ doc'[e].plan = doc'[f].plan => e = f
  BY <1>2 DEF DocsOK
<1>. QED BY <1>1, <1>3, <1>4 DEF DocsOK, Sound, Changes

LEMMA Saves ==
    ASSUME DocsOK, NEW r \in Requests, NEW c \in Doc, Sound(c), Save(r, c)
    PROVE  DocsOK'
<1>1. CASE UNCHANGED doc
  BY <1>1 DEF DocsOK, Sound, Changes
<1>2. CASE ~UNCHANGED doc
 <2>1. /\ Bound(c.plan) \ {request[r].doc} = {}
       /\ doc' = [doc EXCEPT ![request[r].doc] = c]
   BY <1>2 DEF Save
 <2>2. \A e \in Docs : e # request[r].doc /\ doc[e].status # "none" => doc[e].plan # c.plan
   BY <2>1 DEF Bound
 <2>. QED BY <2>1, <2>2, Writes
<1>. QED BY <1>1, <1>2

LEMMA Stays ==
    ASSUME Inv, UNCHANGED <<plan, queued>>
    PROVE  PlansOK'
  BY DEF Inv, PlansOK, Changes

LEMMA Untouched ==
    ASSUME Inv, UNCHANGED doc
    PROVE  DocsOK'
  BY DEF Inv, DocsOK, Sound, Changes

LEMMA Locals ==
    ASSUME Inv, NEW r \in Requests
    PROVE  request[r] \in Request /\ RequestOK(request[r])
  BY DEF Inv, RequestsOK

-----------------------------------------------------------------------------
LEMMA LoadStep ==
    ASSUME Inv, NEW r \in Requests, NEW op \in {"read", "ask", "decide", "execute"},
           NEW u \in Names, NEW p \in Plans, NEW d \in Docs,
           op = "decide" => u \in Users, op = "execute" => doc[d].plan = p,
           Load(r, Named(op, u, p), d)
    PROVE  Inv'
<1>. DEFINE l == [Named(op, u, p) EXCEPT !.pc = "refresh", !.doc = d, !.copy = doc[d]]
<1>1. doc[d] \in Doc /\ Sound(doc[d])
  BY DEF Inv, DocsOK
<1>2. /\ l \in Request
      /\ l.pc = "refresh" /\ l.op = op /\ l.user = u /\ l.plan = p /\ l.copy = doc[d]
  BY <1>1, IdleOK DEF Named, Request
<1>3. Set(r, l) /\ UNCHANGED <<plan, doc, queued>>
  BY DEF Load
<1>. HIDE DEF l
<1>4. RequestOK(l)
  BY <1>1, <1>2 DEF RequestOK
<1>. QED BY <1>2, <1>3, <1>4, Moves, Stays, Untouched DEF Inv

LEMMA NoneStep ==
    ASSUME Inv, NEW r \in Requests, NEW op \in {"ask", "execute"}, NEW u \in Users, NEW p \in Plans,
           LoadNone(r, op, u, p)
    PROVE  Inv'
<1>. DEFINE l == [Named(op, u, p) EXCEPT !.pc = op]
<1>1. /\ l \in Request
      /\ l.pc = op /\ l.op = op /\ l.user = u /\ l.plan = p /\ l.copy = NoDoc
  BY IdleOK DEF Named, Idle, Request, Names
<1>2. Set(r, l) /\ UNCHANGED <<plan, doc, queued>>
  BY DEF LoadNone
<1>. HIDE DEF l
<1>3. RequestOK(l)
  BY <1>1, NoDocOK DEF RequestOK, NoDoc
<1>. QED BY <1>1, <1>2, <1>3, Moves, Stays, Untouched DEF Inv

LEMMA BoundStep ==
    ASSUME Inv, NEW r \in Requests, NEW op \in {"ask", "execute"}, NEW u \in Users, NEW p \in Plans,
           LoadBound(r, op, u, p) \/ LoadNone(r, op, u, p)
    PROVE  Inv'
<1>1. CASE LoadBound(r, op, u, p)
 <2>1. PICK d \in Docs : doc[d].plan = p /\ Load(r, Named(op, u, p), d)
   BY <1>1 DEF LoadBound, Bound
 <2>. QED BY <2>1, LoadStep DEF Names
<1>. QED BY <1>1, NoneStep

LEMMA RefreshStep ==
    ASSUME Inv, NEW r \in Requests, Refresh(r)
    PROVE  Inv'
<1>. DEFINE status == Fresh(request[r].doc, request[r].copy)
            copy == [request[r].copy EXCEPT !.status = status]
            l == [request[r] EXCEPT !.pc = request[r].op, !.copy = copy]
<1>1. request[r] \in Request /\ RequestOK(request[r])
  BY Locals
<1>2. /\ request[r].copy \in Doc /\ status \in {"expired", request[r].copy.status}
      /\ request[r].copy.status = "none" => status = "none"
  BY <1>1 DEF Request, Fresh
<1>3. /\ request[r].pc = "refresh" /\ UNCHANGED <<plan, queued>>
      /\ UNCHANGED doc \/ Save(r, copy)
      /\ Set(r, IF request[r].op = "read" THEN Idle ELSE l)
  BY DEF Refresh
<1>. HIDE DEF status
<1>4. /\ copy \in Doc /\ copy.status = status /\ copy.plan = request[r].copy.plan
      /\ copy.changes = request[r].copy.changes
      /\ copy.by = request[r].copy.by /\ copy.decided = request[r].copy.decided
  BY <1>2 DEF Doc
<1>. HIDE DEF copy
<1>5. Sound(copy)
  BY <1>1, <1>2, <1>4 DEF Sound, RequestOK
<1>6. DocsOK'
  BY <1>3, <1>4, <1>5, Saves, Untouched DEF Inv
<1>7. CASE request[r].op = "read"
  BY <1>3, <1>6, <1>7, IdleOK, Moves, Stays DEF Inv
<1>8. CASE request[r].op # "read"
 <2>0. request[r].op # "none"
   BY <1>1, <1>3 DEF RequestOK
 <2>1. /\ l \in Request /\ l.pc = request[r].op /\ l.op = request[r].op
       /\ l.user = request[r].user /\ l.plan = request[r].plan /\ l.copy = copy
   BY <1>1, <1>4, <1>8, <2>0 DEF Request
 <2>. HIDE DEF l
 <2>2. RequestOK(l)
  <3>1. l.pc \notin {"idle", "supersede", "find"}
    BY <1>1, <2>1 DEF Request
  <3>2. l.copy.status # "none" => request[r].copy.status # "none"
    BY <1>2, <1>4, <2>1
  <3>. QED BY <1>1, <1>4, <1>5, <2>0, <2>1, <3>1, <3>2 DEF RequestOK
 <2>. QED BY <1>3, <1>6, <1>8, <2>1, <2>2, Moves, Stays DEF Inv
<1>. QED BY <1>7, <1>8

\* Asking anew: pending, for the changes of the plan that is asked for.
LEMMA NewTermOK ==
    ASSUME NEW l \in Request, NEW term \in Nat
    PROVE  NewTerm(l, term) \in Doc /\ Sound(NewTerm(l, term)) /\ NewTerm(l, term).plan = l.plan
  BY DEF NewTerm, Request, Doc, Sound, Changes, Names

LEMMA InsertStep ==
    ASSUME Inv, NEW r \in Requests, Insert(r)
    PROVE  Inv'
<1>1. request[r] \in Request
  BY Locals
<1>2. Done(r) /\ UNCHANGED <<plan, queued>>
  BY DEF Insert
<1>3. DocsOK'
 <2>1. CASE UNCHANGED doc
   BY <2>1, Untouched
 <2>2. CASE ~UNCHANGED doc
  <3>. DEFINE c == NewTerm(request[r], 1)
  <3>1. Bound(request[r].plan) = {}
    BY <2>2 DEF Insert
  <3>2. PICK d \in Docs : doc' = [doc EXCEPT ![d] = c]
    BY <2>2, <3>1 DEF Insert
  <3>3. c \in Doc /\ Sound(c) /\ c.plan = request[r].plan
    BY <1>1, NewTermOK
  <3>. HIDE DEF c
  <3>4. \A e \in Docs : e # d /\ doc[e].status # "none" => doc[e].plan # c.plan
    BY <3>1, <3>3 DEF Bound
  <3>. QED BY <3>2, <3>3, <3>4, Writes DEF Inv
 <2>. QED BY <2>1, <2>2
<1>. QED BY <1>2, <1>3, Finishes, Stays DEF Inv

LEMMA ReopenStep ==
    ASSUME Inv, NEW r \in Requests, Reopen(r)
    PROVE  Inv'
<1>1. request[r] \in Request /\ request[r].copy.term + 1 \in Nat
  BY Locals DEF Request, Doc
<1>2. Done(r) /\ UNCHANGED <<plan, queued>>
  BY DEF Reopen
<1>3. UNCHANGED doc \/ Save(r, NewTerm(request[r], request[r].copy.term + 1))
  BY DEF Reopen
<1>4. DocsOK'
  BY <1>1, <1>3, NewTermOK, Saves, Untouched DEF Inv
<1>. QED BY <1>2, <1>4, Finishes, Stays DEF Inv

\* The update is conditional on pending and on the requester, so whoever is stored
\* as the requester when it applies is not the one who decides.
LEMMA DecideStep ==
    ASSUME "none" \notin Users, Inv, NEW r \in Requests, Decide(r)
    PROVE  Inv'
<1>1. request[r] \in Request /\ request[r].user \in Users
  BY Locals DEF Decide, RequestOK
<1>2. Done(r) /\ UNCHANGED <<plan, queued>>
  BY DEF Decide
<1>3. DocsOK'
 <2>1. CASE UNCHANGED doc
   BY <2>1, Untouched
 <2>2. CASE ~UNCHANGED doc
  <3>0. PICK d : d = request[r].doc
    OBVIOUS
  <3>1. PICK s \in {"approved", "rejected"} :
           /\ doc[d].status = "pending" /\ doc[d].by # request[r].user
           /\ doc' = [doc EXCEPT ![d].status = s, ![d].decided = request[r].user]
    BY <2>2, <3>0 DEF Decide
  <3>2. CASE d \in Docs
   <4>. DEFINE c == [doc[d] EXCEPT !.status = s, !.decided = request[r].user]
   <4>1. doc[d] \in Doc /\ Sound(doc[d]) /\ doc \in [Docs -> Doc]
     BY <3>2 DEF Inv, DocsOK
   <4>2. doc' = [doc EXCEPT ![d] = c]
     BY <3>1, <3>2, <4>1
   <4>3. /\ c \in Doc /\ c.status = s /\ c.decided = request[r].user
         /\ c.by = doc[d].by /\ c.plan = doc[d].plan /\ c.changes = doc[d].changes
     BY <1>1, <4>1 DEF Doc, Names
   <4>. HIDE DEF c
   <4>4. Sound(c)
     BY <1>1, <3>1, <4>1, <4>3 DEF Sound
   <4>5. \A e \in Docs : e # d /\ doc[e].status # "none" => doc[e].plan # c.plan
     BY <3>1, <3>2, <4>3 DEF Inv, DocsOK
   <4>. QED BY <4>2, <4>3, <4>4, <4>5, Writes DEF Inv
  <3>3. CASE d \notin Docs
    BY <3>1, <3>3, <2>2 DEF Inv, DocsOK
  <3>. QED BY <3>2, <3>3
 <2>. QED BY <2>1, <2>2
<1>. QED BY <1>2, <1>3, Finishes, Stays DEF Inv

LEMMA ExpireStep ==
    ASSUME Inv, NEW d \in Docs, Expire(d) \/ Lapse(d)
    PROVE  Inv'
<1>1. UNCHANGED <<plan, request, queued>>
  BY DEF Expire, Lapse
<1>2. RequestsOK'
  BY <1>1 DEF Inv, RequestsOK, RequestOK, Sound, Changes
<1>3. DocsOK'
 <2>1. CASE Lapse(d)
   BY <2>1, Untouched DEF Lapse
 <2>2. CASE Expire(d)
  <3>. DEFINE c == [doc[d] EXCEPT !.status = "expired"]
  <3>1. doc[d] \in Doc /\ doc[d].status = "pending"
    BY <2>2 DEF Expire, Inv, DocsOK
  <3>2. doc' = [doc EXCEPT ![d] = c]
    BY <2>2 DEF Expire
  <3>3. c \in Doc /\ c.status = "expired" /\ c.plan = doc[d].plan
    BY <3>1 DEF Doc
  <3>. HIDE DEF c
  <3>4. Sound(c)
    BY <3>3 DEF Sound
  <3>5. \A e \in Docs : e # d /\ doc[e].status # "none" => doc[e].plan # c.plan
    BY <3>1, <3>3 DEF Inv, DocsOK
  <3>. QED BY <3>2, <3>3, <3>4, <3>5, Writes DEF Inv
 <2>. QED BY <2>1, <2>2
<1>. QED BY <1>1, <1>2, <1>3, Stays DEF Inv

-----------------------------------------------------------------------------
LEMMA PrepareStep ==
    ASSUME Inv, NEW r \in Requests, NEW u \in Users, NEW p \in Prepared, Prepare(r, u, p)
    PROVE  Inv'
<1>. DEFINE l == [Named("carry", u, p) EXCEPT !.pc = "supersede"]
<1>1. p \in Plans /\ u \in Names
  BY DEF Plans, Names
<1>2. /\ l \in Request
      /\ l.pc = "supersede" /\ l.op = "carry" /\ l.copy = NoDoc
  BY <1>1, IdleOK DEF Named, Idle, Request
<1>3. /\ Set(r, l) /\ UNCHANGED <<doc, queued>>
      /\ plan' = [plan EXCEPT ![p] = [status |-> "planned", by |-> u]]
  BY DEF Prepare
<1>. HIDE DEF l
<1>4. RequestOK(l)
  BY <1>2, NoDocOK DEF RequestOK
<1>5. PlansOK'
  BY <1>1, <1>3 DEF Inv, PlansOK, Changes
<1>. QED BY <1>2, <1>3, <1>4, <1>5, Moves, Untouched DEF Inv

LEMMA SupersedeStep ==
    ASSUME Inv, NEW r \in Requests, Supersede(r)
    PROVE  Inv'
<1>1. request[r] \in Request /\ RequestOK(request[r]) /\ request[r].op = "carry"
  BY Locals DEF Supersede, RequestOK
<1>2. UNCHANGED <<doc, queued>>
  BY DEF Supersede
<1>3. PlansOK'
 <2>1. CASE UNCHANGED plan
   BY <1>2, <2>1, Stays
 <2>2. CASE plan' = [plan EXCEPT ![Draft].status = "superseded"]
   BY <1>2, <2>2 DEF Inv, PlansOK, Changes
 <2>. QED BY <2>1, <2>2 DEF Supersede
<1>4. RequestsOK'
 <2>1. CASE Done(r)
   BY <2>1, Finishes DEF Inv
 <2>2. CASE Goto(r, "find")
  <3>. DEFINE l == [request[r] EXCEPT !.pc = "find"]
  <3>1. l \in Request /\ RequestOK(l)
   <4>1. /\ l \in Request /\ l.pc = "find" /\ l.op = "carry" /\ l.copy = request[r].copy
     BY <1>1 DEF Request
   <4>. HIDE DEF l
   <4>. QED BY <1>1, <4>1 DEF RequestOK
  <3>. QED BY <2>2, <3>1, Moves DEF Inv, Goto
 <2>. QED BY <2>1, <2>2 DEF Supersede
<1>. QED BY <1>2, <1>3, <1>4, Untouched DEF Inv

LEMMA FindCarriedStep ==
    ASSUME Inv, NEW r \in Requests, FindCarried(r)
    PROVE  Inv'
<1>1. request[r] \in Request /\ RequestOK(request[r]) /\ request[r].op = "carry"
  BY Locals DEF FindCarried, RequestOK
<1>2. UNCHANGED <<plan, doc, queued>>
  BY DEF FindCarried
<1>3. CASE Done(r)
  BY <1>2, <1>3, Finishes, Stays, Untouched DEF Inv
<1>4. CASE ~Done(r)
 <2>1. PICK d \in Docs :
          Set(r, [request[r] EXCEPT !.pc = "refresh", !.doc = d, !.copy = doc[d]])
   BY <1>4 DEF FindCarried, Bound
 <2>. DEFINE l == [request[r] EXCEPT !.pc = "refresh", !.doc = d, !.copy = doc[d]]
 <2>2. doc[d] \in Doc /\ Sound(doc[d])
   BY DEF Inv, DocsOK
 <2>3. l \in Request /\ l.pc = "refresh" /\ l.op = "carry" /\ l.copy = doc[d]
   BY <1>1, <2>2 DEF Request
 <2>4. RequestOK(l)
   BY <2>2, <2>3 DEF RequestOK
 <2>. QED BY <1>2, <2>1, <2>3, <2>4, Moves, Stays, Untouched DEF Inv
<1>. QED BY <1>3, <1>4

\* An approval moves only to a plan that makes the changes it was reviewed for.
LEMMA CarryStep ==
    ASSUME Inv, NEW r \in Requests, Carry(r)
    PROVE  Inv'
<1>. DEFINE c == Carried(request[r].copy, request[r].plan)
<1>1. /\ request[r].copy \in Doc /\ request[r].plan \in Plans /\ Sound(request[r].copy)
  BY Locals DEF Request, RequestOK
<1>2. Done(r) /\ UNCHANGED <<plan, queued>> /\ (UNCHANGED doc \/ Save(r, c))
  BY DEF Carry
<1>3. c \in Doc /\ Sound(c)
 <2>1. CASE request[r].copy.changes = Changes(request[r].plan)
   BY <1>1, <2>1 DEF Carried, Doc, Sound
 <2>2. CASE request[r].copy.changes # Changes(request[r].plan)
   BY <1>1, <2>2 DEF Carried, Doc, Sound
 <2>. QED BY <2>1, <2>2
<1>. HIDE DEF c
<1>4. DocsOK'
  BY <1>2, <1>3, Saves, Untouched DEF Inv
<1>. QED BY <1>2, <1>4, Finishes, Stays DEF Inv

LEMMA ExecuteStep ==
    ASSUME Inv, NEW r \in Requests, Execute(r)
    PROVE  Inv'
<1>1. request[r] \in Request /\ RequestOK(request[r]) /\ request[r].op = "execute"
  BY Locals DEF Execute, RequestOK
<1>2. Done(r) /\ UNCHANGED doc
  BY DEF Execute
<1>3. PlansOK'
 <2>1. CASE UNCHANGED <<plan, queued>>
   BY <2>1, Stays
 <2>2. CASE ~UNCHANGED <<plan, queued>>
  <3>1. /\ request[r].copy.status = "approved"
        /\ plan' = [plan EXCEPT ![request[r].plan].status = "queued"]
        /\ queued' = [queued EXCEPT ![request[r].plan] = request[r].copy]
    BY <2>2 DEF Execute
  <3>2. /\ request[r].copy \in Doc /\ request[r].plan \in Plans
        /\ request[r].copy.decided \notin {"none", request[r].copy.by}
        /\ request[r].copy.changes = Changes(request[r].plan)
    BY <1>1, <3>1 DEF Request, RequestOK, Sound
  <3>. QED BY <3>1, <3>2 DEF Inv, PlansOK, Changes
 <2>. QED BY <2>1, <2>2
<1>. QED BY <1>2, <1>3, Finishes, Untouched DEF Inv

-----------------------------------------------------------------------------
LEMMA InitOK == Init => Inv
<1>. SUFFICES ASSUME Init PROVE Inv
  OBVIOUS
<1>1. DocsOK
  BY NoDocOK DEF Init, DocsOK, NoDoc
<1>2. RequestsOK
  BY IdleOK DEF Init, RequestsOK
<1>3. PlansOK
 <2>1. \A p \in Plans :
         /\ plan[p] \in [status : {"none", "planned", "superseded", "queued"}, by : Names]
         /\ plan[p].status # "queued"
   BY DEF Init, NoPlan, Names
 <2>2. plan = [p \in Plans |-> plan[p]]
   BY DEF Init
 <2>. QED BY <2>1, <2>2, NoDocOK DEF Init, PlansOK
<1>. QED BY <1>1, <1>2, <1>3 DEF Inv

LEMMA StepOK ==
    ASSUME "none" \notin Users, Inv, [Next]_vars
    PROVE  Inv'
<1>1. ASSUME NEW r \in Requests, NEW u \in Users, NEW p \in Plans, AskFor(r, u, p) \/ StartExecute(r, u, p)
      PROVE  Inv'
  BY <1>1, BoundStep DEF AskFor, StartExecute
<1>2. ASSUME NEW r \in Requests, NEW u \in Users, NEW d \in Docs, Load(r, Named("decide", u, Draft), d)
      PROVE  Inv'
  BY <1>2, LoadStep DEF Names, Plans
<1>3. ASSUME NEW r \in Requests, NEW d \in Docs, Load(r, Named("read", "none", Draft), d)
      PROVE  Inv'
  BY <1>3, LoadStep DEF Names, Plans
<1>4. ASSUME NEW r \in Requests, RequestLost(r) PROVE Inv'
  BY <1>4, Finishes, Stays, Untouched DEF RequestLost, Inv
<1>5. CASE UNCHANGED vars
  BY <1>5, Stays, Untouched DEF vars, Inv, RequestsOK, RequestOK, Sound, Changes
<1>. QED BY <1>1, <1>2, <1>3, <1>4, <1>5, RefreshStep, InsertStep, ReopenStep, DecideStep,
            ExpireStep, PrepareStep, SupersedeStep, FindCarriedStep, CarryStep, ExecuteStep
         DEF Next

\* One approval is bound to a plan (the unique index), and one that is open is bound
\* to the changes its plan makes, though whole copies are saved over it.
THEOREM ApprovalsAreBound ==
    ASSUME "none" \notin Users
    PROVE  Spec => []TypeOK
<1>1. ASSUME Inv PROVE TypeOK
 <2>1. ASSUME NEW p \in Plans PROVE Cardinality(Bound(p)) <= 1
  <3>1. CASE Bound(p) = {}
    BY <3>1, FS_EmptySet
  <3>2. CASE Bound(p) # {}
   <4>1. PICK d : d \in Bound(p)
     BY <3>2
   <4>2. Bound(p) = {d}
     BY <1>1, <4>1 DEF Bound, Inv, DocsOK
   <4>. QED BY <4>2, FS_Singleton
  <3>. QED BY <3>1, <3>2
 <2>. QED BY <1>1, <2>1 DEF TypeOK, Open, Inv, DocsOK, Sound
<1>2. Inv /\ [Next]_vars => Inv'
  BY StepOK
<1>. QED BY <1>1, <1>2, InitOK, PTL DEF Spec

\* Whatever is approved, and whatever is queued, one administrator asked for and
\* another decided, and it makes the changes that were reviewed, however requests
\* are reopened, carried, expired and decided from copies read earlier
\* (record_decision, _reopen, carry_to_prepared, assert_execution_allowed).
THEOREM TwoPersonsDecide ==
    ASSUME "none" \notin Users
    PROVE  Spec => []TwoPersons
<1>1. Inv => TwoPersons
  BY DEF Inv, DocsOK, PlansOK, Sound, TwoPersons
<1>2. Inv /\ [Next]_vars => Inv'
  BY StepOK
<1>. QED BY <1>1, <1>2, InitOK, PTL DEF Spec

\* The compensations of a failed restore (CompensationPlanning).
CONSTANTS Restores, Planners, MaxPlans, MaxEdits, MaxStops, MaxFormulas
VARIABLES writes, live, again, byHand, marked, plans, linked, planner, run, edits, stops, formulas

Reversing == INSTANCE CompensationPlanning

Change == [kind : {"create", "update", "delete"}, did : {"read", "unread", "unconfirmed", "none"},
           secret : {"none", "sourced", "unsourced"}, named : BOOLEAN]
Reversal == [reverses : Nat,
             status : {"pending", "executing", "completed", "skipped", "failed", "unconfirmed"}]
Plan == [status : {"planned", "queued", "running", "failed", "compensated", "superseded"},
         current : BOOLEAN, recorded : BOOLEAN, actions : Seq(Reversal), errors : BOOLEAN]
PlannerState ==
    [pc : {"idle"}] \union [pc : {"insert"}, stale : SUBSET Nat, reverses : Seq(Nat)]
    \union [pc : {"record", "link", "retire"}, stale : SUBSET Nat, plan : Nat]
RunState(orders) ==
    [pc : {"idle"}] \union [pc : {"capture", "verify"}, plan : Nat]
    \union [pc : {"check", "write"}, plan : Nat, at : Nat, entry : [orders -> Reversing!Values]]

\* A write that a compensation owes a reversal, and one that some plan reversed.
Due(o) ==
    /\ writes[o].did # "none"
    /\ ~(writes[o].did = "unconfirmed" /\ writes[o].kind = "create")
Undoes(a, o) == a.reverses = o /\ a.status \in {"completed", "skipped"}
Undone(o) == \E p \in DOMAIN plans : \E i \in DOMAIN plans[p].actions : Undoes(plans[p].actions[i], o)

\* What is planned: each write once, and every write that is still to be reversed.
Complete(orders) ==
    /\ orders # <<>>
    /\ \A i \in DOMAIN orders : orders[i] \in DOMAIN writes
    /\ \A i, j \in DOMAIN orders : orders[i] = orders[j] => i = j
    /\ \A o \in DOMAIN writes : Due(o) => Undone(o) \/ \E i \in DOMAIN orders : orders[i] = o
OrdersOf(a) == [i \in DOMAIN a |-> a[i].reverses]
Masks(w) == w.kind # "create" /\ w.secret = "unsourced"
PlanOK(p) ==
    LET a == plans[p].actions IN
    /\ Complete(OrdersOf(a))
    /\ \A i \in DOMAIN a : Masks(writes[a[i].reverses]) => plans[p].errors
    /\ plans[p].status = "planned" => \A i \in DOMAIN a : a[i].status = "pending"
    /\ plans[p].status = "running" => run.pc # "idle" /\ run.plan = p

\* Where a run is in its actions, and what it saw of the objects ahead of it.
Progress(r, a, w, made) ==
    /\ r.pc = "capture" => \A i \in DOMAIN a : a[i].status = "pending"
    /\ r.pc \in {"check", "write"} =>
         /\ r.at \in DOMAIN a
         /\ \A i \in 1 .. r.at - 1 : a[i].status \in {"completed", "skipped"}
         /\ a[r.at].status = IF r.pc = "check" THEN "pending" ELSE "executing"
         /\ \A i \in DOMAIN a : i > r.at => a[i].status = "pending"
         /\ \A i \in DOMAIN a : i >= r.at =>
               LET o == a[i].reverses IN
               w[o].kind = "delete" /\ w[o].named /\ r.entry[o] = "absent" => made[o] = 0
    /\ r.pc = "write" =>
         LET o == a[r.at].reverses IN
         IF w[o].kind = "delete" THEN r.entry[o] = "absent"
         ELSE w[o].did = "unconfirmed" \/ r.entry[o] # "hand"
    /\ r.pc = "verify" => \A i \in DOMAIN a : a[i].status \in {"completed", "skipped"}
RunOK ==
    run.pc # "idle" =>
        /\ run.plan \in DOMAIN plans
        /\ plans[run.plan].status = "running" /\ ~plans[run.plan].errors
        /\ Progress(run, plans[run.plan].actions, writes, again)

PlannerOK(l) ==
    /\ l.pc = "insert" => Complete(l.reverses)
    /\ l.pc \in {"record", "link", "retire"} => l.plan \in DOMAIN plans
    /\ l.pc \in {"link", "retire"} => plans[l.plan].recorded

ReversingTypes ==
    /\ writes \in Seq(Change)
    /\ live \in [DOMAIN writes -> Reversing!Values] /\ again \in [DOMAIN writes -> Nat]
    /\ byHand \subseteq DOMAIN writes /\ marked \in BOOLEAN
    /\ plans \in Seq(Plan) /\ linked \in 0 .. Len(plans)
    /\ planner \in [Planners -> PlannerState] /\ run \in RunState(DOMAIN writes)
ReversingInv ==
    /\ ReversingTypes
    /\ \A p \in DOMAIN plans : PlanOK(p)
    /\ RunOK
    /\ \A p \in Planners : PlannerOK(planner[p])
    /\ linked # 0 => plans[linked].recorded
    /\ \A o \in DOMAIN writes : live[o] # "masked" /\ (writes[o].named => again[o] <= 1)
    /\ marked => \A o \in DOMAIN writes : Due(o) => Undone(o)

\* The compensations that await review or run, with one request at a time.
Active == {p \in DOMAIN plans : /\ plans[p].recorded /\ plans[p].current
                                /\ plans[p].status \in {"planned", "queued", "running"}}
OneActivePlan ==
    /\ \A p, q \in Active : p = q
    /\ \A p \in Planners : planner[p].pc \in {"insert", "record"} => Active = {}

LEMMA LeastNumber ==
    ASSUME NEW S, S \subseteq Nat, S # {}
    PROVE  \E n \in S : \A m \in S : n <= m
<1>1. PICK n \in S : \A m \in S : ~(<<m, n>> \in OpToRel(<, Nat))
  BY NatLessThanWellFounded, WFMin
<1>2. ASSUME NEW m \in S
      PROVE  n <= m
 <2>1. <<m, n>> \in Nat \X Nat
   OBVIOUS
 <2>2. ~(m < n)
   BY <1>1, <2>1 DEF OpToRel
 <2>. QED BY <2>2
<1>. QED BY <1>2

LEMMA NewestIs ==
    ASSUME NEW n \in Nat, NEW S, S \subseteq 1 .. n, S # {}
    PROVE  Reversing!Newest(S) \in S /\ \A p \in S : p <= Reversing!Newest(S)
<1>1. {n - p : p \in S} \subseteq Nat /\ {n - p : p \in S} # {}
 <2>1. \A p \in S : n - p \in Nat
   OBVIOUS
 <2>. QED BY <2>1
<1>2. PICK m \in {n - p : p \in S} : \A k \in {n - p : p \in S} : m <= k
  BY <1>1, LeastNumber
<1>3. PICK q \in S : m = n - q
  BY <1>2
<1>4. ASSUME NEW p \in S
      PROVE  p <= q
 <2>1. m <= n - p
   BY <1>2
 <2>. QED BY <1>3, <2>1
<1>. QED BY <1>4 DEF Reversing!Newest

\* A finite set of numbers has an enumeration from the greatest to the least.
Falls(s) == \A i, j \in DOMAIN s : i < j => s[i] > s[j]
LEMMA FallingOrder ==
    ASSUME NEW n \in Nat, NEW W \in SUBSET (1 .. n)
    PROVE  \E s \in [1 .. Cardinality(W) -> W] : Falls(s)
<1>. DEFINE Unordered == {V \in SUBSET (1 .. n) : ~\E s \in [1 .. Cardinality(V) -> V] : Falls(s)}
            Sizes == {Cardinality(V) : V \in Unordered}
<1>0. IsFiniteSet(1 .. n)
  BY FS_Interval
<1>1. \A V \in SUBSET (1 .. n) : IsFiniteSet(V) /\ Cardinality(V) \in Nat
  BY <1>0, FS_Subset, FS_CardinalityType
<1>2. SUFFICES ASSUME W \in Unordered PROVE FALSE
  OBVIOUS
<1>3. PICK V \in Unordered : \A U \in Unordered : Cardinality(V) <= Cardinality(U)
 <2>1. Sizes \subseteq Nat /\ Sizes # {}
   BY <1>1, <1>2
 <2>2. PICK k \in Sizes : \A m \in Sizes : k <= m
   BY <2>1, LeastNumber
 <2>3. PICK V \in Unordered : k = Cardinality(V)
   BY <2>2
 <2>. QED BY <2>2, <2>3
<1>4. CASE V = {}
 <2>1. 1 .. Cardinality(V) = {}
   BY <1>4, FS_EmptySet
 <2>2. [i \in {} |-> 0] \in [{} -> V] /\ Falls([i \in {} |-> 0])
   BY DEF Falls
 <2>. QED BY <1>3, <2>1, <2>2
<1>5. CASE V # {}
 <2>1. PICK m \in V : \A v \in V : m <= v
  <3>1. V \subseteq Nat
    OBVIOUS
  <3>. QED BY <1>5, <3>1, LeastNumber
 <2>. DEFINE k == Cardinality(V)
             U == V \ {m}
 <2>2. k \in Nat /\ Cardinality(U) = k - 1 /\ k - 1 \in Nat /\ U \in SUBSET (1 .. n)
   BY <1>1, <2>1, FS_RemoveElement
 <2>3. U \notin Unordered
  <3>1. ~(Cardinality(V) <= Cardinality(U))
    BY <2>2
  <3>. QED BY <1>3, <3>1
 <2>4. PICK s \in [1 .. k - 1 -> U] : Falls(s)
   BY <2>2, <2>3
 <2>. DEFINE t == [i \in 1 .. k |-> IF i = k THEN m ELSE s[i]]
 <2>5. t \in [1 .. k -> V]
   BY <2>1, <2>2
 <2>6. ASSUME NEW i \in 1 .. k, NEW j \in 1 .. k, i < j
       PROVE  t[i] > t[j]
  <3>1. i \in 1 .. k - 1 /\ t[i] = s[i] /\ s[i] \in U
    BY <2>2, <2>6
  <3>2. CASE j = k
   <4>1. t[j] = m
     BY <3>2
   <4>2. s[i] \in V /\ m <= s[i] /\ s[i] # m
     BY <2>1, <3>1
   <4>3. s[i] \in Nat /\ m \in Nat
    <5>1. V \subseteq Nat
      OBVIOUS
    <5>. QED BY <4>2, <5>1
   <4>. QED BY <3>1, <4>1, <4>2, <4>3
  <3>3. CASE j # k
    BY <2>2, <2>4, <2>6, <3>1, <3>3 DEF Falls
  <3>. QED BY <3>2, <3>3
 <2>7. Falls(t)
   BY <2>5, <2>6 DEF Falls
 <2>. QED BY <1>3, <2>5, <2>7
<1>. QED BY <1>4, <1>5

\* A falling enumeration of as many numbers as the set has names each once.
LEMMA FallingIsOnto ==
    ASSUME NEW n \in Nat, NEW W \in SUBSET (1 .. n),
           NEW s \in [1 .. Cardinality(W) -> W], Falls(s)
    PROVE  /\ \A i, j \in DOMAIN s : s[i] = s[j] => i = j
           /\ \A w \in W : \E i \in DOMAIN s : s[i] = w
           /\ s \in Seq(W)
<1>0. IsFiniteSet(1 .. n)
  BY FS_Interval
<1>1. IsFiniteSet(W) /\ Cardinality(W) \in Nat
  BY <1>0, FS_Subset, FS_CardinalityType
<1>2. \A i, j \in DOMAIN s : s[i] = s[j] => i = j
 <2>. SUFFICES ASSUME NEW i \in DOMAIN s, NEW j \in DOMAIN s, i # j PROVE s[i] # s[j]
   OBVIOUS
 <2>1. i \in Int /\ j \in Int /\ (i < j \/ j < i)
   BY <1>1
 <2>2. s[i] \in Nat /\ s[j] \in Nat
  <3>1. s[i] \in W /\ s[j] \in W
    OBVIOUS
  <3>2. W \subseteq Nat
    OBVIOUS
  <3>. QED BY <3>1, <3>2
 <2>. QED BY <2>1, <2>2 DEF Falls
<1>3. s \in Injection(1 .. Cardinality(W), W)
  BY <1>2 DEF Injection, IsInjective
<1>4. Cardinality(1 .. Cardinality(W)) = Cardinality(W)
  BY <1>1, FS_Interval
<1>5. s \in Surjection(1 .. Cardinality(W), W)
  BY <1>1, <1>3, <1>4, FS_Injection
<1>. QED BY <1>1, <1>2, <1>5 DEF Surjection

\* What _reverse leaves to reverse: each write once, all that are due.
LEMMA ReversalOrders ==
    ASSUME writes \in Seq(Change), NEW done
    PROVE  LET s == Reversing!_reverse(done) IN
           /\ s \in Seq(DOMAIN writes)
           /\ \A i, j \in DOMAIN s : s[i] = s[j] => i = j
           /\ \A o \in DOMAIN writes : Due(o) /\ o \notin done => \E i \in DOMAIN s : s[i] = o
<1>. DEFINE W == {o \in DOMAIN writes :
                    /\ Reversing!possibly_applied(writes[o]) /\ o \notin done
                    /\ ~(Reversing!unconfirmed_write(writes[o]) /\ writes[o].kind = "create")}
            n == Len(writes)
            s == Reversing!_reverse(done)
<1>1. n \in Nat /\ W \in SUBSET (1 .. n) /\ DOMAIN writes = 1 .. n
  OBVIOUS
<1>2. \A S : Reversing!Cardinality(S) = Cardinality(S)
  BY Zenon DEF Reversing!Cardinality, Cardinality
<1>3. s = CHOOSE t \in [1 .. Cardinality(W) -> W] : Falls(t)
  BY <1>2 DEF Reversing!_reverse, Reversing!Orders, Falls
<1>. HIDE DEF s, n
<1>4. s \in [1 .. Cardinality(W) -> W] /\ Falls(s)
 <2>. HIDE DEF W
 <2>1. \E t \in [1 .. Cardinality(W) -> W] : Falls(t)
   BY <1>1, FallingOrder
 <2>. QED BY <1>3, <2>1
<1>5. /\ \A i, j \in DOMAIN s : s[i] = s[j] => i = j
      /\ \A w \in W : \E i \in DOMAIN s : s[i] = w
      /\ s \in Seq(W)
 <2>. HIDE DEF W
 <2>. QED BY <1>1, <1>4, FallingIsOnto
<1>6. W \subseteq DOMAIN writes
  OBVIOUS
<1>7. s \in Seq(DOMAIN writes)
 <2>. HIDE DEF W
 <2>. QED BY <1>5, <1>6
<1>8. \A o \in DOMAIN writes : Due(o) /\ o \notin done => o \in W
  BY DEF Due, Reversing!possibly_applied, Reversing!unconfirmed_write
<1>. QED BY <1>5, <1>7, <1>8 DEF s

\* Nothing that was undone is undone no longer.
UndoneStays == \A o \in DOMAIN writes : Undone(o) => Undone(o)'

LEMMA CompleteStays ==
    ASSUME writes' = writes, UndoneStays, NEW s, Complete(s)
    PROVE  Complete(s)'
  BY DEF UndoneStays, Complete, Due

LEMMA PlanStays ==
    ASSUME writes' = writes, UndoneStays, NEW p \in DOMAIN plans, PlanOK(p),
           OrdersOf(plans'[p].actions) = OrdersOf(plans[p].actions),
           plans'[p].errors = plans[p].errors,
           plans'[p].status = "planned" =>
               \A i \in DOMAIN plans'[p].actions : plans'[p].actions[i].status = "pending",
           plans'[p].status = "running" => run'.pc # "idle" /\ run'.plan = p
    PROVE  PlanOK(p)'
<1>. DEFINE a == plans[p].actions
            b == plans'[p].actions
<1>1. Complete(OrdersOf(plans[p].actions))'
 <2>1. PICK s : s = OrdersOf(a)
   OBVIOUS
 <2>2. Complete(s)'
   BY <2>1, CompleteStays DEF PlanOK
 <2>3. s = OrdersOf(plans[p].actions)'
   BY <2>1 DEF OrdersOf
 <2>. QED BY <2>2, <2>3 DEF Complete
<1>2. DOMAIN b = DOMAIN a /\ \A i \in DOMAIN b : b[i].reverses = a[i].reverses
 <2>1. DOMAIN OrdersOf(b) = DOMAIN b /\ DOMAIN OrdersOf(a) = DOMAIN a
   BY DEF OrdersOf
 <2>2. \A i \in DOMAIN b : OrdersOf(b)[i] = b[i].reverses
   BY DEF OrdersOf
 <2>3. \A i \in DOMAIN a : OrdersOf(a)[i] = a[i].reverses
   BY DEF OrdersOf
 <2>. QED BY <2>1, <2>2, <2>3
<1>3. \A i \in DOMAIN b : Masks(writes'[b[i].reverses]) => plans'[p].errors
  BY <1>2 DEF PlanOK, Masks
<1>. QED BY <1>1, <1>3 DEF PlanOK, Masks

\* One plan is written, by its run or by who starts it.
LEMMA PlanWritten ==
    ASSUME ReversingInv, NEW q \in DOMAIN plans, NEW new \in Plan,
           \A p \in DOMAIN plans \ {q} : plans[p].status # "running",
           plans' = [plans EXCEPT ![q] = new],
           new.current = plans[q].current, new.recorded = plans[q].recorded,
           new.errors = plans[q].errors,
           OrdersOf(new.actions) = OrdersOf(plans[q].actions),
           \A i \in DOMAIN new.actions : \A o :
               Undoes(plans[q].actions[i], o) => Undoes(new.actions[i], o),
           new.status # "planned", new.status = "running" => run'.pc # "idle" /\ run'.plan = q,
           writes' = writes, linked' = linked, planner' = planner
    PROVE  /\ plans' \in Seq(Plan) /\ DOMAIN plans' = DOMAIN plans /\ Len(plans') = Len(plans)
           /\ UndoneStays
           /\ \A p \in DOMAIN plans' : PlanOK(p)'
           /\ \A p \in Planners : PlannerOK(planner[p])'
           /\ (linked # 0 => plans[linked].recorded)'
           /\ plans'[q] = new /\ \A p \in DOMAIN plans \ {q} : plans'[p] = plans[p]
<1>1. plans \in Seq(Plan)
  BY DEF ReversingInv, ReversingTypes
<1>2. /\ plans' \in Seq(Plan) /\ DOMAIN plans' = DOMAIN plans /\ Len(plans') = Len(plans)
      /\ plans'[q] = new /\ \A p \in DOMAIN plans \ {q} : plans'[p] = plans[p]
  BY <1>1
<1>3. DOMAIN new.actions = DOMAIN plans[q].actions
  BY DEF OrdersOf
<1>4. ASSUME NEW o \in DOMAIN writes, Undone(o)
      PROVE  Undone(o)'
 <2>1. PICK p \in DOMAIN plans : \E i \in DOMAIN plans[p].actions : Undoes(plans[p].actions[i], o)
   BY <1>4 DEF Undone
 <2>2. \E i \in DOMAIN plans'[p].actions : Undoes(plans'[p].actions[i], o)
   BY <1>2, <1>3, <2>1
 <2>3. p \in DOMAIN plans'
   BY <1>2, <2>1
 <2>. QED BY <2>2, <2>3 DEF Undone, Undoes
<1>5. UndoneStays
  BY <1>4 DEF UndoneStays
<1>6. ASSUME NEW p \in DOMAIN plans
      PROVE  PlanOK(p)'
 <2>1. PlanOK(p)
   BY DEF ReversingInv
 <2>2. CASE p = q
   BY <1>2, <1>5, <2>1, <2>2, PlanStays
 <2>3. CASE p # q
   BY <1>2, <1>5, <2>1, <2>3, PlanStays DEF PlanOK
 <2>. QED BY <2>2, <2>3
<1>7. ASSUME NEW p \in Planners
      PROVE  PlannerOK(planner[p])'
 <2>1. PlannerOK(planner[p]) /\ planner'[p] = planner[p]
   BY DEF ReversingInv
 <2>2. planner[p].pc = "insert" => Complete(planner[p].reverses)'
   BY <1>5, <2>1, CompleteStays DEF PlannerOK
 <2>. QED BY <1>2, <2>1, <2>2 DEF PlannerOK
<1>8. (linked # 0 => plans[linked].recorded)'
 <2>1. linked # 0 => linked \in DOMAIN plans
   BY <1>1 DEF ReversingInv, ReversingTypes
 <2>. QED BY <1>2, <2>1 DEF ReversingInv
<1>. QED BY <1>1, <1>2, <1>5, <1>6, <1>7, <1>8

\* A step that leaves what the plans do, and the run, as they are.
PlansKept ==
    /\ plans' \in Seq(Plan) /\ Len(plans) <= Len(plans')
    /\ \A p \in DOMAIN plans :
          /\ plans'[p].actions = plans[p].actions /\ plans'[p].errors = plans[p].errors
          /\ plans[p].recorded => plans'[p].recorded
          /\ plans'[p].status = plans[p].status
             \/ (plans[p].status = "planned" /\ plans'[p].status = "superseded")
    /\ writes' = writes /\ again' = again /\ run' = run

LEMMA KeptPlans ==
    ASSUME ReversingInv, PlansKept
    PROVE  /\ DOMAIN plans \subseteq DOMAIN plans' /\ UndoneStays
           /\ \A p \in DOMAIN plans : PlanOK(p)'
           /\ RunOK'
           /\ \A l : PlannerOK(l) => PlannerOK(l)'
           /\ (linked # 0 => linked \in DOMAIN plans /\ plans'[linked].recorded)
           /\ (marked => \A o \in DOMAIN writes : Due(o) => Undone(o))' \/ marked' # marked
<1>1. DOMAIN plans \subseteq DOMAIN plans'
  BY DEF ReversingInv, ReversingTypes, PlansKept
<1>2. UndoneStays
  BY <1>1 DEF UndoneStays, Undone, Undoes, PlansKept
<1>3. ASSUME NEW p \in DOMAIN plans
      PROVE  PlanOK(p)'
 <2>1. PlanOK(p) /\ plans'[p].actions = plans[p].actions /\ plans'[p].errors = plans[p].errors
   BY DEF ReversingInv, PlansKept
 <2>2. plans'[p].status = "planned" =>
           \A i \in DOMAIN plans'[p].actions : plans'[p].actions[i].status = "pending"
   BY <2>1 DEF PlanOK, PlansKept
 <2>3. plans'[p].status = "running" => run'.pc # "idle" /\ run'.plan = p
   BY <2>1 DEF PlanOK, PlansKept
 <2>. QED BY <1>2, <2>1, <2>2, <2>3, PlanStays DEF PlansKept
<1>4. RunOK'
 <2>. SUFFICES ASSUME run.pc # "idle" PROVE RunOK'
   BY DEF RunOK, PlansKept
 <2>1. RunOK /\ run.plan \in DOMAIN plans /\ plans[run.plan].status = "running" /\ ~plans[run.plan].errors
   BY DEF ReversingInv, RunOK
 <2>2. /\ plans'[run.plan].actions = plans[run.plan].actions
       /\ plans'[run.plan].status = "running" /\ ~plans'[run.plan].errors
   BY <2>1 DEF PlansKept
 <2>3. UNCHANGED <<writes, run, again>>
   BY DEF PlansKept
 <2>4. run'.plan \in DOMAIN plans'
   BY <1>1, <2>1, <2>3
 <2>. QED BY <2>1, <2>2, <2>3, <2>4 DEF RunOK
<1>5. ASSUME NEW l, PlannerOK(l)
      PROVE  PlannerOK(l)'
 <2>1. l.pc = "insert" => Complete(l.reverses)'
  <3>. SUFFICES ASSUME l.pc = "insert" PROVE Complete(l.reverses)'
    OBVIOUS
  <3>. QED BY <1>2, <1>5, CompleteStays DEF PlannerOK, PlansKept
 <2>. QED BY <1>1, <1>5, <2>1 DEF PlannerOK, PlansKept
<1>6. linked # 0 => linked \in DOMAIN plans /\ plans'[linked].recorded
  BY DEF ReversingInv, ReversingTypes, PlansKept
<1>7. (marked => \A o \in DOMAIN writes : Due(o) => Undone(o))' \/ marked' # marked
  BY <1>2 DEF ReversingInv, UndoneStays, PlansKept, Due
<1>. QED BY <1>1, <1>2, <1>3, <1>4, <1>5, <1>6, <1>7

\* The request of one planner goes on.
LEMMA PlannerMoved ==
    ASSUME ReversingInv, PlansKept, NEW p \in Planners, NEW l \in PlannerState, PlannerOK(l)',
           planner' = [planner EXCEPT ![p] = l],
           linked' = linked \/ (linked' \in DOMAIN plans' /\ plans'[linked'].recorded),
           \A q \in DOMAIN plans' \ DOMAIN plans : PlanOK(q)',
           live' = live, byHand' = byHand, marked' = marked
    PROVE  ReversingInv'
<1>1. /\ DOMAIN plans \subseteq DOMAIN plans'
      /\ \A q \in DOMAIN plans : PlanOK(q)'
      /\ RunOK'
      /\ \A k : PlannerOK(k) => PlannerOK(k)'
      /\ linked # 0 => linked \in DOMAIN plans /\ plans'[linked].recorded
      /\ (marked => \A o \in DOMAIN writes : Due(o) => Undone(o))'
  BY KeptPlans
<1>2. planner' \in [Planners -> PlannerState] /\ \A q \in Planners \ {p} : planner'[q] = planner[q]
  BY DEF ReversingInv, ReversingTypes
<1>3. ASSUME NEW q \in Planners
      PROVE  PlannerOK(planner[q])'
 <2>1. CASE q = p
  <3>1. planner'[q] = l
    BY <2>1 DEF ReversingInv, ReversingTypes
  <3>. QED BY <3>1 DEF PlannerOK
 <2>2. CASE q # p
  <3>1. PICK k : k = planner[q]
    OBVIOUS
  <3>2. PlannerOK(k)' /\ k = planner'[q]
    BY <1>1, <1>2, <2>2, <3>1 DEF ReversingInv
  <3>. QED BY <3>2 DEF PlannerOK
 <2>. QED BY <2>1, <2>2
<1>4. ReversingTypes'
 <2>1. linked' \in 0 .. Len(plans')
   BY DEF ReversingInv, ReversingTypes, PlansKept
 <2>. QED BY <1>2, <2>1 DEF ReversingInv, ReversingTypes, PlansKept
<1>5. \A q \in DOMAIN plans' : PlanOK(q)'
  BY <1>1
<1>6. (linked # 0 => plans[linked].recorded)'
  BY <1>1
<1>7. (\A o \in DOMAIN writes : live[o] # "masked" /\ (writes[o].named => again[o] <= 1))'
  BY DEF ReversingInv, PlansKept
<1>. QED BY <1>1, <1>3, <1>4, <1>5, <1>6, <1>7 DEF ReversingInv

LEMMA PlansUnchanged ==
    ASSUME ReversingInv, UNCHANGED <<writes, again, plans, run>>
    PROVE  PlansKept
  BY DEF ReversingInv, ReversingTypes, PlansKept

LEMMA ReadEarlierKept ==
    ASSUME ReversingInv, NEW p \in Planners, Reversing!ReadEarlier(p)
    PROVE  ReversingInv'
<1>1. /\ UNCHANGED <<writes, again, plans, run, live, byHand, marked, linked>>
      /\ Reversing!Stale \in SUBSET Nat
  BY DEF Reversing!ReadEarlier, Reversing!mistVars, Reversing!planVars, Reversing!Stale,
     Reversing!WithStatus, Reversing!Recorded, ReversingInv, ReversingTypes
<1>2. PlansKept
  BY <1>1, PlansUnchanged
<1>3. CASE /\ Reversing!Reusable # {}
           /\ planner' = [planner EXCEPT ![p] =
                  [pc |-> "retire", stale |-> Reversing!Stale, plan |-> Reversing!Newest(Reversing!Reusable)]]
 <2>1. Reversing!Reusable \subseteq DOMAIN plans /\ \A q \in Reversing!Reusable : plans[q].recorded
   BY DEF Reversing!Reusable, Reversing!WithStatus, Reversing!Recorded
 <2>2. DOMAIN plans = 1 .. Len(plans) /\ Len(plans) \in Nat
   BY DEF ReversingInv, ReversingTypes
 <2>3. PICK n : n = Reversing!Newest(Reversing!Reusable)
   OBVIOUS
 <2>4. n \in Reversing!Reusable
   BY <1>3, <2>1, <2>2, <2>3, NewestIs
 <2>5. PICK l : l = [pc |-> "retire", stale |-> Reversing!Stale, plan |-> n]
   OBVIOUS
 <2>6. l \in PlannerState
   BY <1>1, <2>1, <2>2, <2>4, <2>5 DEF PlannerState
 <2>7. PlannerOK(l)'
   BY <1>1, <2>1, <2>4, <2>5 DEF PlannerOK
 <2>. QED BY <1>1, <1>2, <1>3, <2>3, <2>5, <2>6, <2>7, PlannerMoved
<1>4. CASE /\ Reversing!_reverse(Reversing!already_reversed) # <<>>
           /\ planner' = [planner EXCEPT ![p] =
                  [pc |-> "insert", stale |-> Reversing!Stale,
                   reverses |-> Reversing!_reverse(Reversing!already_reversed)]]
 <2>1. PICK s : s = Reversing!_reverse(Reversing!already_reversed)
   OBVIOUS
 <2>2. /\ s \in Seq(DOMAIN writes)
       /\ \A i, j \in DOMAIN s : s[i] = s[j] => i = j
       /\ \A o \in DOMAIN writes :
             Due(o) /\ o \notin Reversing!already_reversed => \E i \in DOMAIN s : s[i] = o
   BY <2>1, ReversalOrders DEF ReversingInv, ReversingTypes
 <2>3. \A o \in Reversing!already_reversed : Undone(o)
   BY DEF Reversing!already_reversed, Reversing!ReversedWith, Reversing!Recorded, Undone, Undoes
 <2>4. Complete(s)
   BY <1>4, <2>1, <2>2, <2>3 DEF Complete
 <2>5. PICK l : l = [pc |-> "insert", stale |-> Reversing!Stale, reverses |-> s]
   OBVIOUS
 <2>6. l \in PlannerState
  <3>1. DOMAIN writes \subseteq Nat
    BY DEF ReversingInv, ReversingTypes
  <3>2. s \in Seq(Nat)
    BY <2>2, <3>1
  <3>. QED BY <1>1, <2>5, <3>2 DEF PlannerState
 <2>7. PlannerOK(l)'
  <3>1. Complete(s)'
    BY <1>2, <2>4, CompleteStays, KeptPlans DEF PlansKept
  <3>. QED BY <2>5, <3>1 DEF PlannerOK
 <2>. QED BY <1>1, <1>2, <1>4, <2>1, <2>5, <2>6, <2>7, PlannerMoved
<1>. QED BY <1>3, <1>4 DEF Reversing!ReadEarlier

LEMMA InsertKept ==
    ASSUME ReversingInv, NEW p \in Planners, Reversing!Insert(p)
    PROVE  ReversingInv'
<1>. PICK r, n : r = planner[p].reverses /\ n = Len(plans)
  OBVIOUS
<1>1. /\ UNCHANGED <<writes, again, run, live, byHand, marked, linked>>
      /\ planner[p].pc = "insert" /\ planner[p] \in PlannerState /\ PlannerOK(planner[p])
      /\ n \in Nat /\ DOMAIN plans = 1 .. n /\ plans \in Seq(Plan)
  BY DEF Reversing!Insert, Reversing!mistVars, ReversingInv, ReversingTypes
<1>2. r \in Seq(Nat) /\ planner[p].stale \in SUBSET Nat /\ Complete(r)
  BY <1>1 DEF PlannerState, PlannerOK
<1>3. PICK new : new =
         [status |-> "planned", current |-> TRUE, recorded |-> FALSE,
          actions |-> [i \in DOMAIN r |-> Reversing!Reversal(r[i])],
          errors |-> \E i \in DOMAIN r : Reversing!unavailable_secret(writes[r[i]])]
  OBVIOUS
<1>4. /\ new.actions \in Seq(Reversal) /\ DOMAIN new.actions = DOMAIN r
      /\ \A i \in DOMAIN r : new.actions[i].reverses = r[i] /\ new.actions[i].status = "pending"
 <2>1. \A i \in DOMAIN r : Reversing!Reversal(r[i]) \in Reversal
   BY <1>2 DEF Reversing!Reversal, Reversal
 <2>2. DOMAIN r = 1 .. Len(r) /\ Len(r) \in Nat
   BY <1>2
 <2>3. new.actions = [i \in DOMAIN r |-> Reversing!Reversal(r[i])]
   BY <1>3
 <2>. QED BY <2>1, <2>2, <2>3 DEF Reversing!Reversal
<1>5. new \in Plan
 <2>1. new.errors \in BOOLEAN
   BY Zenon, <1>3
 <2>. QED BY <1>3, <1>4, <2>1 DEF Plan
<1>6. plans' = Append(plans, new)
  BY <1>3 DEF Reversing!Insert
<1>7. /\ plans' \in Seq(Plan) /\ Len(plans') = n + 1 /\ plans'[n + 1] = new
      /\ DOMAIN plans' = 1 .. n + 1 /\ \A q \in DOMAIN plans : plans'[q] = plans[q]
  BY <1>1, <1>5, <1>6
<1>8. PlansKept
  BY <1>1, <1>7 DEF PlansKept
<1>9. PlanOK(n + 1)'
 <2>1. OrdersOf(new.actions) = r
  <3>1. \A i \in DOMAIN new.actions : new.actions[i].reverses = r[i]
    BY <1>4
  <3>2. r = [i \in DOMAIN r |-> r[i]]
    BY <1>2
  <3>. QED BY <1>4, <3>1, <3>2 DEF OrdersOf
 <2>2. Complete(r)'
   BY <1>1, <1>2, <1>8, CompleteStays, KeptPlans
 <2>3. \A i \in DOMAIN new.actions : Masks(writes[new.actions[i].reverses]) => new.errors
  <3>1. ASSUME NEW i \in DOMAIN r, Masks(writes[r[i]])
        PROVE  Reversing!unavailable_secret(writes[r[i]])
    BY <3>1 DEF Masks, Reversing!unavailable_secret, Reversing!inverse, Reversing!Payload
  <3>2. new.errors = \E i \in DOMAIN r : Reversing!unavailable_secret(writes[r[i]])
    BY <1>3
  <3>3. \A i \in DOMAIN r : Masks(writes[r[i]]) => new.errors
    BY <3>1, <3>2
  <3>. QED BY <1>4, <3>3
 <2>4. \A i \in DOMAIN new.actions : new.actions[i].status = "pending"
   BY <1>4
 <2>5. new.status = "planned" /\ plans'[n + 1] = new
   BY <1>3, <1>7
 <2>6. (\A i \in DOMAIN plans[n + 1].actions : Masks(writes[plans[n + 1].actions[i].reverses]) => plans[n + 1].errors)'
   BY <1>1, <2>3, <2>5 DEF Masks
 <2>7. Complete(OrdersOf(plans[n + 1].actions))'
  <3>1. (OrdersOf(plans[n + 1].actions) = r)'
    BY <2>1, <2>5 DEF OrdersOf
  <3>. QED BY <2>2, <3>1 DEF Complete
 <2>. QED BY <2>4, <2>5, <2>6, <2>7 DEF PlanOK
<1>10. PICK l : l = [pc |-> "record", stale |-> planner[p].stale, plan |-> n + 1]
  OBVIOUS
<1>11. l \in PlannerState /\ PlannerOK(l)'
  BY <1>1, <1>2, <1>7, <1>10 DEF PlannerState, PlannerOK
<1>12. planner' = [planner EXCEPT ![p] = l]
  BY <1>7, <1>10 DEF Reversing!Insert
<1>13. \A q \in DOMAIN plans' \ DOMAIN plans : PlanOK(q)'
  BY <1>1, <1>7, <1>9
<1>. QED BY <1>1, <1>8, <1>11, <1>12, <1>13, PlannerMoved

LEMMA RecordKept ==
    ASSUME ReversingInv, NEW p \in Planners,
           Reversing!Record(p) \/ Reversing!Link(p) \/ Reversing!RequestLost(p)
    PROVE  ReversingInv'
<1>1. /\ UNCHANGED <<writes, again, run, live, byHand, marked>>
      /\ plans \in Seq(Plan) /\ planner[p] \in PlannerState /\ PlannerOK(planner[p])
  BY DEF Reversing!Record, Reversing!Link, Reversing!RequestLost, Reversing!mistVars, Reversing!planVars,
     ReversingInv, ReversingTypes
<1>2. CASE Reversing!Record(p)
 <2>. PICK q : q = planner[p].plan
   OBVIOUS
 <2>1. /\ planner[p].pc = "record" /\ plans' = [plans EXCEPT ![q].recorded = TRUE] /\ linked' = linked
       /\ planner' = [planner EXCEPT ![p].pc = "link"]
   BY <1>2 DEF Reversing!Record
 <2>2. q \in DOMAIN plans /\ planner[p].stale \in SUBSET Nat /\ q \in Nat
   BY <1>1, <2>1 DEF PlannerOK, PlannerState
 <2>3. PICK new : new = [plans[q] EXCEPT !.recorded = TRUE]
   OBVIOUS
 <2>4. new \in Plan /\ plans' = [plans EXCEPT ![q] = new]
  <3>1. plans[q] \in Plan
    BY <1>1, <2>2
  <3>2. new \in Plan
    BY <2>3, <3>1 DEF Plan
  <3>. QED BY <2>1, <2>3, <3>2
 <2>5. /\ plans' \in Seq(Plan) /\ Len(plans') = Len(plans) /\ DOMAIN plans' = DOMAIN plans
       /\ plans'[q] = new /\ \A k \in DOMAIN plans \ {q} : plans'[k] = plans[k]
   BY <1>1, <2>2, <2>4
 <2>6. /\ new.actions = plans[q].actions /\ new.errors = plans[q].errors
       /\ new.status = plans[q].status /\ new.recorded
  <3>1. plans[q] \in Plan
    BY <1>1, <2>2
  <3>. QED BY <2>3, <3>1 DEF Plan
 <2>7. PlansKept
   BY <1>1, <2>5, <2>6 DEF PlansKept
 <2>8. PICK l : l = [planner[p] EXCEPT !.pc = "link"]
   OBVIOUS
 <2>9. l \in PlannerState /\ l.pc = "link" /\ l.plan = q
   BY <1>1, <2>1, <2>8 DEF PlannerState
 <2>10. PlannerOK(l)'
   BY <2>2, <2>5, <2>6, <2>9 DEF PlannerOK
 <2>11. planner' = [planner EXCEPT ![p] = l]
   BY <2>1, <2>8 DEF ReversingInv, ReversingTypes
 <2>. QED BY <1>1, <2>1, <2>5, <2>7, <2>9, <2>10, <2>11, PlannerMoved
<1>3. CASE Reversing!Link(p)
 <2>1. /\ planner[p].pc = "link" /\ plans' = plans /\ linked' = planner[p].plan
       /\ planner' = [planner EXCEPT ![p].pc = "retire"]
   BY <1>3 DEF Reversing!Link
 <2>2. planner[p].plan \in DOMAIN plans /\ plans[planner[p].plan].recorded
   BY <1>1, <2>1 DEF PlannerOK
 <2>3. PICK l : l = [planner[p] EXCEPT !.pc = "retire"]
   OBVIOUS
 <2>4. l \in PlannerState /\ l.pc = "retire" /\ l.plan = planner[p].plan
   BY <1>1, <2>1, <2>3 DEF PlannerState
 <2>5. PlannerOK(l)'
   BY <2>1, <2>2, <2>4 DEF PlannerOK
 <2>6. planner' = [planner EXCEPT ![p] = l]
   BY <2>1, <2>3 DEF ReversingInv, ReversingTypes
 <2>7. PlansKept
   BY <1>1, <2>1, PlansUnchanged
 <2>. QED BY <1>1, <2>1, <2>2, <2>4, <2>5, <2>6, <2>7, PlannerMoved
<1>4. CASE Reversing!RequestLost(p)
 <2>1. plans' = plans /\ linked' = linked /\ planner' = [planner EXCEPT ![p] = [pc |-> "idle"]]
   BY <1>4 DEF Reversing!RequestLost, Reversing!planVars
 <2>2. PICK l : l = [pc |-> "idle"]
   OBVIOUS
 <2>3. l \in PlannerState /\ PlannerOK(l)'
   BY <2>2 DEF PlannerState, PlannerOK
 <2>4. PlansKept
   BY <1>1, <2>1, PlansUnchanged
 <2>. QED BY <1>1, <2>1, <2>2, <2>3, <2>4, PlannerMoved
<1>. QED BY <1>2, <1>3, <1>4

LEMMA RetireKept ==
    ASSUME ReversingInv, NEW p \in Planners, Reversing!_retire_stale(p)
    PROVE  ReversingInv'
<1>1. /\ UNCHANGED <<writes, again, run, live, byHand, marked, linked>> /\ plans \in Seq(Plan)
      /\ planner' = [planner EXCEPT ![p] = [pc |-> "idle"]]
      /\ plans' = [q \in DOMAIN plans |->
             IF Reversing!Superseded(q, planner[p].stale) THEN [plans[q] EXCEPT !.status = "superseded"]
             ELSE plans[q]]
  BY DEF Reversing!_retire_stale, Reversing!mistVars, ReversingInv, ReversingTypes
<1>2. ASSUME NEW q \in DOMAIN plans
      PROVE  /\ plans'[q] \in Plan
             /\ plans'[q].actions = plans[q].actions /\ plans'[q].errors = plans[q].errors
             /\ plans'[q].recorded = plans[q].recorded
             /\ plans'[q].status = plans[q].status
                \/ (plans[q].status = "planned" /\ plans'[q].status = "superseded")
 <2>1. plans[q] \in Plan
   BY <1>1
 <2>. QED BY <1>1, <2>1 DEF Plan, Reversing!Superseded
<1>3. plans' \in Seq(Plan) /\ Len(plans') = Len(plans) /\ DOMAIN plans' = DOMAIN plans
  BY <1>1, <1>2
<1>4. PlansKept
  BY <1>1, <1>2, <1>3 DEF PlansKept
<1>5. PICK l : l = [pc |-> "idle"]
  OBVIOUS
<1>6. l \in PlannerState /\ PlannerOK(l)'
  BY <1>5 DEF PlannerState, PlannerOK
<1>. QED BY <1>1, <1>3, <1>4, <1>5, <1>6, PlannerMoved

\* A step of nobody who plans or runs.
LEMMA BesideKept ==
    ASSUME ReversingInv, PlansKept, DOMAIN plans' = DOMAIN plans,
           planner' = planner, linked' = linked, marked' = marked,
           live' \in [DOMAIN writes -> Reversing!Values], byHand' \subseteq DOMAIN writes,
           \A o \in DOMAIN writes : live'[o] # "masked"
    PROVE  ReversingInv'
<1>1. /\ \A q \in DOMAIN plans : PlanOK(q)'
      /\ RunOK'
      /\ \A k : PlannerOK(k) => PlannerOK(k)'
      /\ linked # 0 => linked \in DOMAIN plans /\ plans'[linked].recorded
      /\ (marked => \A o \in DOMAIN writes : Due(o) => Undone(o))'
  BY KeptPlans
<1>2. ASSUME NEW q \in Planners
      PROVE  PlannerOK(planner[q])'
 <2>1. PICK k : k = planner[q]
   OBVIOUS
 <2>2. PlannerOK(k)' /\ k = planner'[q]
   BY <1>1, <2>1 DEF ReversingInv
 <2>. QED BY <2>2 DEF PlannerOK
<1>3. ReversingTypes'
 <2>1. linked' \in 0 .. Len(plans')
   BY DEF ReversingInv, ReversingTypes, PlansKept
 <2>. QED BY <2>1 DEF ReversingInv, ReversingTypes, PlansKept
<1>4. (\A o \in DOMAIN writes : live[o] # "masked" /\ (writes[o].named => again[o] <= 1))'
  BY DEF ReversingInv, PlansKept
<1>. QED BY <1>1, <1>2, <1>3, <1>4 DEF ReversingInv

LEMMA FormulaKept ==
    ASSUME ReversingInv, Reversing!FormulaChanges
    PROVE  ReversingInv'
<1>1. /\ UNCHANGED <<writes, again, run, live, byHand, marked, linked, planner>> /\ plans \in Seq(Plan)
      /\ plans' = [p \in DOMAIN plans |-> [plans[p] EXCEPT !.current = FALSE]]
  BY DEF Reversing!FormulaChanges, Reversing!mistVars, ReversingInv, ReversingTypes
<1>2. ASSUME NEW q \in DOMAIN plans
      PROVE  /\ plans'[q] \in Plan
             /\ plans'[q].actions = plans[q].actions /\ plans'[q].errors = plans[q].errors
             /\ plans'[q].recorded = plans[q].recorded /\ plans'[q].status = plans[q].status
 <2>1. plans[q] \in Plan
   BY <1>1
 <2>. QED BY <1>1, <2>1 DEF Plan
<1>3. plans' \in Seq(Plan) /\ Len(plans') = Len(plans) /\ DOMAIN plans' = DOMAIN plans
  BY <1>1, <1>2
<1>4. PlansKept
  BY <1>1, <1>2, <1>3 DEF PlansKept
<1>. QED BY <1>1, <1>3, <1>4, BesideKept DEF ReversingInv, ReversingTypes

LEMMA ByHandKept ==
    ASSUME ReversingInv, NEW o \in Reversing!Orders, Reversing!ByHand(o)
    PROVE  ReversingInv'
<1>1. UNCHANGED <<writes, again, run, marked, linked, planner, plans>> /\ o \in DOMAIN writes
  BY DEF Reversing!ByHand, Reversing!planVars, Reversing!Orders
<1>2. PlansKept
  BY <1>1, PlansUnchanged
<1>3. live' \in [DOMAIN writes -> Reversing!Values] /\ \A q \in DOMAIN writes : live'[q] # "masked"
  BY <1>1 DEF Reversing!ByHand, ReversingInv, ReversingTypes, Reversing!Values
<1>4. byHand' \subseteq DOMAIN writes
  BY <1>1 DEF Reversing!ByHand, ReversingInv, ReversingTypes
<1>. QED BY <1>1, <1>2, <1>3, <1>4, BesideKept

LEMMA RunsAlone ==
    ASSUME ReversingInv
    PROVE  /\ run.pc = "idle" => \A p \in DOMAIN plans : plans[p].status # "running"
           /\ run.pc # "idle" =>
                /\ run.plan \in DOMAIN plans /\ run.plan \in Nat
                /\ \A p \in DOMAIN plans \ {run.plan} : plans[p].status # "running"
<1>1. RunOK /\ plans \in Seq(Plan)
  BY DEF ReversingInv, ReversingTypes
<1>2. \A p \in DOMAIN plans : plans[p].status = "running" => run.pc # "idle" /\ run.plan = p
  BY DEF ReversingInv, PlanOK
<1>3. run.pc # "idle" => run.plan \in DOMAIN plans
  BY <1>1 DEF RunOK
<1>4. DOMAIN plans \subseteq Nat
  BY <1>1
<1>. QED BY <1>2, <1>3, <1>4

LEMMA CompensationIs ==
    ASSUME ReversingInv, Reversing!compensation_for # 0
    PROVE  /\ Reversing!compensation_for \in DOMAIN plans
           /\ plans[Reversing!compensation_for].recorded
<1>1. DOMAIN plans = 1 .. Len(plans) /\ Len(plans) \in Nat /\ linked \in 0 .. Len(plans)
  BY DEF ReversingInv, ReversingTypes
<1>2. CASE linked # 0 \/ Reversing!Recorded = {}
  BY <1>1, <1>2 DEF Reversing!compensation_for, Reversing!None, ReversingInv
<1>3. CASE ~(linked # 0 \/ Reversing!Recorded = {})
 <2>1. Reversing!Recorded \subseteq 1 .. Len(plans)
   BY <1>1 DEF Reversing!Recorded
 <2>2. Reversing!Newest(Reversing!Recorded) \in Reversing!Recorded
   BY <1>1, <1>3, <2>1, NewestIs
 <2>. QED BY <1>3, <2>2 DEF Reversing!compensation_for, Reversing!None, Reversing!Recorded
<1>. QED BY <1>2, <1>3

\* Writes of a plan that leave the rest of the invariant to be shown.
LEMMA RunMoved ==
    ASSUME ReversingInv,
           plans' \in Seq(Plan), Len(plans') = Len(plans), \A p \in DOMAIN plans' : PlanOK(p)',
           \A p \in Planners : PlannerOK(planner[p])', (linked # 0 => plans[linked].recorded)',
           UndoneStays, RunOK', run' \in RunState(DOMAIN writes),
           live' \in [DOMAIN writes -> Reversing!Values], again' \in [DOMAIN writes -> Nat],
           \A o \in DOMAIN writes : live'[o] # "masked" /\ (writes[o].named => again'[o] <= 1),
           marked' \in BOOLEAN,
           marked' /\ ~marked => \A o \in DOMAIN writes : Due(o) => Undone(o)',
           UNCHANGED <<writes, byHand, linked, planner>>
    PROVE  ReversingInv'
<1>1. ReversingTypes'
  BY DEF ReversingInv, ReversingTypes
<1>2. (marked => \A o \in DOMAIN writes : Due(o) => Undone(o))'
  BY DEF ReversingInv, UndoneStays, Due
<1>3. (\A o \in DOMAIN writes : live[o] # "masked" /\ (writes[o].named => again[o] <= 1))'
  OBVIOUS
<1>. QED BY <1>1, <1>2, <1>3 DEF ReversingInv

LEMMA QueueKept ==
    ASSUME ReversingInv, Reversing!Queue
    PROVE  ReversingInv'
<1>. PICK q : q = Reversing!compensation_for
  OBVIOUS
<1>1. /\ UNCHANGED <<writes, live, again, byHand, marked, linked, planner>>
      /\ q # 0 /\ run.pc = "idle"
      /\ plans[q].status = "planned" /\ ~plans[q].errors
      /\ plans' = [plans EXCEPT ![q].status = "running"]
      /\ run' = [pc |-> "capture", plan |-> q]
  BY DEF Reversing!Queue, Reversing!mistVars, Reversing!None
<1>2. q \in DOMAIN plans /\ plans \in Seq(Plan) /\ q \in Nat /\ plans[q] \in Plan
  BY <1>1, CompensationIs DEF ReversingInv, ReversingTypes
<1>3. PICK new : new = [plans[q] EXCEPT !.status = "running"]
  OBVIOUS
<1>4. /\ new \in Plan /\ plans' = [plans EXCEPT ![q] = new]
      /\ new.actions = plans[q].actions /\ new.errors = plans[q].errors /\ new.status = "running"
      /\ new.current = plans[q].current /\ new.recorded = plans[q].recorded
  BY <1>1, <1>2, <1>3 DEF Plan
<1>5. \A p \in DOMAIN plans \ {q} : plans[p].status # "running"
  BY <1>1, RunsAlone
<1>6. /\ plans' \in Seq(Plan) /\ DOMAIN plans' = DOMAIN plans /\ Len(plans') = Len(plans)
      /\ UndoneStays
      /\ \A p \in DOMAIN plans' : PlanOK(p)'
      /\ \A p \in Planners : PlannerOK(planner[p])'
      /\ (linked # 0 => plans[linked].recorded)'
      /\ plans'[q] = new
  BY <1>1, <1>2, <1>4, <1>5, PlanWritten
<1>7. \A i \in DOMAIN plans[q].actions : plans[q].actions[i].status = "pending"
  BY <1>1, <1>2 DEF ReversingInv, PlanOK
<1>8. RunOK'
  BY <1>1, <1>2, <1>4, <1>6, <1>7 DEF RunOK, Progress
<1>9. run' \in RunState(DOMAIN writes)
  BY <1>1, <1>2 DEF RunState
<1>. QED BY <1>1, <1>6, <1>8, <1>9, RunMoved DEF ReversingInv, ReversingTypes

\* The plan that runs gets another status, its actions stay.
LEMMA Closed ==
    ASSUME ReversingInv, run.pc # "idle", NEW s \in {"failed", "compensated"},
           plans' = [plans EXCEPT ![run.plan].status = s], run' = [pc |-> "idle"],
           UNCHANGED <<writes, live, again, byHand, linked, planner>>,
           marked' = marked \/
               (marked' = TRUE /\ \A i \in DOMAIN plans[run.plan].actions :
                                     plans[run.plan].actions[i].status \in {"completed", "skipped"})
    PROVE  ReversingInv'
<1>1. run.plan \in DOMAIN plans /\ \A p \in DOMAIN plans \ {run.plan} : plans[p].status # "running"
  BY RunsAlone
<1>2. plans[run.plan] \in Plan /\ PlanOK(run.plan)
  BY <1>1 DEF ReversingInv, ReversingTypes
<1>3. PICK new : new = [plans[run.plan] EXCEPT !.status = s]
  OBVIOUS
<1>4. /\ new \in Plan /\ plans' = [plans EXCEPT ![run.plan] = new]
      /\ new.actions = plans[run.plan].actions /\ new.errors = plans[run.plan].errors /\ new.status = s
      /\ new.current = plans[run.plan].current /\ new.recorded = plans[run.plan].recorded
  BY <1>2, <1>3 DEF Plan
<1>5. /\ plans' \in Seq(Plan) /\ DOMAIN plans' = DOMAIN plans /\ Len(plans') = Len(plans)
      /\ UndoneStays
      /\ \A p \in DOMAIN plans' : PlanOK(p)'
      /\ \A p \in Planners : PlannerOK(planner[p])'
      /\ (linked # 0 => plans[linked].recorded)'
  BY <1>1, <1>4, PlanWritten
<1>6. RunOK' /\ run' \in RunState(DOMAIN writes)
  BY DEF RunOK, Progress, RunState
<1>7. ASSUME marked', ~marked, NEW o \in DOMAIN writes, Due(o)
      PROVE  Undone(o)'
 <2>1. Undone(o) \/ \E i \in DOMAIN plans[run.plan].actions : plans[run.plan].actions[i].reverses = o
   BY <1>2, <1>7 DEF PlanOK, Complete, OrdersOf
 <2>2. Undone(o)
   BY <1>1, <1>7, <2>1 DEF Undone, Undoes
 <2>. QED BY <1>5, <2>2 DEF UndoneStays
<1>8. marked' \in BOOLEAN
  BY DEF ReversingInv, ReversingTypes
<1>. QED BY <1>5, <1>6, <1>7, <1>8, RunMoved DEF ReversingInv, ReversingTypes

LEMMA ReversalVerified ==
    ASSUME ReversingInv, Reversing!Verify
    PROVE  ReversingInv'
<1>1. /\ run.pc = "verify" /\ run' = [pc |-> "idle"]
      /\ UNCHANGED <<writes, live, again, byHand, linked, planner>>
  BY DEF Reversing!Verify, Reversing!mistVars
<1>2. \A i \in DOMAIN plans[run.plan].actions :
         plans[run.plan].actions[i].status \in {"completed", "skipped"}
  BY <1>1 DEF ReversingInv, RunOK, Progress
<1>3. \/ plans' = [plans EXCEPT ![run.plan].status = "compensated"] /\ marked' = TRUE
      \/ plans' = [plans EXCEPT ![run.plan].status = "failed"] /\ marked' = marked
  BY DEF Reversing!Verify, Reversing!Close
<1>. QED BY <1>1, <1>2, <1>3, Closed

LEMMA CaptureKept ==
    ASSUME ReversingInv, Reversing!Capture
    PROVE  ReversingInv'
<1>. DEFINE a == plans[run.plan].actions
<1>1. run.pc = "capture" /\ UNCHANGED <<writes, live, again, byHand, linked, planner, marked>>
  BY DEF Reversing!Capture, Reversing!mistVars
<1>2. CASE plans' = [plans EXCEPT ![run.plan].status = "failed"] /\ run' = [pc |-> "idle"]
  BY <1>1, <1>2, Closed
<1>3. CASE /\ ~\E i \in DOMAIN a : Reversing!Refused(a[i].reverses)
           /\ run' = [pc |-> "check", plan |-> run.plan, at |-> 1, entry |-> live] /\ plans' = plans
 <2>2. /\ run.plan \in DOMAIN plans /\ run.plan \in Nat /\ PlanOK(run.plan) /\ plans[run.plan] \in Plan
       /\ plans[run.plan].status = "running" /\ ~plans[run.plan].errors
       /\ \A i \in DOMAIN a : a[i].status = "pending"
   BY <1>1, RunsAlone DEF ReversingInv, ReversingTypes, RunOK, Progress
 <2>3. 1 \in DOMAIN a /\ DOMAIN a \subseteq Nat /\ \A i \in DOMAIN a : a[i].reverses \in DOMAIN writes
  <3>1. a \in Seq(Reversal)
    BY <2>2 DEF Plan
  <3>2. OrdersOf(a) # <<>> /\ \A i \in DOMAIN OrdersOf(a) : OrdersOf(a)[i] \in DOMAIN writes
    BY <2>2 DEF PlanOK, Complete
  <3>3. DOMAIN a # {}
   <4>. SUFFICES ASSUME DOMAIN a = {} PROVE OrdersOf(a) = <<>>
     BY <3>2
   <4>. QED BY DEF OrdersOf
  <3>4. DOMAIN a = 1 .. Len(a) /\ Len(a) \in Nat
    BY <3>1
  <3>5. 1 \in DOMAIN a
    BY <3>3, <3>4
  <3>6. DOMAIN OrdersOf(a) = DOMAIN a /\ \A i \in DOMAIN a : OrdersOf(a)[i] = a[i].reverses
    BY DEF OrdersOf
  <3>. QED BY <3>2, <3>4, <3>5, <3>6
 <2>4. ASSUME NEW i \in DOMAIN a, NEW o \in DOMAIN writes, o = a[i].reverses,
              writes[o].kind = "delete", writes[o].named, live[o] = "absent"
       PROVE  again[o] = 0
  <3>1. ~Reversing!Refused(o)
    BY <1>3, <2>4
  <3>2. Reversing!assess_live_state(o) = "proceed"
    BY <2>4 DEF Reversing!assess_live_state
  <3>3. ~(again[o] > 0)
    BY <2>4, <3>1, <3>2 DEF Reversing!Refused, Reversing!NameTaken
  <3>4. again[o] \in Nat
    BY DEF ReversingInv, ReversingTypes
  <3>. QED BY <3>3, <3>4
 <2>5. RunOK'
   BY <1>1, <1>3, <2>2, <2>3, <2>4 DEF RunOK, Progress
 <2>6. run' \in RunState(DOMAIN writes)
   BY <1>3, <2>2 DEF RunState, ReversingInv, ReversingTypes
 <2>7. UndoneStays
   BY <1>1, <1>3 DEF UndoneStays, Undone
 <2>8. \A p \in DOMAIN plans' : PlanOK(p)'
   BY <1>1, <1>3, <2>7, PlanStays DEF ReversingInv, PlanOK
 <2>9. \A p \in Planners : PlannerOK(planner[p])'
  <3>. SUFFICES ASSUME NEW p \in Planners PROVE PlannerOK(planner[p])'
    OBVIOUS
  <3>1. PICK l : l = planner[p]
    OBVIOUS
  <3>2. l.pc = "insert" => Complete(l.reverses)'
    BY <1>1, <2>7, <3>1, CompleteStays DEF ReversingInv, PlannerOK
  <3>3. l = planner'[p] /\ PlannerOK(l)
    BY <1>1, <3>1 DEF ReversingInv
  <3>. QED BY <1>3, <3>2, <3>3 DEF PlannerOK
 <2>10. (linked # 0 => plans[linked].recorded)'
   BY <1>1, <1>3 DEF ReversingInv
 <2>. QED BY <1>1, <1>3, <2>5, <2>6, <2>7, <2>8, <2>9, <2>10, RunMoved DEF ReversingInv, ReversingTypes
<1>. QED BY <1>2, <1>3 DEF Reversing!Capture, Reversing!Close, Reversing!Acts

\* What a step of the run does with its action.
LEMMA ActionWritten ==
    ASSUME ReversingInv, run.pc \in {"check", "write"},
           NEW s \in {"executing", "completed", "skipped", "failed"}, NEW t \in {"running", "failed"},
           plans' = [plans EXCEPT ![run.plan] =
                        [plans[run.plan] EXCEPT !.status = t, !.actions[run.at].status = s]],
           t = "running" => run'.pc # "idle" /\ run'.plan = run.plan,
           UNCHANGED <<writes, linked, planner>>
    PROVE  /\ plans' \in Seq(Plan) /\ DOMAIN plans' = DOMAIN plans /\ Len(plans') = Len(plans)
           /\ UndoneStays
           /\ \A p \in DOMAIN plans' : PlanOK(p)'
           /\ \A p \in Planners : PlannerOK(planner[p])'
           /\ (linked # 0 => plans[linked].recorded)'
           /\ run.plan \in DOMAIN plans /\ plans'[run.plan].status = t /\ ~plans'[run.plan].errors
           /\ DOMAIN plans'[run.plan].actions = DOMAIN plans[run.plan].actions
           /\ plans'[run.plan].actions[run.at].status = s
           /\ \A i \in DOMAIN plans[run.plan].actions :
                 /\ plans'[run.plan].actions[i].reverses = plans[run.plan].actions[i].reverses
                 /\ i # run.at => plans'[run.plan].actions[i].status = plans[run.plan].actions[i].status
<1>. PICK a, at : a = plans[run.plan].actions /\ at = run.at
  OBVIOUS
<1>1. /\ run.plan \in DOMAIN plans /\ plans[run.plan] \in Plan
      /\ \A p \in DOMAIN plans \ {run.plan} : plans[p].status # "running"
  BY RunsAlone DEF ReversingInv, ReversingTypes
<1>2. /\ a \in Seq(Reversal) /\ at \in DOMAIN a /\ a[at] \in Reversal
      /\ a[at].status \in {"pending", "executing"} /\ ~plans[run.plan].errors
 <2>1. a \in Seq(Reversal)
   BY <1>1 DEF Plan
 <2>2. RunOK
   BY DEF ReversingInv
 <2>3. at \in DOMAIN a /\ a[at].status \in {"pending", "executing"} /\ ~plans[run.plan].errors
   BY <2>2 DEF RunOK, Progress
 <2>. QED BY <2>1, <2>3
<1>3. PICK b : b = [a EXCEPT ![at] = [a[at] EXCEPT !.status = s]]
  OBVIOUS
<1>4. /\ b \in Seq(Reversal) /\ DOMAIN b = DOMAIN a
      /\ b[at].status = s /\ \A i \in DOMAIN a : b[i].reverses = a[i].reverses /\ (i # at => b[i] = a[i])
 <2>1. [a[at] EXCEPT !.status = s] \in Reversal
   BY <1>2 DEF Reversal
 <2>2. b \in Seq(Reversal) /\ DOMAIN b = DOMAIN a /\ \A i \in DOMAIN a : i # at => b[i] = a[i]
   BY <1>2, <1>3, <2>1
 <2>3. b[at].status = s /\ b[at].reverses = a[at].reverses
   BY <1>2, <1>3 DEF Reversal
 <2>. QED BY <2>2, <2>3
<1>5. PICK new : new = [plans[run.plan] EXCEPT !.status = t, !.actions = b]
  OBVIOUS
<1>6. /\ new \in Plan /\ new.actions = b /\ new.status = t
      /\ new.errors = plans[run.plan].errors /\ new.recorded = plans[run.plan].recorded
      /\ new.current = plans[run.plan].current
  BY <1>1, <1>4, <1>5 DEF Plan
<1>7. plans' = [plans EXCEPT ![run.plan] = new]
  BY <1>1, <1>3, <1>5 DEF Plan
<1>8. OrdersOf(b) = OrdersOf(a)
  BY <1>4 DEF OrdersOf
<1>9. \A i \in DOMAIN b : \A o : Undoes(a[i], o) => Undoes(b[i], o)
  BY <1>2, <1>4 DEF Undoes
<1>10. /\ plans' \in Seq(Plan) /\ DOMAIN plans' = DOMAIN plans /\ Len(plans') = Len(plans)
       /\ UndoneStays
       /\ \A p \in DOMAIN plans' : PlanOK(p)'
       /\ \A p \in Planners : PlannerOK(planner[p])'
       /\ (linked # 0 => plans[linked].recorded)'
       /\ plans'[run.plan] = new
  BY <1>1, <1>6, <1>7, <1>8, <1>9, PlanWritten
<1>11. plans'[run.plan] = new
  BY <1>10
<1>12. plans'[run.plan].actions = b /\ plans'[run.plan].status = t /\ ~plans'[run.plan].errors
  BY <1>2, <1>6, <1>11
<1>13. /\ DOMAIN plans'[run.plan].actions = DOMAIN plans[run.plan].actions
       /\ plans'[run.plan].actions[run.at].status = s
  BY <1>4, <1>12
<1>14. \A i \in DOMAIN plans[run.plan].actions :
          /\ plans'[run.plan].actions[i].reverses = plans[run.plan].actions[i].reverses
          /\ i # run.at => plans'[run.plan].actions[i].status = plans[run.plan].actions[i].status
  BY <1>4, <1>12
<1>. QED BY <1>1, <1>10, <1>12, <1>13, <1>14

\* Actions of which the first are done, once one more is.
LEMMA DoneSoFar ==
    ASSUME NEW a \in Seq(Reversal), NEW at \in DOMAIN a, NEW b, DOMAIN b = DOMAIN a,
           b[at].status \in {"completed", "skipped"},
           \A i \in DOMAIN a : i # at => b[i].status = a[i].status,
           \A i \in 1 .. at - 1 : a[i].status \in {"completed", "skipped"},
           \A i \in DOMAIN a : i > at => a[i].status = "pending"
    PROVE  /\ \A i \in 1 .. at : b[i].status \in {"completed", "skipped"}
           /\ \A i \in DOMAIN b : i > at => b[i].status = "pending"
           /\ at \in Nat /\ DOMAIN b = 1 .. Len(a) /\ Len(a) \in Nat
<1>1. DOMAIN a = 1 .. Len(a) /\ Len(a) \in Nat
  OBVIOUS
<1>2. ASSUME NEW i \in 1 .. at
      PROVE  b[i].status \in {"completed", "skipped"}
 <2>1. i = at \/ i \in 1 .. at - 1
   BY <1>1
 <2>2. i \in DOMAIN a
   BY <1>1
 <2>. QED BY <2>1, <2>2
<1>3. ASSUME NEW i \in DOMAIN b, i > at
      PROVE  b[i].status = "pending"
  BY <1>1, <1>3
<1>. QED BY <1>1, <1>2, <1>3

\* The run goes on to its next action, with this one done.
LEMMA OnwardKept ==
    ASSUME ReversingInv, run.pc \in {"check", "write"}, NEW s \in {"completed", "skipped"},
           plans' = [plans EXCEPT ![run.plan].actions[run.at].status = s], run' = Reversing!Onward,
           UNCHANGED <<writes, linked, planner, marked, byHand>>,
           live' \in [DOMAIN writes -> Reversing!Values], again' \in [DOMAIN writes -> Nat],
           \A o \in DOMAIN writes : live'[o] # "masked" /\ (writes[o].named => again'[o] <= 1),
           \A o \in DOMAIN writes :
               o # plans[run.plan].actions[run.at].reverses => again'[o] = again[o]
    PROVE  ReversingInv'
<1>0. PICK a, at, q : a = plans[run.plan].actions /\ at = run.at /\ q = run.plan
  OBVIOUS
<1>1. /\ q \in DOMAIN plans /\ plans[q] \in Plan /\ q \in Nat /\ PlanOK(q)
      /\ plans[q].status = "running" /\ ~plans[q].errors
      /\ a \in Seq(Reversal) /\ DOMAIN a = 1 .. Len(a) /\ Len(a) \in Nat
      /\ at \in DOMAIN a
      /\ \A i \in 1 .. at - 1 : a[i].status \in {"completed", "skipped"}
      /\ \A i \in DOMAIN a : i > at => a[i].status = "pending"
      /\ \A i \in DOMAIN a :
            /\ i >= at
            /\ writes[a[i].reverses].kind = "delete" /\ writes[a[i].reverses].named
            /\ run.entry[a[i].reverses] = "absent"
            => again[a[i].reverses] = 0
 <2>1. q \in DOMAIN plans /\ plans[q] \in Plan /\ q \in Nat /\ PlanOK(q)
   BY <1>0, RunsAlone DEF ReversingInv, ReversingTypes
 <2>2. a \in Seq(Reversal)
   BY <1>0, <2>1 DEF Plan
 <2>3. RunOK
   BY DEF ReversingInv
 <2>4. /\ plans[q].status = "running" /\ ~plans[q].errors /\ at \in DOMAIN a
       /\ \A i \in 1 .. at - 1 : a[i].status \in {"completed", "skipped"}
       /\ \A i \in DOMAIN a : i > at => a[i].status = "pending"
       /\ \A i \in DOMAIN a :
             /\ i >= at
             /\ writes[a[i].reverses].kind = "delete" /\ writes[a[i].reverses].named
             /\ run.entry[a[i].reverses] = "absent"
             => again[a[i].reverses] = 0
   BY <1>0, <2>3 DEF RunOK, Progress
 <2>5. DOMAIN a = 1 .. Len(a) /\ Len(a) \in Nat
   BY <2>2
 <2>. QED BY <2>1, <2>2, <2>4, <2>5
<1>2. run \in [pc : {"check", "write"}, plan : Nat, at : Nat, entry : [DOMAIN writes -> Reversing!Values]]
  BY DEF ReversingInv, ReversingTypes, RunState
<1>3. \/ at = Len(a) /\ run' = [pc |-> "verify", plan |-> q]
      \/ at # Len(a) /\ run' = [pc |-> "check", plan |-> q, at |-> at + 1, entry |-> run.entry]
 <2>1. run' = IF at = Len(a) THEN [pc |-> "verify", plan |-> q] ELSE [run EXCEPT !.pc = "check", !.at = at + 1]
   BY <1>0 DEF Reversing!Onward, Reversing!Acts
 <2>. QED BY <1>0, <1>2, <2>1
<1>4. run'.pc # "idle" /\ run'.plan = q /\ run' \in RunState(DOMAIN writes)
  BY <1>1, <1>2, <1>3 DEF RunState
<1>5. plans' = [plans EXCEPT ![run.plan] =
                   [plans[run.plan] EXCEPT !.status = "running", !.actions[run.at].status = s]]
 <2>1. [plans[q] EXCEPT !.status = "running", !.actions[at].status = s] = [plans[q] EXCEPT !.actions[at].status = s]
   BY <1>1 DEF Plan
 <2>. QED BY <1>0, <2>1
<1>6. /\ plans' \in Seq(Plan) /\ DOMAIN plans' = DOMAIN plans /\ Len(plans') = Len(plans)
      /\ UndoneStays
      /\ \A p \in DOMAIN plans' : PlanOK(p)'
      /\ \A p \in Planners : PlannerOK(planner[p])'
      /\ (linked # 0 => plans[linked].recorded)'
      /\ plans'[q].status = "running" /\ ~plans'[q].errors
      /\ DOMAIN plans'[q].actions = DOMAIN a
      /\ plans'[q].actions[at].status = s
      /\ \A i \in DOMAIN a : /\ plans'[q].actions[i].reverses = a[i].reverses
                             /\ i # at => plans'[q].actions[i].status = a[i].status
 <2>1. s \in {"executing", "completed", "skipped", "failed"} /\ "running" \in {"running", "failed"}
   OBVIOUS
 <2>2. /\ UNCHANGED <<writes, linked, planner>> /\ run.plan = q
       /\ ("running" = "running" => run'.pc # "idle" /\ run'.plan = run.plan)
   BY <1>0, <1>4
 <2>3. /\ plans' \in Seq(Plan) /\ DOMAIN plans' = DOMAIN plans /\ Len(plans') = Len(plans)
       /\ UndoneStays
       /\ \A p \in DOMAIN plans' : PlanOK(p)'
       /\ \A p \in Planners : PlannerOK(planner[p])'
       /\ (linked # 0 => plans[linked].recorded)'
       /\ run.plan \in DOMAIN plans /\ plans'[run.plan].status = "running" /\ ~plans'[run.plan].errors
       /\ DOMAIN plans'[run.plan].actions = DOMAIN plans[run.plan].actions
       /\ plans'[run.plan].actions[run.at].status = s
       /\ \A i \in DOMAIN plans[run.plan].actions :
             /\ plans'[run.plan].actions[i].reverses = plans[run.plan].actions[i].reverses
             /\ i # run.at => plans'[run.plan].actions[i].status = plans[run.plan].actions[i].status
   BY <1>5, <2>1, <2>2, ActionWritten
 <2>. QED BY <1>0, <2>3, ZenonT(40)
<1>7. PICK b : /\ b = plans'[q].actions /\ DOMAIN b = DOMAIN a /\ b[at].status = s
               /\ \A i \in DOMAIN a : b[i].reverses = a[i].reverses /\ (i # at => b[i].status = a[i].status)
  BY <1>6
<1>8. \A i \in DOMAIN a : i > at => a[i].reverses # a[at].reverses /\ a[i].reverses \in DOMAIN writes
 <2>1. Complete(OrdersOf(a))
   BY <1>0, <1>1 DEF PlanOK
 <2>2. DOMAIN OrdersOf(a) = DOMAIN a /\ \A i \in DOMAIN a : OrdersOf(a)[i] = a[i].reverses
   BY DEF OrdersOf
 <2>. QED BY <1>1, <2>1, <2>2 DEF Complete
<1>11. /\ \A i \in 1 .. at : b[i].status \in {"completed", "skipped"}
       /\ \A i \in DOMAIN b : i > at => b[i].status = "pending"
       /\ at \in Nat /\ DOMAIN b = 1 .. Len(a) /\ Len(a) \in Nat
 <2>1. b[at].status \in {"completed", "skipped"}
   BY <1>7
 <2>2. \A i \in DOMAIN a : i # at => b[i].status = a[i].status
   BY <1>7
 <2>3. a \in Seq(Reversal) /\ at \in DOMAIN a /\ DOMAIN b = DOMAIN a
   BY <1>1, <1>7
 <2>4. /\ \A i \in 1 .. at - 1 : a[i].status \in {"completed", "skipped"}
       /\ \A i \in DOMAIN a : i > at => a[i].status = "pending"
   BY <1>1
 <2>. QED BY SMTT(60), <2>1, <2>2, <2>3, <2>4, DoneSoFar
<1>12. /\ q \in DOMAIN plans' /\ plans'[q].status = "running" /\ ~plans'[q].errors
       /\ plans'[q].actions = b
  BY <1>1, <1>6, <1>7
<1>9. CASE at = Len(a) /\ run' = [pc |-> "verify", plan |-> q]
 <2>1. \A i \in DOMAIN b : b[i].status \in {"completed", "skipped"}
   BY <1>9, <1>11
 <2>2. run'.pc = "verify" /\ run'.plan = q
   BY <1>9
 <2>3. RunOK'
   BY <1>12, <2>1, <2>2 DEF RunOK, Progress
 <2>. QED BY <1>4, <1>6, <2>3, RunMoved DEF ReversingInv, ReversingTypes
<1>10. CASE at # Len(a) /\ run' = [pc |-> "check", plan |-> q, at |-> at + 1, entry |-> run.entry]
 <2>1. at < Len(a)
   BY <1>1, <1>10, <1>11
 <2>2. PICK k \in Nat : k = at + 1
   BY <1>11
 <2>3. /\ k \in DOMAIN b /\ b[k].status = "pending"
       /\ \A i \in 1 .. k - 1 : b[i].status \in {"completed", "skipped"}
       /\ \A i \in DOMAIN b : i > k => b[i].status = "pending"
   BY <1>11, <2>1, <2>2
 <2>4. ASSUME NEW i \in DOMAIN b, i >= k, NEW o, o = b[i].reverses,
              writes[o].kind = "delete", writes[o].named, run.entry[o] = "absent"
       PROVE  again'[o] = 0
  <3>1. i \in DOMAIN a /\ i > at /\ i >= at /\ o = a[i].reverses
   <4>0. i \in DOMAIN a
     BY <1>7
   <4>1. i \in Int
     BY <1>11
   <4>2. i > at /\ i >= at
     BY <1>11, <2>2, <2>4, <4>1
   <4>. QED BY <1>7, <2>4, <4>0, <4>1, <4>2
  <3>2. a[i].reverses \in DOMAIN writes /\ a[i].reverses # a[at].reverses
    BY <1>8, <3>1
  <3>3. again'[o] = again[o]
    BY <1>0, <3>1, <3>2
  <3>. QED BY <1>1, <2>4, <3>1, <3>3
 <2>5. run'.pc = "check" /\ run'.plan = q /\ run'.at = k /\ run'.entry = run.entry
   BY <1>10, <2>2
 <2>6. RunOK'
  <3>1. /\ run'.at \in DOMAIN b /\ b[run'.at].status = "pending"
        /\ \A i \in 1 .. run'.at - 1 : b[i].status \in {"completed", "skipped"}
        /\ \A i \in DOMAIN b : i > run'.at => b[i].status = "pending"
    BY <2>3, <2>5
  <3>2. \A i \in DOMAIN b : i >= run'.at =>
            LET o == b[i].reverses IN
            writes[o].kind = "delete" /\ writes[o].named /\ run'.entry[o] = "absent" => again'[o] = 0
    BY <2>4, <2>5
  <3>3. /\ run'.plan \in DOMAIN plans' /\ plans'[run'.plan].status = "running"
        /\ ~plans'[run'.plan].errors /\ plans'[run'.plan].actions = b
    BY <1>12, <2>5
  <3>4. run'.pc = "check" /\ writes' = writes
    BY <2>5
  <3>5. run'.at \in DOMAIN plans'[run'.plan].actions
    BY <3>1, <3>3
  <3>6. \A i \in 1 .. run'.at - 1 : plans'[run'.plan].actions[i].status \in {"completed", "skipped"}
    BY <3>1, <3>3
  <3>7. plans'[run'.plan].actions[run'.at].status = IF run'.pc = "check" THEN "pending" ELSE "executing"
    BY <3>1, <3>3, <3>4
  <3>8. \A i \in DOMAIN plans'[run'.plan].actions :
           i > run'.at => plans'[run'.plan].actions[i].status = "pending"
    BY <3>1, <3>3
  <3>9. \A i \in DOMAIN plans'[run'.plan].actions : i >= run'.at =>
            LET o == plans'[run'.plan].actions[i].reverses IN
            writes'[o].kind = "delete" /\ writes'[o].named /\ run'.entry[o] = "absent" => again'[o] = 0
   <4>1. plans'[run'.plan].actions = b /\ writes' = writes
     BY <3>3, <3>4
   <4>. QED BY <3>2, <4>1
  <3>. QED BY <3>3, <3>4, <3>5, <3>6, <3>7, <3>8, <3>9 DEF RunOK, Progress
 <2>. QED BY <1>4, <1>6, <2>6, RunMoved DEF ReversingInv, ReversingTypes
<1>. QED BY <1>3, <1>9, <1>10

LEMMA AtWork ==
    ASSUME ReversingInv, run.pc \in {"check", "write"}
    PROVE  /\ run.plan \in DOMAIN plans /\ run.plan \in Nat /\ plans[run.plan] \in Plan
           /\ PlanOK(run.plan) /\ plans[run.plan].status = "running" /\ ~plans[run.plan].errors
           /\ plans[run.plan].actions \in Seq(Reversal)
           /\ run.at \in DOMAIN plans[run.plan].actions
           /\ plans[run.plan].actions[run.at].reverses \in DOMAIN writes
           /\ run \in [pc : {"check", "write"}, plan : Nat, at : Nat,
                       entry : [DOMAIN writes -> Reversing!Values]]
<1>1. /\ run.plan \in DOMAIN plans /\ run.plan \in Nat /\ plans[run.plan] \in Plan /\ PlanOK(run.plan)
  BY RunsAlone DEF ReversingInv, ReversingTypes
<1>2. /\ plans[run.plan].status = "running" /\ ~plans[run.plan].errors
      /\ run.at \in DOMAIN plans[run.plan].actions
  BY DEF ReversingInv, RunOK, Progress
<1>3. plans[run.plan].actions[run.at].reverses \in DOMAIN writes
 <2>1. \A i \in DOMAIN OrdersOf(plans[run.plan].actions) :
           OrdersOf(plans[run.plan].actions)[i] \in DOMAIN writes
   BY <1>1 DEF PlanOK, Complete
 <2>. QED BY <1>2, <2>1 DEF OrdersOf
<1>4. run \in [pc : {"check", "write"}, plan : Nat, at : Nat, entry : [DOMAIN writes -> Reversing!Values]]
  BY DEF ReversingInv, ReversingTypes, RunState
<1>. QED BY <1>1, <1>2, <1>3, <1>4 DEF Plan

\* The action that is checked may be written.
LEMMA StartedKept ==
    ASSUME ReversingInv, run.pc = "check",
           plans' = [plans EXCEPT ![run.plan].actions[run.at].status = "executing"],
           run' = [run EXCEPT !.pc = "write"],
           UNCHANGED <<writes, live, again, byHand, marked, linked, planner>>,
           LET o == plans[run.plan].actions[run.at].reverses IN
           IF writes[o].kind = "delete" THEN run.entry[o] = "absent"
           ELSE writes[o].did = "unconfirmed" \/ run.entry[o] # "hand"
    PROVE  ReversingInv'
<1>0. PICK a, at, q : a = plans[run.plan].actions /\ at = run.at /\ q = run.plan
  OBVIOUS
<1>1. /\ q \in DOMAIN plans /\ q \in Nat /\ plans[q] \in Plan
      /\ plans[q].status = "running" /\ a \in Seq(Reversal) /\ at \in DOMAIN a
      /\ run \in [pc : {"check", "write"}, plan : Nat, at : Nat, entry : [DOMAIN writes -> Reversing!Values]]
  BY <1>0, AtWork
<1>2. /\ \A i \in 1 .. at - 1 : a[i].status \in {"completed", "skipped"}
      /\ \A i \in DOMAIN a : i > at => a[i].status = "pending"
      /\ \A i \in DOMAIN a : i >= at =>
            LET o == a[i].reverses IN
            writes[o].kind = "delete" /\ writes[o].named /\ run.entry[o] = "absent" => again[o] = 0
  BY <1>0 DEF ReversingInv, RunOK, Progress
<1>3. /\ run' = [pc |-> "write", plan |-> q, at |-> at, entry |-> run.entry]
      /\ run' \in RunState(DOMAIN writes)
  BY <1>0, <1>1 DEF RunState
<1>4. plans' = [plans EXCEPT ![run.plan] =
                   [plans[run.plan] EXCEPT !.status = "running", !.actions[run.at].status = "executing"]]
 <2>1. [plans[q] EXCEPT !.status = "running", !.actions[at].status = "executing"]
           = [plans[q] EXCEPT !.actions[at].status = "executing"]
   BY <1>1 DEF Plan
 <2>. QED BY <1>0, <2>1
<1>5. /\ plans' \in Seq(Plan) /\ DOMAIN plans' = DOMAIN plans /\ Len(plans') = Len(plans)
      /\ UndoneStays
      /\ \A p \in DOMAIN plans' : PlanOK(p)'
      /\ \A p \in Planners : PlannerOK(planner[p])'
      /\ (linked # 0 => plans[linked].recorded)'
      /\ run.plan \in DOMAIN plans /\ plans'[run.plan].status = "running" /\ ~plans'[run.plan].errors
      /\ DOMAIN plans'[run.plan].actions = DOMAIN plans[run.plan].actions
      /\ plans'[run.plan].actions[run.at].status = "executing"
      /\ \A i \in DOMAIN plans[run.plan].actions :
            /\ plans'[run.plan].actions[i].reverses = plans[run.plan].actions[i].reverses
            /\ i # run.at => plans'[run.plan].actions[i].status = plans[run.plan].actions[i].status
 <2>1. "executing" \in {"executing", "completed", "skipped", "failed"} /\ "running" \in {"running", "failed"}
   OBVIOUS
 <2>2. /\ UNCHANGED <<writes, linked, planner>> /\ run'.pc # "idle" /\ run'.plan = run.plan
   BY <1>0, <1>3
 <2>. QED BY <1>4, <2>1, <2>2, ActionWritten
<1>6. PICK b : /\ b = plans'[q].actions /\ DOMAIN b = DOMAIN a /\ b[at].status = "executing"
               /\ \A i \in DOMAIN a : b[i].reverses = a[i].reverses /\ (i # at => b[i].status = a[i].status)
 <2>1. PICK b : b = plans'[q].actions
   OBVIOUS
 <2>2. DOMAIN b = DOMAIN a /\ b[at].status = "executing"
   BY <1>0, <1>5, <2>1
 <2>3. \A i \in DOMAIN a : b[i].reverses = a[i].reverses /\ (i # at => b[i].status = a[i].status)
   BY <1>0, <1>5, <2>1
 <2>. QED BY <2>1, <2>2, <2>3
<1>7. DOMAIN a = 1 .. Len(a) /\ Len(a) \in Nat
  BY <1>1
<1>8. \A i \in 1 .. at - 1 : b[i].status \in {"completed", "skipped"}
 <2>. SUFFICES ASSUME NEW i \in 1 .. at - 1 PROVE b[i].status \in {"completed", "skipped"}
   OBVIOUS
 <2>1. i \in DOMAIN a /\ i # at
   BY <1>1, <1>7
 <2>. QED BY <1>2, <1>6, <2>1
<1>9. \A i \in DOMAIN b : i > at => b[i].status = "pending"
 <2>. SUFFICES ASSUME NEW i \in DOMAIN b, i > at PROVE b[i].status = "pending"
   OBVIOUS
 <2>1. i \in DOMAIN a /\ i # at
   BY <1>1, <1>6, <1>7
 <2>. QED BY <1>2, <1>6, <2>1
<1>10. ASSUME NEW i \in DOMAIN b, i >= at, NEW o, o = b[i].reverses,
              writes[o].kind = "delete", writes[o].named, run.entry[o] = "absent"
       PROVE  again[o] = 0
 <2>1. i \in DOMAIN a /\ o = a[i].reverses
   BY <1>6, <1>10
 <2>. QED BY <1>2, <1>10, <2>1
<1>11. LET o == b[at].reverses IN
       IF writes[o].kind = "delete" THEN run.entry[o] = "absent"
       ELSE writes[o].did = "unconfirmed" \/ run.entry[o] # "hand"
 <2>1. PICK o : o = plans[run.plan].actions[run.at].reverses
   OBVIOUS
 <2>2. b[at].reverses = o
   BY <1>0, <1>1, <1>6, <2>1
 <2>3. IF writes[o].kind = "delete" THEN run.entry[o] = "absent"
       ELSE writes[o].did = "unconfirmed" \/ run.entry[o] # "hand"
   BY <2>1
 <2>. QED BY <2>2, <2>3
<1>12. /\ run'.pc = "write" /\ run'.plan = q /\ run'.at = at /\ run'.entry = run.entry
  BY <1>3
<1>13. RunOK'
 <2>1. /\ run'.plan \in DOMAIN plans' /\ plans'[run'.plan].status = "running"
       /\ ~plans'[run'.plan].errors /\ plans'[run'.plan].actions = b
   BY <1>0, <1>1, <1>5, <1>6, <1>12
 <2>2. /\ run'.at \in DOMAIN b
       /\ \A i \in 1 .. run'.at - 1 : b[i].status \in {"completed", "skipped"}
       /\ b[run'.at].status = IF run'.pc = "check" THEN "pending" ELSE "executing"
       /\ \A i \in DOMAIN b : i > run'.at => b[i].status = "pending"
  <3>1. at \in DOMAIN b /\ b[at].status = "executing"
    BY <1>1, <1>6
  <3>. QED BY <1>8, <1>9, <1>12, <3>1
 <2>3. \A i \in DOMAIN b : i >= run'.at =>
          LET o == b[i].reverses IN
          writes'[o].kind = "delete" /\ writes'[o].named /\ run'.entry[o] = "absent" => again'[o] = 0
   BY <1>10, <1>12
 <2>4. LET o == b[run'.at].reverses IN
       IF writes'[o].kind = "delete" THEN run'.entry[o] = "absent"
       ELSE writes'[o].did = "unconfirmed" \/ run'.entry[o] # "hand"
   BY <1>11, <1>12
 <2>5. run'.pc = "write"
   BY <1>12
 <2>6. plans'[run'.plan].actions = b
   BY <2>1
 <2>7. (run'.at \in DOMAIN plans'[run'.plan].actions)
       /\ (\A i \in 1 .. run'.at - 1 : plans'[run'.plan].actions[i].status \in {"completed", "skipped"})
       /\ plans'[run'.plan].actions[run'.at].status = (IF run'.pc = "check" THEN "pending" ELSE "executing")
       /\ (\A i \in DOMAIN plans'[run'.plan].actions :
              i > run'.at => plans'[run'.plan].actions[i].status = "pending")
   BY <2>2, <2>6
 <2>8. \A i \in DOMAIN plans'[run'.plan].actions : i >= run'.at =>
          LET o == plans'[run'.plan].actions[i].reverses IN
          writes'[o].kind = "delete" /\ writes'[o].named /\ run'.entry[o] = "absent" => again'[o] = 0
   BY <2>3, <2>6
 <2>9. LET o == plans'[run'.plan].actions[run'.at].reverses IN
       IF writes'[o].kind = "delete" THEN run'.entry[o] = "absent"
       ELSE writes'[o].did = "unconfirmed" \/ run'.entry[o] # "hand"
   BY <2>4, <2>6
 <2>. QED BY <2>1, <2>5, <2>7, <2>8, <2>9 DEF RunOK, Progress
<1>. QED BY <1>3, <1>5, <1>13, RunMoved DEF ReversingInv, ReversingTypes

LEMMA CheckKept ==
    ASSUME ReversingInv, Reversing!Check
    PROVE  ReversingInv'
<1>. PICK o : o = plans[run.plan].actions[run.at].reverses
  OBVIOUS
<1>1. /\ run.pc = "check" /\ UNCHANGED <<writes, live, again, byHand, linked, planner, marked>>
      /\ \/ /\ plans' = [plans EXCEPT ![run.plan].actions[run.at].status = "skipped"]
            /\ run' = Reversing!Onward
         \/ plans' = [plans EXCEPT ![run.plan].status = "failed"] /\ run' = [pc |-> "idle"]
         \/ /\ ~Reversing!Skips(o) /\ ~Reversing!Drifted(o)
            /\ plans' = [plans EXCEPT ![run.plan].actions[run.at].status = "executing"]
            /\ run' = [run EXCEPT !.pc = "write"]
  BY DEF Reversing!Check, Reversing!mistVars, Reversing!SetAction, Reversing!Close, Reversing!Target,
     Reversing!Action, Reversing!Acts
<1>2. o \in DOMAIN writes /\ writes[o] \in Change
 <2>1. o \in DOMAIN writes
   BY <1>1, AtWork
 <2>2. writes \in Seq(Change)
   BY DEF ReversingInv, ReversingTypes
 <2>. QED BY <2>1, <2>2
<1>3. CASE /\ plans' = [plans EXCEPT ![run.plan].actions[run.at].status = "skipped"]
           /\ run' = Reversing!Onward
 <2>1. /\ live' \in [DOMAIN writes -> Reversing!Values] /\ again' \in [DOMAIN writes -> Nat]
       /\ \A p \in DOMAIN writes : live'[p] # "masked" /\ (writes[p].named => again'[p] <= 1)
   BY <1>1 DEF ReversingInv, ReversingTypes
 <2>2. "skipped" \in {"completed", "skipped"}
   OBVIOUS
 <2>. QED BY <1>1, <1>3, <2>1, <2>2, OnwardKept
<1>4. CASE plans' = [plans EXCEPT ![run.plan].status = "failed"] /\ run' = [pc |-> "idle"]
  BY <1>1, <1>4, Closed
<1>5. CASE /\ ~Reversing!Skips(o) /\ ~Reversing!Drifted(o)
           /\ plans' = [plans EXCEPT ![run.plan].actions[run.at].status = "executing"]
           /\ run' = [run EXCEPT !.pc = "write"]
 <2>1. writes[o].kind = "delete" => run.entry[o] = "absent"
   BY <1>5 DEF Reversing!Skips
 <2>2. writes[o].kind # "delete" => writes[o].did = "unconfirmed" \/ run.entry[o] # "hand"
  <3>. SUFFICES ASSUME writes[o].kind # "delete", writes[o].did # "unconfirmed", live[o] = "hand"
                PROVE  FALSE
    BY <1>5 DEF Reversing!Drifted
  <3>1. Reversing!assess_live_state(o) = "drift"
    BY <1>2 DEF Reversing!assess_live_state, Reversing!unconfirmed_write, Reversing!Payload
  <3>. QED BY <1>5, <3>1 DEF Reversing!Drifted
 <2>. QED BY <1>1, <1>5, <2>1, <2>2, StartedKept
<1>. QED BY <1>1, <1>3, <1>4, <1>5

LEMMA CountedUp ==
    ASSUME NEW S, NEW f \in [S -> Nat], NEW o \in S, NEW g, g = [f EXCEPT ![o] = f[o] + 1]
    PROVE  g \in [S -> Nat] /\ g[o] = f[o] + 1 /\ \A p \in S : p # o => g[p] = f[p]
  OBVIOUS

\* What reaches Mist when an action is written.
LEMMA AppliedIsSafe ==
    ASSUME ReversingInv, run.pc = "write", Reversing!Applied
    PROVE  /\ live' \in [DOMAIN writes -> Reversing!Values] /\ again' \in [DOMAIN writes -> Nat]
           /\ \A p \in DOMAIN writes : live'[p] # "masked" /\ (writes[p].named => again'[p] <= 1)
           /\ \A p \in DOMAIN writes :
                 p # plans[run.plan].actions[run.at].reverses => again'[p] = again[p] /\ live'[p] = live[p]
           /\ writes[plans[run.plan].actions[run.at].reverses].kind = "delete" => live' = live
<1>. PICK a, o, at : a = plans[run.plan].actions /\ o = a[at].reverses /\ at = run.at
  OBVIOUS
<1>1. /\ o \in DOMAIN writes /\ writes[o] \in Change /\ at \in DOMAIN a /\ at >= at
      /\ PlanOK(run.plan) /\ ~plans[run.plan].errors
 <2>1. a \in Seq(Reversal) /\ at \in DOMAIN a
   BY AtWork
 <2>2. at \in Int
   BY <2>1
 <2>. QED BY <2>1, <2>2, AtWork DEF ReversingInv, ReversingTypes
<1>2. /\ \A i \in DOMAIN a : i >= at =>
            LET r == a[i].reverses IN
            writes[r].kind = "delete" /\ writes[r].named /\ run.entry[r] = "absent" => again[r] = 0
      /\ IF writes[o].kind = "delete" THEN run.entry[o] = "absent"
         ELSE writes[o].did = "unconfirmed" \/ run.entry[o] # "hand"
  BY DEF ReversingInv, RunOK, Progress
<1>3. /\ live \in [DOMAIN writes -> Reversing!Values] /\ again \in [DOMAIN writes -> Nat]
      /\ \A p \in DOMAIN writes : live[p] # "masked" /\ (writes[p].named => again[p] <= 1)
  BY DEF ReversingInv, ReversingTypes
<1>4. Reversing!Target = o
  BY DEF Reversing!Target, Reversing!Action, Reversing!Acts
<1>5. CASE Reversing!inverse(writes[o]) = "create"
 <2>1. writes[o].kind = "delete"
   BY <1>1, <1>5 DEF Reversing!inverse
 <2>2. live' = live /\ again' = [again EXCEPT ![o] = again[o] + 1]
   BY <1>4, <1>5 DEF Reversing!Applied
 <2>3. writes[o].named => again[o] = 0
   BY <1>1, <1>2, <2>1
 <2>4. again' \in [DOMAIN writes -> Nat] /\ again'[o] = again[o] + 1
       /\ \A p \in DOMAIN writes : p # o => again'[p] = again[p]
  <3>1. o \in DOMAIN writes
    BY <1>1
  <3>2. again \in [DOMAIN writes -> Nat]
    BY <1>3
  <3>3. PICK S, f, g : S = DOMAIN writes /\ f = again /\ g = again'
    OBVIOUS
  <3>4. f \in [S -> Nat] /\ o \in S /\ g = [f EXCEPT ![o] = f[o] + 1]
    BY <2>2, <3>1, <3>2, <3>3
  <3>5. g \in [S -> Nat] /\ g[o] = f[o] + 1 /\ \A p \in S : p # o => g[p] = f[p]
    BY <3>4, CountedUp
  <3>. QED BY <3>3, <3>5
 <2>5. \A p \in DOMAIN writes : writes[p].named => again'[p] <= 1
  <3>. SUFFICES ASSUME NEW p \in DOMAIN writes, writes[p].named PROVE again'[p] <= 1
    OBVIOUS
  <3>1. CASE p = o
   <4>1. again[o] = 0 /\ again'[o] = again[o] + 1
     BY <2>3, <2>4, <3>1
   <4>. QED BY <3>1, <4>1
  <3>2. CASE p # o
    BY <1>3, <2>4, <3>2
  <3>. QED BY <3>1, <3>2
 <2>. QED BY <1>3, <2>2, <2>4, <2>5
<1>6. CASE Reversing!inverse(writes[o]) # "create"
 <2>1. writes[o].kind # "delete"
   BY <1>1, <1>6 DEF Reversing!inverse
 <2>2. PICK v : v = IF Reversing!inverse(writes[o]) = "delete" THEN "absent" ELSE Reversing!Payload(writes[o])
   OBVIOUS
 <2>3. again' = again /\ live' = [live EXCEPT ![o] = v]
   BY <1>4, <1>6, <2>2 DEF Reversing!Applied
 <2>4. v \in {"absent", "old"}
  <3>1. ~Masks(writes[o])
    BY <1>1 DEF PlanOK
  <3>. QED BY <1>1, <2>1, <2>2, <3>1 DEF Masks, Reversing!inverse, Reversing!Payload
 <2>. QED BY <1>1, <1>3, <2>1, <2>3, <2>4 DEF Reversing!Values
<1>. QED BY <1>5, <1>6

LEMMA ReversalWriteKept ==
    ASSUME ReversingInv, Reversing!Write
    PROVE  ReversingInv'
<1>1. run.pc = "write" /\ UNCHANGED <<writes, byHand, linked, planner, marked>>
  BY DEF Reversing!Write
<1>2. CASE /\ Reversing!Applied /\ run' = Reversing!Onward
           /\ plans' = [plans EXCEPT ![run.plan].actions[run.at].status = "completed"]
 <2>1. "completed" \in {"completed", "skipped"} /\ run.pc \in {"check", "write"}
   BY <1>1
 <2>. QED BY <1>1, <1>2, <2>1, AppliedIsSafe, OnwardKept
<1>3. CASE /\ plans' = [plans EXCEPT ![run.plan].status = "failed", ![run.plan].actions[run.at].status = "failed"]
           /\ run' = [pc |-> "idle"] /\ live' = live /\ again' = again
 <2>1. /\ run.plan \in DOMAIN plans /\ plans[run.plan] \in Plan /\ plans \in Seq(Plan)
   BY <1>1, AtWork DEF ReversingInv, ReversingTypes
 <2>2. plans' = [plans EXCEPT ![run.plan] =
                    [plans[run.plan] EXCEPT !.status = "failed", !.actions[run.at].status = "failed"]]
   BY <1>3, <2>1 DEF Plan
 <2>3. "failed" \in {"executing", "completed", "skipped", "failed"} /\ "failed" \in {"running", "failed"}
   OBVIOUS
 <2>4. /\ plans' \in Seq(Plan) /\ DOMAIN plans' = DOMAIN plans /\ Len(plans') = Len(plans)
       /\ UndoneStays
       /\ \A p \in DOMAIN plans' : PlanOK(p)'
       /\ \A p \in Planners : PlannerOK(planner[p])'
       /\ (linked # 0 => plans[linked].recorded)'
  <3>1. run.pc \in {"check", "write"} /\ UNCHANGED <<writes, linked, planner>>
    BY <1>1
  <3>2. "failed" = "running" => run'.pc # "idle" /\ run'.plan = run.plan
    OBVIOUS
  <3>. QED BY <2>2, <2>3, <3>1, <3>2, ActionWritten
 <2>5. RunOK' /\ run' \in RunState(DOMAIN writes)
   BY <1>3 DEF RunOK, Progress, RunState
 <2>. QED BY <1>1, <1>3, <2>4, <2>5, RunMoved DEF ReversingInv, ReversingTypes
<1>. QED BY <1>1, <1>2, <1>3 DEF Reversing!Write, Reversing!SetAction

\* The plan that runs ends with the outcome of its write unknown.
LEMMA StopKept ==
    ASSUME ReversingInv, Reversing!Stop
    PROVE  ReversingInv'
<1>. PICK q, a : q = run.plan /\ a = plans[q].actions
  OBVIOUS
<1>1. /\ run.pc # "idle" /\ run' = [pc |-> "idle"]
      /\ UNCHANGED <<writes, byHand, linked, planner, marked>>
  BY DEF Reversing!Stop
<1>2. /\ q \in DOMAIN plans /\ \A p \in DOMAIN plans \ {q} : plans[p].status # "running"
      /\ plans \in Seq(Plan) /\ plans[q] \in Plan /\ a \in Seq(Reversal)
 <2>1. q \in DOMAIN plans /\ \A p \in DOMAIN plans \ {q} : plans[p].status # "running"
   BY <1>1, RunsAlone
 <2>2. plans \in Seq(Plan) /\ plans[q] \in Plan
   BY <2>1 DEF ReversingInv, ReversingTypes
 <2>. QED BY <2>1, <2>2 DEF Plan
<1>3. PICK b : b = [i \in DOMAIN a |->
                       IF a[i].status = "executing" THEN [a[i] EXCEPT !.status = "unconfirmed"] ELSE a[i]]
  OBVIOUS
<1>4. /\ b \in Seq(Reversal) /\ DOMAIN b = DOMAIN a
      /\ \A i \in DOMAIN a : b[i].reverses = a[i].reverses /\ (a[i].status # "executing" => b[i] = a[i])
 <2>1. ASSUME NEW i \in DOMAIN a
       PROVE  b[i] \in Reversal /\ b[i].reverses = a[i].reverses /\ (a[i].status # "executing" => b[i] = a[i])
  <3>1. a[i] \in Reversal
    BY <1>2
  <3>. QED BY <1>3, <3>1 DEF Reversal
 <2>2. DOMAIN b = DOMAIN a /\ DOMAIN a = 1 .. Len(a) /\ Len(a) \in Nat
   BY <1>2, <1>3
 <2>3. b = [i \in DOMAIN b |-> b[i]]
   BY <1>3
 <2>. QED BY <2>1, <2>2, <2>3
<1>5. PICK new : new = [plans[q] EXCEPT !.status = "failed", !.actions = b]
  OBVIOUS
<1>6. /\ new \in Plan /\ new.actions = b /\ new.status = "failed"
      /\ new.errors = plans[q].errors /\ new.recorded = plans[q].recorded /\ new.current = plans[q].current
  BY <1>2, <1>4, <1>5 DEF Plan
<1>7. plans' = [plans EXCEPT ![q] = new]
 <2>1. plans' = [plans EXCEPT ![q].status = "failed", ![q].actions = b]
   BY <1>3 DEF Reversing!Stop, Reversing!Acts
 <2>. QED BY <1>2, <1>5, <2>1 DEF Plan
<1>8. OrdersOf(b) = OrdersOf(a) /\ \A i \in DOMAIN b : \A o : Undoes(a[i], o) => Undoes(b[i], o)
  BY <1>4 DEF OrdersOf, Undoes
<1>9. /\ plans' \in Seq(Plan) /\ Len(plans') = Len(plans)
      /\ UndoneStays
      /\ \A p \in DOMAIN plans' : PlanOK(p)'
      /\ \A p \in Planners : PlannerOK(planner[p])'
      /\ (linked # 0 => plans[linked].recorded)'
  BY <1>1, <1>2, <1>6, <1>7, <1>8, PlanWritten
<1>10. RunOK' /\ run' \in RunState(DOMAIN writes)
  BY <1>1 DEF RunOK, Progress, RunState
<1>11. /\ live' \in [DOMAIN writes -> Reversing!Values] /\ again' \in [DOMAIN writes -> Nat]
       /\ \A p \in DOMAIN writes : live'[p] # "masked" /\ (writes[p].named => again'[p] <= 1)
 <2>1. CASE run.pc = "write" /\ Reversing!Applied
   BY <2>1, AppliedIsSafe
 <2>2. CASE live' = live /\ again' = again
   BY <2>2 DEF ReversingInv, ReversingTypes
 <2>. QED BY <2>1, <2>2 DEF Reversing!Stop
<1>. QED BY <1>1, <1>9, <1>10, <1>11, RunMoved DEF ReversingInv, ReversingTypes

LEMMA ReversingStep ==
    ASSUME ReversingInv, [Reversing!Next]_(Reversing!vars)
    PROVE  ReversingInv'
<1>1. CASE UNCHANGED Reversing!vars
 <2>1. UNCHANGED <<writes, live, again, byHand, marked, plans, linked, planner, run>>
   BY <1>1 DEF Reversing!vars, Reversing!mistVars, Reversing!planVars
 <2>2. PlansKept
   BY <2>1, PlansUnchanged
 <2>. QED BY <2>1, <2>2, BesideKept DEF ReversingInv, ReversingTypes
<1>2. CASE \E p \in Planners :
               \/ Reversing!ReadEarlier(p) \/ Reversing!Insert(p) \/ Reversing!Record(p)
               \/ Reversing!Link(p) \/ Reversing!_retire_stale(p) \/ Reversing!RequestLost(p)
  BY <1>2, ReadEarlierKept, InsertKept, RecordKept, RetireKept
<1>3. CASE Reversing!FormulaChanges \/ Reversing!Queue \/ Reversing!Capture \/ Reversing!Check
  BY <1>3, FormulaKept, QueueKept, CaptureKept, CheckKept
<1>4. CASE Reversing!Write \/ Reversing!Stop \/ Reversing!Verify
  BY <1>4, ReversalWriteKept, StopKept, ReversalVerified
<1>5. CASE \E o \in Reversing!Orders : Reversing!ByHand(o)
  BY <1>5, ByHandKept
<1>. QED BY <1>1, <1>2, <1>3, <1>4, <1>5 DEF Reversing!Next

LEMMA ReversingInit ==
    ASSUME Restores \subseteq Seq(Change), Reversing!Init
    PROVE  ReversingInv
<1>1. /\ writes \in Seq(Change) /\ plans = <<>> /\ linked = 0 /\ run = [pc |-> "idle"]
      /\ again = [o \in DOMAIN writes |-> 0] /\ byHand = {} /\ marked = FALSE
      /\ planner = [p \in Planners |-> [pc |-> "idle"]]
      /\ live \in [DOMAIN writes -> {"absent", "old", "new"}]
  BY DEF Reversing!Init, Reversing!Orders, Reversing!None
<1>2. ReversingTypes
 <2>1. plans \in Seq(Plan) /\ Len(plans) = 0
   BY <1>1
 <2>2. live \in [DOMAIN writes -> Reversing!Values]
   BY <1>1 DEF Reversing!Values
 <2>3. planner \in [Planners -> PlannerState] /\ run \in RunState(DOMAIN writes)
   BY <1>1 DEF PlannerState, RunState
 <2>4. again \in [DOMAIN writes -> Nat] /\ byHand \subseteq DOMAIN writes /\ marked \in BOOLEAN
   BY <1>1
 <2>5. linked \in 0 .. Len(plans)
   BY <1>1, <2>1
 <2>. QED BY <1>1, <2>1, <2>2, <2>3, <2>4, <2>5 DEF ReversingTypes
<1>3. \A p \in DOMAIN plans : PlanOK(p)
  BY <1>1
<1>4. RunOK /\ \A p \in Planners : PlannerOK(planner[p])
  BY <1>1 DEF RunOK, Progress, PlannerOK
<1>5. \A o \in DOMAIN writes : live[o] # "masked" /\ (writes[o].named => again[o] <= 1)
  BY <1>1
<1>. QED BY <1>1, <1>2, <1>3, <1>4, <1>5 DEF ReversingInv

\* What the invariant says, in the words of the module.
LEMMA ReversingTypeOK ==
    ASSUME ReversingInv
    PROVE  Reversing!TypeOK
<1>. DEFINE Running == {p \in DOMAIN plans : plans[p].status = "running"}
<1>1. \A S : Reversing!Cardinality(S) = Cardinality(S)
  BY Zenon DEF Reversing!Cardinality, Cardinality
<1>2. Cardinality(Running) = IF run.pc = "idle" THEN 0 ELSE 1
 <2>1. CASE run.pc = "idle"
  <3>1. Running = {}
    BY <2>1, RunsAlone
  <3>. QED BY <2>1, <3>1, FS_EmptySet
 <2>2. CASE run.pc # "idle"
  <3>1. Running = {run.plan}
    BY <2>2, RunsAlone DEF ReversingInv, RunOK, Progress
  <3>. QED BY <2>2, <3>1, FS_Singleton
 <2>. QED BY <2>1, <2>2
<1>3. \A p \in DOMAIN plans : plans[p].status \in
          {"planned", "queued", "running", "failed", "compensated", "superseded"}
 <2>1. \A p \in DOMAIN plans : plans[p] \in Plan
   BY DEF ReversingInv, ReversingTypes
 <2>. QED BY <2>1 DEF Plan
<1>. QED BY <1>1, <1>2, <1>3 DEF Reversing!TypeOK, Reversing!Orders, ReversingInv, ReversingTypes

LEMMA LeavesNothing ==
    ASSUME ReversingInv
    PROVE  Reversing!NothingIsLeft
  BY DEF Reversing!NothingIsLeft, Reversing!Orders, Reversing!possibly_applied, Reversing!unconfirmed_write,
         ReversingInv, Due, Undone, Undoes

\* A run of compensations, stopped anywhere and planned again, whatever is
\* edited meanwhile: no mask is written for a secret, a named object is recreated
\* at most once, and a restore recorded as compensated has every write reversed
\* (restore_compensation.py).
THEOREM CompensationsAreSafe ==
    ASSUME Restores \subseteq Seq(Change)
    PROVE  Reversing!Spec => []( /\ Reversing!TypeOK
                                 /\ Reversing!NoMaskIsWritten
                                 /\ Reversing!RecreatedOnce
                                 /\ Reversing!NothingIsLeft )
<1>1. Reversing!Init => ReversingInv
  BY ReversingInit
<1>2. ReversingInv /\ [Reversing!Next]_(Reversing!vars) => ReversingInv'
  BY ReversingStep
<1>3. ReversingInv => /\ Reversing!TypeOK
                      /\ Reversing!NoMaskIsWritten
                      /\ Reversing!RecreatedOnce
                      /\ Reversing!NothingIsLeft
 <2>. SUFFICES ASSUME ReversingInv
               PROVE  Reversing!NoMaskIsWritten /\ Reversing!RecreatedOnce
   BY ReversingTypeOK, LeavesNothing
 <2>. QED BY DEF ReversingInv, Reversing!NoMaskIsWritten, Reversing!RecreatedOnce, Reversing!Orders
<1>. QED BY <1>1, <1>2, <1>3, PTL DEF Reversing!Spec

LEMMA HandEditKept ==
    ASSUME ReversingInv, edits \in Nat, [Reversing!Next]_(Reversing!vars)
    PROVE  Reversing!KeepsHandEdits \/ UNCHANGED Reversing!vars
<1>. SUFFICES ASSUME NEW o \in DOMAIN writes, live[o] = "hand", live'[o] # "hand", edits' = edits
              PROVE  writes[o].did = "unconfirmed" \/ run.entry[o] # "hand"
  BY DEF Reversing!KeepsHandEdits, Reversing!Orders, Reversing!unconfirmed_write
<1>1. run.pc = "write" /\ Reversing!Applied
 <2>1. live' # live
   OBVIOUS
 <2>2. ~UNCHANGED Reversing!vars /\ ~\E p \in Reversing!Orders : Reversing!ByHand(p)
   BY <2>1 DEF Reversing!vars, Reversing!mistVars, Reversing!ByHand
 <2>3. Reversing!Next => Reversing!Write \/ Reversing!Stop
   BY <2>1, <2>2 DEF Reversing!Next, Reversing!mistVars, Reversing!ReadEarlier, Reversing!Insert,
      Reversing!Record, Reversing!Link, Reversing!_retire_stale, Reversing!RequestLost,
      Reversing!FormulaChanges, Reversing!Queue, Reversing!Capture, Reversing!Check, Reversing!Verify
 <2>. QED BY <2>1, <2>2, <2>3 DEF Reversing!Write, Reversing!Stop
<1>. PICK r : r = plans[run.plan].actions[run.at].reverses
  OBVIOUS
<1>2. o = r /\ writes[o].kind # "delete"
  BY <1>1, AppliedIsSafe
<1>3. IF writes[r].kind = "delete" THEN run.entry[r] = "absent"
      ELSE writes[r].did = "unconfirmed" \/ run.entry[r] # "hand"
  BY <1>1 DEF ReversingInv, RunOK, Progress
<1>. QED BY <1>2, <1>3

LEMMA EditsCounted ==
    ASSUME edits \in Nat, [Reversing!Next]_(Reversing!vars)
    PROVE  edits' \in Nat
<1>1. CASE UNCHANGED Reversing!vars
  BY <1>1 DEF Reversing!vars, Reversing!counts
<1>2. ASSUME NEW p \in Planners,
             \/ Reversing!ReadEarlier(p) \/ Reversing!Insert(p) \/ Reversing!Record(p)
             \/ Reversing!Link(p) \/ Reversing!_retire_stale(p) \/ Reversing!RequestLost(p)
      PROVE  edits' = edits
  BY <1>2 DEF Reversing!counts, Reversing!ReadEarlier, Reversing!Insert,
     Reversing!Record, Reversing!Link, Reversing!_retire_stale, Reversing!RequestLost
<1>3. Reversing!FormulaChanges \/ Reversing!Queue \/ Reversing!Capture => edits' = edits
  BY DEF Reversing!counts, Reversing!FormulaChanges, Reversing!Queue, Reversing!Capture
<1>4. Reversing!Check \/ Reversing!Write \/ Reversing!Stop \/ Reversing!Verify => edits' = edits
  BY DEF Reversing!counts, Reversing!Check, Reversing!Write, Reversing!Stop, Reversing!Verify
<1>5. \A o \in Reversing!Orders : Reversing!ByHand(o) => edits' \in Nat
  BY DEF Reversing!ByHand
<1>. QED BY <1>1, <1>2, <1>3, <1>4, <1>5 DEF Reversing!Next

\* A reversal overwrites what someone put there by hand only where the write it
\* reverses was never confirmed, or where the edit came after the last check.
THEOREM HandEditsSurviveReversals ==
    ASSUME Restores \subseteq Seq(Change)
    PROVE  Reversing!Spec => Reversing!HandEditsSurvive
<1>0. Reversing!Init => edits \in Nat
  BY DEF Reversing!Init
<1>1. Reversing!Init => ReversingInv /\ edits \in Nat
  BY <1>0, ReversingInit
<1>2. ReversingInv /\ edits \in Nat /\ [Reversing!Next]_(Reversing!vars) => (ReversingInv /\ edits \in Nat)'
  BY ReversingStep, EditsCounted
<1>3. ReversingInv /\ edits \in Nat /\ [Reversing!Next]_(Reversing!vars)
          => [Reversing!KeepsHandEdits]_(Reversing!vars)
  BY HandEditKept
<1>. QED BY <1>1, <1>2, <1>3, PTL DEF Reversing!Spec, Reversing!HandEditsSurvive

\* A step that leaves the requests alone makes no plan active.
LEMMA NoneActivated ==
    ASSUME OneActivePlan, Active' \subseteq Active, planner' = planner
    PROVE  OneActivePlan'
  BY DEF OneActivePlan

\* The step of the run writes one plan, which was active already.
LEMMA RunActivatesNone ==
    ASSUME ReversingInv, OneActivePlan,
           \/ Reversing!Queue \/ Reversing!Capture \/ Reversing!Check
           \/ Reversing!Write \/ Reversing!Stop \/ Reversing!Verify
    PROVE  OneActivePlan'
<1>1. planner' = planner /\ plans \in Seq(Plan)
  BY DEF Reversing!Queue, Reversing!Capture, Reversing!Check, Reversing!Write, Reversing!Stop,
         Reversing!Verify, ReversingInv, ReversingTypes
<1>2. CASE Reversing!Queue
 <2>. PICK q : q = Reversing!compensation_for
   OBVIOUS
 <2>1. q \in DOMAIN plans /\ plans[q].recorded
   BY <1>2, CompensationIs DEF Reversing!Queue, Reversing!None
 <2>2. plans[q].status = "planned" /\ plans[q].current /\ plans' = [plans EXCEPT ![q].status = "running"]
   BY <1>2 DEF Reversing!Queue
 <2>3. plans[q] \in Plan
   BY <1>1, <2>1
 <2>4. DOMAIN plans' = DOMAIN plans /\ \A p \in DOMAIN plans \ {q} : plans'[p] = plans[p]
   BY <2>2
 <2>5. q \in Active
   BY <2>1, <2>2 DEF Active
 <2>6. Active' \subseteq Active
   BY <2>4, <2>5 DEF Active
 <2>. QED BY <1>1, <2>6, NoneActivated
<1>3. CASE plans' = plans
  BY <1>1, <1>3, NoneActivated DEF Active
<1>4. ASSUME run.pc # "idle", NEW new, plans' = [plans EXCEPT ![run.plan] = new],
             new.recorded = plans[run.plan].recorded, new.current = plans[run.plan].current
      PROVE  OneActivePlan'
 <2>1. run.plan \in DOMAIN plans /\ plans[run.plan].status = "running"
   BY <1>4 DEF ReversingInv, RunOK, Progress
 <2>2. /\ DOMAIN plans' = DOMAIN plans /\ plans'[run.plan] = new
       /\ \A p \in DOMAIN plans \ {run.plan} : plans'[p] = plans[p]
   BY <1>4, <2>1
 <2>3. Active' \subseteq Active
   BY <1>4, <2>1, <2>2 DEF Active
 <2>. QED BY <1>1, <2>3, NoneActivated
<1>5. run.pc # "idle" => run.plan \in DOMAIN plans /\ plans[run.plan] \in Plan
  BY <1>1, RunsAlone
<1>6. ASSUME run.pc # "idle", NEW s, plans' = [plans EXCEPT ![run.plan].status = s]
      PROVE  OneActivePlan'
 <2>1. PICK new : new = [plans[run.plan] EXCEPT !.status = s]
   OBVIOUS
 <2>2. /\ plans' = [plans EXCEPT ![run.plan] = new]
       /\ new.recorded = plans[run.plan].recorded /\ new.current = plans[run.plan].current
   BY <1>5, <1>6, <2>1 DEF Plan
 <2>. QED BY <1>4, <1>6, <2>2
<1>7. ASSUME run.pc # "idle", NEW i, NEW s, plans' = [plans EXCEPT ![run.plan].actions[i].status = s]
      PROVE  OneActivePlan'
 <2>1. PICK new : new = [plans[run.plan] EXCEPT !.actions[i].status = s]
   OBVIOUS
 <2>2. /\ plans' = [plans EXCEPT ![run.plan] = new]
       /\ new.recorded = plans[run.plan].recorded /\ new.current = plans[run.plan].current
   BY <1>5, <1>7, <2>1 DEF Plan
 <2>. QED BY <1>4, <1>7, <2>2
<1>8. CASE Reversing!Capture \/ Reversing!Check \/ Reversing!Verify
 <2>1. run.pc # "idle"
   BY <1>8 DEF Reversing!Capture, Reversing!Check, Reversing!Verify
 <2>2. \/ plans' = plans
       \/ \E s : plans' = [plans EXCEPT ![run.plan].status = s]
       \/ \E i, s : plans' = [plans EXCEPT ![run.plan].actions[i].status = s]
   BY <1>8 DEF Reversing!Capture, Reversing!Check, Reversing!Verify, Reversing!Close, Reversing!SetAction
 <2>. QED BY <1>3, <1>6, <1>7, <2>1, <2>2
<1>9. CASE Reversing!Write
 <2>1. run.pc # "idle"
   BY <1>9 DEF Reversing!Write
 <2>2. CASE plans' = [plans EXCEPT ![run.plan].actions[run.at].status = "completed"]
   BY <1>7, <2>1, <2>2
 <2>3. CASE plans' = [plans EXCEPT ![run.plan].status = "failed", ![run.plan].actions[run.at].status = "failed"]
  <3>1. PICK new : new = [plans[run.plan] EXCEPT !.status = "failed", !.actions[run.at].status = "failed"]
    OBVIOUS
  <3>2. /\ plans' = [plans EXCEPT ![run.plan] = new]
        /\ new.recorded = plans[run.plan].recorded /\ new.current = plans[run.plan].current
    BY <1>5, <2>1, <2>3, <3>1 DEF Plan
  <3>. QED BY <1>4, <2>1, <3>2
 <2>. QED BY <1>9, <2>2, <2>3 DEF Reversing!Write, Reversing!SetAction
<1>10. CASE Reversing!Stop
 <2>1. PICK b : run.pc # "idle" /\ plans' = [plans EXCEPT ![run.plan].status = "failed", ![run.plan].actions = b]
   BY <1>10 DEF Reversing!Stop
 <2>2. PICK new : new = [plans[run.plan] EXCEPT !.status = "failed", !.actions = b]
   OBVIOUS
 <2>3. /\ plans' = [plans EXCEPT ![run.plan] = new]
       /\ new.recorded = plans[run.plan].recorded /\ new.current = plans[run.plan].current
   BY <1>5, <2>1, <2>2 DEF Plan
 <2>. QED BY <1>4, <2>1, <2>3
<1>. QED BY <1>2, <1>8, <1>9, <1>10

\* The one planner goes on.
LEMMA RequestActivatesOne ==
    ASSUME ReversingInv, OneActivePlan, \A p, q \in Planners : p = q, NEW p \in Planners,
           \/ Reversing!ReadEarlier(p) \/ Reversing!Insert(p) \/ Reversing!Record(p)
           \/ Reversing!Link(p) \/ Reversing!_retire_stale(p) \/ Reversing!RequestLost(p)
    PROVE  OneActivePlan'
<1>1. /\ plans \in Seq(Plan) /\ planner \in [Planners -> PlannerState] /\ \A q \in Planners : q = p
      /\ DOMAIN plans = 1 .. Len(plans) /\ Len(plans) \in Nat
  BY DEF ReversingInv, ReversingTypes
<1>2. CASE Reversing!ReadEarlier(p)
 <2>1. plans' = plans
   BY <1>2 DEF Reversing!ReadEarlier, Reversing!planVars
 <2>2. \/ planner'[p].pc = "retire"
       \/ planner'[p].pc = "insert" /\ Reversing!Reusable = {} /\ Reversing!WithStatus({"queued", "running"}) = {}
   BY <1>1, <1>2 DEF Reversing!ReadEarlier
 <2>3. ASSUME Reversing!Reusable = {}, Reversing!WithStatus({"queued", "running"}) = {}
       PROVE  Active = {}
  <3>. DEFINE Waiting == {q \in Reversing!WithStatus({"planned"}) : plans[q].current}
  <3>1. Waiting \subseteq 1 .. Len(plans)
    BY <1>1 DEF Reversing!WithStatus, Reversing!Recorded
  <3>2. Waiting = {}
   <4>. SUFFICES ASSUME Waiting # {} PROVE FALSE
     OBVIOUS
   <4>1. Reversing!Newest(Waiting) \in Waiting
     BY <1>1, <3>1, NewestIs
   <4>. QED BY <2>3, <4>1 DEF Reversing!Reusable
  <3>. QED BY <2>3, <3>2 DEF Active, Reversing!WithStatus, Reversing!Recorded
 <2>4. Active' = Active
   BY <2>1 DEF Active
 <2>. QED BY <1>1, <2>2, <2>3, <2>4 DEF OneActivePlan
<1>3. CASE Reversing!Insert(p)
 <2>1. planner[p].pc = "insert" /\ Active = {}
   BY <1>3 DEF Reversing!Insert, OneActivePlan
 <2>2. PICK new : plans' = Append(plans, new) /\ ~new.recorded
   BY <1>3 DEF Reversing!Insert
 <2>3. /\ DOMAIN plans' = 1 .. Len(plans) + 1 /\ plans'[Len(plans) + 1] = new
       /\ \A q \in DOMAIN plans : plans'[q] = plans[q]
   BY <1>1, <2>2
 <2>4. ASSUME NEW q \in DOMAIN plans', plans'[q].recorded
       PROVE  q \in DOMAIN plans /\ plans'[q] = plans[q]
  <3>1. q # Len(plans) + 1
    BY <2>2, <2>3, <2>4
  <3>. QED BY <1>1, <2>3, <3>1
 <2>5. Active' = {}
   BY <2>1, <2>4 DEF Active
 <2>. QED BY <2>5 DEF OneActivePlan
<1>4. CASE Reversing!Record(p)
 <2>1. /\ planner[p].pc = "record" /\ Active = {}
       /\ plans' = [plans EXCEPT ![planner[p].plan].recorded = TRUE]
       /\ planner' = [planner EXCEPT ![p].pc = "link"]
   BY <1>4 DEF Reversing!Record, OneActivePlan
 <2>2. DOMAIN plans' = DOMAIN plans /\ \A q \in DOMAIN plans \ {planner[p].plan} : plans'[q] = plans[q]
   BY <2>1
 <2>3. Active' \subseteq {planner[p].plan}
   BY <2>1, <2>2 DEF Active
 <2>4. planner'[p].pc = "link"
  <3>1. planner[p] \in PlannerState /\ planner'[p] = [planner[p] EXCEPT !.pc = "link"]
    BY <1>1, <2>1
  <3>. QED BY <2>1, <3>1 DEF PlannerState
 <2>. QED BY <1>1, <2>3, <2>4 DEF OneActivePlan
<1>5. CASE Reversing!Link(p) \/ Reversing!RequestLost(p)
 <2>1. plans' = plans
   BY <1>5 DEF Reversing!Link, Reversing!RequestLost, Reversing!planVars
 <2>2. planner'[p].pc \in {"retire", "idle"}
  <3>1. planner[p] \in PlannerState
    BY <1>1
  <3>2. CASE Reversing!Link(p)
   <4>1. planner[p].pc = "link" /\ planner'[p] = [planner[p] EXCEPT !.pc = "retire"]
     BY <1>1, <3>2 DEF Reversing!Link
   <4>. QED BY <3>1, <4>1 DEF PlannerState
  <3>3. CASE Reversing!RequestLost(p)
    BY <1>1, <3>3 DEF Reversing!RequestLost
  <3>. QED BY <1>5, <3>2, <3>3
 <2>3. Active' = Active
   BY <2>1 DEF Active
 <2>. QED BY <1>1, <2>2, <2>3 DEF OneActivePlan
<1>6. CASE Reversing!_retire_stale(p)
 <2>1. /\ planner' = [planner EXCEPT ![p] = [pc |-> "idle"]]
       /\ plans' = [q \in DOMAIN plans |->
              IF Reversing!Superseded(q, planner[p].stale) THEN [plans[q] EXCEPT !.status = "superseded"]
              ELSE plans[q]]
   BY <1>6 DEF Reversing!_retire_stale
 <2>2. ASSUME NEW q \in DOMAIN plans
       PROVE  plans'[q] = plans[q] \/ plans'[q].status = "superseded"
  <3>1. plans[q] \in Plan
    BY <1>1
  <3>. QED BY <2>1, <3>1 DEF Plan
 <2>3. Active' \subseteq Active
   BY <2>1, <2>2 DEF Active
 <2>4. planner'[p].pc = "idle"
   BY <1>1, <2>1
 <2>. QED BY <1>1, <2>3, <2>4 DEF OneActivePlan
<1>. QED BY <1>2, <1>3, <1>4, <1>5, <1>6

LEMMA OneActivePlanStep ==
    ASSUME ReversingInv, OneActivePlan, \A p, q \in Planners : p = q,
           [Reversing!Next]_(Reversing!vars)
    PROVE  OneActivePlan'
<1>1. CASE UNCHANGED Reversing!vars
  BY <1>1, NoneActivated DEF Active, Reversing!vars, Reversing!planVars
<1>2. CASE Reversing!FormulaChanges
 <2>1. plans \in Seq(Plan) /\ planner' = planner
       /\ plans' = [p \in DOMAIN plans |-> [plans[p] EXCEPT !.current = FALSE]]
   BY <1>2 DEF Reversing!FormulaChanges, ReversingInv, ReversingTypes
 <2>2. ASSUME NEW q \in DOMAIN plans'
       PROVE  ~plans'[q].current
  <3>1. q \in DOMAIN plans /\ plans[q] \in Plan
    BY <2>1
  <3>. QED BY <2>1, <3>1 DEF Plan
 <2>3. Active' = {}
   BY <2>2 DEF Active
 <2>. QED BY <2>1, <2>3, NoneActivated
<1>3. CASE \E o \in Reversing!Orders : Reversing!ByHand(o)
 <2>1. plans' = plans /\ planner' = planner
   BY <1>3 DEF Reversing!ByHand, Reversing!planVars
 <2>. QED BY <2>1, NoneActivated DEF Active
<1>. QED BY <1>1, <1>2, <1>3, RunActivatesNone, RequestActivatesOne DEF Reversing!Next

\* Requests that follow each other, with no two planning at once, leave one
\* compensation that is awaiting review or running (create_compensation_plan).
THEOREM OneCompensationAwaits ==
    ASSUME Restores \subseteq Seq(Change), \A p, q \in Planners : p = q
    PROVE  Reversing!Spec => []Reversing!OneCompensationAtATime
<1>1. Reversing!Init => ReversingInv
  BY ReversingInit
<1>2. Reversing!Init => OneActivePlan
  BY DEF Reversing!Init, OneActivePlan, Active
<1>3. ReversingInv /\ [Reversing!Next]_(Reversing!vars) => ReversingInv'
  BY ReversingStep
<1>4. ReversingInv /\ OneActivePlan /\ [Reversing!Next]_(Reversing!vars) => OneActivePlan'
  BY OneActivePlanStep
<1>5. OneActivePlan => Reversing!OneCompensationAtATime
 <2>. SUFFICES ASSUME OneActivePlan PROVE Cardinality(Active) <= 1
  <3>1. \A S : Reversing!Cardinality(S) = Cardinality(S)
    BY Zenon DEF Reversing!Cardinality, Cardinality
  <3>2. Active = {p \in Reversing!Recorded : plans[p].current /\ plans[p].status \in {"planned", "queued", "running"}}
    BY DEF Active, Reversing!Recorded
  <3>. QED BY <3>1, <3>2 DEF Reversing!OneCompensationAtATime
 <2>1. CASE Active = {}
   BY <2>1, FS_EmptySet
 <2>2. CASE Active # {}
  <3>1. PICK q : q \in Active
    BY <2>2
  <3>2. Active = {q}
    BY <3>1 DEF OneActivePlan
  <3>3. Cardinality(Active) = 1
    BY <3>2, FS_Singleton
  <3>. QED BY <3>3
 <2>. QED BY <2>1, <2>2
<1>. QED BY <1>1, <1>2, <1>3, <1>4, <1>5, PTL DEF Reversing!Spec

\* The verification of a restore (RestoreVerification).
CONSTANTS Written, Archives, Recordable, Watched, Edited, Sensitive, Ignored, MAX_REOPENED, MaxElse,
          Actions, Objects, Ids, Devices
VARIABLES sessions, versions, slot, others

Verifying == INSTANCE RestoreVerification WITH Plans <- Written

\* A plan has one action of an object, and none of them writes a mask.
PlansAssumed ==
    /\ Written \subseteq Seq(Actions)
    /\ \A a \in Actions : a.done \in BOOLEAN /\ \A f \in DOMAIN a.wrote : a.wrote[f] \notin {"*", "MISSING"}
    /\ \A ran \in Written : \A i, j \in DOMAIN ran :
          ran[i].done /\ ran[j].done /\ Verifying!Place(ran[i]) = Verifying!Place(ran[j]) => i = j
\* An object that is known has a version; a device's active session is its newest.
Version == [names : SUBSET Ids, deleted : BOOLEAN]
Watch == [device : Devices, site : Ids, active : BOOLEAN]
NewestActive(s) == \A i, j \in DOMAIN s : s[i].active /\ j > i => s[j].device # s[i].device
EvidenceAssumed ==
    /\ Archives \subseteq [Objects -> Seq(Version) \ {<<>>}] /\ Recordable \subseteq SUBSET Ids
    /\ Watched \subseteq Seq(Watch) /\ \A s \in Watched : NewestActive(s)
    /\ MAX_REOPENED \in Nat

Later == {"queueing", "sending", "listing", "reopening", "done"}
VerifyRun(places) ==
    [pc : {"reading", "searching"} \union Later, plan : Written, at : Nat, bad : SUBSET Nat,
     unread : BOOLEAN, since : SUBSET places, known : {<<>>} \union [Objects -> Nat],
     found : SUBSET (Objects \X Nat), stale : SUBSET Objects, verified : BOOLEAN,
     copies : Seq(Nat), closed : SUBSET Nat]
VerifyTypes ==
    /\ run \in VerifyRun(DOMAIN live) /\ DOMAIN live = Verifying!Places(run.plan)
    /\ versions \in [Objects -> Seq(Version) \ {<<>>}]
    /\ sessions \in Seq(Watch) /\ others \in Nat

\* What has been read was as written when it was read, or is reported.
ReadsOK ==
    /\ run.pc # "reading" => run.at > Len(run.plan)
    /\ \A i \in Verifying!DoneActions : i < run.at =>
          i \in run.bad \/ Verifying!Holds(run.plan[i]) \/ Verifying!Place(run.plan[i]) \in run.since
    /\ others = 0 => \A i \in run.bad :
          run.unread \/ (i \in Verifying!DoneActions /\ ~Verifying!Holds(run.plan[i]))

\* A name of a replaced id is found and kept, or it was recorded since.
SearchOK ==
    /\ run.pc # "reading" =>
          /\ run.known \in [Objects -> Nat]
          /\ \A r \in Objects :
                /\ run.known[r] <= Len(versions[r])
                /\ Verifying!Names(r) =>
                      \/ Len(versions[r]) > run.known[r]
                      \/ r \in run.stale \/ <<r, Len(versions[r])>> \in run.found
    /\ \A r \in Objects : \A n \in Nat : <<r, n>> \in run.found =>
          n \in DOMAIN versions[r] /\ versions[r][n].names \intersect Verifying!Replaced # {}
    /\ others = 0 => \A r \in run.stale : Verifying!Names(r)
VerdictOK ==
    IF run.pc \in Later
    THEN run.found = {} /\ run.verified = (run.bad = {} /\ run.stale = {})
    ELSE ~run.verified

\* The sessions still to be saved are the older ones.
SessionsOK ==
    /\ run.closed \subseteq DOMAIN sessions
    /\ IF run.pc \in {"reopening", "done"}
       THEN \A i \in DOMAIN sessions : \A j \in run.closed :
                sessions[i].active /\ j > i => sessions[j].device # sessions[i].device
       ELSE run.closed = {} /\ NewestActive(sessions)
    /\ run.pc = "reopening" =>
          /\ Falls(run.copies) /\ \A k \in DOMAIN run.copies : run.copies[k] \in run.closed
          /\ \A j \in run.closed : \A k \in DOMAIN run.copies :
                \/ j <= run.copies[k] \/ \E m \in DOMAIN run.copies : run.copies[m] = j
                \/ Verifying!Taken(sessions[j].device)
VerifyInv == VerifyTypes /\ ReadsOK /\ SearchOK /\ VerdictOK /\ SessionsOK

\* A comparison that ignores masks, extra fields and what the collector leaves
\* out says just whether Mist holds what was written.
LEMMA ComparisonIsTrue ==
    ASSUME NEW a, NEW now, \A f \in DOMAIN a.wrote : a.wrote[f] \notin {"*", "MISSING"},
           now = live[Verifying!Place(a)]
    PROVE  Verifying!_compare(a, now) <=> Verifying!Holds(a)
<1>. PICK w, G : w = a.wrote /\ G = Verifying!Gone
  OBVIOUS
<1>1. CASE a.kind = "delete"
  BY <1>1 DEF Verifying!_compare, Verifying!Holds
<1>2. CASE a.kind # "delete" /\ now = G
  BY <1>2 DEF Verifying!_compare, Verifying!Holds
<1>3. CASE a.kind # "delete" /\ now # G
 <2>. DEFINE hidden == Verifying!Masked(w) \union Verifying!Masked(now)
             Differs(f) == (IF f \in DOMAIN w \ hidden THEN w[f] ELSE "MISSING")
                              # (IF f \in DOMAIN now \ hidden THEN now[f] ELSE "MISSING")
 <2>1. Verifying!_compare(a, now) <=> \A f \in DOMAIN w \ Ignored : ~Differs(f)
   BY <1>3 DEF Verifying!_compare, Verifying!differing_fields
 <2>2. ASSUME NEW f \in DOMAIN w \ Ignored
       PROVE  ~Differs(f) <=> /\ f \in DOMAIN now
                              /\ now[f] = w[f] \/ (f \in Sensitive /\ "*" \in {now[f], w[f]})
  <3>1. w[f] # "*" /\ w[f] # "MISSING"
    BY <2>2
  <3>2. f \in hidden <=> f \in Sensitive /\ f \in DOMAIN now /\ now[f] = "*"
    BY <3>1 DEF Verifying!Masked
  <3>3. CASE f \in hidden
    BY <3>2, <3>3
  <3>4. CASE f \notin hidden
    BY <3>1, <3>2, <3>4
  <3>. QED BY <3>3, <3>4
 <2>3. Verifying!Holds(a) <=>
           \A f \in DOMAIN w \ Ignored :
               f \in DOMAIN now /\ (now[f] = w[f] \/ (f \in Sensitive /\ "*" \in {now[f], w[f]}))
   BY <1>3 DEF Verifying!Holds
 <2>. HIDE DEF Differs
 <2>. QED BY <2>1, <2>2, <2>3
<1>. QED BY <1>1, <1>2, <1>3

\* Actions that leave a part of the invariant as it is.
LEMMA ReadsStay ==
    ASSUME ReadsOK, run'.plan = run.plan, run'.at = run.at, run'.bad = run.bad,
           run'.unread = run.unread, run'.since = run.since, live' = live,
           others' = others \/ others' # 0, run'.pc # "reading" => run.at > Len(run.plan)
    PROVE  ReadsOK'
<1>1. Verifying!DoneActions' = Verifying!DoneActions
  BY DEF Verifying!DoneActions
<1>2. \A i : Verifying!Place(run.plan[i])' = Verifying!Place(run.plan[i])
  BY DEF Verifying!Place, Verifying!Or
<1>3. \A i : Verifying!Holds(run.plan[i])' = Verifying!Holds(run.plan[i])
  BY <1>2 DEF Verifying!Holds, Verifying!Gone
<1>. QED BY <1>1, <1>2, <1>3 DEF ReadsOK

LEMMA SearchStays ==
    ASSUME SearchOK, run'.plan = run.plan, run'.known = run.known, run'.found = run.found,
           run'.stale = run.stale, versions' = versions,
           others' = others \/ others' # 0, run'.pc # "reading" => run.pc # "reading"
    PROVE  SearchOK'
  BY DEF SearchOK, Verifying!Names, Verifying!Newest, Verifying!Replaced, Verifying!DoneActions

LEMMA SessionsStay ==
    ASSUME SessionsOK, sessions' = sessions, run'.closed = run.closed, run'.copies = run.copies,
           run.pc \in {"reopening", "done"} <=> run'.pc \in {"reopening", "done"},
           run'.pc = "reopening" => run.pc = "reopening"
    PROVE  SessionsOK'
  BY DEF SessionsOK, Verifying!Taken, NewestActive

LEMMA VerifyInit ==
    ASSUME PlansAssumed, EvidenceAssumed, Verifying!Init
    PROVE  VerifyInv
<1>1. PICK ran \in Written : run = Verifying!Start(ran) /\ DOMAIN live = Verifying!Places(ran)
  BY DEF Verifying!Init
<1>2. /\ versions \in [Objects -> Seq(Version) \ {<<>>}] /\ sessions \in Seq(Watch) /\ others = 0
      /\ NewestActive(sessions)
  BY DEF Verifying!Init, EvidenceAssumed
<1>3. VerifyTypes
 <2>1. run \in VerifyRun(DOMAIN live)
   BY <1>1 DEF Verifying!Start, VerifyRun, Later
 <2>. QED BY <1>1, <1>2, <2>1 DEF Verifying!Start, VerifyTypes
<1>4. ReadsOK
 <2>1. run.pc = "reading" /\ run.at = 1 /\ run.bad = {} /\ run.plan = ran
   BY <1>1 DEF Verifying!Start
 <2>2. \A i \in DOMAIN ran : ~(i < 1)
   BY DEF PlansAssumed
 <2>. QED BY <2>1, <2>2 DEF ReadsOK, Verifying!DoneActions
<1>5. SearchOK /\ VerdictOK /\ SessionsOK
  BY <1>1, <1>2 DEF Verifying!Start, SearchOK, VerdictOK, SessionsOK, Later
<1>. QED BY <1>3, <1>4, <1>5 DEF VerifyInv

LEMMA ReadBackKept ==
    ASSUME PlansAssumed, VerifyInv, NEW i \in DOMAIN run.plan, Verifying!_read_after_write(i)
    PROVE  VerifyInv'
<1>0. PICK ran, a, p : ran = run.plan /\ a = ran[i] /\ p = Verifying!Place(a)
  OBVIOUS
<1>1. /\ run.pc = "reading" /\ i = run.at /\ UNCHANGED <<live, versions, sessions, others>>
      /\ \/ ~a.done /\ run' = [run EXCEPT !.at = i + 1]
         \/ a.done /\ run' = [run EXCEPT !.at = i + 1, !.unread = TRUE, !.bad = run.bad \union {i}]
         \/ a.done /\ run' = [run EXCEPT !.at = i + 1, !.since = run.since \ {p},
                                !.bad = IF Verifying!_compare(a, live[p]) THEN run.bad ELSE run.bad \union {i}]
  BY <1>0 DEF Verifying!_read_after_write
<1>2. /\ ran \in Written /\ ran \in Seq(Actions) /\ a \in Actions /\ i \in Nat /\ i \in DOMAIN ran
      /\ run \in VerifyRun(DOMAIN live) /\ a.done \in BOOLEAN
      /\ \A f \in DOMAIN a.wrote : a.wrote[f] \notin {"*", "MISSING"}
  BY <1>0 DEF PlansAssumed, VerifyInv, VerifyTypes, VerifyRun
<1>3. PICK bad, unread, since :
         /\ bad \in SUBSET Nat /\ unread \in BOOLEAN /\ since \in SUBSET DOMAIN live
         /\ run' = [run EXCEPT !.at = i + 1, !.unread = unread, !.bad = bad, !.since = since]
         /\ run.bad \subseteq bad /\ (run.unread => unread) /\ run.since \ {p} \subseteq since
         /\ bad \subseteq run.bad \union {i}
         /\ ~a.done => bad = run.bad /\ unread = run.unread /\ since = run.since
         /\ a.done => i \in bad \/ Verifying!Holds(a)
         /\ a.done /\ i \in bad /\ i \notin run.bad => unread \/ ~Verifying!Holds(a)
 <2>1. CASE ~a.done /\ run' = [run EXCEPT !.at = i + 1]
  <3>1. run' = [run EXCEPT !.at = i + 1, !.unread = run.unread, !.bad = run.bad, !.since = run.since]
    BY <1>2, <2>1 DEF VerifyRun
  <3>2. run.bad \in SUBSET Nat /\ run.unread \in BOOLEAN /\ run.since \in SUBSET DOMAIN live
    BY <1>2 DEF VerifyRun
  <3>. QED BY <2>1, <3>1, <3>2, ZenonT(40)
 <2>2. CASE a.done /\ run' = [run EXCEPT !.at = i + 1, !.unread = TRUE, !.bad = run.bad \union {i}]
  <3>1. run' = [run EXCEPT !.at = i + 1, !.unread = TRUE, !.bad = run.bad \union {i}, !.since = run.since]
    BY <1>2, <2>2 DEF VerifyRun
  <3>2. run.bad \union {i} \in SUBSET Nat /\ run.since \in SUBSET DOMAIN live
    BY <1>2 DEF VerifyRun
  <3>. QED BY <2>2, <3>1, <3>2, ZenonT(40)
 <2>3. CASE a.done /\ run' = [run EXCEPT !.at = i + 1, !.since = run.since \ {p},
                               !.bad = IF Verifying!_compare(a, live[p]) THEN run.bad ELSE run.bad \union {i}]
  <3>1. PICK bad : bad = IF Verifying!_compare(a, live[p]) THEN run.bad ELSE run.bad \union {i}
    OBVIOUS
  <3>2. run' = [run EXCEPT !.at = i + 1, !.unread = run.unread, !.bad = bad, !.since = run.since \ {p}]
    BY <1>2, <2>3, <3>1 DEF VerifyRun
  <3>3. bad \in SUBSET Nat /\ run.unread \in BOOLEAN /\ run.since \ {p} \in SUBSET DOMAIN live
    BY <1>2, <3>1 DEF VerifyRun
  <3>4. Verifying!_compare(a, live[p]) <=> Verifying!Holds(a)
    BY <1>0, <1>2, ComparisonIsTrue
  <3>. QED BY <2>3, <3>1, <3>2, <3>3, <3>4, ZenonT(40)
 <2>. QED BY <1>1, <2>1, <2>2, <2>3
<1>4. /\ run' \in VerifyRun(DOMAIN live)
      /\ run'.pc = "reading" /\ run'.plan = ran /\ run'.at = i + 1 /\ run'.bad = bad
      /\ run'.unread = unread /\ run'.since = since /\ run'.known = run.known /\ run'.found = run.found
      /\ run'.stale = run.stale /\ run'.verified = run.verified /\ run'.copies = run.copies
      /\ run'.closed = run.closed
 <2>1. run \in VerifyRun(DOMAIN live) /\ run.pc = "reading" /\ run.plan = ran /\ i + 1 \in Nat
   BY <1>0, <1>1, <1>2
 <2>2. /\ bad \in SUBSET Nat /\ unread \in BOOLEAN /\ since \in SUBSET DOMAIN live
       /\ run' = [run EXCEPT !.at = i + 1, !.unread = unread, !.bad = bad, !.since = since]
   BY <1>3
 <2>. QED BY <2>1, <2>2 DEF VerifyRun
<1>5. VerifyTypes'
  BY <1>0, <1>1, <1>4 DEF VerifyInv, VerifyTypes, Verifying!Places
<1>6. ReadsOK'
 <2>1. ASSUME NEW j \in Verifying!DoneActions, j < i + 1
       PROVE  j \in bad \/ Verifying!Holds(ran[j]) \/ Verifying!Place(ran[j]) \in since
  <3>1. j \in DOMAIN ran /\ ran[j].done /\ j \in Nat
    BY <1>0, <1>2 DEF Verifying!DoneActions
  <3>2. CASE j = i
    BY <1>0, <1>3, <3>1, <3>2
  <3>3. CASE j # i
   <4>1. j < run.at
     BY <1>1, <1>2, <2>1, <3>1, <3>3
   <4>2. j \in run.bad \/ Verifying!Holds(ran[j]) \/ Verifying!Place(ran[j]) \in run.since
     BY <1>0, <4>1 DEF VerifyInv, ReadsOK
   <4>3. CASE a.done
    <5>1. Verifying!Place(ran[j]) # p
      BY <1>0, <1>2, <3>1, <3>3, <4>3 DEF PlansAssumed
    <5>. QED BY <1>3, <4>2, <5>1
   <4>4. CASE ~a.done
     BY <1>3, <4>2, <4>4
   <4>. QED BY <1>2, <4>3, <4>4
  <3>. QED BY <3>2, <3>3
 <2>2. ASSUME others = 0, NEW j \in bad
       PROVE  unread \/ (j \in Verifying!DoneActions /\ ~Verifying!Holds(ran[j]))
  <3>1. CASE j \in run.bad
    BY <1>0, <1>3, <2>2, <3>1 DEF VerifyInv, ReadsOK
  <3>2. CASE j \notin run.bad
   <4>1. j = i /\ a.done
     BY <1>2, <1>3, <2>2, <3>2
   <4>. QED BY <1>0, <1>2, <1>3, <2>2, <3>2, <4>1 DEF Verifying!DoneActions
  <3>. QED BY <3>1, <3>2
 <2>3. Verifying!DoneActions' = Verifying!DoneActions
   BY <1>0, <1>4 DEF Verifying!DoneActions
 <2>4. \A b : Verifying!Holds(b)' <=> Verifying!Holds(b)
   BY <1>1 DEF Verifying!Holds
 <2>5. \A b : Verifying!Place(b)' = Verifying!Place(b)
   BY DEF Verifying!Place
 <2>6. (\A j \in Verifying!DoneActions : j < run.at =>
           j \in run.bad \/ Verifying!Holds(run.plan[j]) \/ Verifying!Place(run.plan[j]) \in run.since)'
   BY <1>1, <1>4, <2>1, <2>3 DEF Verifying!Holds
 <2>7. (others = 0 => \A j \in run.bad :
           run.unread \/ (j \in Verifying!DoneActions /\ ~Verifying!Holds(run.plan[j])))'
   BY <1>1, <1>4, <2>2, <2>3 DEF Verifying!Holds
 <2>. QED BY <1>4, <2>6, <2>7 DEF ReadsOK
<1>7. SearchOK'
  BY <1>0, <1>1, <1>4, SearchStays DEF VerifyInv
<1>8. VerdictOK'
  BY <1>1, <1>4 DEF VerifyInv, VerdictOK, Later
<1>9. SessionsOK'
  BY <1>1, <1>4, SessionsStay DEF VerifyInv
<1>. QED BY <1>5, <1>6, <1>7, <1>8, <1>9 DEF VerifyInv

LEMMA SearchKept ==
    ASSUME PlansAssumed, VerifyInv, Verifying!Search
    PROVE  VerifyInv'
<1>. DEFINE Hits(r) == {n \in DOMAIN versions[r] : versions[r][n].names \intersect Verifying!Replaced # {}}
<1>0. PICK known, found :
         /\ known = [r \in DOMAIN versions |-> Len(versions[r])]
         /\ found = UNION {{<<r, n>> : n \in Hits(r)} : r \in DOMAIN versions}
  OBVIOUS
<1>1. /\ run.pc = "reading" /\ run.at > Len(run.plan) /\ UNCHANGED <<live, versions, sessions, others>>
      /\ run' = [run EXCEPT !.pc = "searching", !.known = known, !.found = found]
 <2>1. run' = [[run EXCEPT !.known = known, !.found = found] EXCEPT !.pc = "searching"]
   BY <1>0 DEF Verifying!Search, Verifying!Goto
 <2>2. run \in VerifyRun(DOMAIN live)
   BY DEF VerifyInv, VerifyTypes
 <2>3. run' = [run EXCEPT !.pc = "searching", !.known = known, !.found = found]
   BY <2>1, <2>2 DEF VerifyRun
 <2>. QED BY <2>3 DEF Verifying!Search
<1>2. /\ run \in VerifyRun(DOMAIN live) /\ versions \in [Objects -> Seq(Version) \ {<<>>}]
      /\ \A r \in Objects : DOMAIN versions[r] = 1 .. Len(versions[r]) /\ Len(versions[r]) \in Nat \ {0}
 <2>1. versions \in [Objects -> Seq(Version) \ {<<>>}]
   BY DEF VerifyInv, VerifyTypes
 <2>2. ASSUME NEW r \in Objects
       PROVE  DOMAIN versions[r] = 1 .. Len(versions[r]) /\ Len(versions[r]) \in Nat \ {0}
  <3>1. versions[r] \in Seq(Version) /\ versions[r] # <<>>
    BY <2>1
  <3>. QED BY <3>1
 <2>. QED BY <2>1, <2>2 DEF VerifyInv, VerifyTypes
<1>3. /\ known \in [Objects -> Nat] /\ \A r \in Objects : known[r] = Len(versions[r])
      /\ \A r \in Objects : \A n \in Nat : <<r, n>> \in found <=> n \in Hits(r)
      /\ found \in SUBSET (Objects \X Nat)
 <2>1. DOMAIN versions = Objects /\ \A r \in Objects : Hits(r) \subseteq Nat
   BY <1>2
 <2>. HIDE DEF Hits
 <2>2. found = UNION {{<<r, n>> : n \in Hits(r)} : r \in Objects}
   BY <1>0, <2>1
 <2>3. \A r \in Objects : \A n \in Nat : <<r, n>> \in found <=> n \in Hits(r)
   BY <2>2
 <2>4. found \in SUBSET (Objects \X Nat)
   BY <2>1, <2>2
 <2>. QED BY <1>0, <1>2, <2>1, <2>3, <2>4
<1>4. /\ run' \in VerifyRun(DOMAIN live) /\ run'.pc = "searching" /\ run'.known = known /\ run'.found = found
      /\ run'.plan = run.plan /\ run'.at = run.at /\ run'.bad = run.bad /\ run'.unread = run.unread
      /\ run'.since = run.since /\ run'.stale = run.stale /\ run'.verified = run.verified
      /\ run'.copies = run.copies /\ run'.closed = run.closed
 <2>1. run \in VerifyRun(DOMAIN live) /\ run' = [run EXCEPT !.pc = "searching", !.known = known, !.found = found]
   BY <1>1, <1>2
 <2>2. known \in [Objects -> Nat] /\ found \in SUBSET (Objects \X Nat)
   BY <1>3
 <2>. QED BY <2>1, <2>2 DEF VerifyRun
<1>5. VerifyTypes'
  BY <1>1, <1>4 DEF VerifyInv, VerifyTypes, Verifying!Places
<1>6. ReadsOK'
  BY <1>1, <1>4, ReadsStay DEF VerifyInv
<1>7. SearchOK'
 <2>1. Verifying!Replaced' = Verifying!Replaced
   BY <1>4 DEF Verifying!Replaced, Verifying!DoneActions
 <2>2. ASSUME NEW r \in Objects, Verifying!Names(r)
       PROVE  <<r, Len(versions[r])>> \in found
  <3>1. Len(versions[r]) \in Hits(r) /\ Len(versions[r]) \in Nat
    BY <1>2, <2>2 DEF Verifying!Names, Verifying!Newest
  <3>. QED BY <1>3, <3>1
 <2>3. \A r \in Objects : Verifying!Names(r)' <=> Verifying!Names(r)
   BY <1>1, <2>1 DEF Verifying!Names, Verifying!Newest
 <2>4. (run.pc # "reading" =>
         /\ run.known \in [Objects -> Nat]
         /\ \A r \in Objects :
             /\ run.known[r] <= Len(versions[r])
             /\ Verifying!Names(r) =>
                   \/ Len(versions[r]) > run.known[r]
                   \/ r \in run.stale \/ <<r, Len(versions[r])>> \in run.found)'
   BY <1>1, <1>2, <1>3, <1>4, <2>2, <2>3
 <2>5. (\A r \in Objects : \A n \in Nat : <<r, n>> \in run.found =>
          n \in DOMAIN versions[r] /\ versions[r][n].names \intersect Verifying!Replaced # {})'
   BY <1>1, <1>3, <1>4, <2>1
 <2>6. (others = 0 => \A r \in run.stale : Verifying!Names(r))'
  <3>1. others = 0 => \A r \in run.stale : Verifying!Names(r)
    BY DEF VerifyInv, SearchOK
  <3>2. run.stale \subseteq Objects
    BY <1>2 DEF VerifyRun
  <3>. QED BY <1>1, <1>4, <2>3, <3>1, <3>2
 <2>. QED BY <2>4, <2>5, <2>6 DEF SearchOK
<1>8. VerdictOK'
  BY <1>1, <1>4 DEF VerifyInv, VerdictOK, Later
<1>9. SessionsOK'
  BY <1>1, <1>4, SessionsStay DEF VerifyInv
<1>. QED BY <1>5, <1>6, <1>7, <1>8, <1>9 DEF VerifyInv

LEMMA KeepKept ==
    ASSUME PlansAssumed, VerifyInv, NEW r \in DOMAIN versions, NEW n \in DOMAIN versions[r],
           Verifying!Keep(r, n)
    PROVE  VerifyInv'
<1>0. PICK found, stale :
         /\ found = run.found \ {<<r, n>>}
         /\ stale = IF n = Len(versions[r]) /\ ~versions[r][Len(versions[r])].deleted
                    THEN run.stale \union {r} ELSE run.stale
  OBVIOUS
<1>1. /\ run.pc = "searching" /\ <<r, n>> \in run.found /\ UNCHANGED <<live, versions, sessions, others>>
      /\ run' = [run EXCEPT !.found = found, !.stale = stale]
  BY <1>0 DEF Verifying!Keep, Verifying!StillSo, Verifying!Newest
<1>2. /\ run \in VerifyRun(DOMAIN live) /\ versions \in [Objects -> Seq(Version) \ {<<>>}] /\ r \in Objects
      /\ n \in Nat
  BY DEF VerifyInv, VerifyTypes
<1>3. found \in SUBSET (Objects \X Nat) /\ stale \in SUBSET Objects
  BY <1>0, <1>2 DEF VerifyRun
<1>4. /\ run' \in VerifyRun(DOMAIN live) /\ run'.pc = "searching" /\ run'.found = found /\ run'.stale = stale
      /\ run'.plan = run.plan /\ run'.at = run.at /\ run'.bad = run.bad /\ run'.unread = run.unread
      /\ run'.since = run.since /\ run'.known = run.known /\ run'.verified = run.verified
      /\ run'.copies = run.copies /\ run'.closed = run.closed
 <2>1. run \in VerifyRun(DOMAIN live) /\ run.pc = "searching" /\ run' = [run EXCEPT !.found = found, !.stale = stale]
   BY <1>1, <1>2
 <2>. QED BY <1>3, <2>1 DEF VerifyRun
<1>5. VerifyTypes'
  BY <1>1, <1>4 DEF VerifyInv, VerifyTypes, Verifying!Places
<1>6. ReadsOK'
  BY <1>1, <1>4, ReadsStay DEF VerifyInv, ReadsOK
<1>7. SearchOK'
 <2>1. Verifying!Replaced' = Verifying!Replaced
   BY <1>4 DEF Verifying!Replaced, Verifying!DoneActions
 <2>2. \A q \in Objects : Verifying!Names(q)' <=> Verifying!Names(q)
   BY <1>1, <2>1 DEF Verifying!Names, Verifying!Newest
 <2>3. ASSUME NEW q \in Objects, Verifying!Names(q)
       PROVE  \/ Len(versions[q]) > run.known[q]
              \/ q \in stale \/ <<q, Len(versions[q])>> \in found
  <3>1. \/ Len(versions[q]) > run.known[q]
        \/ q \in run.stale \/ <<q, Len(versions[q])>> \in run.found
    BY <1>1, <2>3 DEF VerifyInv, SearchOK
  <3>2. CASE <<q, Len(versions[q])>> = <<r, n>>
   <4>1. q = r /\ n = Len(versions[r])
     BY <3>2
   <4>. QED BY <1>0, <2>3, <4>1 DEF Verifying!Names, Verifying!Newest
  <3>3. CASE <<q, Len(versions[q])>> # <<r, n>>
    BY <1>0, <3>1, <3>3
  <3>. QED BY <3>2, <3>3
 <2>4. (run.pc # "reading" =>
         /\ run.known \in [Objects -> Nat]
         /\ \A q \in Objects :
             /\ run.known[q] <= Len(versions[q])
             /\ Verifying!Names(q) =>
                   \/ Len(versions[q]) > run.known[q]
                   \/ q \in run.stale \/ <<q, Len(versions[q])>> \in run.found)'
  <3>1. run.known \in [Objects -> Nat] /\ \A q \in Objects : run.known[q] <= Len(versions[q])
    BY <1>1 DEF VerifyInv, SearchOK
  <3>. QED BY <1>1, <1>4, <2>2, <2>3, <3>1
 <2>5. (\A q \in Objects : \A m \in Nat : <<q, m>> \in run.found =>
          m \in DOMAIN versions[q] /\ versions[q][m].names \intersect Verifying!Replaced # {})'
  <3>1. \A q \in Objects : \A m \in Nat : <<q, m>> \in run.found =>
          m \in DOMAIN versions[q] /\ versions[q][m].names \intersect Verifying!Replaced # {}
    BY DEF VerifyInv, SearchOK
  <3>. QED BY <1>0, <1>1, <1>4, <2>1, <3>1
 <2>6. (others = 0 => \A q \in run.stale : Verifying!Names(q))'
  <3>1. others = 0 => \A q \in run.stale : Verifying!Names(q)
    BY DEF VerifyInv, SearchOK
  <3>2. versions[r][n].names \intersect Verifying!Replaced # {}
    BY <1>1, <1>2 DEF VerifyInv, SearchOK
  <3>3. n = Len(versions[r]) /\ ~versions[r][Len(versions[r])].deleted => Verifying!Names(r)
    BY <3>2 DEF Verifying!Names, Verifying!Newest
  <3>4. \A q \in stale : q \in run.stale \/ (q = r /\ Verifying!Names(r))
    BY <1>0, <3>3
  <3>5. \A q \in stale : q \in Objects
    BY <1>3
  <3>. QED BY <1>1, <1>4, <2>2, <3>1, <3>4, <3>5
 <2>. QED BY <2>4, <2>5, <2>6 DEF SearchOK
<1>8. VerdictOK'
  BY <1>1, <1>4 DEF VerifyInv, VerdictOK, Later
<1>9. SessionsOK'
  BY <1>1, <1>4, SessionsStay DEF VerifyInv
<1>. QED BY <1>5, <1>6, <1>7, <1>8, <1>9 DEF VerifyInv

LEMMA ConcludeKept ==
    ASSUME PlansAssumed, VerifyInv, Verifying!Conclude
    PROVE  VerifyInv'
<1>0. PICK verified \in BOOLEAN : verified = (run.bad = {} /\ run.stale = {})
  OBVIOUS
<1>1. /\ run.pc = "searching" /\ run.found = {} /\ UNCHANGED <<live, versions, sessions, others>>
      /\ run \in VerifyRun(DOMAIN live)
      /\ run' = [run EXCEPT !.pc = "queueing", !.verified = verified]
 <2>1. run' = [[run EXCEPT !.verified = verified] EXCEPT !.pc = "queueing"]
   BY <1>0 DEF Verifying!Conclude, Verifying!Goto
 <2>2. run \in VerifyRun(DOMAIN live)
   BY DEF VerifyInv, VerifyTypes
 <2>3. run' = [run EXCEPT !.pc = "queueing", !.verified = verified]
   BY <2>1, <2>2 DEF VerifyRun
 <2>. QED BY <2>2, <2>3 DEF Verifying!Conclude
<1>4. /\ run' \in VerifyRun(DOMAIN live) /\ run'.pc = "queueing" /\ run'.found = {} /\ run'.stale = run.stale
      /\ run'.plan = run.plan /\ run'.at = run.at /\ run'.bad = run.bad /\ run'.unread = run.unread
      /\ run'.since = run.since /\ run'.known = run.known /\ run'.found = run.found
      /\ run'.verified = (run'.bad = {} /\ run'.stale = {})
      /\ run'.copies = run.copies /\ run'.closed = run.closed
  BY <1>0, <1>1 DEF VerifyRun, Later
<1>5. VerifyTypes'
  BY <1>1, <1>4 DEF VerifyInv, VerifyTypes, Verifying!Places
<1>6. ReadsOK'
  BY <1>1, <1>4, ReadsStay DEF VerifyInv, ReadsOK
<1>7. SearchOK'
  BY <1>1, <1>4, SearchStays DEF VerifyInv
<1>8. VerdictOK'
  BY <1>4 DEF VerdictOK, Later
<1>9. SessionsOK'
  BY <1>1, <1>4, SessionsStay DEF VerifyInv
<1>. QED BY <1>5, <1>6, <1>7, <1>8, <1>9 DEF VerifyInv

\* A step after the verdict that has to do with the snapshot.
LEMMA SnapshotKept ==
    ASSUME VerifyInv, Verifying!Open \/ Verifying!Send \/ Verifying!persist
    PROVE  VerifyInv'
<1>1. PICK q : /\ UNCHANGED <<live, versions, sessions, others>> /\ run' = [run EXCEPT !.pc = q]
               /\ run.pc \in Later /\ q \in Later
               /\ \/ run.pc \in {"queueing", "sending"} /\ q \in {"sending", "listing"}
                  \/ run.pc = "reopening" /\ q = "done"
  BY DEF Verifying!Open, Verifying!Send, Verifying!persist, Verifying!Goto, Later
<1>2. run \in VerifyRun(DOMAIN live)
  BY DEF VerifyInv, VerifyTypes
<1>3. /\ run' \in VerifyRun(DOMAIN live) /\ run'.pc = q
      /\ run'.plan = run.plan /\ run'.at = run.at /\ run'.bad = run.bad /\ run'.unread = run.unread
      /\ run'.since = run.since /\ run'.known = run.known /\ run'.found = run.found
      /\ run'.stale = run.stale /\ run'.verified = run.verified
      /\ run'.copies = run.copies /\ run'.closed = run.closed
  BY <1>1, <1>2 DEF VerifyRun
<1>5. VerifyTypes'
  BY <1>1, <1>3 DEF VerifyInv, VerifyTypes, Verifying!Places
<1>6. ReadsOK'
  BY <1>1, <1>3, ReadsStay DEF VerifyInv, ReadsOK, Later
<1>7. SearchOK'
  BY <1>1, <1>3, SearchStays DEF VerifyInv, Later
<1>8. VerdictOK'
  BY <1>1, <1>3 DEF VerifyInv, VerdictOK
<1>9. SessionsOK'
  BY <1>1, <1>3, SessionsStay DEF VerifyInv
<1>. QED BY <1>5, <1>6, <1>7, <1>8, <1>9 DEF VerifyInv

\* The closed sessions, or the newest of them, in falling order.
NewestOf(c, W) ==
    /\ c \in Seq(Nat) /\ Falls(c) /\ \A k \in DOMAIN c : c[k] \in W
    /\ \A j \in W : \A k \in DOMAIN c : j <= c[k] \/ \E m \in DOMAIN c : c[m] = j

LEMMA NewestFirstIs ==
    ASSUME NEW n \in Nat, NEW W \in SUBSET (1 .. n), NEW first \in Nat, first <= Cardinality(W),
           NEW c, c = SubSeq(Verifying!NewestFirst(W), 1, first)
    PROVE  NewestOf(c, W)
<1>0. IsFiniteSet(1 .. n)
  BY FS_Interval
<1>1. Cardinality(W) \in Nat
  BY <1>0, FS_Subset, FS_CardinalityType
<1>2. \A S : Verifying!Cardinality(S) = Cardinality(S)
  BY Zenon DEF Verifying!Cardinality, Cardinality
<1>3. PICK s : s = Verifying!NewestFirst(W)
  OBVIOUS
<1>4. s \in [1 .. Cardinality(W) -> W] /\ Falls(s)
 <2>1. \E t \in [1 .. Cardinality(W) -> W] : Falls(t)
   BY FallingOrder
 <2>2. s = CHOOSE t \in [1 .. Cardinality(W) -> W] : Falls(t)
   BY <1>2, <1>3 DEF Verifying!NewestFirst, Falls
 <2>. QED BY <2>1, <2>2
<1>5. (\A w \in W : \E i \in DOMAIN s : s[i] = w) /\ s \in Seq(W)
  BY <1>4, FallingIsOnto
<1>6. c = SubSeq(s, 1, first)
  BY <1>3
<1>7. DOMAIN c = 1 .. first /\ c \in Seq(W) /\ \A k \in 1 .. first : c[k] = s[k]
 <2>1. Len(s) = Cardinality(W) /\ DOMAIN s = 1 .. Cardinality(W)
   BY <1>1, <1>4, <1>5
 <2>. QED BY <1>1, <1>5, <1>6, <2>1
<1>8. c \in Seq(Nat)
 <2>1. W \subseteq Nat
   OBVIOUS
 <2>. QED BY <1>7, <2>1, SeqMonotonic
<1>9. Falls(c)
 <2>1. \A k \in 1 .. first : k \in DOMAIN s
   BY <1>1, <1>4
 <2>. QED BY <1>4, <1>7, <2>1 DEF Falls
<1>10. ASSUME NEW j \in W, NEW k \in DOMAIN c, ~\E m \in DOMAIN c : c[m] = j
       PROVE  j <= c[k]
 <2>1. PICK m \in DOMAIN s : s[m] = j
   BY <1>5
 <2>2. m \in 1 .. Cardinality(W) /\ k \in 1 .. first /\ m \notin 1 .. first
   BY <1>4, <1>7, <1>10, <2>1
 <2>3. k < m /\ k \in DOMAIN s
   BY <1>1, <1>4, <2>2
 <2>4. s[k] > j /\ c[k] = s[k]
   BY <1>4, <1>7, <2>1, <2>2, <2>3 DEF Falls
 <2>5. s[k] \in Nat /\ j \in Nat
  <3>1. s[k] \in W /\ W \subseteq Nat
    BY <1>4, <2>3
  <3>. QED BY <3>1
 <2>. QED BY <2>4, <2>5
<1>11. \A k \in DOMAIN c : c[k] \in W
  BY <1>7
<1>. QED BY <1>8, <1>9, <1>10, <1>11 DEF NewestOf

LEMMA ListKept ==
    ASSUME EvidenceAssumed, VerifyInv, Verifying!List
    PROVE  VerifyInv'
<1>0. PICK closed, first, copies :
         /\ closed = Verifying!Closed
         /\ first = IF Cardinality(closed) < MAX_REOPENED THEN Cardinality(closed) ELSE MAX_REOPENED
         /\ copies = SubSeq(Verifying!NewestFirst(closed), 1, first)
  OBVIOUS
<1>1. /\ run.pc = "listing" /\ UNCHANGED <<live, versions, sessions, others>>
      /\ run \in VerifyRun(DOMAIN live)
      /\ run' = [run EXCEPT !.pc = "reopening", !.closed = closed, !.copies = copies]
 <2>1. \A S : Verifying!Cardinality(S) = Cardinality(S)
   BY Zenon DEF Verifying!Cardinality, Cardinality
 <2>2. run' = [[run EXCEPT !.closed = closed, !.copies = copies] EXCEPT !.pc = "reopening"]
   BY <1>0, <2>1 DEF Verifying!List, Verifying!Goto
 <2>3. run \in VerifyRun(DOMAIN live)
   BY DEF VerifyInv, VerifyTypes
 <2>4. run' = [run EXCEPT !.pc = "reopening", !.closed = closed, !.copies = copies]
   BY <2>2, <2>3 DEF VerifyRun
 <2>. QED BY <2>3, <2>4 DEF Verifying!List
<1>2. /\ sessions \in Seq(Watch) /\ DOMAIN sessions = 1 .. Len(sessions) /\ Len(sessions) \in Nat
      /\ closed \in SUBSET (1 .. Len(sessions)) /\ closed \in SUBSET Nat
 <2>1. sessions \in Seq(Watch)
   BY DEF VerifyInv, VerifyTypes
 <2>2. DOMAIN sessions = 1 .. Len(sessions) /\ Len(sessions) \in Nat
   BY <2>1
 <2>3. closed \subseteq DOMAIN sessions
   BY <1>0 DEF Verifying!Closed
 <2>. QED BY <2>1, <2>2, <2>3
<1>3. /\ copies \in Seq(Nat) /\ Falls(copies) /\ \A k \in DOMAIN copies : copies[k] \in closed
      /\ \A j \in closed : \A k \in DOMAIN copies :
            j <= copies[k] \/ \E m \in DOMAIN copies : copies[m] = j
 <2>1. Cardinality(closed) \in Nat
  <3>1. IsFiniteSet(1 .. Len(sessions))
    BY <1>2, FS_Interval
  <3>. QED BY <1>2, <3>1, FS_Subset, FS_CardinalityType
 <2>2. first \in Nat /\ first <= Cardinality(closed)
   BY <1>0, <2>1 DEF EvidenceAssumed
 <2>3. NewestOf(copies, closed)
  <3>1. copies = SubSeq(Verifying!NewestFirst(closed), 1, first)
    BY <1>0
  <3>2. Len(sessions) \in Nat /\ closed \in SUBSET (1 .. Len(sessions))
    BY <1>2
  <3>. QED BY <2>2, <3>1, <3>2, NewestFirstIs
 <2>. QED BY <2>3 DEF NewestOf
<1>4. /\ run' \in VerifyRun(DOMAIN live) /\ run'.pc = "reopening"
      /\ run'.closed = closed /\ run'.copies = copies
      /\ run'.plan = run.plan /\ run'.at = run.at /\ run'.bad = run.bad /\ run'.unread = run.unread
      /\ run'.since = run.since /\ run'.known = run.known /\ run'.found = run.found
      /\ run'.stale = run.stale /\ run'.verified = run.verified
 <2>1. closed \in SUBSET Nat /\ copies \in Seq(Nat)
   BY <1>2, <1>3
 <2>. QED BY <1>1, <2>1 DEF VerifyRun, Later
<1>5. VerifyTypes'
  BY <1>1, <1>4 DEF VerifyInv, VerifyTypes, Verifying!Places
<1>6. ReadsOK'
  BY <1>1, <1>4, ReadsStay DEF VerifyInv, ReadsOK
<1>7. SearchOK'
  BY <1>1, <1>4, SearchStays DEF VerifyInv
<1>8. VerdictOK'
  BY <1>1, <1>4 DEF VerifyInv, VerdictOK, Later
<1>9. SessionsOK'
 <2>1. NewestActive(sessions)
   BY <1>1 DEF VerifyInv, SessionsOK
 <2>2. \A i \in DOMAIN sessions : \A j \in closed :
           sessions[i].active /\ j > i => sessions[j].device # sessions[i].device
   BY <1>2, <2>1 DEF NewestActive
 <2>. QED BY <1>1, <1>2, <1>3, <1>4, <2>2 DEF SessionsOK
<1>. QED BY <1>5, <1>6, <1>7, <1>8, <1>9 DEF VerifyInv

LEMMA ReopenKept ==
    ASSUME VerifyInv, Verifying!Reopen
    PROVE  VerifyInv'
<1>0. PICK i, copies : i = Head(run.copies) /\ copies = Tail(run.copies)
  OBVIOUS
<1>1. /\ run.pc = "reopening" /\ run.copies # <<>> /\ UNCHANGED <<live, versions, others>>
      /\ run' = [run EXCEPT !.copies = copies]
      /\ \/ Verifying!Taken(sessions[i].device) /\ sessions' = sessions
         \/ ~Verifying!Taken(sessions[i].device) /\ sessions' = [sessions EXCEPT ![i].active = TRUE]
  BY <1>0 DEF Verifying!Reopen
<1>2. /\ run \in VerifyRun(DOMAIN live) /\ run.copies \in Seq(Nat)
      /\ sessions \in Seq(Watch) /\ DOMAIN sessions = 1 .. Len(sessions) /\ Len(sessions) \in Nat
 <2>1. run \in VerifyRun(DOMAIN live) /\ sessions \in Seq(Watch)
   BY DEF VerifyInv, VerifyTypes
 <2>. QED BY <2>1 DEF VerifyRun
<1>3. /\ copies \in Seq(Nat) /\ 1 \in DOMAIN run.copies /\ i = run.copies[1]
      /\ \A k \in DOMAIN copies : k + 1 \in DOMAIN run.copies /\ copies[k] = run.copies[k + 1]
      /\ \A k \in DOMAIN run.copies : k = 1 \/ (k - 1 \in DOMAIN copies /\ copies[k - 1] = run.copies[k])
 <2>1. PICK q : q = run.copies
   OBVIOUS
 <2>2. q \in Seq(Nat) /\ q # <<>> /\ i = Head(q) /\ copies = Tail(q)
   BY <1>0, <1>1, <1>2, <2>1
 <2>3. copies \in Seq(Nat)
   BY <2>2
 <2>4. Len(q) \in Nat /\ Len(q) # 0 /\ Len(copies) = Len(q) - 1
   BY <2>2
 <2>5. DOMAIN q = 1 .. Len(q) /\ DOMAIN copies = 1 .. Len(copies)
   BY <2>2, <2>3
 <2>6. i = q[1] /\ \A k \in 1 .. Len(copies) : copies[k] = q[k + 1]
   BY <2>2, <2>4
 <2>7. \A k \in DOMAIN q : k = 1 \/ (k - 1 \in DOMAIN copies /\ copies[k - 1] = q[k])
   BY <2>4, <2>5, <2>6
 <2>8. 1 \in DOMAIN q /\ \A k \in DOMAIN copies : k + 1 \in DOMAIN q /\ copies[k] = q[k + 1]
   BY <2>4, <2>5, <2>6
 <2>. QED BY <2>1, <2>3, <2>6, <2>7, <2>8
<1>4. /\ run.closed \subseteq DOMAIN sessions
      /\ \A k \in DOMAIN sessions : \A j \in run.closed :
            sessions[k].active /\ j > k => sessions[j].device # sessions[k].device
      /\ Falls(run.copies) /\ \A k \in DOMAIN run.copies : run.copies[k] \in run.closed
      /\ \A j \in run.closed : \A k \in DOMAIN run.copies :
            \/ j <= run.copies[k] \/ \E m \in DOMAIN run.copies : run.copies[m] = j
            \/ Verifying!Taken(sessions[j].device)
  BY <1>1 DEF VerifyInv, SessionsOK
<1>5. /\ run' \in VerifyRun(DOMAIN live) /\ run'.pc = "reopening" /\ run'.copies = copies
      /\ run'.plan = run.plan /\ run'.at = run.at /\ run'.bad = run.bad /\ run'.unread = run.unread
      /\ run'.since = run.since /\ run'.known = run.known /\ run'.found = run.found
      /\ run'.stale = run.stale /\ run'.verified = run.verified /\ run'.closed = run.closed
 <2>1. /\ run \in VerifyRun(DOMAIN live) /\ run' = [run EXCEPT !.copies = copies] /\ copies \in Seq(Nat)
       /\ run.pc = "reopening"
   BY <1>1, <1>2, <1>3
 <2>. QED BY <2>1 DEF VerifyRun
<1>6. i \in DOMAIN sessions /\ i \in run.closed
  BY <1>3, <1>4
<1>7. /\ sessions' \in Seq(Watch) /\ DOMAIN sessions' = DOMAIN sessions
      /\ \A k \in DOMAIN sessions :
            /\ sessions'[k].device = sessions[k].device
            /\ sessions[k].active => sessions'[k].active
            /\ sessions'[k].active => sessions[k].active \/ (k = i /\ ~Verifying!Taken(sessions[i].device))
      /\ sessions'[i].active \/ Verifying!Taken(sessions[i].device)
 <2>1. CASE sessions' = sessions /\ Verifying!Taken(sessions[i].device)
   BY <1>2, <2>1
 <2>2. CASE ~Verifying!Taken(sessions[i].device) /\ sessions' = [sessions EXCEPT ![i].active = TRUE]
  <3>1. PICK new : new = [sessions[i] EXCEPT !.active = TRUE]
    OBVIOUS
  <3>2. new \in Watch /\ new.active /\ new.device = sessions[i].device
   <4>1. sessions[i] \in Watch
     BY <1>2, <1>6
   <4>. QED BY <3>1, <4>1 DEF Watch
  <3>3. sessions' = [sessions EXCEPT ![i] = new]
    BY <2>2, <3>1
  <3>4. /\ sessions' \in Seq(Watch) /\ DOMAIN sessions' = DOMAIN sessions /\ sessions'[i] = new
        /\ \A k \in DOMAIN sessions : k # i => sessions'[k] = sessions[k]
    BY <1>2, <1>6, <3>2, <3>3
  <3>. QED BY <2>2, <3>2, <3>4
 <2>. QED BY <1>1, <2>1, <2>2
<1>8. \A d : Verifying!Taken(d) => Verifying!Taken(d)'
  BY <1>7 DEF Verifying!Taken
<1>9. VerifyTypes'
  BY <1>1, <1>5, <1>7 DEF VerifyInv, VerifyTypes, Verifying!Places
<1>10. ReadsOK'
  BY <1>1, <1>5, ReadsStay DEF VerifyInv, ReadsOK
<1>11. SearchOK'
  BY <1>1, <1>5, SearchStays DEF VerifyInv
<1>12. VerdictOK'
  BY <1>1, <1>5 DEF VerifyInv, VerdictOK, Later
<1>13. ASSUME NEW k \in DOMAIN sessions, NEW j \in run.closed, sessions'[k].active, j > k
       PROVE  sessions'[j].device # sessions'[k].device
 <2>1. j \in DOMAIN sessions /\ sessions'[j].device = sessions[j].device
       /\ sessions'[k].device = sessions[k].device
   BY <1>4, <1>7
 <2>2. CASE sessions[k].active
   BY <1>4, <1>13, <2>1, <2>2
 <2>3. CASE k = i /\ ~Verifying!Taken(sessions[i].device)
  <3>1. ~(j <= run.copies[1])
    BY <1>2, <1>3, <1>6, <1>13, <2>1, <2>3
  <3>2. ~\E m \in DOMAIN run.copies : run.copies[m] = j
   <4>. SUFFICES ASSUME NEW m \in DOMAIN run.copies, run.copies[m] = j PROVE FALSE
     OBVIOUS
   <4>0. j \in Int /\ i \in Int /\ j > i
     BY <1>2, <1>6, <1>13, <2>1, <2>3
   <4>1. m # 1
     BY <1>3, <4>0
   <4>2. 1 < m
     BY <1>2, <4>1
   <4>3. run.copies[1] > run.copies[m]
     BY <1>3, <1>4, <4>2 DEF Falls
   <4>4. run.copies[1] \in Nat /\ j \in Nat
     BY <1>2, <1>3, <2>1
   <4>. QED BY <3>1, <4>3, <4>4
  <3>3. Verifying!Taken(sessions[j].device)
    BY <1>3, <1>4, <3>1, <3>2
  <3>. QED BY <2>1, <2>3, <3>3
 <2>. QED BY <1>7, <1>13, <2>2, <2>3
<1>14. Falls(copies) /\ \A k \in DOMAIN copies : copies[k] \in run.closed
 <2>1. ASSUME NEW a \in DOMAIN copies, NEW b \in DOMAIN copies, a < b
       PROVE  copies[a] > copies[b]
  <3>1. a \in Nat /\ b \in Nat
    BY <1>3
  <3>2. PICK c \in Nat, d \in Nat : c = a + 1 /\ d = b + 1 /\ c < d
    BY <2>1, <3>1
  <3>3. c \in DOMAIN run.copies /\ d \in DOMAIN run.copies
        /\ copies[a] = run.copies[c] /\ copies[b] = run.copies[d]
    BY <1>3, <3>2
  <3>. QED BY <1>4, <3>2, <3>3 DEF Falls
 <2>. QED BY <1>3, <1>4, <2>1 DEF Falls
<1>15. ASSUME NEW j \in run.closed, NEW k \in DOMAIN copies,
              ~(j <= copies[k]), ~\E m \in DOMAIN copies : copies[m] = j
       PROVE  Verifying!Taken(sessions[j].device)'
 <2>1. PICK c \in DOMAIN run.copies : run.copies[c] = copies[k]
   BY <1>3
 <2>2. \/ \E m \in DOMAIN run.copies : run.copies[m] = j
       \/ Verifying!Taken(sessions[j].device)
   BY <1>4, <1>15, <2>1
 <2>3. j \in DOMAIN sessions /\ sessions'[j].device = sessions[j].device
   BY <1>4, <1>7
 <2>4. CASE Verifying!Taken(sessions[j].device)
   BY <1>7, <2>3, <2>4 DEF Verifying!Taken
 <2>5. CASE \E m \in DOMAIN run.copies : run.copies[m] = j
  <3>1. j = i
    BY <1>3, <1>15, <2>5
  <3>. QED BY <1>6, <1>7, <2>3, <2>4, <3>1 DEF Verifying!Taken
 <2>. QED BY <2>2, <2>4, <2>5
<1>16. SessionsOK'
 <2>1. (run.closed \subseteq DOMAIN sessions)'
   BY <1>4, <1>5, <1>7
 <2>2. (\A k \in DOMAIN sessions : \A j \in run.closed :
           sessions[k].active /\ j > k => sessions[j].device # sessions[k].device)'
   BY <1>5, <1>7, <1>13
 <2>3. (Falls(run.copies) /\ \A k \in DOMAIN run.copies : run.copies[k] \in run.closed)'
   BY <1>5, <1>14
 <2>4. (\A j \in run.closed : \A k \in DOMAIN run.copies :
           \/ j <= run.copies[k] \/ \E m \in DOMAIN run.copies : run.copies[m] = j
           \/ Verifying!Taken(sessions[j].device))'
   BY <1>5, <1>15
 <2>. QED BY <1>5, <2>1, <2>2, <2>3, <2>4 DEF SessionsOK
<1>. QED BY <1>9, <1>10, <1>11, <1>12, <1>16 DEF VerifyInv

\* What others do meanwhile.
LEMMA EditKept ==
    ASSUME VerifyInv, NEW p \in DOMAIN live, NEW c, Verifying!Edit(p, c), others' = others + 1
    PROVE  VerifyInv'
<1>1. /\ live' = [live EXCEPT ![p] = c] /\ UNCHANGED <<versions, sessions>>
      /\ run' = [run EXCEPT !.since = run.since \union {p}]
  BY DEF Verifying!Edit
<1>2. run \in VerifyRun(DOMAIN live) /\ DOMAIN live = Verifying!Places(run.plan) /\ others \in Nat
  BY DEF VerifyInv, VerifyTypes
<1>3. others' \in Nat /\ others' # 0
  BY <1>2
<1>4. /\ run' \in VerifyRun(DOMAIN live) /\ run'.pc = run.pc /\ run'.since = run.since \union {p}
      /\ run'.plan = run.plan /\ run'.at = run.at /\ run'.bad = run.bad /\ run'.unread = run.unread
      /\ run'.known = run.known /\ run'.found = run.found /\ run'.stale = run.stale
      /\ run'.verified = run.verified /\ run'.copies = run.copies /\ run'.closed = run.closed
  BY <1>1, <1>2 DEF VerifyRun
<1>5. /\ DOMAIN live' = DOMAIN live /\ \A q \in DOMAIN live : q # p => live'[q] = live[q]
  BY <1>1
<1>6. VerifyTypes'
  BY <1>1, <1>3, <1>4, <1>5 DEF VerifyInv, VerifyTypes, Verifying!Places
<1>7. ReadsOK'
 <2>1. /\ run.pc # "reading" => run.at > Len(run.plan)
       /\ \A i \in Verifying!DoneActions : i < run.at =>
             i \in run.bad \/ Verifying!Holds(run.plan[i]) \/ Verifying!Place(run.plan[i]) \in run.since
   BY DEF VerifyInv, ReadsOK
 <2>2. Verifying!DoneActions' = Verifying!DoneActions
   BY <1>4 DEF Verifying!DoneActions
 <2>3. ASSUME NEW i \in Verifying!DoneActions, i < run.at
       PROVE  i \in run.bad \/ Verifying!Holds(run.plan[i])' \/ Verifying!Place(run.plan[i]) \in run'.since
  <3>1. PICK a, q : a = run.plan[i] /\ q = Verifying!Place(a)
    OBVIOUS
  <3>2. q \in DOMAIN live
   <4>1. i \in DOMAIN run.plan
     BY DEF Verifying!DoneActions
   <4>. QED BY <1>2, <3>1, <4>1 DEF Verifying!Places
  <3>3. CASE q = p
    BY <1>4, <3>1, <3>3
  <3>4. CASE q # p
   <4>1. live'[q] = live[q]
     BY <1>5, <3>2, <3>4
   <4>2. run'.plan[i] = a /\ Verifying!Place(a)' = q
     BY <1>4, <3>1 DEF Verifying!Place, Verifying!Or
   <4>3. Verifying!Holds(run.plan[i]) => Verifying!Holds(run.plan[i])'
     BY <3>1, <4>1, <4>2 DEF Verifying!Holds, Verifying!Gone
   <4>. QED BY <1>4, <2>1, <2>3, <4>3
  <3>. QED BY <3>3, <3>4
 <2>4. \A i : Verifying!Place(run.plan[i])' = Verifying!Place(run.plan[i])
   BY <1>4 DEF Verifying!Place, Verifying!Or
 <2>. QED BY <1>3, <1>4, <2>1, <2>2, <2>3, <2>4 DEF ReadsOK
<1>8. SearchOK'
  BY <1>1, <1>3, <1>4, SearchStays DEF VerifyInv
<1>9. VerdictOK'
  BY <1>4 DEF VerifyInv, VerdictOK
<1>10. SessionsOK'
  BY <1>1, <1>4, SessionsStay DEF VerifyInv
<1>. QED BY <1>6, <1>7, <1>8, <1>9, <1>10 DEF VerifyInv

LEMMA RecordedKept ==
    ASSUME EvidenceAssumed, VerifyInv, NEW r \in DOMAIN versions, NEW names \in Recordable,
           NEW deleted \in BOOLEAN, Verifying!Record(r, names, deleted), others' = others + 1
    PROVE  VerifyInv'
<1>0. PICK v : v = [names |-> names, deleted |-> deleted]
  OBVIOUS
<1>1. /\ versions' = [versions EXCEPT ![r] = Append(versions[r], v)] /\ UNCHANGED <<live, sessions, run>>
  BY <1>0 DEF Verifying!Record
<1>2. v \in Version
  BY <1>0 DEF Version, EvidenceAssumed
<1>3. versions \in [Objects -> Seq(Version) \ {<<>>}] /\ r \in Objects /\ others \in Nat
  BY DEF VerifyInv, VerifyTypes
<1>4. others' \in Nat /\ others' # 0
  BY <1>3
<1>5. /\ versions' \in [Objects -> Seq(Version) \ {<<>>}]
      /\ Len(versions'[r]) = Len(versions[r]) + 1
      /\ \A n \in DOMAIN versions[r] : n \in DOMAIN versions'[r] /\ versions'[r][n] = versions[r][n]
      /\ \A q \in Objects : q # r => versions'[q] = versions[q]
 <2>1. PICK h : h = Append(versions[r], v)
   OBVIOUS
 <2>2. versions[r] \in Seq(Version)
   BY <1>3
 <2>3. /\ h \in Seq(Version) /\ h # <<>> /\ Len(h) = Len(versions[r]) + 1
       /\ \A n \in DOMAIN versions[r] : n \in DOMAIN h /\ h[n] = versions[r][n]
   BY <1>2, <2>1, <2>2
 <2>4. versions' = [versions EXCEPT ![r] = h]
   BY <1>1, <2>1
 <2>. QED BY <1>3, <2>3, <2>4
<1>6. VerifyTypes'
  BY <1>1, <1>4, <1>5 DEF VerifyInv, VerifyTypes, Verifying!Places
<1>7. ReadsOK'
  BY <1>1, <1>4, ReadsStay DEF VerifyInv, ReadsOK
<1>8. SearchOK'
 <2>1. /\ run.pc # "reading" =>
             /\ run.known \in [Objects -> Nat]
             /\ \A q \in Objects :
                   /\ run.known[q] <= Len(versions[q])
                   /\ Verifying!Names(q) =>
                         \/ Len(versions[q]) > run.known[q]
                         \/ q \in run.stale \/ <<q, Len(versions[q])>> \in run.found
       /\ \A q \in Objects : \A n \in Nat : <<q, n>> \in run.found =>
             n \in DOMAIN versions[q] /\ versions[q][n].names \intersect Verifying!Replaced # {}
   BY DEF VerifyInv, SearchOK
 <2>2. Verifying!Replaced' = Verifying!Replaced
   BY <1>1 DEF Verifying!Replaced, Verifying!DoneActions
 <2>3. ASSUME NEW q \in Objects, q # r
       PROVE  versions'[q] = versions[q] /\ Verifying!Names(q)' = Verifying!Names(q)
   BY <1>5, <2>2, <2>3 DEF Verifying!Names, Verifying!Newest
 <2>4. ASSUME run.pc # "reading", NEW q \in Objects
       PROVE  /\ run.known[q] <= Len(versions'[q])
              /\ Verifying!Names(q)' =>
                    \/ Len(versions'[q]) > run.known[q]
                    \/ q \in run.stale \/ <<q, Len(versions'[q])>> \in run.found
  <3>1. CASE q # r
    BY <2>1, <2>3, <2>4, <3>1
  <3>2. CASE q = r
   <4>1. run.known[r] \in Nat /\ run.known[r] <= Len(versions[r]) /\ Len(versions[r]) \in Nat
    <5>1. Len(versions[r]) \in Nat
     <6>1. versions[r] \in Seq(Version)
       BY <1>3
     <6>. QED BY <6>1
    <5>2. run.known[r] \in Nat
      BY <1>3, <2>1, <2>4
    <5>3. run.known[r] <= Len(versions[r])
      BY <1>3, <2>1, <2>4
    <5>. QED BY <5>1, <5>2, <5>3
   <4>. QED BY <1>5, <3>2, <4>1
  <3>. QED BY <3>1, <3>2
 <2>5. ASSUME NEW q \in Objects, NEW n \in Nat, <<q, n>> \in run.found
       PROVE  n \in DOMAIN versions'[q] /\ versions'[q][n].names \intersect Verifying!Replaced # {}
  <3>1. n \in DOMAIN versions[q] /\ versions[q][n].names \intersect Verifying!Replaced # {}
    BY <2>1, <2>5
  <3>2. n \in DOMAIN versions'[q] /\ versions'[q][n] = versions[q][n]
    BY <1>5, <3>1
  <3>. QED BY <3>1, <3>2
 <2>. QED BY <1>1, <1>4, <2>1, <2>2, <2>4, <2>5 DEF SearchOK
<1>9. VerdictOK'
  BY <1>1 DEF VerifyInv, VerdictOK
<1>10. SessionsOK'
  BY <1>1, SessionsStay DEF VerifyInv
<1>. QED BY <1>6, <1>7, <1>8, <1>9, <1>10 DEF VerifyInv

LEMMA TurnOverKept ==
    ASSUME VerifyInv, Verifying!TurnOver, others' = others + 1
    PROVE  VerifyInv'
<1>1. UNCHANGED <<live, versions, sessions, run>> /\ others \in Nat
  BY DEF Verifying!TurnOver, VerifyInv, VerifyTypes
<1>2. others' \in Nat /\ others' # 0
  BY <1>1
<1>3. VerifyTypes'
  BY <1>1, <1>2 DEF VerifyInv, VerifyTypes, Verifying!Places
<1>4. ReadsOK' /\ SearchOK'
  BY <1>1, <1>2, ReadsStay, SearchStays DEF VerifyInv, ReadsOK
<1>5. VerdictOK' /\ SessionsOK'
  BY <1>1, SessionsStay DEF VerifyInv, VerdictOK
<1>. QED BY <1>3, <1>4, <1>5 DEF VerifyInv

LEMMA EventKept ==
    ASSUME VerifyInv, NEW d, Verifying!Event(d), others' = others + 1
    PROVE  VerifyInv'
<1>0. PICK i \in DOMAIN sessions :
          sessions[i].device = d /\ sessions' = Append(sessions, [sessions[i] EXCEPT !.active = TRUE])
  BY DEF Verifying!Event
<1>1. PICK new : new = [sessions[i] EXCEPT !.active = TRUE]
  OBVIOUS
<1>2. UNCHANGED <<live, versions, run>> /\ ~Verifying!Taken(d)
  BY DEF Verifying!Event
<1>3. sessions \in Seq(Watch) /\ others \in Nat
  BY DEF VerifyInv, VerifyTypes
<1>4. others' \in Nat /\ others' # 0
  BY <1>3
<1>5. new \in Watch /\ new.device = d
 <2>1. sessions[i] \in Watch
   BY <1>3
 <2>. QED BY <1>0, <1>1, <2>1 DEF Watch
<1>6. PICK top : /\ top = Len(sessions) + 1 /\ DOMAIN sessions' = 1 .. top /\ sessions'[top] = new
                 /\ DOMAIN sessions = 1 .. (top - 1) /\ top \in Nat /\ sessions' \in Seq(Watch)
                 /\ \A k \in DOMAIN sessions : k \in DOMAIN sessions' /\ sessions'[k] = sessions[k]
 <2>1. sessions' = Append(sessions, new)
   BY <1>0, <1>1
 <2>. QED BY <1>3, <1>5, <2>1
<1>7. VerifyTypes'
  BY <1>2, <1>4, <1>6 DEF VerifyInv, VerifyTypes, Verifying!Places
<1>8. ReadsOK' /\ SearchOK'
  BY <1>2, <1>4, ReadsStay, SearchStays DEF VerifyInv, ReadsOK
<1>9. VerdictOK'
  BY <1>2 DEF VerifyInv, VerdictOK
<1>10. \A e : Verifying!Taken(e) => Verifying!Taken(e)'
  BY <1>6 DEF Verifying!Taken
<1>11. ASSUME NEW k \in DOMAIN sessions, sessions[k].active
       PROVE  sessions[k].device # d
  BY <1>2, <1>11 DEF Verifying!Taken
<1>12. SessionsOK'
 <2>1. SessionsOK
   BY DEF VerifyInv
 <2>2. run.closed \subseteq DOMAIN sessions /\ run.closed \subseteq DOMAIN sessions'
   BY <1>6, <2>1 DEF SessionsOK
 <2>3. CASE run.pc \in {"reopening", "done"}
  <3>1. ASSUME NEW k \in DOMAIN sessions', NEW j \in run.closed, sessions'[k].active, j > k
        PROVE  sessions'[j].device # sessions'[k].device
   <4>1. j \in DOMAIN sessions
     BY <2>2
   <4>2. k \in DOMAIN sessions
     BY <1>6, <3>1, <4>1
   <4>3. sessions'[k] = sessions[k] /\ sessions'[j] = sessions[j]
     BY <1>6, <4>1, <4>2
   <4>. QED BY <2>1, <2>3, <3>1, <4>2, <4>3 DEF SessionsOK
  <3>2. ASSUME NEW j \in run.closed, Verifying!Taken(sessions[j].device)
        PROVE  Verifying!Taken(sessions[j].device)'
   <4>1. sessions'[j] = sessions[j]
     BY <1>6, <2>2
   <4>2. PICK k \in DOMAIN sessions : sessions[k].active /\ sessions[k].device = sessions[j].device
     BY <3>2 DEF Verifying!Taken
   <4>3. k \in DOMAIN sessions' /\ sessions'[k] = sessions[k] /\ run'.closed = run.closed
     BY <1>2, <1>6
   <4>. QED BY <4>1, <4>2, <4>3 DEF Verifying!Taken
  <3>3. run.pc = "reopening" =>
           /\ Falls(run.copies) /\ \A k \in DOMAIN run.copies : run.copies[k] \in run.closed
           /\ \A j \in run.closed : \A k \in DOMAIN run.copies :
                 \/ j <= run.copies[k] \/ \E m \in DOMAIN run.copies : run.copies[m] = j
                 \/ Verifying!Taken(sessions[j].device)'
    BY <2>1, <3>2 DEF SessionsOK
  <3>4. (run.pc = "reopening" =>
            /\ Falls(run.copies) /\ \A k \in DOMAIN run.copies : run.copies[k] \in run.closed
            /\ \A j \in run.closed : \A k \in DOMAIN run.copies :
                  \/ j <= run.copies[k] \/ \E m \in DOMAIN run.copies : run.copies[m] = j
                  \/ Verifying!Taken(sessions[j].device))'
    BY <1>2, <3>3 DEF Falls
  <3>. QED BY <1>2, <2>2, <2>3, <3>1, <3>4 DEF SessionsOK
 <2>4. CASE run.pc \notin {"reopening", "done"}
  <3>1. NewestActive(sessions) /\ run.closed = {}
    BY <2>1, <2>4 DEF SessionsOK
  <3>2. ASSUME NEW k \in DOMAIN sessions', NEW j \in DOMAIN sessions', sessions'[k].active, j > k
        PROVE  sessions'[j].device # sessions'[k].device
   <4>1. k \in DOMAIN sessions /\ sessions'[k] = sessions[k]
     BY <1>6, <3>2
   <4>2. CASE j = top
     BY <1>5, <1>6, <1>11, <3>2, <4>1, <4>2
   <4>3. CASE j # top
    <5>1. j \in DOMAIN sessions /\ sessions'[j] = sessions[j]
      BY <1>6, <4>3
    <5>. QED BY <3>1, <3>2, <4>1, <5>1 DEF NewestActive
   <4>. QED BY <4>2, <4>3
  <3>3. NewestActive(sessions')
    BY <3>2 DEF NewestActive
  <3>. QED BY <1>2, <2>2, <2>4, <3>1, <3>3 DEF SessionsOK, NewestActive
 <2>. QED BY <2>3, <2>4
<1>. QED BY <1>7, <1>8, <1>9, <1>12 DEF VerifyInv

LEMMA CompleteKept ==
    ASSUME VerifyInv, run.pc # "done", NEW i \in DOMAIN sessions, Verifying!Complete(i), others' = others + 1
    PROVE  VerifyInv'
<1>1. PICK new : new = [sessions[i] EXCEPT !.active = FALSE]
  OBVIOUS
<1>2. /\ UNCHANGED <<live, versions, run>> /\ run.pc \notin {"reopening", "done"}
      /\ sessions' = [sessions EXCEPT ![i] = new]
  BY <1>1 DEF Verifying!Complete
<1>3. sessions \in Seq(Watch) /\ others \in Nat
  BY DEF VerifyInv, VerifyTypes
<1>4. others' \in Nat /\ others' # 0
  BY <1>3
<1>5. new \in Watch /\ new.device = sessions[i].device /\ ~new.active
 <2>1. sessions[i] \in Watch
   BY <1>3
 <2>. QED BY <1>1, <2>1 DEF Watch
<1>6. /\ sessions' \in Seq(Watch) /\ DOMAIN sessions' = DOMAIN sessions /\ sessions'[i] = new
      /\ \A k \in DOMAIN sessions : k # i => sessions'[k] = sessions[k]
  BY <1>2, <1>3, <1>5
<1>7. VerifyTypes'
  BY <1>2, <1>4, <1>6 DEF VerifyInv, VerifyTypes, Verifying!Places
<1>8. ReadsOK' /\ SearchOK'
  BY <1>2, <1>4, ReadsStay, SearchStays DEF VerifyInv, ReadsOK
<1>9. VerdictOK'
  BY <1>2 DEF VerifyInv, VerdictOK
<1>10. SessionsOK'
 <2>1. NewestActive(sessions) /\ run.closed = {}
   BY <1>2 DEF VerifyInv, SessionsOK
 <2>2. ASSUME NEW k \in DOMAIN sessions', NEW j \in DOMAIN sessions', sessions'[k].active, j > k
       PROVE  sessions'[j].device # sessions'[k].device
  <3>1. k # i /\ sessions'[k] = sessions[k] /\ k \in DOMAIN sessions /\ j \in DOMAIN sessions
    BY <1>5, <1>6, <2>2
  <3>2. sessions'[j].device = sessions[j].device
    BY <1>5, <1>6, <3>1
  <3>. QED BY <2>1, <2>2, <3>1, <3>2 DEF NewestActive
 <2>3. NewestActive(sessions')
   BY <2>2 DEF NewestActive
 <2>. QED BY <1>2, <2>1, <2>3 DEF SessionsOK, NewestActive
<1>. QED BY <1>7, <1>8, <1>9, <1>10 DEF VerifyInv

LEMMA VerifyStep ==
    ASSUME PlansAssumed, EvidenceAssumed, VerifyInv, [Verifying!Next]_Verifying!vars
    PROVE  VerifyInv'
<1>1. ASSUME NEW i \in DOMAIN run.plan, Verifying!_read_after_write(i)
      PROVE  VerifyInv'
  BY <1>1, ReadBackKept
<1>2. CASE Verifying!Search
  BY <1>2, SearchKept
<1>3. ASSUME NEW r \in DOMAIN versions, NEW n \in DOMAIN versions[r], Verifying!Keep(r, n)
      PROVE  VerifyInv'
  BY <1>3, KeepKept
<1>4. CASE Verifying!Conclude
  BY <1>4, ConcludeKept
<1>5. CASE Verifying!Open \/ Verifying!Send \/ Verifying!persist
  BY <1>5, SnapshotKept
<1>6. CASE Verifying!List
  BY <1>6, ListKept
<1>7. CASE Verifying!Reopen
  BY <1>7, ReopenKept
<1>8. CASE Verifying!Meanwhile
 <2>1. others' = others + 1 /\ run.pc # "done"
   BY <1>8 DEF Verifying!Meanwhile
 <2>2. ASSUME NEW p \in DOMAIN live, NEW c, Verifying!Edit(p, c)
       PROVE  VerifyInv'
   BY <2>1, <2>2, EditKept
 <2>3. ASSUME NEW r \in DOMAIN versions, NEW names \in Recordable, NEW deleted \in BOOLEAN,
              Verifying!Record(r, names, deleted)
       PROVE  VerifyInv'
   BY <2>1, <2>3, RecordedKept
 <2>4. CASE Verifying!TurnOver
   BY <2>1, <2>4, TurnOverKept
 <2>5. ASSUME NEW d, Verifying!Event(d)
       PROVE  VerifyInv'
   BY <2>1, <2>5, EventKept
 <2>6. ASSUME NEW i \in DOMAIN sessions, Verifying!Complete(i)
       PROVE  VerifyInv'
   BY <2>1, <2>6, CompleteKept
 <2>. QED BY <1>8, <2>2, <2>3, <2>4, <2>5, <2>6 DEF Verifying!Meanwhile
<1>9. CASE UNCHANGED Verifying!vars
 <2>1. UNCHANGED <<live, versions, sessions, run, others>>
   BY <1>9 DEF Verifying!vars
 <2>2. VerifyTypes' /\ VerdictOK'
   BY <2>1 DEF VerifyInv, VerifyTypes, VerdictOK, Verifying!Places
 <2>3. ReadsOK' /\ SearchOK' /\ SessionsOK'
   BY <2>1, ReadsStay, SearchStays, SessionsStay DEF VerifyInv, ReadsOK
 <2>. QED BY <2>2, <2>3 DEF VerifyInv
<1>. QED BY <1>1, <1>2, <1>3, <1>4, <1>5, <1>6, <1>7, <1>8, <1>9 DEF Verifying!Next

\* A restore is called verified only when Mist holds what it wrote and no object
\* names a replaced id; it fails, undisturbed, only for something that is wrong;
\* and no session is reopened in place of a newer one of its device: for every
\* plan, history and sessions (VerifiedIsTrue, FailureIsReal, ReopensTheNewest).
THEOREM VerdictsAreTrue ==
    ASSUME PlansAssumed, EvidenceAssumed
    PROVE  Verifying!Spec =>
               [](Verifying!VerifiedIsTrue /\ Verifying!FailureIsReal /\ Verifying!ReopensTheNewest)
<1>1. Verifying!Init => VerifyInv
  BY VerifyInit
<1>2. VerifyInv /\ [Verifying!Next]_Verifying!vars => VerifyInv'
  BY VerifyStep
<1>3. VerifyInv => Verifying!VerifiedIsTrue /\ Verifying!FailureIsReal /\ Verifying!ReopensTheNewest
 <2>. SUFFICES ASSUME VerifyInv
               PROVE  Verifying!VerifiedIsTrue /\ Verifying!FailureIsReal /\ Verifying!ReopensTheNewest
   OBVIOUS
 <2>1. run.plan \in Written /\ DOMAIN versions = Objects /\ run.bad \subseteq Nat /\ run.at \in Nat
   BY DEF VerifyInv, VerifyTypes, VerifyRun
 <2>2. run.pc = "done" =>
          /\ run.found = {} /\ run.verified = (run.bad = {} /\ run.stale = {})
          /\ run.at > Len(run.plan)
   BY DEF VerifyInv, VerdictOK, ReadsOK, Later
 <2>3. Verifying!VerifiedIsTrue
  <3>. SUFFICES ASSUME run.pc = "done", run.verified
                PROVE  /\ \A i \in Verifying!DoneActions :
                             Verifying!Holds(run.plan[i]) \/ Verifying!Place(run.plan[i]) \in run.since
                       /\ \A r \in DOMAIN versions :
                             Verifying!Names(r) => Len(versions[r]) > run.known[r]
    BY DEF Verifying!VerifiedIsTrue
  <3>1. run.bad = {} /\ run.stale = {} /\ run.found = {} /\ run.at > Len(run.plan)
    BY <2>2
  <3>2. ASSUME NEW i \in Verifying!DoneActions
        PROVE  i < run.at
   <4>1. i \in DOMAIN run.plan /\ run.plan \in Seq(Actions)
     BY <2>1 DEF Verifying!DoneActions, PlansAssumed
   <4>. QED BY <2>1, <3>1, <4>1
  <3>3. \A i \in Verifying!DoneActions :
            Verifying!Holds(run.plan[i]) \/ Verifying!Place(run.plan[i]) \in run.since
    BY <3>1, <3>2 DEF VerifyInv, ReadsOK
  <3>4. \A r \in Objects : Verifying!Names(r) => Len(versions[r]) > run.known[r]
    BY <3>1 DEF VerifyInv, SearchOK
  <3>. QED BY <2>1, <3>3, <3>4
 <2>4. Verifying!FailureIsReal
  <3>. SUFFICES ASSUME run.pc = "done", others = 0, ~run.verified
                PROVE  \/ run.unread
                       \/ \E i \in Verifying!DoneActions : ~Verifying!Holds(run.plan[i])
                       \/ \E r \in DOMAIN versions : Verifying!Names(r)
    BY DEF Verifying!FailureIsReal
  <3>1. CASE run.bad # {}
    BY <3>1 DEF VerifyInv, ReadsOK
  <3>2. CASE run.stale # {}
   <4>1. run.stale \subseteq Objects
     BY DEF VerifyInv, VerifyTypes, VerifyRun
   <4>2. \A r \in run.stale : Verifying!Names(r)
     BY DEF VerifyInv, SearchOK
   <4>. QED BY <2>1, <3>2, <4>1, <4>2
  <3>. QED BY <2>2, <3>1, <3>2
 <2>5. Verifying!ReopensTheNewest
  <3>1. run.pc \in {"reopening", "done"} \/ run.closed = {}
    BY DEF VerifyInv, SessionsOK
  <3>. QED BY <3>1 DEF VerifyInv, SessionsOK, Verifying!ReopensTheNewest
 <2>. QED BY <2>3, <2>4, <2>5
<1>. QED BY <1>1, <1>2, <1>3, PTL DEF Verifying!Spec
=============================================================================
