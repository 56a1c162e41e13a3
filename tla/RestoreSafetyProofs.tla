------------------------ MODULE RestoreSafetyProofs ------------------------
\* What no schedule of requests, workers, deliveries, deaths and janitors
\* can make RestoreRun do, whatever time its workers take.
EXTENDS RestoreRun, TLAPS

LEMMA Bounds ==
    /\ 0 \in 0 .. TTL /\ TTL \in 0 .. TTL
    /\ 0 \in 0 .. MaxStall
    /\ 0 \in 0 .. N + 1 /\ 1 \in 0 .. N + 1 /\ 1 \in Actions /\ 0 \notin Actions
    /\ \A i \in Actions : i \in 0 .. N + 1 /\ i + 1 \in 0 .. N + 1
    /\ \A k \in 0 .. MaxStall : k < MaxStall => k + 1 \in 0 .. MaxStall
    /\ \A k \in 0 .. TTL : k < TTL => k + 1 \in 0 .. TTL
    /\ \A k \in 0 .. TTL : k > 0 => k - 1 \in 0 .. TTL
  BY PlanAssumption, TimeAssumption DEF Actions

\* Inside `_execute_action` the cursor names an action of the plan.
InAction(pc) == pc \in {"check", "mist", "record", "readback", "result"}
CursorOK == \A w \in Workers : InAction(run[w].pc) => run[w].idx \in Actions

TypeInv == TypeOK /\ CursorOK

LEMMA IdleType == Idle \in Locals /\ Idle.pc = "idle"
  BY Bounds DEF Idle, Locals, Pcs, Statuses, ActionStatuses

LEMMA GotoType ==
    ASSUME NEW r \in Locals, NEW pc \in Pcs
    PROVE  /\ Goto(r, pc) \in Locals
           /\ Goto(r, pc).pc = pc
           /\ InAction(pc) => Goto(r, pc).idx = r.idx
<1>1. CASE pc = "exit"
  BY <1>1, IdleType DEF Goto, Locals, Idle, InAction
<1>2. CASE pc # "exit"
 <2>1. Goto(r, pc) \in Locals
   BY <1>2, Bounds DEF Goto, Locals
 <2>2. Goto(r, pc).pc = pc /\ Goto(r, pc).idx = r.idx
   BY <1>2 DEF Goto, Locals
 <2>. QED BY <2>1, <2>2
<1>. QED BY <1>1, <1>2

\* A worker's new locals keep the type when they have one and a valid cursor.
LEMMA SetType ==
    ASSUME TypeInv, NEW w \in Workers, NEW r \in Locals,
           InAction(r.pc) => r.idx \in Actions,
           Set(w, r)
    PROVE  run' \in [Workers -> Locals] /\ CursorOK'
  BY DEF TypeInv, TypeOK, CursorOK, Set

LEMMA StoreType ==
    ASSUME TypeInv, NEW w \in Workers, NEW st \in Statuses,
           NEW as \in [Actions -> ActionStatuses], Store(w, st, as)
    PROVE  /\ status' \in [Ops -> Statuses]
           /\ acts' \in [Ops -> [Actions -> ActionStatuses]]
           /\ cred' \in [Ops -> BOOLEAN]
           /\ started' \in [Ops -> BOOLEAN]
           /\ silence' \in [Ops -> 0 .. TTL]
           /\ judged' \in [Ops -> BOOLEAN]
<1>1. status' \in [Ops -> Statuses] /\ acts' \in [Ops -> [Actions -> ActionStatuses]]
  BY DEF TypeInv, TypeOK, Store
<1>2. (st = "running") \in BOOLEAN /\ (~At(w, "loaded") \/ st = "running") \in BOOLEAN
  OBVIOUS
<1>3. cred' \in [Ops -> BOOLEAN] /\ started' \in [Ops -> BOOLEAN]
  BY <1>2, Zenon DEF TypeInv, TypeOK, Store
<1>4. silence' \in [Ops -> 0 .. TTL] /\ judged' \in [Ops -> BOOLEAN]
  BY Bounds DEF TypeInv, TypeOK, Store
<1>. QED BY <1>1, <1>3, <1>4

\* Where a guarded write may go next: into the loop only from within it.
Onward(w, pc) == InAction(pc) => InAction(run[w].pc)

LEMMA PersistType ==
    ASSUME TypeInv, NEW w \in Workers, NEW st \in Statuses,
           NEW as \in [Actions -> ActionStatuses],
           NEW next \in Pcs, NEW onError \in Pcs,
           Onward(w, next), Onward(w, onError),
           Persist(w, st, as, next, onError)
    PROVE  TypeInv'
<1>. DEFINE r == [run[w] EXCEPT !.acts = as]
            ok == [r EXCEPT !.own = st, !.claimed = TRUE]
            refused == [r EXCEPT !.lost = TRUE]
<1>1. run[w] \in Locals /\ "exit" \in Pcs /\ ~InAction("exit")
  BY DEF TypeInv, TypeOK, Pcs, InAction
<1>2. /\ r \in Locals /\ r.idx = run[w].idx
      /\ ok \in Locals /\ ok.idx = run[w].idx
      /\ refused \in Locals
  BY <1>1 DEF Locals
<1>3. InAction(run[w].pc) => run[w].idx \in Actions
  BY DEF TypeInv, CursorOK
<1>. HIDE DEF r, ok, refused
<1>4. run' \in [Workers -> Locals] /\ CursorOK'
 <2>1. CASE Set(w, Goto(ok, next))
  <3>1. /\ Goto(ok, next) \in Locals
        /\ Goto(ok, next).pc = next
        /\ InAction(next) => Goto(ok, next).idx = run[w].idx
    BY <1>2, GotoType
  <3>2. InAction(next) => run[w].idx \in Actions
    BY <1>3 DEF Onward
  <3>. QED BY <2>1, <3>1, <3>2, SetType
 <2>2. CASE Set(w, Goto(refused, "exit"))
  <3>1. Goto(refused, "exit") \in Locals /\ ~InAction(Goto(refused, "exit").pc)
    BY <1>1, <1>2, GotoType
  <3>. QED BY <2>2, <3>1, SetType
 <2>3. CASE Set(w, Goto(r, onError))
  <3>1. /\ Goto(r, onError) \in Locals
        /\ Goto(r, onError).pc = onError
        /\ InAction(onError) => Goto(r, onError).idx = run[w].idx
    BY <1>2, GotoType
  <3>2. InAction(onError) => run[w].idx \in Actions
    BY <1>3 DEF Onward
  <3>. QED BY <2>3, <3>1, <3>2, SetType
 <2>. QED BY <2>1, <2>2, <2>3 DEF Persist, r, ok, refused
<1>5. /\ status' \in [Ops -> Statuses]
      /\ acts' \in [Ops -> [Actions -> ActionStatuses]]
      /\ cred' \in [Ops -> BOOLEAN]
      /\ started' \in [Ops -> BOOLEAN]
      /\ silence' \in [Ops -> 0 .. TTL]
      /\ judged' \in [Ops -> BOOLEAN]
 <2>1. CASE UNCHANGED stored
   BY <2>1 DEF stored, TypeInv, TypeOK
 <2>2. CASE Store(w, st, as)
   BY <2>2, StoreType
 <2>. QED BY <2>1, <2>2 DEF Persist
<1>. QED BY <1>4, <1>5 DEF Persist, TypeInv, TypeOK, requests

\* Steps that leave every worker's locals alone.
LEMMA RequestType ==
    ASSUME TypeInv, NEW op \in Ops, Request(op)
    PROVE  TypeInv'
<1>. USE DEF TypeInv, TypeOK, CursorOK, stored, requests
<1>1. CASE CheckRequest(op)
  BY <1>1 DEF CheckRequest
<1>2. CASE Reserve(op)
  BY <1>2 DEF Reserve, Statuses
<1>3. CASE SendTask(op)
  BY <1>3 DEF SendTask
<1>4. CASE RequestDies(op)
  BY <1>4 DEF RequestDies
<1>5. CASE Release(op)
  BY <1>5 DEF Release, Statuses
<1>6. CASE Supersede(op)
  BY <1>6 DEF Supersede, Statuses
<1>7. CASE ExpireCredential(op)
  BY <1>7 DEF ExpireCredential, Statuses
<1>. QED BY <1>1, <1>2, <1>3, <1>4, <1>5, <1>6, <1>7 DEF Request

\* The outcome rules return statuses.
LEMMA OutcomeType ==
    ASSUME NEW as \in [Actions -> ActionStatuses], NEW c
    PROVE  /\ TerminalFailureStatus(as, c) \in {"failed", "compensation_available"}
           /\ MarkUnconfirmed(as) \in [Actions -> ActionStatuses]
  BY DEF TerminalFailureStatus, MarkUnconfirmed, ActionStatuses

LEMMA JanitorType ==
    ASSUME TypeInv, NEW op \in Ops, Janitor(op)
    PROVE  TypeInv'
<1>. USE DEF TypeInv, TypeOK, CursorOK, stored, requests
<1>1. CASE FindSilent(op)
  BY <1>1 DEF FindSilent
<1>2. CASE Interrupt(op)
 <2>1. PICK c \in {Compensating(op), FALSE} :
         status' = [status EXCEPT ![op] = TerminalFailureStatus(MarkUnconfirmed(acts[op]), c)]
   BY <1>2 DEF Interrupt
 <2>2. MarkUnconfirmed(acts[op]) \in [Actions -> ActionStatuses]
   BY OutcomeType
 <2>3. TerminalFailureStatus(MarkUnconfirmed(acts[op]), c) \in Statuses
   BY <2>2, OutcomeType DEF Compensating, Statuses
 <2>. QED BY <1>2, <2>1, <2>2, <2>3, Bounds DEF Interrupt
<1>3. CASE JanitorRelease(op)
  BY <1>3, Bounds DEF JanitorRelease, HandBack, NoLease
<1>. QED BY <1>1, <1>2, <1>3 DEF Janitor

LEMMA TickType ==
    ASSUME TypeInv, Tick
    PROVE  TypeInv'
<1>1. silence' \in [Ops -> 0 .. TTL]
  BY Bounds DEF TypeInv, TypeOK, Tick
<1>2. lease' \in [holder : Ops \union {NoOp}, left : 0 .. TTL]
  BY Bounds DEF TypeInv, TypeOK, Tick
<1>3. run' \in [Workers -> Locals] /\ CursorOK'
 <2>. DEFINE age(w) == IF Writing(w) THEN run[w].age + 1 ELSE run[w].age
             half(w) == IF run[w].beat # "none" THEN run[w].half + 1 ELSE run[w].half
 <2>1. \A w \in Workers : age(w) \in 0 .. MaxStall /\ half(w) \in 0 .. MaxStall
   BY Bounds DEF TypeInv, TypeOK, Tick, InTime, Locals
 <2>2. run' = [w \in Workers |-> [run[w] EXCEPT !.age = age(w), !.half = half(w)]]
   BY DEF Tick
 <2>. HIDE DEF age, half
 <2>3. \A w \in Workers : [run[w] EXCEPT !.age = age(w), !.half = half(w)] \in Locals
  <3>. TAKE w \in Workers
  <3>1. run[w] \in Locals /\ age(w) \in 0 .. MaxStall /\ half(w) \in 0 .. MaxStall
    BY <2>1 DEF TypeInv, TypeOK
  <3>. QED BY <3>1 DEF Locals
 <2>4. run' \in [Workers -> Locals]
   BY <2>2, <2>3
 <2>5. \A w \in Workers : run'[w].pc = run[w].pc /\ run'[w].idx = run[w].idx
  <3>. TAKE w \in Workers
  <3>1. run[w] \in Locals /\ run'[w] = [run[w] EXCEPT !.age = age(w), !.half = half(w)]
    BY <2>2 DEF TypeInv, TypeOK
  <3>. QED BY <3>1 DEF Locals
 <2>. QED BY <2>4, <2>5 DEF TypeInv, CursorOK
<1>. QED BY <1>1, <1>2, <1>3 DEF Tick, TypeInv, TypeOK, requests

\* A worker going on to another program point.
LEMMA GoOn ==
    ASSUME TypeInv, NEW w \in Workers, NEW pc \in Pcs, Onward(w, pc),
           NEW r \in Locals, r.idx = run[w].idx
    PROVE  /\ Goto(r, pc) \in Locals
           /\ InAction(Goto(r, pc).pc) => Goto(r, pc).idx \in Actions
<1>1. /\ Goto(r, pc) \in Locals
      /\ Goto(r, pc).pc = pc
      /\ InAction(pc) => Goto(r, pc).idx = r.idx
  BY GotoType
<1>2. InAction(run[w].pc) => run[w].idx \in Actions
  BY DEF TypeInv, CursorOK
<1>. QED BY <1>1, <1>2 DEF Onward

LEMMA LocalType ==
    ASSUME TypeInv, NEW w \in Workers, NEW r \in Locals,
           InAction(r.pc) => r.idx \in Actions, Local(w, r)
    PROVE  TypeInv'
<1>1. run' \in [Workers -> Locals] /\ CursorOK'
  BY SetType DEF Local
<1>. QED BY <1>1 DEF Local, TypeInv, TypeOK, stored, requests

LEMMA RaiseType ==
    ASSUME TypeInv, NEW w \in Workers, NEW pc \in Pcs, Onward(w, pc),
           Local(w, Goto(run[w], pc))
    PROVE  TypeInv'
<1>1. run[w] \in Locals
  BY DEF TypeInv, TypeOK
<1>. QED BY <1>1, GoOn, LocalType

\* The locals of a worker whose current action took status a.
LEMMA NowType ==
    ASSUME TypeInv, NEW w \in Workers, NEW a \in ActionStatuses, NEW pc \in Pcs,
           Onward(w, pc)
    PROVE  /\ Now(w, a, pc) \in Locals
           /\ InAction(Now(w, a, pc).pc) => Now(w, a, pc).idx \in Actions
           /\ With(w, a) \in [Actions -> ActionStatuses]
<1>. DEFINE r == [run[w] EXCEPT !.acts[run[w].idx] = a]
<1>1. run[w] \in Locals
  BY DEF TypeInv, TypeOK
<1>2. r \in Locals /\ r.idx = run[w].idx
  BY <1>1 DEF Locals
<1>3. With(w, a) \in [Actions -> ActionStatuses]
  BY <1>1 DEF With, Locals
<1>. HIDE DEF r
<1>4. /\ Goto(r, pc) \in Locals
      /\ InAction(Goto(r, pc).pc) => Goto(r, pc).idx \in Actions
  BY <1>2, GoOn
<1>. QED BY <1>3, <1>4 DEF Now, r

LEMMA PersistFailureType ==
    ASSUME TypeInv, NEW w \in Workers, NEW as \in [Actions -> ActionStatuses],
           NEW onError \in Pcs, ~InAction(onError), PersistFailure(w, as, onError)
    PROVE  TypeInv'
<1>1. TerminalFailureStatus(as, Compensating(run[w].op)) \in Statuses
  BY OutcomeType DEF Statuses
<1>2. "exit" \in Pcs /\ Onward(w, "exit") /\ Onward(w, onError)
  BY DEF Pcs, Onward, InAction
<1>. QED BY <1>1, <1>2, PersistType DEF PersistFailure

\* The values the steps of `execute` write.
LEMMA Constants ==
    /\ {"running", "failed", "completed", "compensated", "queued", "planned",
        "superseded"} \subseteq Statuses
    /\ {"executing", "completed", "failed", "unconfirmed", "skipped"} \subseteq ActionStatuses
    /\ {"loaded", "acquire", "capture", "beat", "check", "mist", "record", "readback",
        "result", "fail", "verify", "announce", "close", "exit"} \subseteq Pcs
    /\ \A pc \in {"loaded", "acquire", "capture", "beat", "fail", "verify", "announce",
                   "close", "exit"} : ~InAction(pc)
  BY DEF Statuses, ActionStatuses, Pcs, InAction

LEMMA PersistSteps ==
    ASSUME TypeInv, NEW w \in Workers,
           \/ PreconditionFails(w) \/ Claim(w) \/ FailPreflight(w) \/ SkipWrite(w)
           \/ MarkExecuting(w) \/ PersistCompleted(w) \/ PersistAppliedHash(w)
           \/ FailOperation(w) \/ FailVerification(w) \/ Finish(w) \/ CloseFailed(w)
    PROVE  TypeInv'
<1>1. run[w].acts \in [Actions -> ActionStatuses]
  BY DEF TypeInv, TypeOK, Locals
<1>2. MarkUnconfirmed(run[w].acts) \in [Actions -> ActionStatuses]
  BY <1>1, OutcomeType
<1>3. \A pc : ~InAction(pc) \/ InAction(run[w].pc) => Onward(w, pc)
  BY DEF Onward
<1>4. CASE PreconditionFails(w)
  BY <1>1, <1>4, Constants, PersistFailureType DEF PreconditionFails
<1>5. CASE Claim(w)
 <2>1. Onward(w, "acquire") /\ Onward(w, "close")
   BY <1>3, Constants
 <2>. QED BY <1>1, <1>5, <2>1, Constants, PersistType DEF Claim
<1>6. CASE FailPreflight(w)
 <2>1. Onward(w, "exit") /\ Onward(w, "close")
   BY <1>3, Constants
 <2>. QED BY <1>1, <1>6, <2>1, Constants, PersistType DEF FailPreflight
<1>7. CASE SkipWrite(w)
 <2>1. Onward(w, "result") /\ Onward(w, "close")
   BY <1>3, <1>7 DEF SkipWrite, At, InAction
 <2>2. With(w, "skipped") \in [Actions -> ActionStatuses]
   BY <2>1, Constants, NowType
 <2>. QED BY <1>7, <2>1, <2>2, Constants, PersistType DEF SkipWrite
<1>8. CASE MarkExecuting(w)
 <2>1. Onward(w, "mist") /\ Onward(w, "close")
   BY <1>3, <1>8 DEF MarkExecuting, At, InAction
 <2>2. With(w, "executing") \in [Actions -> ActionStatuses]
   BY <2>1, Constants, NowType
 <2>. QED BY <1>8, <2>1, <2>2, Constants, PersistType DEF MarkExecuting
<1>9. CASE PersistCompleted(w)
 <2>1. Onward(w, "readback") /\ Onward(w, "close")
   BY <1>3, <1>9 DEF PersistCompleted, At, InAction
 <2>. QED BY <1>1, <1>9, <2>1, Constants, PersistType DEF PersistCompleted
<1>10. CASE PersistAppliedHash(w)
 <2>1. Onward(w, "result") /\ Onward(w, "close")
   BY <1>3, <1>10 DEF PersistAppliedHash, At, InAction
 <2>. QED BY <1>1, <1>10, <2>1, Constants, PersistType DEF PersistAppliedHash
<1>11. CASE FailOperation(w)
  BY <1>1, <1>11, Constants, PersistFailureType DEF FailOperation
<1>12. CASE FailVerification(w)
  BY <1>1, <1>12, Constants, PersistFailureType DEF FailVerification
<1>13. CASE Finish(w)
 <2>1. Onward(w, "announce") /\ Onward(w, "exit") /\ Onward(w, "close")
   BY <1>3, Constants
 <2>2. CASE Persist(w, "compensated", run[w].acts, "announce", "close")
   BY <1>1, <2>1, <2>2, Constants, PersistType
 <2>3. CASE Persist(w, "completed", run[w].acts, "exit", "close")
   BY <1>1, <2>1, <2>3, Constants, PersistType
 <2>. QED BY <1>13, <2>2, <2>3 DEF Finish
<1>14. CASE CloseFailed(w)
  BY <1>2, <1>14, Constants, PersistFailureType DEF CloseFailed
<1>. QED BY <1>4, <1>5, <1>6, <1>7, <1>8, <1>9, <1>10, <1>11, <1>12, <1>13, <1>14

LEMMA AcquireLeaseType ==
    ASSUME TypeInv, NEW w \in Workers, AcquireLease(w)
    PROVE  TypeInv'
<1>. DEFINE r == [run[w] EXCEPT !.leasing = TRUE]
<1>1. run[w] \in Locals /\ run[w].op \in Ops \union {NoOp}
  BY DEF TypeInv, TypeOK, Locals
<1>2. r \in Locals /\ r.idx = run[w].idx
  BY <1>1 DEF Locals
<1>3. Set(w, Goto(r, "capture")) \/ Set(w, Goto(r, "close"))
  BY DEF AcquireLease
<1>. HIDE DEF r
<1>4. \A pc \in {"capture", "close"} : pc \in Pcs /\ Onward(w, pc)
  BY Constants DEF Onward
<1>5. run' \in [Workers -> Locals] /\ CursorOK'
  BY <1>2, <1>3, <1>4, GoOn, SetType
<1>6. lease' = lease \/ lease' = [holder |-> run[w].op, left |-> TTL]
  BY DEF AcquireLease, Grant
<1>7. lease' \in [holder : Ops \union {NoOp}, left : 0 .. TTL]
  BY <1>1, <1>6, Bounds DEF TypeInv, TypeOK
<1>. QED BY <1>5, <1>7 DEF AcquireLease, TypeInv, TypeOK, stored, requests

LEMMA CaptureType ==
    ASSUME TypeInv, NEW w \in Workers, CaptureSnapshot(w)
    PROVE  TypeInv'
<1>1. run[w] \in Locals /\ "beat" \in Pcs /\ Onward(w, "beat")
  BY Constants DEF TypeInv, TypeOK, Onward
<1>2. run' \in [Workers -> Locals] /\ CursorOK'
  BY <1>1, GoOn, SetType DEF CaptureSnapshot
<1>3. snap' \in [Ops -> SUBSET Actions]
  BY DEF CaptureSnapshot, TypeInv, TypeOK
<1>. QED BY <1>2, <1>3 DEF CaptureSnapshot, TypeInv, TypeOK, stored, requests

LEMMA RecordEntryType ==
    ASSUME TypeInv, NEW w \in Workers, RecordEntry(w)
    PROVE  TypeInv'
<1>1. run[w].idx \in Actions
  BY DEF RecordEntry, TypeInv, CursorOK, At, InAction
<1>2. snap' \in [Ops -> SUBSET Actions]
  BY <1>1 DEF RecordEntry, TypeInv, TypeOK
<1>. QED BY <1>2 DEF RecordEntry, TypeInv, TypeOK, CursorOK, stored, requests

LEMMA WritesType ==
    ASSUME TypeInv, NEW op \in Ops \union {NoOp}, NEW i, Apply(op, i)
    PROVE  writes' \in [Ops -> [Actions -> 0 .. 2]]
<1>. DEFINE n == IF writes[op][i] = 0 THEN 1 ELSE 2
<1>1. n \in 0 .. 2 /\ writes' = [writes EXCEPT ![op] = [writes[op] EXCEPT ![i] = n]]
  BY DEF Apply
<1>. HIDE DEF n
<1>2. CASE op \in Ops
  BY <1>1, <1>2 DEF TypeInv, TypeOK
<1>3. CASE op \notin Ops
  BY <1>1, <1>3 DEF TypeInv, TypeOK
<1>. QED BY <1>2, <1>3

LEMMA MistWriteType ==
    ASSUME TypeInv, NEW w \in Workers, MistWrite(w)
    PROVE  TypeInv'
<1>1. writes' \in [Ops -> [Actions -> 0 .. 2]]
  BY WritesType DEF MistWrite, TypeInv, TypeOK, Locals
<1>2. /\ run[w] \in Locals
      /\ \A pc \in {"record", "fail", "close"} : pc \in Pcs /\ Onward(w, pc)
      /\ {"completed", "failed", "unconfirmed"} \subseteq ActionStatuses
  BY Constants DEF MistWrite, At, TypeInv, TypeOK, Onward, InAction
<1>3. run' \in [Workers -> Locals] /\ CursorOK'
 <2>1. CASE Set(w, Now(w, "completed", "record"))
   BY <1>2, <2>1, NowType, SetType
 <2>2. CASE Set(w, Now(w, "failed", "fail"))
   BY <1>2, <2>2, NowType, SetType
 <2>3. CASE Set(w, Now(w, "unconfirmed", "fail"))
   BY <1>2, <2>3, NowType, SetType
 <2>4. CASE Set(w, Goto(run[w], "close"))
   BY <1>2, <2>4, GoOn, SetType
 <2>. QED BY <2>1, <2>2, <2>3, <2>4 DEF MistWrite
<1>. QED BY <1>1, <1>3 DEF MistWrite, TypeInv, TypeOK, stored, requests

LEMMA RecordResultType ==
    ASSUME TypeInv, NEW w \in Workers, RecordResult(w)
    PROVE  TypeInv'
<1>1. run[w] \in Locals /\ run[w].idx \in Actions
  BY DEF RecordResult, At, TypeInv, TypeOK, CursorOK, InAction
<1>2. CASE Local(w, Goto(run[w], "fail"))
  BY <1>2, Constants, RaiseType DEF Onward
<1>3. CASE Local(w, [Goto(run[w], "beat") EXCEPT
                       !.idx = @ + 1, !.age = IF run[w].idx = N THEN 0 ELSE @])
 <2>. DEFINE g == Goto(run[w], "beat")
             a == IF run[w].idx = N THEN 0 ELSE g.age
 <2>1. g \in Locals /\ g.pc = "beat" /\ g.idx = run[w].idx
   BY <1>1, Constants DEF Goto, Locals, LoopPcs, BeatPcs, Pcs
 <2>2. a \in 0 .. MaxStall /\ run[w].idx + 1 \in 0 .. N + 1
   BY <1>1, <2>1, Bounds DEF Locals
 <2>3. Local(w, [g EXCEPT !.idx = run[w].idx + 1, !.age = a])
   BY <1>3, <2>1
 <2>. HIDE DEF g, a
 <2>4. /\ [g EXCEPT !.idx = run[w].idx + 1, !.age = a] \in Locals
       /\ [g EXCEPT !.idx = run[w].idx + 1, !.age = a].pc = "beat"
   BY <2>1, <2>2 DEF Locals
 <2>5. ~InAction("beat")
   BY Constants
 <2>. QED BY <2>3, <2>4, <2>5, LocalType
<1>. QED BY <1>2, <1>3 DEF RecordResult

LEMMA CleanUpType ==
    ASSUME TypeInv, NEW w \in Workers, CleanUp(w)
    PROVE  TypeInv'
<1>1. run' \in [Workers -> Locals] /\ CursorOK'
 <2>1. ~InAction(Idle.pc)
   BY IdleType DEF InAction
 <2>. QED BY <2>1, IdleType, SetType DEF CleanUp
<1>2. lease' \in [holder : Ops \union {NoOp}, left : 0 .. TTL]
 <2>1. lease' = lease \/ lease' = NoLease
   BY DEF CleanUp, HandBack
 <2>. QED BY <2>1, Bounds DEF NoLease, TypeInv, TypeOK
<1>3. cred' \in [Ops -> BOOLEAN]
  BY DEF CleanUp, TypeInv, TypeOK
<1>. QED BY <1>1, <1>2, <1>3 DEF CleanUp, TypeInv, TypeOK, stored, requests

LEMMA CrashType ==
    ASSUME TypeInv, NEW w \in Workers, Crash(w)
    PROVE  TypeInv'
<1>1. run' \in [Workers -> Locals] /\ CursorOK'
 <2>1. ~InAction(Idle.pc)
   BY IdleType DEF InAction
 <2>. QED BY <2>1, IdleType, SetType DEF Crash
<1>2. writes' \in [Ops -> [Actions -> 0 .. 2]]
  BY WritesType DEF Crash, TypeInv, TypeOK, Locals
<1>. QED BY <1>1, <1>2 DEF Crash, TypeInv, TypeOK, stored, requests

LEMMA AnnounceType ==
    ASSUME TypeInv, NEW w \in Workers, Announce(w)
    PROVE  TypeInv'
<1>1. run[w] \in Locals /\ "exit" \in Pcs /\ Onward(w, "exit")
  BY Constants DEF TypeInv, TypeOK, Onward
<1>2. run' \in [Workers -> Locals] /\ CursorOK'
  BY <1>1, GoOn, SetType DEF Announce
<1>3. /\ status' \in [Ops -> Statuses]
      /\ silence' \in [Ops -> 0 .. TTL]
      /\ judged' \in [Ops -> BOOLEAN]
 <2>1. CASE UNCHANGED <<status, silence, judged>>
   BY <2>1 DEF TypeInv, TypeOK
 <2>2. CASE ~UNCHANGED <<status, silence, judged>>
  <3>1. status' \in [Ops -> Statuses]
    BY <2>2, Constants DEF Announce, TypeInv, TypeOK
  <3>2. silence' \in [Ops -> 0 .. TTL]
    BY <2>2, Bounds, SMTT(30) DEF Announce, TypeInv, TypeOK
  <3>3. judged' \in [Ops -> BOOLEAN]
    BY <2>2 DEF Announce, TypeInv, TypeOK
  <3>. QED BY <3>1, <3>2, <3>3
 <2>. QED BY <2>1, <2>2
<1>. QED BY <1>2, <1>3 DEF Announce, TypeInv, TypeOK, requests

\* Every step of `execute` but the heartbeat's.
LEMMA MainStepType ==
    ASSUME TypeInv, NEW w \in Workers, MainStep(w)
    PROVE  TypeInv'
<1>1. CASE Drifted(w)
 <2>1. /\ Local(w, Now(w, "failed", "fail"))
       /\ Onward(w, "fail")
   BY <1>1, Constants DEF Drifted, Onward
 <2>. QED BY <2>1, Constants, NowType, LocalType
<1>2. CASE ReadBackFails(w)
 <2>1. Onward(w, "fail")
   BY Constants DEF Onward
 <2>2. CASE Local(w, Goto(run[w], "fail"))
   BY <2>1, <2>2, Constants, RaiseType
 <2>3. CASE Local(w, Now(w, "unconfirmed", "fail"))
   BY <2>1, <2>3, Constants, NowType, LocalType
 <2>. QED BY <1>2, <2>2, <2>3 DEF ReadBackFails
<1>3. CASE Unexpected(w)
  BY <1>3, Constants, RaiseType DEF Unexpected, Raise, Onward
<1>4. CASE \/ PreconditionFails(w) \/ Claim(w) \/ FailPreflight(w) \/ SkipWrite(w)
           \/ MarkExecuting(w) \/ PersistCompleted(w) \/ PersistAppliedHash(w)
           \/ FailOperation(w) \/ FailVerification(w) \/ Finish(w) \/ CloseFailed(w)
  BY <1>4, PersistSteps
<1>5. CASE AcquireLease(w)
  BY <1>5, AcquireLeaseType
<1>6. CASE CaptureSnapshot(w) \/ RecordEntry(w) \/ MistWrite(w) \/ RecordResult(w)
  BY <1>6, CaptureType, RecordEntryType, MistWriteType, RecordResultType
<1>7. CASE Announce(w) \/ CleanUp(w)
  BY <1>7, AnnounceType, CleanUpType
<1>. QED BY <1>1, <1>2, <1>3, <1>4, <1>5, <1>6, <1>7 DEF MainStep

LEMMA AfterBeatType ==
    ASSUME NEW r \in Locals
    PROVE  /\ AfterBeat(r) \in Locals
           /\ InAction(AfterBeat(r).pc) => AfterBeat(r).idx \in Actions
<1>1. CASE r.idx = 0
 <2>. DEFINE s == [r EXCEPT !.idx = 1]
 <2>1. AfterBeat(r) = s
   BY <1>1, Bounds DEF AfterBeat
 <2>2. s \in Locals /\ s.idx = 1
   BY Bounds DEF Locals
 <2>. HIDE DEF s
 <2>. QED BY <2>1, <2>2, Bounds
<1>2. CASE r.idx # 0 /\ r.idx \in Actions
  BY <1>2, Constants DEF AfterBeat, Locals
<1>3. CASE r.idx # 0 /\ r.idx \notin Actions
 <2>1. AfterBeat(r) = [r EXCEPT !.pc = "verify", !.age = 0]
   BY <1>3 DEF AfterBeat
 <2>. QED BY <2>1, Constants, Bounds DEF Locals
<1>. QED BY <1>1, <1>2, <1>3

LEMMA BeatType ==
    ASSUME TypeInv, NEW w \in Workers, Beat(w)
    PROVE  TypeInv'
<1>1. run[w] \in Locals /\ (InAction(run[w].pc) => run[w].idx \in Actions)
  BY DEF TypeInv, TypeOK, CursorOK
<1>2. \A who \in {"main", "task"} : Lose(w, who) => run' \in [Workers -> Locals] /\ CursorOK'
 <2>. SUFFICES ASSUME NEW who \in {"main", "task"}, Lose(w, who)
               PROVE  run' \in [Workers -> Locals] /\ CursorOK'
   OBVIOUS
 <2>. DEFINE r == [run[w] EXCEPT !.lost = TRUE, !.beat = "none", !.half = 0]
 <2>1. r \in Locals /\ r.idx = run[w].idx /\ r.pc = run[w].pc
   BY <1>1, Bounds DEF Locals
 <2>2. Set(w, Goto(r, "exit")) \/ Set(w, r)
   BY DEF Lose
 <2>. HIDE DEF r
 <2>3. Onward(w, "exit")
   BY Constants DEF Onward
 <2>. QED BY <1>1, <2>1, <2>2, <2>3, Constants, GoOn, SetType
<1>3. CASE \E who \in {"main", "task"} : RenewLease(w, who)
 <2>1. PICK who \in {"main", "task"} : RenewLease(w, who)
   BY <1>3
 <2>. DEFINE r == [run[w] EXCEPT !.beat = who, !.half = 0]
 <2>2. Set(w, r) \/ Lose(w, who)
   BY <2>1 DEF RenewLease
 <2>3. run' \in [Workers -> Locals] /\ CursorOK'
  <3>1. r \in Locals /\ r.idx = run[w].idx /\ r.pc = run[w].pc
    BY <1>1, Bounds DEF Locals
  <3>. HIDE DEF r
  <3>2. CASE Set(w, r)
    BY <1>1, <3>1, <3>2, SetType
  <3>. QED BY <1>2, <2>2, <3>2
 <2>4. lease' = lease \/ lease' = [holder |-> run[w].op, left |-> TTL]
   BY <2>1 DEF RenewLease, Grant
 <2>5. lease' \in [holder : Ops \union {NoOp}, left : 0 .. TTL]
   BY <1>1, <2>4, Bounds DEF TypeInv, TypeOK, Locals
 <2>. QED BY <2>1, <2>3, <2>5 DEF RenewLease, TypeInv, TypeOK, stored, requests
<1>4. CASE TouchRun(w)
 <2>. DEFINE a == IF Writing(w) \/ (run[w].beat = "main" /\ run[w].idx = 0)
                  THEN run[w].half ELSE 0
             r == [run[w] EXCEPT !.beat = "none", !.half = 0, !.age = a]
 <2>1. a \in 0 .. MaxStall
   BY <1>1, Bounds DEF Locals
 <2>. HIDE DEF a
 <2>2. r \in Locals /\ r.idx = run[w].idx /\ r.pc = run[w].pc
   BY <1>1, <2>1, Bounds DEF Locals
 <2>3. run' \in [Workers -> Locals] /\ CursorOK'
  <3>1. \/ Set(w, AfterBeat(r)) /\ run[w].beat = "main"
        \/ Set(w, r)
        \/ Lose(w, run[w].beat)
    BY <1>4 DEF TouchRun, a
  <3>. HIDE DEF r
  <3>2. CASE Set(w, r)
    BY <1>1, <2>2, <3>2, SetType
  <3>3. CASE Set(w, AfterBeat(r))
    BY <2>2, <3>3, AfterBeatType, SetType
  <3>4. run[w].beat \in {"main", "task"}
    BY <1>1, <1>4 DEF TouchRun, Unlocked, Locals
  <3>. QED BY <1>2, <3>1, <3>2, <3>3, <3>4
 <2>4. silence' \in [Ops -> 0 .. TTL]
   BY <1>4, Bounds DEF TouchRun, TypeInv, TypeOK
 <2>5. judged' \in [Ops -> BOOLEAN]
   BY <1>4 DEF TouchRun, TypeInv, TypeOK
 <2>. QED BY <1>4, <2>3, <2>4, <2>5 DEF TouchRun, TypeInv, TypeOK, requests
<1>5. CASE BeatError(w)
 <2>1. CASE Local(w, [run[w] EXCEPT !.beat = "none", !.half = 0])
  <3>. DEFINE r == [run[w] EXCEPT !.beat = "none", !.half = 0]
  <3>1. r \in Locals /\ r.idx = run[w].idx /\ r.pc = run[w].pc
    BY <1>1, Bounds DEF Locals
  <3>. HIDE DEF r
  <3>. QED BY <1>1, <2>1, <3>1, LocalType DEF r
 <2>2. CASE Raise(w)
   BY <2>2, Constants, RaiseType DEF Raise, Onward
 <2>. QED BY <1>5, <2>1, <2>2 DEF BeatError
<1>. QED BY <1>3, <1>4, <1>5 DEF Beat

LEMMA TypeInit == Init => TypeInv
<1>. SUFFICES ASSUME Init PROVE TypeInv
  OBVIOUS
<1>1. run \in [Workers -> Locals] /\ CursorOK
  BY IdleType DEF Init, CursorOK, InAction
<1>2. lease \in [holder : Ops \union {NoOp}, left : 0 .. TTL]
  BY Bounds DEF Init, NoLease
<1>3. cred \in [Ops -> BOOLEAN]
  BY DEF Init
<1>4. silence \in [Ops -> 0 .. TTL]
  BY Bounds DEF Init
<1>. QED BY <1>1, <1>2, <1>3, <1>4 DEF Init, TypeInv, TypeOK, Statuses, ActionStatuses

LEMMA TypeStep == TypeInv /\ [Next]_vars => TypeInv'
<1>. SUFFICES ASSUME TypeInv, [Next]_vars PROVE TypeInv'
  OBVIOUS
<1>1. CASE \E c \in Compensations : PlanCompensation(c)
 <2>1. status' \in [Ops -> Statuses]
   BY <1>1, Constants, ZenonT(40) DEF PlanCompensation, TypeInv, TypeOK
 <2>. QED BY <1>1, <2>1 DEF PlanCompensation, TypeInv, TypeOK, CursorOK, requests
<1>2. CASE \E op \in Ops : Request(op)
  BY <1>2, RequestType
<1>3. CASE \E w \in Workers, op \in Ops : LoadQueued(w, op)
 <2>. PICK w \in Workers, op \in Ops : LoadQueued(w, op)
   BY <1>3
 <2>. DEFINE r == [Idle EXCEPT !.pc = "loaded", !.op = op, !.acts = acts[op]]
 <2>1. acts[op] \in [Actions -> ActionStatuses]
   BY DEF TypeInv, TypeOK
 <2>2. r \in Locals /\ r.pc = "loaded"
   BY <2>1, IdleType, Constants DEF Locals
 <2>3. Local(w, r)
   BY DEF LoadQueued
 <2>. HIDE DEF r
 <2>. QED BY <2>2, <2>3, Constants, LocalType
<1>4. CASE \E w \in Workers : MainStep(w)
  BY <1>4, MainStepType
<1>5. CASE \E w \in Workers : Beat(w)
  BY <1>5, BeatType
<1>6. CASE \E w \in Workers : Crash(w)
  BY <1>6, CrashType
<1>7. CASE \E op \in Ops : Janitor(op)
  BY <1>7, JanitorType
<1>8. CASE RemoveLapsedLease
  BY <1>8, Bounds DEF RemoveLapsedLease, NoLease, TypeInv, TypeOK, CursorOK, stored, requests
<1>9. CASE Tick
  BY <1>9, TickType
<1>10. CASE UNCHANGED vars
  BY <1>10 DEF vars, stored, requests, TypeInv, TypeOK, CursorOK
<1>. QED BY <1>1, <1>2, <1>3, <1>4, <1>5, <1>6, <1>7, <1>8, <1>9, <1>10 DEF Next

\* Every reachable state of every instance is well typed.
THEOREM TypeCorrect == Spec => []TypeOK
<1>1. TypeInv => TypeOK
  BY DEF TypeInv
<1>. QED BY TypeInit, TypeStep, <1>1, PTL DEF Spec

\* Nothing of the plan has run: no worker may have claimed it yet.
Unstarted == {"unplanned", "planned", "queued"}

\* What a worker's place in `execute` says of its own locals.
LocalOK(r) ==
    /\ r.pc # "idle" => r.op \in Ops
    /\ r.pc \in {"idle", "loaded"} => ~r.claimed
    /\ r.pc \in {"acquire", "capture"} \union LoopPcs => r.claimed
    /\ r.pc \in {"loaded", "acquire", "capture"} => r.idx = 0
    /\ r.pc = "announce" => r.op \in Compensations /\ r.claimed
    /\ r.pc # "announce" => r.own \in {"queued", "running"}
    /\ ~r.claimed => r.own = "queued"
    /\ r.beat # "none" => r.pc \in BeatPcs
    /\ r.beat = "main" => r.pc = "beat"
LocalsOK == \A w \in Workers : LocalOK(run[w])

\* A task is delivered any number of times, but an operation is claimed once.
ClaimsOK ==
    \A w \in Workers : run[w].claimed =>
        /\ run[w].op \in Ops /\ status[run[w].op] \notin Unstarted
        /\ \A v \in Workers : run[v].claimed /\ run[v].op = run[w].op => v = w

\* A planned compensation has a restore to reverse.
PlansOK ==
    \A c \in Compensations : status[c] # "unplanned" =>
        status[Reverses[c]] \in {"compensation_available", "compensated"}

\* The actions a claimed run may still send to Mist.
AheadAt(pc, idx, i) ==
    \/ pc \in {"acquire", "capture"}
    \/ pc \in LoopPcs /\ idx < i
    \/ pc \in {"beat", "check", "mist"} /\ idx = i
Ahead(r, i) == AheadAt(r.pc, r.idx, i)

WritesOK ==
    /\ \A op \in Ops, i \in Actions : status[op] \in Unstarted => writes[op][i] = 0
    /\ \A w \in Workers, i \in Actions : Ahead(run[w], i) => writes[run[w].op][i] = 0
    /\ WrittenOnce

Inv ==
    /\ TypeInv
    /\ LocalsOK /\ ClaimsOK /\ PlansOK /\ NoCredentialAtRest /\ WritesOK

\* What a step may do to the statuses: nothing started reads unstarted again,
\* nothing closed reopens, and a reversal is planned for a compensable restore.
MovesOK ==
    /\ \A op \in Ops : status'[op] \in Unstarted => status[op] \in Unstarted
    /\ \A op \in Ops : status[op] \in Terminal => MayBecome(status[op], status'[op])
    /\ \A c \in Compensations :
          status[c] = "unplanned" /\ status'[c] # "unplanned" =>
              status[Reverses[c]] = "compensation_available"

\* What every step of a worker has to leave behind.
RunsOK == LocalsOK /\ ClaimsOK /\ WritesOK

-----------------------------------------------------------------------------
LEMMA StillMoves == UNCHANGED status => MovesOK
  BY DEF MovesOK, MayBecome

LEMMA PlansStep ==
    ASSUME Inv, MovesOK
    PROVE  PlansOK'
<1>. SUFFICES ASSUME NEW c \in Compensations, status'[c] # "unplanned"
              PROVE  status'[Reverses[c]] \in {"compensation_available", "compensated"}
  BY DEF PlansOK
<1>1. Reverses[c] \in Ops
  BY OpsAssumption DEF Ops
<1>2. status[Reverses[c]] \in {"compensation_available", "compensated"}
  BY DEF Inv, PlansOK, MovesOK
<1>. QED BY <1>1, <1>2 DEF MovesOK, MayBecome, Terminal

\* Every fact but those about the stepping worker survives its step.
LEMMA WorkerStep ==
    ASSUME Inv, MovesOK, UNCHANGED writes,
           NEW w \in Workers, NEW r, Set(w, r), LocalOK(r),
           r.claimed => /\ r.op \in Ops /\ status'[r.op] \notin Unstarted
                        /\ \/ status[r.op] \in Unstarted
                           \/ run[w].claimed /\ run[w].op = r.op,
           \A i \in Actions : Ahead(r, i) =>
               /\ r.op \in Ops
               /\ \/ status[r.op] \in Unstarted
                  \/ run[w].op = r.op /\ Ahead(run[w], i)
    PROVE  RunsOK'
<1>1. /\ run'[w] = r
      /\ \A v \in Workers : v # w => run'[v] = run[v]
  BY DEF Set, Inv, TypeInv, TypeOK
<1>2. LocalsOK'
  BY <1>1 DEF LocalsOK, Inv
<1>3. ClaimsOK'
 <2>. SUFFICES ASSUME NEW v \in Workers, run'[v].claimed
               PROVE  /\ run'[v].op \in Ops /\ status'[run'[v].op] \notin Unstarted
                      /\ \A u \in Workers :
                            run'[u].claimed /\ run'[u].op = run'[v].op => u = v
   BY DEF ClaimsOK
 <2>1. run'[v].op \in Ops /\ status'[run'[v].op] \notin Unstarted
   BY <1>1 DEF Inv, ClaimsOK, MovesOK
 <2>2. ASSUME NEW u \in Workers, run'[u].claimed, run'[u].op = run'[v].op
       PROVE  u = v
  <3>1. CASE u # w /\ v # w
    BY <1>1, <2>2, <3>1 DEF Inv, ClaimsOK
  <3>2. CASE u = w /\ v # w
    BY <1>1, <2>2, <3>2 DEF Inv, ClaimsOK
  <3>3. CASE u # w /\ v = w
    BY <1>1, <2>2, <3>3 DEF Inv, ClaimsOK
  <3>. QED BY <3>1, <3>2, <3>3
 <2>. QED BY <2>1, <2>2
<1>4. WritesOK'
 <2>1. \A op \in Ops, i \in Actions : status'[op] \in Unstarted => writes'[op][i] = 0
   BY DEF Inv, WritesOK, MovesOK
 <2>2. ASSUME NEW v \in Workers, NEW i \in Actions, Ahead(run'[v], i)
       PROVE  writes'[run'[v].op][i] = 0
  <3>1. CASE v # w
    BY <1>1, <2>2, <3>1 DEF Inv, WritesOK
  <3>2. CASE v = w
    BY <1>1, <2>2, <3>2 DEF Inv, WritesOK
  <3>. QED BY <3>1, <3>2
 <2>3. WrittenOnce'
   BY DEF Inv, WritesOK, WrittenOnce
 <2>. QED BY <2>1, <2>2, <2>3 DEF WritesOK
<1>. QED BY <1>2, <1>3, <1>4 DEF RunsOK

\* A worker that neither claims nor writes, and moves no status.
LEMMA QuietStep ==
    ASSUME Inv, UNCHANGED <<status, writes>>,
           NEW w \in Workers, NEW r, Set(w, r), LocalOK(r),
           r.claimed => run[w].claimed /\ r.op = run[w].op,
           \A i \in Actions : Ahead(r, i) => r.op = run[w].op /\ Ahead(run[w], i)
    PROVE  MovesOK /\ RunsOK'
<1>1. MovesOK
  BY StillMoves
<1>2. r.claimed => r.op \in Ops /\ status'[r.op] \notin Unstarted
  BY DEF Inv, ClaimsOK
<1>3. \A i \in Actions : Ahead(r, i) => r.op \in Ops
  BY <1>2 DEF Ahead, AheadAt, LocalOK, LoopPcs
<1>. QED BY <1>1, <1>2, <1>3, WorkerStep

\* The worker is gone, or has not begun.
LEMMA IdleStep ==
    ASSUME Inv, UNCHANGED <<status, writes>>, NEW w \in Workers, Set(w, Idle)
    PROVE  MovesOK /\ RunsOK'
<1>1. LocalOK(Idle) /\ ~Idle.claimed /\ \A i \in Actions : ~Ahead(Idle, i)
  BY DEF LocalOK, Idle, Ahead, AheadAt, LoopPcs
<1>. QED BY <1>1, QuietStep

LEMMA GotoFields ==
    ASSUME NEW r \in Locals, NEW pc \in Pcs
    PROVE  LET g == Goto(r, pc) IN
           /\ g.pc = pc /\ g.op = r.op /\ g.claimed = r.claimed
           /\ pc # "exit" => g.idx = r.idx /\ g.own = r.own
           /\ pc = "exit" => g.own = "queued" /\ g.beat = "none"
           /\ g.beat \in {"none", r.beat}
           /\ pc \notin BeatPcs => g.beat = "none"
<1>1. CASE pc = "exit"
  BY <1>1 DEF Goto, Idle, BeatPcs
<1>2. CASE pc # "exit"
  BY <1>2 DEF Goto, Locals
<1>. QED BY <1>1, <1>2

\* `Goto`, from locals that differ from the worker's in what does not matter here.
LEMMA GotoStep ==
    ASSUME Inv, UNCHANGED <<status, writes>>,
           NEW w \in Workers, NEW r \in Locals,
           r.op = run[w].op, r.claimed = run[w].claimed, r.idx = run[w].idx,
           r.own = run[w].own, r.beat \in {"none", run[w].beat},
           NEW pc \in Pcs \ {"idle", "loaded", "acquire", "announce"},
           run[w].pc # "idle",
           run[w].pc = "announce" => pc = "exit",
           run[w].pc = "beat" => pc \in {"close", "exit"},
           pc \in {"capture"} \union LoopPcs => run[w].claimed,
           pc = "capture" => run[w].idx = 0,
           \A i \in Actions : AheadAt(pc, run[w].idx, i) => Ahead(run[w], i),
           Set(w, Goto(r, pc))
    PROVE  MovesOK /\ RunsOK'
<1>. DEFINE g == Goto(r, pc)
<1>1. /\ g.pc = pc /\ g.op = r.op /\ g.claimed = r.claimed
      /\ pc # "exit" => g.idx = r.idx /\ g.own = r.own
      /\ pc = "exit" => g.own = "queued" /\ g.beat = "none"
      /\ g.beat \in {"none", r.beat}
      /\ pc \notin BeatPcs => g.beat = "none"
  BY GotoFields
<1>2. LocalOK(run[w])
  BY DEF Inv, LocalsOK
<1>. HIDE DEF g
<1>3. LocalOK(g)
  BY <1>1, <1>2 DEF LocalOK, LoopPcs, BeatPcs
<1>4. \A i \in Actions : Ahead(g, i) => Ahead(run[w], i)
  BY <1>1 DEF Ahead, AheadAt, LoopPcs
<1>. QED BY <1>1, <1>3, <1>4, QuietStep DEF g

-----------------------------------------------------------------------------
\* Writing the operation.

\* The claimer of a run is the only worker that may still write its record.
LEMMA StoreApart ==
    ASSUME Inv, NEW w \in Workers, Owns(w), run[w].pc \notin {"idle", "announce"},
           NEW v \in Workers, v # w, run[v].claimed
    PROVE  run[v].op # run[w].op
<1>1. run[w].own \in {"queued", "running"} /\ (~run[w].claimed => run[w].own = "queued")
  BY DEF Inv, LocalsOK, LocalOK
<1>2. status[run[v].op] \notin Unstarted
  BY DEF Inv, ClaimsOK
<1>3. CASE run[w].claimed
  BY <1>3 DEF Inv, ClaimsOK
<1>4. CASE ~run[w].claimed
  BY <1>1, <1>2, <1>4 DEF Owns, Unstarted
<1>. QED BY <1>3, <1>4

LEMMA StoreMoves ==
    ASSUME Inv, NEW w \in Workers, Owns(w), run[w].pc \notin {"idle", "announce"},
           NEW st \in Statuses \ (Unstarted \union {"superseded"}),
           NEW as, Store(w, st, as)
    PROVE  /\ MovesOK /\ NoCredentialAtRest'
           /\ status'[run[w].op] = st
<1>1. run[w].op \in Ops /\ status[run[w].op] \in {"queued", "running"}
  BY DEF Inv, LocalsOK, LocalOK, Owns
<1>2. status' = [status EXCEPT ![run[w].op] = st]
  BY DEF Store
<1>3. status'[run[w].op] = st /\ \A o \in Ops \ {run[w].op} : status'[o] = status[o]
  BY <1>1, <1>2 DEF Inv, TypeInv, TypeOK
<1>4. MovesOK
  BY <1>1, <1>3 DEF MovesOK, MayBecome, Unstarted, Terminal, Ops
<1>5. NoCredentialAtRest'
 <2>. SUFFICES ASSUME NEW o \in Ops, status'[o] \in Terminal PROVE ~cred'[o]
   BY DEF NoCredentialAtRest
 <2>1. CASE o = run[w].op
  <3>1. cred'[o] = (st = "running")
    BY <2>1, <1>1 DEF Store, Inv, TypeInv, TypeOK
  <3>2. st # "running"
    BY <2>1, <1>3 DEF Terminal
  <3>. QED BY <3>1, <3>2
 <2>2. CASE o # run[w].op
  <3>1. status[o] \in Terminal /\ cred'[o] = cred[o]
    BY <2>2, <1>1, <1>3 DEF Store, Inv, TypeInv, TypeOK
  <3>. QED BY <3>1 DEF Inv, NoCredentialAtRest
 <2>. QED BY <2>1, <2>2
<1>. QED BY <1>3, <1>4, <1>5

\* `_persist` claims the run only when it found it queued, and goes on only
\* with what the run had left to write.
LEMMA PersistStep ==
    ASSUME Inv, NEW w \in Workers, run[w].pc \notin {"idle", "announce", "beat"},
           NEW st \in Statuses \ (Unstarted \union {"superseded"}),
           NEW as \in [Actions -> ActionStatuses],
           NEW next \in {"acquire", "mist", "readback", "result", "announce", "exit"},
           NEW onError \in {"close", "exit"},
           next = "acquire" => run[w].pc = "loaded",
           next = "announce" => run[w].op \in Compensations,
           next \notin {"announce", "exit"} => st = "running",
           \A i \in Actions : next # "acquire" /\ AheadAt(next, run[w].idx, i)
                                  => Ahead(run[w], i),
           Persist(w, st, as, next, onError)
    PROVE  MovesOK /\ NoCredentialAtRest' /\ RunsOK'
<1>. DEFINE r == [run[w] EXCEPT !.acts = as]
            ok == [r EXCEPT !.own = st, !.claimed = TRUE]
            refused == [r EXCEPT !.lost = TRUE]
<1>. run[w] \in Locals /\ LocalOK(run[w]) /\ run[w].beat = "none"
  BY DEF Inv, TypeInv, TypeOK, LocalsOK, Persist, Unlocked
<1>1. /\ r \in Locals /\ r.op = run[w].op /\ r.claimed = run[w].claimed
      /\ r.idx = run[w].idx /\ r.own = run[w].own /\ r.beat = "none"
  BY DEF Locals
<1>2. /\ ok \in Locals /\ ok.op = run[w].op /\ ok.claimed = TRUE
      /\ ok.idx = run[w].idx /\ ok.own = st /\ ok.beat = "none"
  BY <1>1 DEF Locals
<1>3. /\ refused \in Locals /\ refused.op = run[w].op
      /\ refused.claimed = run[w].claimed /\ refused.idx = run[w].idx
      /\ refused.own = run[w].own /\ refused.beat = "none"
  BY <1>1 DEF Locals
<1>4. UNCHANGED writes
  BY DEF Persist
<1>. HIDE DEF r, ok, refused
<1>5. CASE Owns(w) /\ Store(w, st, as) /\ Set(w, Goto(ok, next))
 <2>. DEFINE g == Goto(ok, next)
 <2>1. MovesOK /\ NoCredentialAtRest' /\ status'[run[w].op] = st
   BY <1>5, StoreMoves
 <2>2. next \in Pcs
   BY DEF Pcs
 <2>3. /\ g.pc = next /\ g.op = run[w].op /\ g.claimed = TRUE
       /\ next # "exit" => g.idx = run[w].idx /\ g.own = st
       /\ next = "exit" => g.own = "queued"
       /\ g.beat = "none"
   BY <2>2, <1>2, GotoFields
 <2>. HIDE DEF g
 <2>4. LocalOK(g)
   BY <2>3, <1>2 DEF LocalOK
 <2>5. run[w].op \in Ops /\ (~run[w].claimed => status[run[w].op] = "queued")
   BY <1>5 DEF LocalOK, Owns
 <2>6. \A i \in Actions : Ahead(g, i) =>
           \/ status[g.op] \in Unstarted
           \/ run[w].op = g.op /\ Ahead(run[w], i)
  <3>1. CASE next = "acquire"
    BY <3>1, <2>3, <2>5, <1>2 DEF LocalOK, Unstarted
  <3>2. CASE next # "acquire"
    BY <3>2, <2>3, <1>2 DEF Ahead, AheadAt, LoopPcs
  <3>. QED BY <3>1, <3>2
 <2>7. status'[g.op] \notin Unstarted
       /\ (status[g.op] \in Unstarted \/ (run[w].claimed /\ run[w].op = g.op))
   BY <2>1, <2>3, <2>5, <1>2 DEF Unstarted
 <2>8. Set(w, g)
   BY <1>5 DEF g
 <2>9. RunsOK'
  <3>1. g.op \in Ops
    BY <2>3, <2>5
  <3>2. /\ g.claimed => /\ g.op \in Ops /\ status'[g.op] \notin Unstarted
                        /\ \/ status[g.op] \in Unstarted
                           \/ run[w].claimed /\ run[w].op = g.op
        /\ \A i \in Actions : Ahead(g, i) =>
              /\ g.op \in Ops
              /\ \/ status[g.op] \in Unstarted
                 \/ run[w].op = g.op /\ Ahead(run[w], i)
    BY <2>6, <2>7, <3>1
  <3>3. MovesOK /\ UNCHANGED writes /\ LocalOK(g) /\ Set(w, g)
    BY <2>1, <2>4, <2>8, <1>4
  <3>. QED BY <3>2, <3>3, WorkerStep, Zenon
 <2>. QED BY <2>1, <2>9
<1>6. CASE UNCHANGED stored /\ Set(w, Goto(refused, "exit"))
 <2>1. MovesOK /\ RunsOK'
   BY <1>3, <1>4, <1>6, GotoStep DEF stored, AheadAt, LoopPcs, Pcs
 <2>. QED BY <2>1, <1>6 DEF stored, Inv, NoCredentialAtRest
<1>7. CASE UNCHANGED stored /\ Set(w, Goto(r, onError))
 <2>1. MovesOK /\ RunsOK'
   BY <1>1, <1>4, <1>7, GotoStep DEF stored, AheadAt, LoopPcs, Pcs
 <2>. QED BY <2>1, <1>7 DEF stored, Inv, NoCredentialAtRest
<1>8. CASE Owns(w) /\ Store(w, st, as) /\ Set(w, Goto(r, onError))
 <2>. DEFINE g == Goto(r, onError)
 <2>1. MovesOK /\ NoCredentialAtRest' /\ status'[run[w].op] = st
   BY <1>8, StoreMoves
 <2>2. onError \in Pcs
   BY DEF Pcs
 <2>3. /\ g.pc = onError /\ g.op = r.op /\ g.claimed = r.claimed
       /\ onError # "exit" => g.idx = r.idx /\ g.own = r.own
       /\ onError = "exit" => g.own = "queued" /\ g.beat = "none"
       /\ g.beat \in {"none", r.beat}
   BY <2>2, <1>1, GotoFields
 <2>. HIDE DEF g
 <2>4. LocalOK(g) /\ \A i \in Actions : ~Ahead(g, i)
   BY <2>3, <1>1 DEF LocalOK, Ahead, AheadAt, LoopPcs
 <2>5. Set(w, g) /\ run[w].op \in Ops /\ st \notin Unstarted
   BY <1>8 DEF g, LocalOK
 <2>6. RunsOK'
   BY <2>1, <2>3, <2>4, <2>5, <1>1, <1>4, WorkerStep
 <2>. QED BY <2>1, <2>6
<1>. QED BY <1>5, <1>6, <1>7, <1>8 DEF Persist, r, ok, refused

-----------------------------------------------------------------------------
\* The other steps of a worker.

\* Mist applies the action at the cursor: it had not been, and it is behind now.
LEMMA MistStep ==
    ASSUME Inv, UNCHANGED status, NEW w \in Workers, run[w].pc = "mist",
           Apply(run[w].op, run[w].idx),
           NEW r, Set(w, r), LocalOK(r),
           r.claimed => run[w].claimed /\ r.op = run[w].op,
           \A i \in Actions : Ahead(r, i) =>
               Ahead(run[w], i) /\ i # run[w].idx /\ r.op = run[w].op
    PROVE  RunsOK'
<1>. DEFINE op == run[w].op
            n == run[w].idx
<1>1. op \in Ops /\ n \in Actions /\ run[w].claimed /\ Ahead(run[w], n)
  BY DEF Inv, LocalsOK, LocalOK, LoopPcs, TypeInv, CursorOK, InAction, Ahead, AheadAt
<1>2. /\ writes'[op][n] = 1
      /\ \A o \in Ops, i \in Actions :
            o # op \/ i # n => writes'[o][i] = writes[o][i]
 <2>1. writes[op][n] = 0
   BY <1>1 DEF Inv, WritesOK
 <2>. QED BY <1>1, <2>1 DEF Apply, Inv, TypeInv, TypeOK
<1>3. /\ run'[w] = r
      /\ \A v \in Workers : v # w => run'[v] = run[v]
  BY DEF Set, Inv, TypeInv, TypeOK
<1>4. \A v \in Workers, i \in Actions : Ahead(run[v], i) => run[v].claimed /\ run[v].op \in Ops
  BY DEF Inv, LocalsOK, LocalOK, LoopPcs, Ahead, AheadAt
<1>. HIDE DEF op, n
<1>5. LocalsOK'
  BY <1>3 DEF LocalsOK, Inv
<1>6. ClaimsOK'
  BY <1>1, <1>3 DEF Inv, ClaimsOK, op
<1>7. WritesOK'
 <2>1. \A o \in Ops, i \in Actions : status'[o] \in Unstarted => writes'[o][i] = 0
   BY <1>1, <1>2 DEF Inv, WritesOK, ClaimsOK, op
 <2>2. ASSUME NEW v \in Workers, NEW i \in Actions, Ahead(run'[v], i)
       PROVE  writes'[run'[v].op][i] = 0
  <3>1. CASE v = w
   <4>1. r.op = op /\ Ahead(run[w], i) /\ i # n
     BY <1>3, <2>2, <3>1 DEF op, n
   <4>2. writes[op][i] = 0
     BY <4>1 DEF Inv, WritesOK, op
   <4>. QED BY <1>1, <1>2, <1>3, <3>1, <4>1, <4>2
  <3>2. CASE v # w
   <4>1. Ahead(run[v], i) /\ run[v].op \in Ops /\ run[v].claimed
     BY <1>3, <1>4, <2>2, <3>2
   <4>2. run[v].op # op
     BY <1>1, <3>2, <4>1 DEF Inv, ClaimsOK, op
   <4>3. writes[run[v].op][i] = 0
     BY <4>1 DEF Inv, WritesOK
   <4>. QED BY <1>2, <1>3, <3>2, <4>1, <4>2, <4>3
  <3>. QED BY <3>1, <3>2
 <2>3. WrittenOnce'
   BY <1>2 DEF WrittenOnce, Inv, WritesOK
 <2>. QED BY <2>1, <2>2, <2>3 DEF WritesOK
<1>. QED BY <1>5, <1>6, <1>7 DEF RunsOK

\* Credentials are only ever dropped where no status moves.
LEMMA CredKept ==
    ASSUME Inv, UNCHANGED status,
           UNCHANGED cred \/ \E op \in Ops : cred' = [cred EXCEPT ![op] = FALSE]
    PROVE  NoCredentialAtRest'
<1>1. \A o \in Ops : cred[o] = FALSE => cred'[o] = FALSE
  BY DEF Inv, TypeInv, TypeOK
<1>2. \A o \in Ops : cred[o] \in BOOLEAN /\ cred'[o] \in BOOLEAN
  BY DEF Inv, TypeInv, TypeOK
<1>. QED BY <1>1, <1>2 DEF Inv, NoCredentialAtRest

LEMMA MistWriteStep ==
    ASSUME Inv, NEW w \in Workers, MistWrite(w)
    PROVE  MovesOK /\ NoCredentialAtRest' /\ RunsOK'
<1>1. run[w].pc = "mist" /\ UNCHANGED stored
  BY DEF MistWrite, At
<1>2. MovesOK /\ NoCredentialAtRest' /\ UNCHANGED status
  BY <1>1, StillMoves, CredKept DEF stored
<1>3. run[w] \in Locals /\ LocalOK(run[w])
  BY DEF Inv, TypeInv, TypeOK, LocalsOK
<1>4. ASSUME NEW pc \in {"record", "fail", "close"},
             NEW r \in Locals, r.op = run[w].op, r.claimed = run[w].claimed,
             r.idx = run[w].idx, r.own = run[w].own, r.beat = run[w].beat,
             Set(w, Goto(r, pc)),
             Apply(run[w].op, run[w].idx) \/ UNCHANGED writes
      PROVE  RunsOK'
 <2>. DEFINE g == Goto(r, pc)
 <2>1. pc \in Pcs
   BY DEF Pcs
 <2>2. /\ g.pc = pc /\ g.op = run[w].op /\ g.claimed = run[w].claimed
       /\ g.idx = run[w].idx /\ g.own = run[w].own
       /\ g.beat \in {"none", run[w].beat}
       /\ pc \notin BeatPcs => g.beat = "none"
   BY <1>4, <2>1, GotoFields
 <2>. HIDE DEF g
 <2>3. LocalOK(g)
   BY <1>1, <1>3, <2>2 DEF LocalOK, LoopPcs
 <2>4. \A i \in Actions : Ahead(g, i) =>
           Ahead(run[w], i) /\ i # run[w].idx /\ g.op = run[w].op
   BY <1>1, <1>3, <2>2 DEF Ahead, AheadAt, LoopPcs, Locals, Actions
 <2>5. Set(w, g) /\ (g.claimed => run[w].claimed /\ g.op = run[w].op)
   BY <1>4, <2>2 DEF g
 <2>6. CASE Apply(run[w].op, run[w].idx)
   BY <1>1, <1>2, <2>3, <2>4, <2>5, <2>6, MistStep
 <2>7. CASE UNCHANGED writes
   BY <1>2, <2>3, <2>4, <2>5, <2>7, QuietStep
 <2>. QED BY <1>4, <2>6, <2>7
<1>5. ASSUME NEW a \in ActionStatuses, NEW pc \in {"record", "fail"},
             Set(w, Now(w, a, pc)),
             Apply(run[w].op, run[w].idx) \/ UNCHANGED writes
      PROVE  RunsOK'
 <2>. DEFINE r == [run[w] EXCEPT !.acts[run[w].idx] = a]
 <2>1. /\ r \in Locals /\ r.op = run[w].op /\ r.claimed = run[w].claimed
       /\ r.idx = run[w].idx /\ r.own = run[w].own /\ r.beat = run[w].beat
   BY <1>3 DEF Locals
 <2>2. Set(w, Goto(r, pc))
   BY <1>5 DEF Now
 <2>. HIDE DEF r
 <2>. QED BY <1>4, <1>5, <2>1, <2>2
<1>6. ASSUME Set(w, Goto(run[w], "close")),
             Apply(run[w].op, run[w].idx) \/ UNCHANGED writes
      PROVE  RunsOK'
  BY <1>3, <1>4, <1>6
<1>7. RunsOK'
  BY <1>5, <1>6 DEF MistWrite, ActionStatuses
<1>. QED BY <1>2, <1>7

LEMMA CrashStep ==
    ASSUME Inv, NEW w \in Workers, Crash(w)
    PROVE  MovesOK /\ NoCredentialAtRest' /\ RunsOK'
<1>1. MovesOK /\ NoCredentialAtRest' /\ UNCHANGED status /\ Set(w, Idle)
  BY StillMoves, CredKept DEF Crash, stored
<1>2. LocalOK(Idle) /\ ~Idle.claimed /\ \A i \in Actions : ~Ahead(Idle, i)
  BY DEF LocalOK, Idle, Ahead, AheadAt, LoopPcs
<1>3. CASE UNCHANGED writes
  BY <1>1, <1>3, IdleStep
<1>4. CASE At(w, "mist") /\ Apply(run[w].op, run[w].idx)
  BY <1>1, <1>2, <1>4, MistStep DEF At
<1>. QED BY <1>1, <1>3, <1>4 DEF Crash

LEMMA AcquireStep ==
    ASSUME Inv, NEW w \in Workers, AcquireLease(w)
    PROVE  MovesOK /\ RunsOK'
<1>. DEFINE r == [run[w] EXCEPT !.leasing = TRUE]
<1>1. run[w] \in Locals /\ LocalOK(run[w]) /\ run[w].pc = "acquire"
  BY DEF Inv, TypeInv, TypeOK, LocalsOK, AcquireLease, At
<1>2. /\ r \in Locals /\ r.op = run[w].op /\ r.claimed = run[w].claimed
      /\ r.idx = run[w].idx /\ r.own = run[w].own /\ r.beat = run[w].beat
  BY <1>1 DEF Locals
<1>3. UNCHANGED <<status, writes>>
  BY DEF AcquireLease, stored
<1>4. Set(w, Goto(r, "capture")) \/ Set(w, Goto(r, "close"))
  BY DEF AcquireLease
<1>. HIDE DEF r
<1>5. CASE Set(w, Goto(r, "capture"))
 <2>1. /\ "capture" \in Pcs \ {"idle", "loaded", "acquire", "announce"}
       /\ run[w].claimed /\ run[w].idx = 0
       /\ \A i \in Actions : Ahead(run[w], i)
   BY <1>1 DEF Pcs, LocalOK, Ahead, AheadAt
 <2>. QED BY <1>1, <1>2, <1>3, <1>5, <2>1, GotoStep
<1>6. CASE Set(w, Goto(r, "close"))
 <2>1. /\ "close" \in Pcs \ {"idle", "loaded", "acquire", "announce"}
       /\ "close" \notin {"capture"} \union LoopPcs
       /\ \A i \in Actions : ~AheadAt("close", run[w].idx, i)
   BY DEF Pcs, LoopPcs, AheadAt
 <2>. QED BY <1>1, <1>2, <1>3, <1>6, <2>1, GotoStep
<1>. QED BY <1>4, <1>5, <1>6

\* Into the loop, and out of it on a failure.
LEMMA CaptureStep ==
    ASSUME Inv, NEW w \in Workers, CaptureSnapshot(w)
    PROVE  MovesOK /\ RunsOK'
<1>1. run[w] \in Locals /\ LocalOK(run[w]) /\ run[w].pc = "capture"
  BY DEF Inv, TypeInv, TypeOK, LocalsOK, CaptureSnapshot, At
<1>2. /\ "beat" \in Pcs \ {"idle", "loaded", "acquire", "announce"}
      /\ run[w].claimed
      /\ \A i \in Actions : Ahead(run[w], i)
  BY <1>1 DEF Pcs, LocalOK, Ahead, AheadAt
<1>. QED BY <1>1, <1>2, GotoStep DEF CaptureSnapshot, stored

\* Straight to the closing steps, the action's status changed or not.
LEMMA LeaveStep ==
    ASSUME Inv, UNCHANGED <<status, writes>>, NEW w \in Workers,
           run[w].pc \notin {"idle", "announce"},
           NEW pc \in {"fail", "close"}, run[w].pc = "beat" => pc = "close",
           \/ Set(w, Goto(run[w], pc))
           \/ \E a \in ActionStatuses : Set(w, Now(w, a, pc))
    PROVE  MovesOK /\ RunsOK'
<1>1. run[w] \in Locals
  BY DEF Inv, TypeInv, TypeOK
<1>2. /\ pc \in Pcs \ {"idle", "loaded", "acquire", "announce"}
      /\ pc \notin {"capture"} \union LoopPcs
      /\ \A i \in Actions : ~AheadAt(pc, run[w].idx, i)
  BY DEF Pcs, LoopPcs, AheadAt
<1>3. PICK r \in Locals :
          /\ Set(w, Goto(r, pc))
          /\ r.op = run[w].op /\ r.claimed = run[w].claimed
          /\ r.idx = run[w].idx /\ r.own = run[w].own /\ r.beat = run[w].beat
 <2>1. CASE Set(w, Goto(run[w], pc))
   BY <1>1, <2>1
 <2>2. CASE \E a \in ActionStatuses : Set(w, Now(w, a, pc))
  <3>1. PICK a \in ActionStatuses : Set(w, Now(w, a, pc))
    BY <2>2
  <3>. DEFINE r == [run[w] EXCEPT !.acts[run[w].idx] = a]
  <3>2. /\ r \in Locals /\ r.op = run[w].op /\ r.claimed = run[w].claimed
        /\ r.idx = run[w].idx /\ r.own = run[w].own /\ r.beat = run[w].beat
    BY <1>1 DEF Locals
  <3>3. Set(w, Goto(r, pc))
    BY <3>1 DEF Now
  <3>. HIDE DEF r
  <3>. QED BY <3>2, <3>3
 <2>. QED BY <2>1, <2>2
<1>. QED BY <1>2, <1>3, GotoStep

LEMMA RecordStep ==
    ASSUME Inv, NEW w \in Workers, RecordResult(w)
    PROVE  MovesOK /\ RunsOK'
<1>1. run[w] \in Locals /\ LocalOK(run[w]) /\ run[w].pc = "result"
  BY DEF Inv, TypeInv, TypeOK, LocalsOK, RecordResult, At
<1>2. UNCHANGED <<status, writes>>
  BY DEF RecordResult, Local, stored
<1>3. CASE Set(w, Goto(run[w], "fail"))
  BY <1>1, <1>2, <1>3, LeaveStep
<1>4. CASE Set(w, [Goto(run[w], "beat") EXCEPT !.idx = @ + 1,
                                               !.age = IF run[w].idx = N THEN 0 ELSE @])
 <2>. DEFINE g == [Goto(run[w], "beat") EXCEPT !.idx = @ + 1,
                             !.age = IF run[w].idx = N THEN 0 ELSE @]
 <2>1. /\ g.pc = "beat" /\ g.op = run[w].op /\ g.claimed = run[w].claimed
       /\ g.idx = run[w].idx + 1 /\ g.own = run[w].own
       /\ g.beat \in {"none", run[w].beat}
   BY <1>1 DEF Goto, Locals
 <2>2. Set(w, g)
   BY <1>4
 <2>. HIDE DEF g
 <2>3. LocalOK(g)
   BY <1>1, <2>1 DEF LocalOK, LoopPcs, BeatPcs, Pcs
 <2>4. \A i \in Actions : Ahead(g, i) => Ahead(run[w], i)
   BY <1>1, <2>1 DEF Ahead, AheadAt, LoopPcs, Locals, Actions
 <2>. QED BY <1>2, <2>1, <2>2, <2>3, <2>4, QuietStep
<1>. QED BY <1>3, <1>4 DEF RecordResult, Local

\* The heartbeats: the worker only learns whether the run is still its own.
LEMMA LoseStep ==
    ASSUME Inv, UNCHANGED <<status, writes>>, NEW w \in Workers,
           NEW who \in {"main", "task"}, run[w].pc \in BeatPcs,
           who = "main" => run[w].pc = "beat", Lose(w, who)
    PROVE  MovesOK /\ RunsOK'
<1>. DEFINE r == [run[w] EXCEPT !.lost = TRUE, !.beat = "none", !.half = 0]
<1>1. run[w] \in Locals /\ LocalOK(run[w])
  BY DEF Inv, TypeInv, TypeOK, LocalsOK
<1>2. /\ r \in Locals /\ r.op = run[w].op /\ r.claimed = run[w].claimed
      /\ r.idx = run[w].idx /\ r.own = run[w].own /\ r.beat = "none" /\ r.pc = run[w].pc
  BY <1>1, Bounds DEF Locals
<1>3. Set(w, IF who = "main" THEN Goto(r, "exit") ELSE r)
  BY DEF Lose
<1>. HIDE DEF r
<1>4. CASE who = "main"
 <2>1. /\ "exit" \in Pcs \ {"idle", "loaded", "acquire", "announce"}
       /\ "exit" \notin {"capture"} \union LoopPcs
       /\ \A i \in Actions : ~AheadAt("exit", run[w].idx, i)
   BY DEF Pcs, LoopPcs, AheadAt
 <2>. QED BY <1>2, <1>3, <1>4, <2>1, GotoStep
<1>5. CASE who = "task"
 <2>1. LocalOK(r) /\ \A i \in Actions : Ahead(r, i) => Ahead(run[w], i)
   BY <1>1, <1>2 DEF LocalOK, Ahead
 <2>. QED BY <1>2, <1>3, <1>5, <2>1, QuietStep
<1>. QED BY <1>4, <1>5

LEMMA RenewStep ==
    ASSUME Inv, NEW w \in Workers, NEW who \in {"main", "task"}, RenewLease(w, who)
    PROVE  MovesOK /\ RunsOK'
<1>1. run[w] \in Locals /\ LocalOK(run[w])
  BY DEF Inv, TypeInv, TypeOK, LocalsOK
<1>2. UNCHANGED <<status, writes>>
  BY DEF RenewLease, stored
<1>3. run[w].pc \in BeatPcs /\ (who = "main" => run[w].pc = "beat")
  BY DEF RenewLease, Beating, At, BeatPcs, Pcs
<1>4. CASE Set(w, [run[w] EXCEPT !.beat = who, !.half = 0])
 <2>. DEFINE g == [run[w] EXCEPT !.beat = who, !.half = 0]
 <2>1. /\ g.pc = run[w].pc /\ g.op = run[w].op /\ g.claimed = run[w].claimed
       /\ g.idx = run[w].idx /\ g.own = run[w].own /\ g.beat = who
   BY <1>1 DEF Locals
 <2>. HIDE DEF g
 <2>2. LocalOK(g) /\ \A i \in Actions : Ahead(g, i) => Ahead(run[w], i)
   BY <1>1, <1>3, <2>1 DEF LocalOK, Ahead
 <2>. QED BY <1>2, <1>4, <2>1, <2>2, QuietStep DEF g
<1>5. CASE Lose(w, who)
  BY <1>2, <1>3, <1>5, LoseStep
<1>. QED BY <1>4, <1>5 DEF RenewLease

LEMMA TouchStep ==
    ASSUME Inv, NEW w \in Workers, TouchRun(w)
    PROVE  MovesOK /\ RunsOK'
<1>. DEFINE who == run[w].beat
            r == [run[w] EXCEPT !.beat = "none", !.half = 0,
                                !.age = IF Writing(w) \/ (who = "main" /\ run[w].idx = 0)
                                        THEN run[w].half ELSE 0]
<1>1. run[w] \in Locals /\ LocalOK(run[w])
  BY DEF Inv, TypeInv, TypeOK, LocalsOK
<1>2. UNCHANGED <<status, writes>>
  BY DEF TouchRun
<1>3. who \in {"main", "task"} /\ (who = "main" => run[w].pc = "beat")
  BY <1>1 DEF TouchRun, Unlocked, Locals, LocalOK
<1>4. /\ r.op = run[w].op /\ r.claimed = run[w].claimed /\ r.idx = run[w].idx
      /\ r.own = run[w].own /\ r.beat = "none" /\ r.pc = run[w].pc
  BY <1>1 DEF Locals
<1>5. r \in [pc : Pcs, op : Ops \union {NoOp}, own : Statuses,
             acts : [Actions -> ActionStatuses], idx : 0 .. N + 1,
             claimed : BOOLEAN, leasing : BOOLEAN, lost : BOOLEAN,
             beat : {"none", "task", "main"}, age : 0 .. MaxStall, half : 0 .. MaxStall]
  BY <1>1, Bounds DEF Locals
<1>6. \/ Set(w, IF who = "main" THEN AfterBeat(r) ELSE r)
      \/ Lose(w, who)
  BY DEF TouchRun
<1>. HIDE DEF r
<1>7. CASE Lose(w, who)
 <2>1. run[w].pc \in BeatPcs
  <3>1. CASE who = "main"
    BY <1>3, <3>1 DEF BeatPcs, Pcs
  <3>2. CASE who = "task"
    BY <1>1, <3>2 DEF LocalOK, Locals
  <3>. QED BY <1>3, <3>1, <3>2
 <2>. QED BY <1>2, <1>3, <1>7, <2>1, LoseStep
<1>8. CASE Set(w, r) /\ who = "task"
 <2>1. LocalOK(r) /\ \A i \in Actions : Ahead(r, i) => Ahead(run[w], i)
   BY <1>1, <1>4 DEF LocalOK, Ahead
 <2>. QED BY <1>2, <1>4, <1>8, <2>1, QuietStep
<1>9. CASE Set(w, AfterBeat(r)) /\ who = "main"
 <2>. DEFINE g == AfterBeat(r)
 <2>1. /\ g.op = run[w].op /\ g.claimed = run[w].claimed /\ g.own = run[w].own
       /\ g.beat = "none"
       /\ \/ g.pc = "beat" /\ run[w].idx = 0 /\ g.idx = 1
          \/ g.pc = "check" /\ g.idx = run[w].idx
          \/ g.pc = "verify"
   BY <1>3, <1>4, <1>5, <1>9 DEF AfterBeat
 <2>. HIDE DEF g
 <2>2. LocalOK(g)
   BY <1>1, <1>3, <1>9, <2>1 DEF LocalOK, LoopPcs
 <2>3. \A i \in Actions : Ahead(g, i) => Ahead(run[w], i)
   BY <1>3, <1>9, <2>1 DEF Ahead, AheadAt, LoopPcs, Actions
 <2>. QED BY <1>2, <1>9, <2>1, <2>2, <2>3, QuietStep DEF g
<1>. QED BY <1>3, <1>6, <1>7, <1>8, <1>9

LEMMA BeatErrorStep ==
    ASSUME Inv, NEW w \in Workers, BeatError(w)
    PROVE  MovesOK /\ RunsOK'
<1>1. run[w] \in Locals /\ LocalOK(run[w])
  BY DEF Inv, TypeInv, TypeOK, LocalsOK
<1>2. UNCHANGED <<status, writes>>
  BY DEF BeatError, Raise, Local, stored
<1>3. CASE Set(w, [run[w] EXCEPT !.beat = "none", !.half = 0])
 <2>. DEFINE g == [run[w] EXCEPT !.beat = "none", !.half = 0]
 <2>1. /\ g.pc = run[w].pc /\ g.op = run[w].op /\ g.claimed = run[w].claimed
       /\ g.idx = run[w].idx /\ g.own = run[w].own /\ g.beat = "none"
   BY <1>1 DEF Locals
 <2>. HIDE DEF g
 <2>2. LocalOK(g) /\ \A i \in Actions : Ahead(g, i) => Ahead(run[w], i)
   BY <1>1, <2>1 DEF LocalOK, Ahead
 <2>. QED BY <1>2, <1>3, <2>1, <2>2, QuietStep DEF g
<1>4. CASE At(w, "beat") /\ Set(w, Goto(run[w], "close"))
  BY <1>2, <1>4, LeaveStep DEF At
<1>. QED BY <1>3, <1>4 DEF BeatError, Raise, Local

LEMMA LoadStep ==
    ASSUME Inv, NEW w \in Workers, NEW op \in Ops, LoadQueued(w, op)
    PROVE  MovesOK /\ RunsOK'
<1>. DEFINE g == [Idle EXCEPT !.pc = "loaded", !.op = op, !.acts = acts[op]]
<1>1. /\ g.pc = "loaded" /\ g.op = op /\ g.claimed = FALSE
      /\ g.idx = 0 /\ g.own = "queued" /\ g.beat = "none"
  BY DEF Idle
<1>2. Set(w, g) /\ UNCHANGED <<status, writes>>
  BY DEF LoadQueued, Local, stored
<1>. HIDE DEF g
<1>3. LocalOK(g) /\ \A i \in Actions : ~Ahead(g, i)
  BY <1>1 DEF LocalOK, LoopPcs, Ahead, AheadAt
<1>. QED BY <1>1, <1>2, <1>3, QuietStep

\* The restore a finished compensation marks was compensable, or marked before.
LEMMA AnnounceStep ==
    ASSUME Inv, NEW w \in Workers, Announce(w)
    PROVE  MovesOK /\ NoCredentialAtRest' /\ RunsOK'
<1>. DEFINE g == Goto(run[w], "exit")
            o == Reverses[run[w].op]
<1>1. run[w] \in Locals /\ LocalOK(run[w]) /\ run[w].pc = "announce"
  BY DEF Inv, TypeInv, TypeOK, LocalsOK, Announce, At
<1>2. /\ run[w].op \in Compensations /\ run[w].claimed
      /\ status[run[w].op] \notin Unstarted
  BY <1>1 DEF LocalOK, Inv, ClaimsOK
<1>3. o \in Ops /\ o # run[w].op /\ status[o] \in {"compensation_available", "compensated"}
  BY <1>2, OpsAssumption DEF Inv, PlansOK, Unstarted, Ops
<1>4. /\ UNCHANGED status \/ status' = [status EXCEPT ![o] = "compensated"]
      /\ UNCHANGED <<cred, writes>> /\ Set(w, g)
  BY DEF Announce
<1>5. "exit" \in Pcs
  BY DEF Pcs
<1>6. /\ g.pc = "exit" /\ g.op = run[w].op /\ g.claimed = run[w].claimed
      /\ g.own = "queued" /\ g.beat = "none"
  BY <1>1, <1>5, GotoFields
<1>. HIDE DEF g, o
<1>7. /\ \A q \in Ops \ {o} : status'[q] = status[q]
      /\ status'[o] \in {status[o], "compensated"}
  BY <1>3, <1>4 DEF Inv, TypeInv, TypeOK
<1>8. MovesOK
  BY <1>3, <1>7 DEF MovesOK, MayBecome, Unstarted, Terminal, Ops
<1>9. NoCredentialAtRest'
  BY <1>3, <1>4, <1>7 DEF Inv, NoCredentialAtRest, Terminal
<1>10. LocalOK(g) /\ \A i \in Actions : ~Ahead(g, i)
  BY <1>1, <1>2, <1>6 DEF LocalOK, LoopPcs, Ahead, AheadAt
<1>11. RunsOK'
 <2>1. g.op \in Ops /\ status'[g.op] \notin Unstarted
   BY <1>2, <1>3, <1>6, <1>7 DEF Ops
 <2>2. UNCHANGED writes /\ Set(w, g)
   BY <1>4
 <2>. QED BY <1>2, <1>6, <1>8, <1>10, <2>1, <2>2, WorkerStep
<1>. QED BY <1>8, <1>9, <1>11

LEMMA CleanUpStep ==
    ASSUME Inv, NEW w \in Workers, CleanUp(w)
    PROVE  MovesOK /\ NoCredentialAtRest' /\ RunsOK'
<1>1. run[w].op \in Ops
  BY DEF CleanUp, At, Inv, LocalsOK, LocalOK
<1>2. NoCredentialAtRest'
  BY <1>1, CredKept DEF CleanUp
<1>3. MovesOK /\ RunsOK'
  BY IdleStep DEF CleanUp
<1>. QED BY <1>2, <1>3

\* The last write of a run.
LEMMA ExitStep ==
    ASSUME Inv, NEW w \in Workers, run[w].pc \in {"loaded", "fail", "verify", "close"},
           NEW st \in Statuses \ (Unstarted \union {"superseded"}),
           NEW as \in [Actions -> ActionStatuses],
           NEW onError \in {"close", "exit"},
           Persist(w, st, as, "exit", onError)
    PROVE  MovesOK /\ NoCredentialAtRest' /\ RunsOK'
<1>1. \A i \in Actions : ~AheadAt("exit", run[w].idx, i)
  BY DEF AheadAt, LoopPcs
<1>2. run[w].pc \notin {"idle", "announce", "beat"}
  OBVIOUS
<1>. QED BY <1>1, <1>2, PersistStep

LEMMA MainStepStep ==
    ASSUME Inv, NEW w \in Workers, MainStep(w)
    PROVE  MovesOK /\ NoCredentialAtRest' /\ RunsOK'
<1>. run[w] \in Locals /\ LocalOK(run[w])
  BY DEF Inv, TypeInv, TypeOK, LocalsOK
<1>. DEFINE closed == TerminalFailureStatus(run[w].acts, Compensating(run[w].op))
            interrupted == MarkUnconfirmed(run[w].acts)
            Sts == Statuses \ (Unstarted \union {"superseded"})
<1>1. /\ run[w].acts \in [Actions -> ActionStatuses]
      /\ \A a \in ActionStatuses : With(w, a) \in [Actions -> ActionStatuses]
  BY DEF Locals, With
<1>2. closed \in Sts /\ interrupted \in [Actions -> ActionStatuses]
      /\ TerminalFailureStatus(interrupted, Compensating(run[w].op)) \in Sts
  BY <1>1, OutcomeType DEF Statuses, Unstarted
<1>3. "running" \in Sts /\ "failed" \in Sts /\ "completed" \in Sts /\ "compensated" \in Sts
  BY DEF Statuses, Unstarted
<1>. HIDE DEF closed, interrupted, Sts
<1>4. ASSUME run[w].pc \in {"loaded", "fail", "verify", "close"},
             NEW onError \in {"close", "exit"},
             NEW as \in [Actions -> ActionStatuses], NEW st \in Sts,
             Persist(w, st, as, "exit", onError)
      PROVE  MovesOK /\ NoCredentialAtRest' /\ RunsOK'
  BY <1>4, ExitStep DEF Sts
<1>5. CASE PreconditionFails(w) \/ FailOperation(w) \/ FailVerification(w) \/ CloseFailed(w)
  BY <1>1, <1>2, <1>4, <1>5
  DEF PreconditionFails, FailOperation, FailVerification, CloseFailed, PersistFailure,
      At, closed, interrupted
<1>6. CASE Claim(w)
  BY <1>1, <1>3, <1>6, PersistStep DEF Claim, At, Sts
<1>7. CASE FailPreflight(w)
  BY <1>1, <1>3, <1>7, PersistStep DEF FailPreflight, At, Sts, AheadAt, LoopPcs
<1>8. CASE SkipWrite(w)
  BY <1>1, <1>3, <1>8, PersistStep
  DEF SkipWrite, At, Sts, Ahead, AheadAt, LoopPcs, ActionStatuses
<1>9. CASE MarkExecuting(w)
  BY <1>1, <1>3, <1>9, PersistStep
  DEF MarkExecuting, At, Sts, Ahead, AheadAt, LoopPcs, ActionStatuses
<1>10. CASE PersistCompleted(w) \/ PersistAppliedHash(w)
  BY <1>1, <1>3, <1>10, PersistStep
  DEF PersistCompleted, PersistAppliedHash, At, Sts, Ahead, AheadAt, LoopPcs
<1>11. CASE Finish(w)
 <2>1. CASE Compensating(run[w].op)
   BY <1>1, <1>3, <1>11, <2>1, PersistStep
   DEF Finish, At, Sts, Compensating, AheadAt, LoopPcs
 <2>2. CASE ~Compensating(run[w].op)
   BY <1>1, <1>3, <1>4, <1>11, <2>2 DEF Finish, At
 <2>. QED BY <2>1, <2>2
<1>12. CASE MistWrite(w) \/ Announce(w) \/ CleanUp(w)
  BY <1>12, MistWriteStep, AnnounceStep, CleanUpStep
<1>13. CASE \/ AcquireLease(w) \/ CaptureSnapshot(w) \/ Drifted(w) \/ ReadBackFails(w)
            \/ RecordResult(w) \/ Unexpected(w)
 <2>1. UNCHANGED <<status, writes>> /\ NoCredentialAtRest'
   BY <1>13, CredKept
   DEF AcquireLease, CaptureSnapshot, Drifted, ReadBackFails, RecordResult, Unexpected,
       Raise, Local, stored
 <2>2. MovesOK /\ RunsOK'
  <3>1. CASE AcquireLease(w) \/ CaptureSnapshot(w) \/ RecordResult(w)
    BY <3>1, AcquireStep, CaptureStep, RecordStep
  <3>2. CASE Drifted(w) \/ ReadBackFails(w)
    BY <2>1, <3>2, LeaveStep DEF Drifted, ReadBackFails, Local, At, ActionStatuses
  <3>3. CASE Unexpected(w)
    BY <2>1, <3>3, LeaveStep DEF Unexpected, Raise, Local
  <3>. QED BY <1>13, <3>1, <3>2, <3>3
 <2>. QED BY <2>1, <2>2
<1>14. CASE RecordEntry(w)
 <2>1. UNCHANGED <<status, cred, run, writes>>
   BY <1>14 DEF RecordEntry, stored
 <2>2. MovesOK /\ NoCredentialAtRest'
   BY <2>1, StillMoves, CredKept
 <2>3. RunsOK'
   BY <2>1 DEF Inv, RunsOK, LocalsOK, ClaimsOK, WritesOK, WrittenOnce
 <2>. QED BY <2>2, <2>3
<1>. QED BY <1>5, <1>6, <1>7, <1>8, <1>9, <1>10, <1>11, <1>12, <1>13, <1>14 DEF MainStep

-----------------------------------------------------------------------------
\* Everyone else's steps: no worker moves, nothing is written.

LEMMA FrameStep ==
    ASSUME Inv, MovesOK, UNCHANGED <<run, writes>>
    PROVE  RunsOK'
<1>1. LocalsOK'
  BY DEF Inv, LocalsOK
<1>2. ClaimsOK'
  BY DEF Inv, ClaimsOK, MovesOK
<1>3. WritesOK'
  BY DEF Inv, WritesOK, WrittenOnce, MovesOK
<1>. QED BY <1>1, <1>2, <1>3 DEF RunsOK

\* One operation's status moves, and its credential with it.
LEMMA StatusStep ==
    ASSUME Inv, NEW op \in Ops, NEW st, NEW credential \in BOOLEAN,
           status' = [status EXCEPT ![op] = st],
           UNCHANGED cred \/ cred' = [cred EXCEPT ![op] = credential],
           st \in Terminal => (UNCHANGED cred /\ ~cred[op]) \/ cred' = [cred EXCEPT ![op] = FALSE],
           st \in Unstarted => status[op] \in Unstarted,
           status[op] \in Terminal => MayBecome(status[op], st),
           status[op] = "unplanned" =>
               op \in Compensations /\ status[Reverses[op]] = "compensation_available"
    PROVE  MovesOK /\ NoCredentialAtRest'
<1>1. status'[op] = st /\ \A o \in Ops \ {op} : status'[o] = status[o]
  BY DEF Inv, TypeInv, TypeOK
<1>2. \A o \in Ops \ {op} : cred'[o] = cred[o]
  BY DEF Inv, TypeInv, TypeOK
<1>3. MovesOK
  BY <1>1 DEF MovesOK, MayBecome, Ops
<1>4. st \in Terminal => cred'[op] = FALSE
  BY DEF Inv, TypeInv, TypeOK
<1>5. NoCredentialAtRest'
  BY <1>1, <1>2, <1>4 DEF Inv, NoCredentialAtRest
<1>. QED BY <1>3, <1>5

LEMMA RequestStep ==
    ASSUME Inv, NEW op \in Ops, Request(op)
    PROVE  MovesOK /\ NoCredentialAtRest' /\ UNCHANGED <<run, writes>>
<1>1. UNCHANGED <<run, writes>>
  BY DEF Request, CheckRequest, Reserve, SendTask, RequestDies, Release, Supersede,
         ExpireCredential
<1>2. CASE CheckRequest(op) \/ SendTask(op) \/ RequestDies(op)
 <2>1. UNCHANGED <<status, cred>>
   BY <1>2 DEF CheckRequest, SendTask, RequestDies, stored
 <2>. QED BY <1>1, <2>1, StillMoves, CredKept
<1>3. CASE Reserve(op)
  BY <1>1, <1>3, StatusStep DEF Reserve, Authorizable, Unstarted, Terminal
<1>4. CASE Release(op)
 <2>1. CASE status[op] = "queued"
   BY <1>1, <1>4, <2>1, StatusStep DEF Release, Unstarted, Terminal
 <2>2. CASE status[op] # "queued"
   BY <1>1, <1>4, <2>2, StillMoves, CredKept DEF Release
 <2>. QED BY <2>1, <2>2
<1>5. CASE Supersede(op)
  BY <1>1, <1>5, StatusStep DEF Supersede, Unstarted, Terminal, MayBecome
<1>6. CASE ExpireCredential(op)
  BY <1>1, <1>6, StatusStep DEF ExpireCredential, Unstarted, Terminal
<1>. QED BY <1>2, <1>3, <1>4, <1>5, <1>6 DEF Request

LEMMA JanitorStep ==
    ASSUME Inv, NEW op \in Ops, Janitor(op)
    PROVE  MovesOK /\ NoCredentialAtRest' /\ UNCHANGED <<run, writes>>
<1>1. UNCHANGED <<run, writes>>
  BY DEF Janitor, FindSilent, Interrupt, JanitorRelease
<1>2. CASE FindSilent(op) \/ JanitorRelease(op)
 <2>1. UNCHANGED <<status, cred>>
   BY <1>2 DEF FindSilent, JanitorRelease, stored
 <2>. QED BY <1>1, <2>1, StillMoves, CredKept
<1>3. CASE Interrupt(op)
 <2>1. PICK c \in {Compensating(op), FALSE} :
         status' = [status EXCEPT ![op] = TerminalFailureStatus(MarkUnconfirmed(acts[op]), c)]
   BY <1>3 DEF Interrupt
 <2>2. acts[op] \in [Actions -> ActionStatuses]
   BY DEF Inv, TypeInv, TypeOK
 <2>3. TerminalFailureStatus(MarkUnconfirmed(acts[op]), c)
           \in {"failed", "compensation_available"}
  <3>1. MarkUnconfirmed(acts[op]) \in [Actions -> ActionStatuses]
    BY <2>2, OutcomeType
  <3>. QED BY <3>1, OutcomeType
 <2>4. status[op] = "running" /\ cred' = [cred EXCEPT ![op] = FALSE]
   BY <1>3 DEF Interrupt
 <2>. QED BY <1>1, <2>1, <2>3, <2>4, StatusStep DEF Unstarted, Terminal
<1>. QED BY <1>2, <1>3 DEF Janitor

\* Time passes: only the ages of workers change.
LEMMA TickStep ==
    ASSUME Inv, Tick
    PROVE  MovesOK /\ NoCredentialAtRest' /\ RunsOK'
<1>1. UNCHANGED <<status, cred, writes>>
  BY DEF Tick
<1>2. \A w \in Workers :
         /\ run'[w].pc = run[w].pc /\ run'[w].op = run[w].op
         /\ run'[w].idx = run[w].idx /\ run'[w].own = run[w].own
         /\ run'[w].claimed = run[w].claimed /\ run'[w].beat = run[w].beat
 <2>. TAKE w \in Workers
 <2>. DEFINE a == IF Writing(w) THEN run[w].age + 1 ELSE run[w].age
             h == IF run[w].beat # "none" THEN run[w].half + 1 ELSE run[w].half
 <2>1. run'[w] = [run[w] EXCEPT !.age = a, !.half = h]
   BY DEF Tick
 <2>2. run[w] \in Locals
   BY DEF Inv, TypeInv, TypeOK
 <2>. HIDE DEF a, h
 <2>. QED BY <2>1, <2>2 DEF Locals
<1>3. LocalsOK'
  BY <1>2 DEF Inv, LocalsOK, LocalOK
<1>4. ClaimsOK'
  BY <1>1, <1>2 DEF Inv, ClaimsOK
<1>5. WritesOK'
  BY <1>1, <1>2 DEF Inv, WritesOK, WrittenOnce, Ahead
<1>. QED BY <1>1, <1>3, <1>4, <1>5, StillMoves, CredKept DEF RunsOK

-----------------------------------------------------------------------------
LEMMA InvInit == Init => Inv
<1>. SUFFICES ASSUME Init PROVE Inv
  OBVIOUS
<1>1. TypeInv
  BY TypeInit
<1>2. LocalOK(Idle) /\ Idle.claimed = FALSE /\ \A i \in Actions : ~Ahead(Idle, i)
  BY DEF LocalOK, Idle, Ahead, AheadAt, LoopPcs
<1>3. \A w \in Workers : run[w] = Idle
  BY DEF Init
<1>4. LocalsOK /\ ClaimsOK
  BY <1>2, <1>3 DEF LocalsOK, ClaimsOK
<1>5. \A op \in Ops : status[op] \in {"planned", "unplanned"}
                      /\ (op \in Compensations => status[op] = "unplanned")
  BY OpsAssumption DEF Init, Ops
<1>6. PlansOK /\ NoCredentialAtRest
  BY <1>5 DEF PlansOK, NoCredentialAtRest, Terminal, Ops
<1>7. \A op \in Ops, i \in Actions : writes[op][i] = 0
  BY DEF Init
<1>8. WritesOK
 <2>1. \A w \in Workers, i \in Actions : Ahead(run[w], i) => writes[run[w].op][i] = 0
   BY <1>2, <1>3
 <2>. QED BY <1>7, <2>1 DEF WritesOK, WrittenOnce
<1>. QED BY <1>1, <1>4, <1>6, <1>8 DEF Inv

LEMMA StepKeeps ==
    ASSUME Inv, [Next]_vars
    PROVE  MovesOK /\ NoCredentialAtRest' /\ RunsOK'
<1>1. CASE \E c \in Compensations : PlanCompensation(c)
 <2>1. PICK c \in Compensations : PlanCompensation(c)
   BY <1>1
 <2>2. c \in Ops /\ UNCHANGED <<cred, run, writes>>
   BY <2>1 DEF PlanCompensation, Ops, requests
 <2>3. MovesOK /\ NoCredentialAtRest'
   BY <2>1, <2>2, StatusStep DEF PlanCompensation, Unstarted, Terminal
 <2>. QED BY <2>2, <2>3, FrameStep
<1>2. CASE \E op \in Ops : Request(op)
  BY <1>2, RequestStep, FrameStep
<1>3. CASE \E w \in Workers, op \in Ops : LoadQueued(w, op)
 <2>1. MovesOK /\ RunsOK'
   BY <1>3, LoadStep
 <2>. QED BY <1>3, <2>1, CredKept DEF LoadQueued, Local, stored
<1>4. CASE \E w \in Workers : MainStep(w)
  BY <1>4, MainStepStep
<1>5. CASE \E w \in Workers : Beat(w)
 <2>1. PICK w \in Workers : Beat(w)
   BY <1>5
 <2>2. UNCHANGED <<status, cred>>
   BY <2>1 DEF Beat, RenewLease, TouchRun, BeatError, Raise, Local, stored
 <2>3. MovesOK /\ RunsOK'
   BY <2>1, RenewStep, TouchStep, BeatErrorStep DEF Beat
 <2>. QED BY <2>2, <2>3, CredKept
<1>6. CASE \E w \in Workers : Crash(w)
  BY <1>6, CrashStep
<1>7. CASE \E op \in Ops : Janitor(op)
  BY <1>7, JanitorStep, FrameStep
<1>8. CASE RemoveLapsedLease \/ UNCHANGED vars
 <2>1. UNCHANGED <<status, cred, run, writes>>
   BY <1>8 DEF RemoveLapsedLease, vars, stored
 <2>2. MovesOK /\ NoCredentialAtRest'
   BY <2>1, StillMoves, CredKept
 <2>. QED BY <2>1, <2>2, FrameStep
<1>9. CASE Tick
  BY <1>9, TickStep
<1>. QED BY <1>1, <1>2, <1>3, <1>4, <1>5, <1>6, <1>7, <1>8, <1>9 DEF Next

LEMMA InvStep == Inv /\ [Next]_vars => Inv'
<1>. SUFFICES ASSUME Inv, [Next]_vars PROVE Inv'
  OBVIOUS
<1>1. MovesOK /\ NoCredentialAtRest' /\ RunsOK'
  BY StepKeeps
<1>2. TypeInv'
  BY TypeStep DEF Inv
<1>3. PlansOK'
  BY <1>1, PlansStep
<1>. QED BY <1>1, <1>2, <1>3 DEF Inv, RunsOK

\* However many workers, deliveries and deaths, and however long a worker
\* stalls, no action of a plan reaches Mist twice: the run is claimed once, and
\* the cursor leaves an action behind with the write it may have sent.
THEOREM ActionsReachMistOnce == Spec => []WrittenOnce
<1>1. Inv => WrittenOnce
  BY DEF Inv, WritesOK
<1>. QED BY InvInit, InvStep, <1>1, PTL DEF Spec

\* Whoever closes an operation, worker, janitor, expiry job or request, drops
\* the delegated credential, and no late write of a whole document restores it.
THEOREM ClosedKeepsNoCredential == Spec => []NoCredentialAtRest
<1>1. Inv => NoCredentialAtRest
  BY DEF Inv
<1>. QED BY InvInit, InvStep, <1>1, PTL DEF Spec

\* No step of anyone reopens a closed operation: requests and the janitor write
\* over the status they read, `_persist` over the one the worker last wrote, and
\* a finished compensation marks only a restore that was compensable.
THEOREM ClosedNeverReopens == Spec => ClosedStaysClosed
<1>1. Inv /\ [Next]_vars =>
          [\A op \in Ops : status[op] \in Terminal => MayBecome(status[op], status'[op])]_vars
  BY StepKeeps DEF MovesOK
<1>. QED BY InvInit, InvStep, <1>1, PTL DEF Spec, ClosedStaysClosed

\* What the stored record of a restore says of what Mist was sent, whatever
\* time its workers take and wherever they die.

\* An action Mist applied is known from the record: at the latest when the
\* janitor turns "executing" into "unconfirmed".
StoredOK ==
    \A op \in Ops, i \in Actions : writes[op][i] > 0 =>
        \/ PossiblyApplied(acts[op][i])
        \/ status[op] = "running" /\ acts[op][i] = "executing"

\* So it is from the copy of the worker that sent it, once `_close_failed` has
\* turned "executing" into "unconfirmed".
CopyOK(r) ==
    r.claimed /\ r.pc # "exit" =>
        \A i \in Actions : writes[r.op][i] > 0 =>
            \/ PossiblyApplied(r.acts[i])
            \/ r.pc = "close" /\ r.acts[i] = "executing"

\* Before Mist is called, the record says so, unless the janitor closed the run
\* meanwhile: then it says the write may have been applied.
SaidFirst(op, i) ==
    \/ status[op] = "running" /\ acts[op][i] = "executing"
    \/ /\ PossiblyApplied(acts[op][i])
       /\ op \in Restores => status[op] \in {"compensation_available", "compensated"}
SendingOK(r) ==
    r.pc = "mist" => r.acts[r.idx] = "executing" /\ SaidFirst(r.op, r.idx)

\* What the cursor left behind is done, or found already undone.
BehindAt(pc, idx, i) ==
    \/ pc \in LoopPcs \union {"verify", "announce"} /\ idx > i
    \/ pc \in {"record", "readback", "result"} /\ idx = i
Done(op, as, i) ==
    \/ as[i] = "completed" /\ writes[op][i] = 1
    \/ as[i] = "skipped" /\ op \in Compensations
BehindOK(r) == \A i \in Actions : BehindAt(r.pc, r.idx, i) => Done(r.op, r.acts, i)

EndOK(r) ==
    /\ r.pc \in {"verify", "announce"} => r.idx = N + 1
    /\ r.pc = "announce" => status[r.op] = "compensated"

CopyFacts(r) == CopyOK(r) /\ SendingOK(r) /\ BehindOK(r) /\ EndOK(r)
CopiesOK == \A w \in Workers : CopyFacts(run[w])

Outcomes == AppliedIsReversible /\ SuccessIsComplete /\ CompensatedByAPlan

RecordInv == Inv /\ StoredOK /\ CopiesOK /\ Outcomes

\* What every step has to leave behind.
RecordOK == StoredOK /\ CopiesOK /\ Outcomes

-----------------------------------------------------------------------------
\* The steps that move no record and send nothing: only a worker's copy changes.
LEMMA CopyStep ==
    ASSUME RecordInv, UNCHANGED <<status, acts, writes>>,
           NEW w \in Workers, NEW r, Set(w, r), CopyFacts(r)
    PROVE  RecordOK'
<1>1. /\ run'[w] = r
      /\ \A v \in Workers : v # w => run'[v] = run[v]
  BY DEF Set, RecordInv, Inv, TypeInv, TypeOK
<1>2. CopiesOK'
 <2>. SUFFICES ASSUME NEW v \in Workers PROVE CopyFacts(run[v])'
   BY DEF CopiesOK
 <2>1. CASE v = w
   BY <1>1, <2>1
   DEF CopyFacts, CopyOK, SendingOK, SaidFirst, BehindOK, Done, EndOK
 <2>2. CASE v # w
   BY <1>1, <2>2
   DEF RecordInv, CopiesOK, CopyFacts, CopyOK, SendingOK, SaidFirst, BehindOK, Done, EndOK
 <2>. QED BY <2>1, <2>2
<1>3. StoredOK' /\ Outcomes'
  BY DEF RecordInv, StoredOK, Outcomes, AppliedIsReversible, SuccessIsComplete,
         CompensatedByAPlan, Written
<1>. QED BY <1>2, <1>3 DEF RecordOK

\* A status moves, but none of a run that is open or a success.
LEMMA PlanStep ==
    ASSUME RecordInv, MovesOK, UNCHANGED <<acts, run, writes>>,
           \A op \in Ops : status'[op] # status[op] =>
               /\ status[op] \in Unstarted \union {"failed"}
               /\ status'[op] \in Unstarted \union {"failed", "superseded"}
    PROVE  RecordOK'
<1>1. \A op \in Ops : status[op] \in Unstarted => \A i \in Actions : writes[op][i] = 0
  BY DEF RecordInv, Inv, WritesOK
<1>2. StoredOK'
  BY DEF RecordInv, StoredOK, Unstarted
<1>3. AppliedIsReversible'
  BY <1>1 DEF RecordInv, Outcomes, AppliedIsReversible, Written, Ops
<1>4. SuccessIsComplete' /\ CompensatedByAPlan'
  BY DEF RecordInv, Outcomes, SuccessIsComplete, CompensatedByAPlan, Unstarted, Ops
<1>5. CopiesOK'
 <2>. SUFFICES ASSUME NEW v \in Workers PROVE CopyFacts(run[v])'
   BY DEF CopiesOK
 <2>1. CopyFacts(run[v]) /\ LocalOK(run[v])
   BY DEF RecordInv, CopiesOK, Inv, LocalsOK
 <2>2. CopyOK(run[v])' /\ BehindOK(run[v])'
   BY <2>1 DEF CopyFacts, CopyOK, BehindOK, Done
 <2>3. run'[v] = run[v] /\ (run[v].pc # "idle" => run[v].op \in Ops)
   BY <2>1 DEF LocalOK
 <2>4. SendingOK(run[v])'
   BY <2>1, <2>3 DEF CopyFacts, SendingOK, SaidFirst, Unstarted
 <2>5. EndOK(run[v])'
   BY <2>1, <2>3 DEF CopyFacts, EndOK, Unstarted
 <2>. QED BY <2>2, <2>4, <2>5 DEF CopyFacts
<1>. QED BY <1>2, <1>3, <1>4, <1>5 DEF RecordOK, Outcomes

\* The janitor closes an open run: what was being sent may have been applied.
LEMMA InterruptStep ==
    ASSUME RecordInv, NEW op \in Ops, Interrupt(op)
    PROVE  RecordOK'
<1>. DEFINE as == MarkUnconfirmed(acts[op])
<1>1. PICK c \in {Compensating(op), FALSE} :
          status' = [status EXCEPT ![op] = TerminalFailureStatus(as, c)]
  BY DEF Interrupt
<1>2. /\ acts' = [acts EXCEPT ![op] = as] /\ UNCHANGED <<run, writes>>
      /\ status[op] = "running"
  BY DEF Interrupt
<1>3. /\ acts \in [Ops -> [Actions -> ActionStatuses]]
      /\ status \in [Ops -> Statuses]
      /\ \A o \in Ops, i \in Actions : writes[o][i] \in 0 .. 2
  BY DEF RecordInv, Inv, TypeInv, TypeOK
<1>4. /\ as \in [Actions -> ActionStatuses]
      /\ \A i \in Actions : as[i] = IF acts[op][i] = "executing" THEN "unconfirmed" ELSE acts[op][i]
  BY <1>3, OutcomeType DEF MarkUnconfirmed
<1>5. /\ status'[op] \in {"failed", "compensation_available"} /\ acts'[op] = as
      /\ \A o \in Ops \ {op} : status'[o] = status[o] /\ acts'[o] = acts[o]
 <2>1. TerminalFailureStatus(as, c) \in {"failed", "compensation_available"}
   BY <1>4, OutcomeType
 <2>. HIDE DEF as
 <2>. QED BY <1>1, <1>2, <1>3, <2>1
<1>6. op \in Restores => \A i \in Actions :
          PossiblyApplied(as[i]) => status'[op] = "compensation_available"
  BY <1>1, <1>3, OpsAssumption DEF TerminalFailureStatus, Compensating
<1>. HIDE DEF as
<1>7. StoredOK'
 <2>. SUFFICES ASSUME NEW o \in Ops, NEW i \in Actions, writes[o][i] > 0
               PROVE  \/ PossiblyApplied(acts'[o][i])
                      \/ status'[o] = "running" /\ acts'[o][i] = "executing"
   BY <1>2 DEF StoredOK
 <2>1. CASE o = op
   BY <1>4, <1>5, <2>1 DEF RecordInv, StoredOK, PossiblyApplied
 <2>2. CASE o # op
   BY <1>5, <2>2 DEF RecordInv, StoredOK
 <2>. QED BY <2>1, <2>2
<1>8. AppliedIsReversible'
 <2>. SUFFICES ASSUME NEW o \in Restores, NEW i \in Actions, writes[o][i] > 0
               PROVE  status'[o] \in {"running", "completed", "compensation_available",
                                      "compensated"}
   BY <1>2 DEF AppliedIsReversible, Written
 <2>1. CASE o = op
  <3>1. PossiblyApplied(as[i])
    BY <1>4, <2>1 DEF RecordInv, StoredOK, PossiblyApplied, Ops
  <3>. QED BY <1>6, <2>1, <3>1
 <2>2. CASE o # op
   BY <1>5, <2>2 DEF RecordInv, Outcomes, AppliedIsReversible, Written, Ops
 <2>. QED BY <2>1, <2>2
<1>9. SuccessIsComplete' /\ CompensatedByAPlan'
 <2>1. SuccessIsComplete'
   BY <1>2, <1>5, ZenonT(40) DEF RecordInv, Outcomes, SuccessIsComplete
 <2>2. CompensatedByAPlan'
   BY <1>2, <1>5 DEF RecordInv, Outcomes, CompensatedByAPlan, Ops
 <2>. QED BY <2>1, <2>2
<1>10. CopiesOK'
 <2>. SUFFICES ASSUME NEW v \in Workers PROVE CopyFacts(run[v])'
   BY DEF CopiesOK
 <2>1. CopyFacts(run[v]) /\ run'[v] = run[v] /\ (run[v].pc # "idle" => run[v].op \in Ops)
       /\ (run[v].pc = "mist" => run[v].idx \in Actions)
   BY <1>2 DEF RecordInv, CopiesOK, Inv, LocalsOK, LocalOK, TypeInv, CursorOK, InAction
 <2>2. CopyOK(run[v])' /\ BehindOK(run[v])'
   BY <1>2, <2>1 DEF CopyFacts, CopyOK, BehindOK, Done
 <2>3. SendingOK(run[v])'
  <3>. SUFFICES ASSUME run[v].pc = "mist" PROVE SaidFirst(run[v].op, run[v].idx)'
    BY <2>1 DEF CopyFacts, SendingOK
  <3>1. SaidFirst(run[v].op, run[v].idx) /\ run[v].op \in Ops /\ run[v].idx \in Actions
    BY <2>1 DEF CopyFacts, SendingOK
  <3>2. CASE run[v].op # op
    BY <1>5, <2>1, <3>1, <3>2 DEF SaidFirst
  <3>3. CASE run[v].op = op
   <4>1. acts[op][run[v].idx] = "executing" \/ PossiblyApplied(acts[op][run[v].idx])
     BY <3>1, <3>3 DEF SaidFirst
   <4>2. PossiblyApplied(as[run[v].idx])
     BY <1>4, <3>1, <4>1 DEF PossiblyApplied
   <4>. QED BY <1>5, <1>6, <2>1, <3>1, <3>3, <4>2 DEF SaidFirst
  <3>. QED BY <3>2, <3>3
 <2>4. EndOK(run[v])'
   BY <1>2, <1>5, <2>1 DEF CopyFacts, EndOK
 <2>. QED BY <2>2, <2>3, <2>4 DEF CopyFacts
<1>. QED BY <1>7, <1>8, <1>9, <1>10 DEF RecordOK, Outcomes

-----------------------------------------------------------------------------
\* `_persist`.

\* A worker that leaves `_run` has no copy to answer for.
LEMMA ExitFacts ==
    ASSUME NEW r, r.pc \in {"exit", "idle"}, r.pc = "idle" => ~r.claimed
    PROVE  CopyFacts(r)
  BY DEF CopyFacts, CopyOK, SendingOK, BehindOK, BehindAt, EndOK, LoopPcs

LEMMA GotoCopy ==
    ASSUME NEW r \in Locals, NEW pc \in Pcs \ {"exit"}
    PROVE  Goto(r, pc).acts = r.acts
  BY DEF Goto, Locals

\* The writer's copy becomes the record: it has to know what Mist applied.
LEMMA StoreStep ==
    ASSUME RecordInv, UNCHANGED writes,
           NEW w \in Workers, Owns(w), run[w].pc \notin {"idle", "announce"},
           NEW st \in Statuses \ (Unstarted \union {"superseded"}),
           NEW as \in [Actions -> ActionStatuses], Store(w, st, as),
           NEW r, Set(w, r), CopyFacts(run[w])',
           \A i \in Actions : writes[run[w].op][i] > 0 =>
               /\ PossiblyApplied(as[i])
               /\ run[w].op \in Restores =>
                      st \in {"running", "completed", "compensation_available"},
           st = "completed" => \A i \in Actions : writes[run[w].op][i] = 1,
           st = "compensated" =>
               /\ run[w].op \in Compensations
               /\ \A i \in Actions : writes[run[w].op][i] = 1 \/ as[i] = "skipped"
    PROVE  RecordOK'
<1>. DEFINE op == run[w].op
<1>1. op \in Ops /\ status[op] \in {"queued", "running"}
  BY DEF RecordInv, Inv, LocalsOK, LocalOK, Owns
<1>2. /\ status'[op] = st /\ acts'[op] = as
      /\ \A o \in Ops \ {op} : status'[o] = status[o] /\ acts'[o] = acts[o]
  BY <1>1 DEF Store, RecordInv, Inv, TypeInv, TypeOK
<1>3. \A v \in Workers : v # w => run'[v] = run[v]
  BY DEF Set, RecordInv, Inv, TypeInv, TypeOK
<1>. HIDE DEF op
<1>4. StoredOK'
 <2>. SUFFICES ASSUME NEW o \in Ops, NEW i \in Actions, writes[o][i] > 0
               PROVE  \/ PossiblyApplied(acts'[o][i])
                      \/ status'[o] = "running" /\ acts'[o][i] = "executing"
   BY DEF StoredOK
 <2>1. CASE o = op
   BY <1>2, <2>1 DEF op
 <2>2. CASE o # op
   BY <1>2, <2>2 DEF RecordInv, StoredOK
 <2>. QED BY <2>1, <2>2
<1>5. AppliedIsReversible'
 <2>. SUFFICES ASSUME NEW o \in Restores, NEW i \in Actions, writes[o][i] > 0
               PROVE  status'[o] \in {"running", "completed", "compensation_available",
                                      "compensated"}
   BY DEF AppliedIsReversible, Written
 <2>1. CASE o = op
   BY <1>2, <2>1 DEF op
 <2>2. CASE o # op
   BY <1>2, <2>2 DEF RecordInv, Outcomes, AppliedIsReversible, Written, Ops
 <2>. QED BY <2>1, <2>2
<1>6. SuccessIsComplete'
 <2>. SUFFICES ASSUME NEW o \in Ops, NEW i \in Actions
               PROVE  /\ status'[o] = "completed" => writes[o][i] = 1
                      /\ o \in Compensations /\ status'[o] = "compensated" =>
                            writes[o][i] = 1 \/ acts'[o][i] = "skipped"
   BY DEF SuccessIsComplete
 <2>1. CASE o = op
   BY <1>2, <2>1 DEF op
 <2>2. CASE o # op
   BY <1>2, <2>2 DEF RecordInv, Outcomes, SuccessIsComplete
 <2>. QED BY <2>1, <2>2
<1>7. CompensatedByAPlan'
 <2>. SUFFICES ASSUME NEW o \in Restores, status'[o] = "compensated"
               PROVE  \E c \in Compensations : Reverses[c] = o /\ status'[c] = "compensated"
   BY DEF CompensatedByAPlan
 <2>1. o \in Ops /\ o # op
   BY <1>2, OpsAssumption DEF Ops, op
 <2>2. PICK c \in Compensations : Reverses[c] = o /\ status[c] = "compensated"
   BY <1>2, <2>1 DEF RecordInv, Outcomes, CompensatedByAPlan
 <2>3. c # op /\ c \in Ops
   BY <1>1, <2>2 DEF Ops
 <2>. QED BY <1>2, <2>2, <2>3
<1>8. CopiesOK'
 <2>. SUFFICES ASSUME NEW v \in Workers, v # w PROVE CopyFacts(run[v])'
   BY DEF CopiesOK
 <2>1. CopyFacts(run[v]) /\ run'[v] = run[v] /\ LocalOK(run[v])
   BY <1>3 DEF RecordInv, CopiesOK, Inv, LocalsOK
 <2>2. CopyOK(run[v])' /\ BehindOK(run[v])'
   BY <2>1 DEF CopyFacts, CopyOK, BehindOK, Done
 <2>3. run[v].pc \in {"mist", "announce"} =>
           run[v].claimed /\ run[v].op \in Ops /\ run[v].op # op
   BY <2>1, StoreApart DEF LocalOK, LoopPcs, RecordInv, op
 <2>4. SendingOK(run[v])' /\ EndOK(run[v])'
   BY <1>2, <2>1, <2>3 DEF CopyFacts, SendingOK, SaidFirst, EndOK
 <2>. QED BY <2>2, <2>4 DEF CopyFacts
<1>. QED BY <1>4, <1>5, <1>6, <1>7, <1>8 DEF RecordOK, Outcomes

\* What a guarded write must know before it happens.
MayStore(w, st, as) ==
    /\ run[w].claimed => \A i \in Actions : writes[run[w].op][i] > 0 =>
           /\ PossiblyApplied(as[i])
           /\ run[w].op \in Restores =>
                  st \in {"running", "completed", "compensation_available"}
    /\ st = "completed" => \A i \in Actions : writes[run[w].op][i] = 1
    /\ st = "compensated" =>
           /\ run[w].op \in Compensations
           /\ \A i \in Actions : writes[run[w].op][i] = 1 \/ as[i] = "skipped"

LEMMA PersistRecord ==
    ASSUME RecordInv, NEW w \in Workers, run[w].pc \notin {"idle", "announce"},
           NEW st \in Statuses \ (Unstarted \union {"superseded"}),
           NEW as \in [Actions -> ActionStatuses],
           NEW next \in {"acquire", "mist", "readback", "result", "announce", "exit"},
           NEW onError \in {"close", "exit"},
           MayStore(w, st, as),
           next = "mist" => /\ st = "running" /\ as[run[w].idx] = "executing"
                            /\ run[w].idx \in Actions,
           next = "announce" => run[w].idx = N + 1 /\ st = "compensated",
           \A i \in Actions : BehindAt(next, run[w].idx, i) => Done(run[w].op, as, i),
           Persist(w, st, as, next, onError)
    PROVE  RecordOK'
<1>. DEFINE r == [run[w] EXCEPT !.acts = as]
            ok == [r EXCEPT !.own = st, !.claimed = TRUE]
            refused == [r EXCEPT !.lost = TRUE]
<1>1. run[w] \in Locals /\ LocalOK(run[w]) /\ run[w].op \in Ops
  BY DEF RecordInv, Inv, TypeInv, TypeOK, LocalsOK, LocalOK
<1>2. /\ r \in Locals /\ r.op = run[w].op /\ r.claimed = run[w].claimed
      /\ r.idx = run[w].idx /\ r.acts = as
  BY <1>1 DEF Locals
<1>3. /\ ok \in Locals /\ ok.op = run[w].op /\ ok.claimed = TRUE
      /\ ok.idx = run[w].idx /\ ok.acts = as
  BY <1>2 DEF Locals
<1>4. refused \in Locals
  BY <1>2 DEF Locals
<1>5. UNCHANGED writes
  BY DEF Persist
<1>6. \A g : Set(w, g) => run'[w] = g
  BY DEF Set, RecordInv, Inv, TypeInv, TypeOK
<1>7. Owns(w) => \A i \in Actions : writes[run[w].op][i] > 0 =>
          /\ PossiblyApplied(as[i])
          /\ run[w].op \in Restores =>
                 st \in {"running", "completed", "compensation_available"}
 <2>1. CASE run[w].claimed
   BY <2>1 DEF MayStore
 <2>2. CASE ~run[w].claimed
   BY <1>1, <2>2 DEF LocalOK, Owns, RecordInv, Inv, WritesOK, Unstarted
 <2>. QED BY <2>1, <2>2
<1>8. /\ "exit" \in Pcs /\ onError \in Pcs /\ next \in Pcs
      /\ \A q \in Locals : Goto(q, "exit").pc = "exit"
      /\ \A q \in Locals : onError = "close" =>
             /\ Goto(q, onError).pc = "close" /\ Goto(q, onError).op = q.op
             /\ Goto(q, onError).claimed = q.claimed /\ Goto(q, onError).acts = q.acts
      /\ \A q \in Locals : next # "exit" =>
             /\ Goto(q, next).op = q.op /\ Goto(q, next).idx = q.idx
             /\ Goto(q, next).acts = q.acts
  BY GotoFields, GotoCopy DEF Pcs
<1>. HIDE DEF r, ok, refused
<1>9. CASE UNCHANGED stored /\ Set(w, Goto(refused, "exit"))
  BY <1>4, <1>5, <1>8, <1>9, ExitFacts, CopyStep DEF stored
<1>10. CopyFacts(Goto(r, onError))
 <2>1. CASE onError = "exit"
   BY <1>2, <1>8, <2>1, ExitFacts
 <2>2. CASE onError = "close"
  <3>. DEFINE g == Goto(r, onError)
  <3>1. /\ g.pc = "close" /\ g.op = run[w].op /\ g.claimed = run[w].claimed
        /\ g.acts = as
    BY <1>2, <1>8, <2>2
  <3>. HIDE DEF g
  <3>2. CopyOK(g)
    BY <3>1 DEF CopyOK, MayStore
  <3>3. SendingOK(g) /\ BehindOK(g) /\ EndOK(g)
    BY <3>1 DEF SendingOK, BehindOK, BehindAt, EndOK, LoopPcs
  <3>. QED BY <3>2, <3>3 DEF CopyFacts, g
 <2>. QED BY <2>1, <2>2
<1>11. CASE UNCHANGED stored /\ Set(w, Goto(r, onError))
  BY <1>5, <1>10, <1>11, CopyStep DEF stored
<1>12. CASE Owns(w) /\ Store(w, st, as) /\ Set(w, Goto(r, onError))
 <2>1. Goto(r, onError).pc \in {"close", "exit"}
   BY <1>2, <1>8
 <2>2. CopyFacts(run[w])'
   BY <1>5, <1>6, <1>10, <1>12, <2>1
   DEF CopyFacts, CopyOK, SendingOK, BehindOK, BehindAt, EndOK, LoopPcs
 <2>. QED BY <1>5, <1>7, <1>12, <2>2, StoreStep DEF MayStore
<1>13. CASE Owns(w) /\ Store(w, st, as) /\ Set(w, Goto(ok, next))
 <2>1. status'[run[w].op] = st /\ acts'[run[w].op] = as
   BY <1>1, <1>13 DEF Store, RecordInv, Inv, TypeInv, TypeOK
 <2>2. run'[w] = Goto(ok, next) /\ run'[w].pc = next
   BY <1>3, <1>6, <1>8, <1>13, GotoFields
 <2>3. CopyFacts(run[w])'
  <3>1. CASE next = "exit"
    BY <2>2, <3>1 DEF CopyFacts, CopyOK, SendingOK, BehindOK, BehindAt, EndOK, LoopPcs
  <3>2. CASE next # "exit"
   <4>1. /\ run'[w].op = run[w].op /\ run'[w].idx = run[w].idx
         /\ run'[w].acts = as
    <5>1. /\ Goto(ok, next).op = ok.op /\ Goto(ok, next).idx = ok.idx
          /\ Goto(ok, next).acts = ok.acts
      BY <1>3, <1>8, <3>2
    <5>. QED BY <1>3, <2>2, <5>1
   <4>2. CopyOK(run[w])'
     BY <1>5, <1>7, <1>13, <4>1 DEF CopyOK
   <4>3. SendingOK(run[w])' /\ EndOK(run[w])'
     BY <2>1, <2>2, <4>1 DEF SendingOK, SaidFirst, EndOK
   <4>4. BehindOK(run[w])'
     BY <1>5, <2>2, <4>1 DEF BehindOK, Done
   <4>. QED BY <4>2, <4>3, <4>4 DEF CopyFacts
  <3>. QED BY <3>1, <3>2
 <2>. QED BY <1>5, <1>7, <1>13, <2>3, StoreStep DEF MayStore
<1>. QED BY <1>9, <1>11, <1>12, <1>13 DEF Persist, r, ok, refused

-----------------------------------------------------------------------------
\* The other steps of a worker.

LEMMA GoCopy ==
    ASSUME RecordInv, UNCHANGED <<status, acts, writes>>, NEW w \in Workers,
           NEW r \in Locals, NEW pc \in Pcs \ {"idle", "mist", "announce", "verify"},
           \A i \in Actions : r.claimed /\ writes[r.op][i] > 0 =>
               PossiblyApplied(r.acts[i]) \/ (pc = "close" /\ r.acts[i] = "executing"),
           \A i \in Actions : BehindAt(pc, r.idx, i) => Done(r.op, r.acts, i),
           Set(w, Goto(r, pc))
    PROVE  RecordOK'
<1>1. CASE pc = "exit"
 <2>1. Goto(r, pc).pc = "exit"
   BY <1>1, GotoFields
 <2>. QED BY <2>1, ExitFacts, CopyStep
<1>2. CASE pc # "exit"
 <2>. DEFINE g == Goto(r, pc)
 <2>1. /\ g.pc = pc /\ g.op = r.op /\ g.claimed = r.claimed /\ g.idx = r.idx
       /\ g.acts = r.acts
   BY <1>2, GotoFields, GotoCopy
 <2>. HIDE DEF g
 <2>2. CopyOK(g)
   BY <2>1 DEF CopyOK
 <2>3. BehindOK(g)
   BY <2>1 DEF BehindOK
 <2>4. SendingOK(g) /\ EndOK(g)
   BY <2>1 DEF SendingOK, EndOK
 <2>5. CopyFacts(g)
   BY <2>2, <2>3, <2>4 DEF CopyFacts
 <2>. QED BY <2>5, CopyStep DEF g
<1>. QED BY <1>1, <1>2

\* What a worker knows where it is.
LEMMA CopyHere ==
    ASSUME RecordInv, NEW w \in Workers, run[w].pc # "exit"
    PROVE  /\ run[w] \in Locals /\ CopyFacts(run[w]) /\ LocalOK(run[w])
           /\ InAction(run[w].pc) => run[w].idx \in Actions
           /\ \A i \in Actions : run[w].claimed /\ writes[run[w].op][i] > 0 =>
                  PossiblyApplied(run[w].acts[i])
                  \/ (run[w].pc = "close" /\ run[w].acts[i] = "executing")
           /\ \A i \in Actions : Ahead(run[w], i) => writes[run[w].op][i] = 0
           /\ \A i \in Actions : BehindAt(run[w].pc, run[w].idx, i) =>
                  Done(run[w].op, run[w].acts, i)
<1>1. /\ run[w] \in Locals /\ CopyFacts(run[w]) /\ LocalOK(run[w])
      /\ InAction(run[w].pc) => run[w].idx \in Actions
  BY DEF RecordInv, Inv, TypeInv, TypeOK, CursorOK, LocalsOK, CopiesOK
<1>2. \A i \in Actions : Ahead(run[w], i) => writes[run[w].op][i] = 0
  BY DEF RecordInv, Inv, WritesOK
<1>. QED BY <1>1, <1>2 DEF CopyFacts, CopyOK, BehindOK

\* Out of the loop, by an error that left the copy as it was.
LEMMA LeaveCopy ==
    ASSUME RecordInv, UNCHANGED <<status, acts, writes>>, NEW w \in Workers,
           run[w].pc \notin {"idle", "exit", "close"},
           NEW r \in Locals, r.op = run[w].op, r.claimed = run[w].claimed,
           r.acts = run[w].acts,
           NEW pc \in {"capture", "fail", "close", "exit"}, Set(w, Goto(r, pc))
    PROVE  RecordOK'
<1>1. \A i \in Actions : run[w].claimed /\ writes[run[w].op][i] > 0 =>
          PossiblyApplied(run[w].acts[i])
  BY CopyHere
<1>2. \A i \in Actions : ~BehindAt(pc, r.idx, i)
  BY DEF BehindAt, LoopPcs
<1>3. pc \in Pcs \ {"idle", "mist", "announce", "verify"}
  BY DEF Pcs
<1>. QED BY <1>1, <1>2, <1>3, GoCopy

\* The copy and the place are the same: only beats, marks and ages differ.
LEMMA SameCopy ==
    ASSUME RecordInv, UNCHANGED <<status, acts, writes>>, NEW w \in Workers,
           NEW r, r.pc = run[w].pc, r.op = run[w].op, r.claimed = run[w].claimed,
           r.idx = run[w].idx, r.acts = run[w].acts, Set(w, r)
    PROVE  RecordOK'
<1>1. CopyFacts(run[w])
  BY DEF RecordInv, CopiesOK
<1>2. CopyFacts(r)
  BY <1>1 DEF CopyFacts, CopyOK, SendingOK, BehindOK, EndOK
<1>. QED BY <1>2, CopyStep

\* The worker is gone, or has not begun.
LEMMA IdleCopy ==
    ASSUME RecordInv, UNCHANGED <<status, acts, writes>>, NEW w \in Workers, Set(w, Idle)
    PROVE  RecordOK'
<1>1. Idle.pc = "idle" /\ ~Idle.claimed
  BY DEF Idle
<1>. QED BY <1>1, ExitFacts, CopyStep

\* Answers about the action at the cursor, before the next guarded write.
LEMMA AnswerCopy ==
    ASSUME RecordInv, UNCHANGED <<status, acts, writes>>, NEW w \in Workers,
           NEW a \in ActionStatuses,
           \/ run[w].pc = "check"
           \/ run[w].pc = "readback" /\ a = "unconfirmed",
           Set(w, Now(w, a, "fail"))
    PROVE  RecordOK'
<1>. DEFINE r == [run[w] EXCEPT !.acts[run[w].idx] = a]
<1>1. /\ run[w] \in Locals /\ run[w].idx \in Actions
      /\ \A i \in Actions : run[w].claimed /\ writes[run[w].op][i] > 0 =>
             PossiblyApplied(run[w].acts[i])
      /\ run[w].pc = "check" => writes[run[w].op][run[w].idx] = 0
  BY CopyHere DEF InAction, Ahead, AheadAt, LoopPcs
<1>2. /\ r \in Locals /\ r.op = run[w].op /\ r.claimed = run[w].claimed
      /\ r.acts = [run[w].acts EXCEPT ![run[w].idx] = a]
  BY <1>1 DEF Locals
<1>3. Set(w, Goto(r, "fail"))
  BY DEF Now
<1>. HIDE DEF r
<1>4. \A i \in Actions : r.claimed /\ writes[r.op][i] > 0 => PossiblyApplied(r.acts[i])
  BY <1>1, <1>2 DEF PossiblyApplied, Locals
<1>5. /\ \A i \in Actions : ~BehindAt("fail", r.idx, i)
      /\ "fail" \in Pcs \ {"idle", "mist", "announce", "verify"}
  BY DEF BehindAt, LoopPcs, Pcs
<1>. QED BY <1>2, <1>3, <1>4, <1>5, GoCopy

\* The cursor leaves an action that is done.
LEMMA NextActionCopy ==
    ASSUME RecordInv, NEW w \in Workers, RecordResult(w)
    PROVE  RecordOK'
<1>1. /\ run[w].pc = "result" /\ UNCHANGED <<status, acts, writes>>
  BY DEF RecordResult, At, Local, stored
<1>2. /\ run[w] \in Locals /\ run[w].idx \in Actions /\ CopyFacts(run[w])
      /\ \A i \in Actions : BehindAt("result", run[w].idx, i) =>
             Done(run[w].op, run[w].acts, i)
  BY <1>1, CopyHere DEF InAction
<1>3. CASE Set(w, Goto(run[w], "fail"))
  BY <1>1, <1>2, <1>3, LeaveCopy
<1>4. CASE Set(w, [Goto(run[w], "beat") EXCEPT !.idx = @ + 1,
                                               !.age = IF run[w].idx = N THEN 0 ELSE @])
 <2>. DEFINE g == [Goto(run[w], "beat") EXCEPT !.idx = @ + 1,
                             !.age = IF run[w].idx = N THEN 0 ELSE @]
 <2>1. /\ g.pc = "beat" /\ g.op = run[w].op /\ g.claimed = run[w].claimed
       /\ g.idx = run[w].idx + 1 /\ g.acts = run[w].acts
   BY <1>2 DEF Goto, Locals
 <2>2. Set(w, g)
   BY <1>4
 <2>. HIDE DEF g
 <2>3. \A i \in Actions : BehindAt("beat", g.idx, i) => BehindAt("result", run[w].idx, i)
   BY <1>2, <2>1 DEF BehindAt, LoopPcs, Actions
 <2>4. BehindOK(g)
   BY <1>2, <2>1, <2>3 DEF BehindOK
 <2>5. CopyOK(g) /\ SendingOK(g) /\ EndOK(g)
   BY <1>1, <1>2, <2>1 DEF CopyFacts, CopyOK, SendingOK, EndOK
 <2>. QED BY <1>1, <2>2, <2>4, <2>5, CopyStep DEF CopyFacts
<1>. QED BY <1>3, <1>4 DEF RecordResult, Local

LEMMA LoseCopy ==
    ASSUME RecordInv, UNCHANGED <<status, acts, writes>>, NEW w \in Workers,
           NEW who \in {"main", "task"}, run[w].pc \in BeatPcs, Lose(w, who)
    PROVE  RecordOK'
<1>. DEFINE r == [run[w] EXCEPT !.lost = TRUE, !.beat = "none", !.half = 0]
<1>1. run[w] \in Locals /\ run[w].pc \notin {"idle", "exit", "close"}
  BY DEF RecordInv, Inv, TypeInv, TypeOK, BeatPcs
<1>2. /\ r \in Locals /\ r.pc = run[w].pc /\ r.op = run[w].op
      /\ r.claimed = run[w].claimed /\ r.idx = run[w].idx /\ r.acts = run[w].acts
  BY <1>1, Bounds DEF Locals
<1>3. Set(w, IF who = "main" THEN Goto(r, "exit") ELSE r)
  BY DEF Lose
<1>. HIDE DEF r
<1>4. CASE who = "main"
  BY <1>1, <1>2, <1>3, <1>4, LeaveCopy
<1>5. CASE who = "task"
  BY <1>2, <1>3, <1>5, SameCopy
<1>. QED BY <1>4, <1>5

LEMMA BeatCopy ==
    ASSUME RecordInv, NEW w \in Workers, Beat(w)
    PROVE  RecordOK'
<1>1. run[w] \in Locals /\ LocalOK(run[w])
  BY DEF RecordInv, Inv, TypeInv, TypeOK, LocalsOK
<1>2. UNCHANGED <<status, acts, writes>>
  BY DEF Beat, RenewLease, TouchRun, BeatError, Raise, Local, stored
<1>3. ASSUME NEW who \in {"main", "task"}, RenewLease(w, who)
      PROVE  RecordOK'
 <2>1. run[w].pc \in BeatPcs
   BY <1>3 DEF RenewLease, Beating, At, BeatPcs, Pcs
 <2>2. CASE Set(w, [run[w] EXCEPT !.beat = who, !.half = 0])
  <3>. DEFINE g == [run[w] EXCEPT !.beat = who, !.half = 0]
  <3>1. /\ g.pc = run[w].pc /\ g.op = run[w].op /\ g.claimed = run[w].claimed
        /\ g.idx = run[w].idx /\ g.acts = run[w].acts
    BY <1>1 DEF Locals
  <3>. HIDE DEF g
  <3>. QED BY <1>2, <2>2, <3>1, SameCopy DEF g
 <2>3. CASE Lose(w, who)
   BY <1>2, <2>1, <2>3, LoseCopy
 <2>. QED BY <1>3, <2>2, <2>3 DEF RenewLease
<1>4. CASE TouchRun(w)
 <2>. DEFINE who == run[w].beat
             a == IF Writing(w) \/ (who = "main" /\ run[w].idx = 0)
                  THEN run[w].half ELSE 0
             r == [run[w] EXCEPT !.beat = "none", !.half = 0, !.age = a]
 <2>1. who \in {"main", "task"} /\ run[w].pc \in BeatPcs /\ (who = "main" => run[w].pc = "beat")
   BY <1>1, <1>4 DEF TouchRun, Unlocked, Locals, LocalOK
 <2>2. /\ r.pc = run[w].pc /\ r.op = run[w].op /\ r.claimed = run[w].claimed
       /\ r.idx = run[w].idx /\ r.acts = run[w].acts
       /\ \A j : [r EXCEPT !.idx = j].pc = run[w].pc
   BY <1>1 DEF Locals
 <2>3. \/ Set(w, IF who = "main" THEN AfterBeat(r) ELSE r)
       \/ Lose(w, who)
   BY <1>4 DEF TouchRun
 <2>. HIDE DEF r
 <2>4. CASE Lose(w, who)
   BY <1>2, <2>1, <2>4, LoseCopy
 <2>5. CASE Set(w, r)
   BY <1>2, <2>2, <2>5, SameCopy
 <2>6. CASE Set(w, AfterBeat(r)) /\ who = "main"
  <3>. DEFINE g == AfterBeat(r)
  <3>1. run[w].pc = "beat" /\ CopyFacts(run[w]) /\ run[w].idx \in 0 .. N + 1
    BY <1>1, <2>1, <2>6, CopyHere DEF Locals
  <3>2. /\ g.op = run[w].op /\ g.claimed = run[w].claimed /\ g.acts = run[w].acts
        /\ \/ g.pc = "beat" /\ run[w].idx = 0 /\ g.idx = 1
           \/ g.pc = "check" /\ g.idx = run[w].idx
           \/ g.pc = "verify" /\ g.idx = run[w].idx /\ g.idx = N + 1
   <4>. DEFINE f == [pc : Pcs, op : Ops \union {NoOp}, own : Statuses,
          acts : [Actions -> ActionStatuses], idx : 0 .. N + 1,
          claimed : BOOLEAN, leasing : BOOLEAN, lost : BOOLEAN,
          beat : {"none", "task", "main"}, age : 0 .. MaxStall, half : 0 .. MaxStall]
   <4>1. a \in 0 .. MaxStall
     BY <1>1, Bounds DEF Locals
   <4>2. r \in f
     BY <1>1, <4>1, Bounds DEF Locals, r
   <4>. QED BY <2>2, <3>1, <4>2, PlanAssumption DEF AfterBeat, Actions
  <3>. HIDE DEF g
  <3>3. \A i \in Actions : BehindAt(g.pc, g.idx, i) => BehindAt("beat", run[w].idx, i)
    BY <3>1, <3>2 DEF BehindAt, LoopPcs, Actions
  <3>4. BehindOK(g)
    BY <3>1, <3>2, <3>3 DEF CopyFacts, BehindOK
  <3>5. CopyOK(g) /\ SendingOK(g) /\ EndOK(g)
    BY <3>1, <3>2 DEF CopyFacts, CopyOK, SendingOK, EndOK
  <3>. QED BY <1>2, <2>6, <3>4, <3>5, CopyStep DEF CopyFacts, g
 <2>. QED BY <2>1, <2>3, <2>4, <2>5, <2>6
<1>5. CASE BeatError(w)
 <2>1. CASE Set(w, [run[w] EXCEPT !.beat = "none", !.half = 0])
  <3>. DEFINE g == [run[w] EXCEPT !.beat = "none", !.half = 0]
  <3>1. /\ g.pc = run[w].pc /\ g.op = run[w].op /\ g.claimed = run[w].claimed
        /\ g.idx = run[w].idx /\ g.acts = run[w].acts
    BY <1>1 DEF Locals
  <3>. HIDE DEF g
  <3>. QED BY <1>2, <2>1, <3>1, SameCopy DEF g
 <2>2. CASE At(w, "beat") /\ Set(w, Goto(run[w], "close"))
   BY <1>1, <1>2, <2>2, LeaveCopy DEF At
 <2>. QED BY <1>5, <2>1, <2>2 DEF BeatError, Raise, Local
<1>. QED BY <1>3, <1>4, <1>5 DEF Beat

\* The write lands: the record and the worker's copy already speak of it.
LEMMA MistRecord ==
    ASSUME RecordInv, UNCHANGED <<status, acts>>, WritesOK', NEW w \in Workers,
           run[w].pc = "mist", Apply(run[w].op, run[w].idx),
           NEW r, Set(w, r), r.pc \in {"record", "fail", "close", "idle"},
           r.pc = "idle" => ~r.claimed,
           r.pc # "idle" =>
               /\ r.op = run[w].op /\ r.idx = run[w].idx
               /\ \A i \in Actions \ {run[w].idx} : r.acts[i] = run[w].acts[i],
           r.pc = "record" => r.acts[run[w].idx] = "completed",
           r.pc = "fail" => r.acts[run[w].idx] = "unconfirmed",
           r.pc = "close" => r.acts[run[w].idx] = "executing"
    PROVE  RecordOK'
<1>. DEFINE op == run[w].op
            n == run[w].idx
<1>1. /\ op \in Ops /\ n \in Actions /\ run[w].claimed
      /\ CopyFacts(run[w]) /\ SaidFirst(op, n)
      /\ \A i \in Actions \ {n} : writes[op][i] > 0 => PossiblyApplied(run[w].acts[i])
      /\ \A i \in Actions : BehindAt("mist", n, i) => Done(op, run[w].acts, i)
      /\ writes[op][n] = 0
  BY CopyHere DEF LocalOK, LoopPcs, InAction, Ahead, AheadAt, CopyFacts, SendingOK
<1>2. /\ writes'[op][n] = 1
      /\ \A o \in Ops, i \in Actions : o # op \/ i # n => writes'[o][i] = writes[o][i]
  BY <1>1 DEF Apply, RecordInv, Inv, TypeInv, TypeOK
<1>3. /\ run'[w] = r
      /\ \A v \in Workers : v # w => run'[v] = run[v]
  BY DEF Set, RecordInv, Inv, TypeInv, TypeOK
<1>. HIDE DEF op, n
<1>4. StoredOK'
 <2>. SUFFICES ASSUME NEW o \in Ops, NEW i \in Actions, writes'[o][i] > 0
               PROVE  \/ PossiblyApplied(acts[o][i])
                      \/ status[o] = "running" /\ acts[o][i] = "executing"
   BY DEF StoredOK
 <2>1. CASE o = op /\ i = n
   BY <1>1, <2>1 DEF SaidFirst
 <2>2. CASE ~(o = op /\ i = n)
   BY <1>2, <2>2 DEF RecordInv, StoredOK
 <2>. QED BY <2>1, <2>2
<1>5. AppliedIsReversible'
 <2>. SUFFICES ASSUME NEW o \in Restores, NEW i \in Actions, writes'[o][i] > 0
               PROVE  status[o] \in {"running", "completed", "compensation_available",
                                     "compensated"}
   BY DEF AppliedIsReversible, Written
 <2>1. CASE o = op /\ i = n
   BY <1>1, <2>1 DEF SaidFirst
 <2>2. CASE ~(o = op /\ i = n)
   BY <1>2, <2>2 DEF RecordInv, Outcomes, AppliedIsReversible, Written, Ops
 <2>. QED BY <2>1, <2>2
<1>6. SuccessIsComplete' /\ CompensatedByAPlan'
 <2>1. SuccessIsComplete'
   BY <1>1, <1>2 DEF RecordInv, Outcomes, SuccessIsComplete
 <2>2. CompensatedByAPlan'
   BY DEF RecordInv, Outcomes, CompensatedByAPlan
 <2>. QED BY <2>1, <2>2
<1>7. \A o \in Ops, i \in Actions : writes[o][i] = 1 => writes'[o][i] = 1
  BY <1>1, <1>2
<1>8. ASSUME NEW v \in Workers, v # w
      PROVE  CopyFacts(run[v])'
 <2>1. CopyFacts(run[v]) /\ run'[v] = run[v] /\ LocalOK(run[v])
   BY <1>3, <1>8 DEF RecordInv, CopiesOK, Inv, LocalsOK
 <2>2. run[v].claimed => run[v].op \in Ops /\ run[v].op # op
   BY <1>1, <1>8 DEF RecordInv, Inv, ClaimsOK, op
 <2>3. CopyOK(run[v])'
   BY <1>2, <2>1, <2>2 DEF CopyFacts, CopyOK
 <2>4. BehindOK(run[v])'
   BY <1>7, <2>1 DEF CopyFacts, BehindOK, BehindAt, Done, LocalOK, LoopPcs
 <2>5. SendingOK(run[v])' /\ EndOK(run[v])'
   BY <2>1 DEF CopyFacts, SendingOK, SaidFirst, EndOK
 <2>. QED BY <2>3, <2>4, <2>5 DEF CopyFacts
<1>9. CopyFacts(run[w])'
 <2>1. CASE r.pc = "idle"
   BY <1>3, <2>1
   DEF CopyFacts, CopyOK, SendingOK, BehindOK, BehindAt, EndOK, LoopPcs
 <2>2. CASE r.pc # "idle"
  <3>1. /\ r.op = op /\ r.idx = n
        /\ \A i \in Actions \ {n} : r.acts[i] = run[w].acts[i]
        /\ r.pc = "record" => r.acts[n] = "completed"
        /\ r.pc = "fail" => r.acts[n] = "unconfirmed"
        /\ r.pc = "close" => r.acts[n] = "executing"
    BY <2>2 DEF op, n
  <3>2. CopyOK(run[w])'
   <4>. SUFFICES ASSUME NEW i \in Actions, writes'[op][i] > 0
                 PROVE  PossiblyApplied(r.acts[i]) \/ (r.pc = "close" /\ r.acts[i] = "executing")
     BY <1>3, <3>1 DEF CopyOK
   <4>1. CASE i = n
     BY <2>2, <3>1, <4>1 DEF PossiblyApplied
   <4>2. CASE i # n
     BY <1>1, <1>2, <3>1, <4>2
   <4>. QED BY <4>1, <4>2
  <3>3. BehindOK(run[w])'
   <4>. SUFFICES ASSUME NEW i \in Actions, BehindAt(r.pc, n, i)
                 PROVE  \/ r.acts[i] = "completed" /\ writes'[op][i] = 1
                        \/ r.acts[i] = "skipped" /\ op \in Compensations
     BY <1>3, <3>1 DEF BehindOK, Done
   <4>1. CASE i = n
     BY <1>2, <3>1, <4>1 DEF BehindAt, LoopPcs, Actions
   <4>2. CASE i # n
    <5>1. BehindAt("mist", n, i)
      BY <4>2 DEF BehindAt, LoopPcs
    <5>. QED BY <1>1, <1>7, <3>1, <4>2, <5>1 DEF Done
   <4>. QED BY <4>1, <4>2
  <3>4. SendingOK(run[w])' /\ EndOK(run[w])'
    BY <1>3, <2>2 DEF SendingOK, EndOK
  <3>. QED BY <3>2, <3>3, <3>4 DEF CopyFacts
 <2>. QED BY <2>1, <2>2
<1>. QED BY <1>4, <1>5, <1>6, <1>8, <1>9 DEF RecordOK, Outcomes, CopiesOK

LEMMA MistWriteRecord ==
    ASSUME RecordInv, NEW w \in Workers, MistWrite(w), WritesOK'
    PROVE  RecordOK'
<1>1. /\ run[w].pc = "mist" /\ UNCHANGED <<status, acts>>
  BY DEF MistWrite, At, stored
<1>2. /\ run[w] \in Locals /\ run[w].idx \in Actions /\ run[w].claimed
      /\ run[w].acts[run[w].idx] = "executing"
      /\ \A i \in Actions : writes[run[w].op][i] > 0 => PossiblyApplied(run[w].acts[i])
      /\ \A i \in Actions : BehindAt("mist", run[w].idx, i) => Done(run[w].op, run[w].acts, i)
      /\ writes[run[w].op][run[w].idx] = 0
  BY <1>1, CopyHere DEF LocalOK, LoopPcs, InAction, Ahead, AheadAt, CopyFacts, SendingOK
<1>3. ASSUME NEW a \in {"completed", "failed", "unconfirmed"},
             NEW pc \in {"record", "fail"}, Set(w, Now(w, a, pc)),
             \/ UNCHANGED writes /\ pc = "fail"
             \/ Apply(run[w].op, run[w].idx) /\ pc = "record" /\ a = "completed"
             \/ Apply(run[w].op, run[w].idx) /\ pc = "fail" /\ a = "unconfirmed"
      PROVE  RecordOK'
 <2>. DEFINE r == [run[w] EXCEPT !.acts[run[w].idx] = a]
             g == Goto(r, pc)
 <2>1. /\ r \in Locals /\ r.op = run[w].op /\ r.claimed = run[w].claimed
       /\ r.idx = run[w].idx /\ r.acts = [run[w].acts EXCEPT ![run[w].idx] = a]
   BY <1>2 DEF Locals, ActionStatuses
 <2>2. Set(w, Goto(r, pc))
   BY <1>3 DEF Now
 <2>. HIDE DEF r
 <2>3. pc \in Pcs /\ pc # "exit"
   BY DEF Pcs
 <2>4. /\ g.pc = pc /\ g.op = run[w].op /\ g.idx = run[w].idx /\ g.acts = r.acts
   BY <2>1, <2>3, GotoFields, GotoCopy
 <2>5. CASE UNCHANGED writes /\ pc = "fail"
  <3>1. \A i \in Actions : r.claimed /\ writes[r.op][i] > 0 => PossiblyApplied(r.acts[i])
    BY <1>2, <2>1 DEF PossiblyApplied, Locals
  <3>2. \A i \in Actions : ~BehindAt(pc, r.idx, i)
    BY <2>5 DEF BehindAt, LoopPcs
  <3>3. pc \in Pcs \ {"idle", "mist", "announce", "verify"}
    BY <2>3
  <3>. QED BY <1>1, <2>1, <2>2, <2>5, <3>1, <3>2, <3>3, GoCopy
 <2>6. CASE Apply(run[w].op, run[w].idx)
  <3>1. /\ \A i \in Actions \ {run[w].idx} : g.acts[i] = run[w].acts[i]
        /\ g.acts[run[w].idx] = a
    BY <1>2, <2>1, <2>4 DEF Locals
  <3>2. (pc = "record" => a = "completed") /\ (pc = "fail" => a = "unconfirmed")
   <4>1. run[w].op \in Ops
     BY <1>1 DEF RecordInv, Inv, LocalsOK, LocalOK
   <4>2. writes'[run[w].op][run[w].idx] = 1
     BY <1>2, <2>6, <4>1 DEF Apply, RecordInv, Inv, TypeInv, TypeOK
   <4>. QED BY <1>2, <1>3, <4>2
  <3>. HIDE DEF g
  <3>3. Set(w, g)
    BY <2>2 DEF g
  <3>. QED BY <1>1, <2>4, <2>6, <3>1, <3>2, <3>3, MistRecord
 <2>. QED BY <1>3, <2>5, <2>6
<1>4. CASE Set(w, Goto(run[w], "close")) /\ UNCHANGED writes
  BY <1>1, <1>2, <1>4, LeaveCopy
<1>5. CASE Set(w, Goto(run[w], "close")) /\ Apply(run[w].op, run[w].idx)
 <2>. DEFINE g == Goto(run[w], "close")
 <2>1. g.pc = "close" /\ g.op = run[w].op /\ g.idx = run[w].idx /\ g.acts = run[w].acts
   BY <1>2, GotoFields, GotoCopy DEF Pcs
 <2>2. Set(w, g)
   BY <1>5
 <2>. HIDE DEF g
 <2>. QED BY <1>1, <1>2, <1>5, <2>1, <2>2, MistRecord
<1>. QED BY <1>3, <1>4, <1>5 DEF MistWrite

LEMMA CrashRecord ==
    ASSUME RecordInv, NEW w \in Workers, Crash(w), WritesOK'
    PROVE  RecordOK'
<1>1. UNCHANGED <<status, acts>> /\ Set(w, Idle)
  BY DEF Crash, stored
<1>2. CASE UNCHANGED writes
  BY <1>1, <1>2, IdleCopy
<1>3. CASE At(w, "mist") /\ Apply(run[w].op, run[w].idx)
 <2>1. Idle.pc = "idle" /\ ~Idle.claimed
   BY DEF Idle
 <2>. QED BY <1>1, <1>3, <2>1, MistRecord DEF At
<1>. QED BY <1>2, <1>3 DEF Crash

\* A compensation that ended well marks the restore it reversed.
LEMMA AnnounceRecord ==
    ASSUME RecordInv, NEW w \in Workers, Announce(w)
    PROVE  RecordOK'
<1>. DEFINE o == Reverses[run[w].op]
<1>1. run[w] \in Locals /\ LocalOK(run[w]) /\ CopyFacts(run[w]) /\ run[w].pc = "announce"
  BY DEF Announce, At, RecordInv, Inv, TypeInv, TypeOK, LocalsOK, CopiesOK
<1>2. /\ run[w].op \in Compensations /\ status[run[w].op] = "compensated"
      /\ o \in Restores /\ o # run[w].op
  BY <1>1, OpsAssumption DEF LocalOK, CopyFacts, EndOK
<1>3. UNCHANGED <<acts, writes>> /\ Set(w, Goto(run[w], "exit"))
  BY DEF Announce
<1>4. CASE UNCHANGED status
  BY <1>1, <1>3, <1>4, LeaveCopy
<1>5. CASE status' = [status EXCEPT ![o] = "compensated"]
 <2>. HIDE DEF o
 <2>1. /\ status'[o] = "compensated"
       /\ \A q \in Ops \ {o} : status'[q] = status[q]
   BY <1>2, <1>5 DEF RecordInv, Inv, TypeInv, TypeOK, Ops
 <2>2. status[o] \in {"compensation_available", "compensated"}
   BY <1>2 DEF RecordInv, Inv, PlansOK, o
 <2>3. /\ run'[w].pc = "exit"
       /\ \A v \in Workers : v # w => run'[v] = run[v]
   BY <1>1, <1>3, GotoFields DEF Set, RecordInv, Inv, TypeInv, TypeOK, Pcs
 <2>4. StoredOK'
   BY <1>3, <2>1, <2>2 DEF RecordInv, StoredOK
 <2>5. AppliedIsReversible'
   BY <1>3, <2>1 DEF RecordInv, Outcomes, AppliedIsReversible, Written, Ops
 <2>6. SuccessIsComplete'
   BY <1>2, <1>3, <2>1, OpsAssumption DEF RecordInv, Outcomes, SuccessIsComplete
 <2>7. CompensatedByAPlan'
  <3>1. \A c \in Compensations : c \in Ops /\ c # o
    BY <1>2, OpsAssumption DEF Ops
  <3>2. Reverses[run[w].op] = o
    BY DEF o
  <3>. QED BY <1>2, <2>1, <3>1, <3>2 DEF RecordInv, Outcomes, CompensatedByAPlan, Ops
 <2>8. CopiesOK'
  <3>. SUFFICES ASSUME NEW v \in Workers PROVE CopyFacts(run[v])'
    BY DEF CopiesOK
  <3>1. CASE v = w
    BY <2>3, <3>1 DEF CopyFacts, CopyOK, SendingOK, BehindOK, BehindAt, EndOK, LoopPcs
  <3>2. CASE v # w
   <4>1. CopyFacts(run[v]) /\ run'[v] = run[v] /\ (run[v].pc # "idle" => run[v].op \in Ops)
     BY <2>3, <3>2 DEF RecordInv, CopiesOK, Inv, LocalsOK, LocalOK
   <4>2. CopyOK(run[v])' /\ BehindOK(run[v])'
     BY <1>3, <4>1 DEF CopyFacts, CopyOK, BehindOK, Done
   <4>3. SendingOK(run[v])'
     BY <1>2, <1>3, <2>1, <2>2, <4>1 DEF CopyFacts, SendingOK, SaidFirst
   <4>4. EndOK(run[v])'
     BY <2>1, <4>1 DEF CopyFacts, EndOK
   <4>. QED BY <4>2, <4>3, <4>4 DEF CopyFacts
  <3>. QED BY <3>1, <3>2
 <2>. QED BY <2>4, <2>5, <2>6, <2>7, <2>8 DEF RecordOK, Outcomes
<1>. QED BY <1>4, <1>5 DEF Announce

-----------------------------------------------------------------------------
\* `_execute_operation` from one guarded write to the next.

\* A run that ends badly is closed as its copy deserves.
LEMMA FailureRecord ==
    ASSUME RecordInv, NEW w \in Workers, run[w].pc \in {"loaded", "fail", "verify", "close"},
           NEW as \in [Actions -> ActionStatuses], NEW onError \in {"close", "exit"},
           \A i \in Actions : run[w].claimed /\ writes[run[w].op][i] > 0 => PossiblyApplied(as[i]),
           PersistFailure(w, as, onError)
    PROVE  RecordOK'
<1>. DEFINE st == TerminalFailureStatus(as, Compensating(run[w].op))
<1>1. st \in {"failed", "compensation_available"}
  BY OutcomeType
<1>2. run[w].op \in Restores => \A i \in Actions :
          PossiblyApplied(as[i]) => st = "compensation_available"
  BY OpsAssumption DEF TerminalFailureStatus, Compensating
<1>3. Persist(w, st, as, "exit", onError)
  BY DEF PersistFailure
<1>. HIDE DEF st
<1>4. MayStore(w, st, as)
  BY <1>1, <1>2 DEF MayStore
<1>5. st \in Statuses \ (Unstarted \union {"superseded"})
  BY <1>1 DEF Statuses, Unstarted
<1>6. \A i \in Actions : ~BehindAt("exit", run[w].idx, i)
  BY DEF BehindAt, LoopPcs
<1>7. run[w].pc \notin {"idle", "announce"}
  OBVIOUS
<1>. QED BY <1>3, <1>4, <1>5, <1>6, <1>7, PersistRecord

LEMMA OpenRecord ==
    ASSUME RecordInv, NEW w \in Workers,
           NEW as \in [Actions -> ActionStatuses],
           NEW next \in {"mist", "readback", "result"},
           run[w].pc \in {"check", "record", "readback"}, run[w].idx \in Actions,
           \A i \in Actions : i # run[w].idx => as[i] = run[w].acts[i],
           run[w].pc # "check" => as = run[w].acts /\ next # "mist",
           run[w].pc = "check" => next # "readback",
           next = "mist" => as[run[w].idx] = "executing",
           next = "result" /\ run[w].pc = "check" =>
               as[run[w].idx] = "skipped" /\ run[w].op \in Compensations,
           Persist(w, "running", as, next, "close")
    PROVE  RecordOK'
<1>1. /\ \A i \in Actions : run[w].claimed /\ writes[run[w].op][i] > 0 =>
             PossiblyApplied(run[w].acts[i])
      /\ \A i \in Actions : BehindAt(run[w].pc, run[w].idx, i) =>
             Done(run[w].op, run[w].acts, i)
      /\ run[w].pc = "check" => writes[run[w].op][run[w].idx] = 0
  BY CopyHere DEF Ahead, AheadAt, LoopPcs
<1>2. MayStore(w, "running", as)
 <2>1. ASSUME NEW i \in Actions, run[w].claimed, writes[run[w].op][i] > 0
       PROVE  PossiblyApplied(as[i])
  <3>1. i # run[w].idx \/ run[w].pc # "check"
    BY <1>1, <2>1
  <3>2. as[i] = run[w].acts[i]
    BY <3>1
  <3>. QED BY <1>1, <2>1, <3>2
 <2>. QED BY <2>1 DEF MayStore
<1>3. ASSUME NEW i \in Actions, BehindAt(next, run[w].idx, i)
      PROVE  Done(run[w].op, as, i)
 <2>1. CASE i = run[w].idx /\ run[w].pc = "check"
  <3>1. next \in {"mist", "result"} /\ i \in Int /\ ~(run[w].idx > i)
    BY <2>1 DEF Actions
  <3>2. next = "result"
    BY <1>3, <3>1 DEF BehindAt
  <3>. QED BY <2>1, <3>2 DEF Done
 <2>2. CASE i # run[w].idx \/ run[w].pc # "check"
  <3>1. as[i] = run[w].acts[i]
    BY <2>2
  <3>2. run[w].idx > i \/ (run[w].pc # "check" /\ run[w].idx = i)
    BY <1>3, <2>2 DEF BehindAt
  <3>3. BehindAt(run[w].pc, run[w].idx, i)
    BY <3>2 DEF BehindAt, LoopPcs
  <3>. QED BY <1>1, <3>1, <3>3 DEF Done
 <2>. QED BY <2>1, <2>2
<1>4. "running" \in Statuses \ (Unstarted \union {"superseded"})
  BY DEF Statuses, Unstarted
<1>5. run[w].pc \notin {"idle", "announce"}
  OBVIOUS
<1>. QED BY <1>2, <1>3, <1>4, <1>5, PersistRecord

\* Every action is behind the cursor: the run may be called a success.
LEMMA FinishRecord ==
    ASSUME RecordInv, NEW w \in Workers, Finish(w)
    PROVE  RecordOK'
<1>1. run[w].pc = "verify"
  BY DEF Finish, At
<1>2. /\ run[w].acts \in [Actions -> ActionStatuses] /\ run[w].idx = N + 1
      /\ run[w].op \in Ops
      /\ \A i \in Actions : run[w].claimed /\ writes[run[w].op][i] > 0 =>
             PossiblyApplied(run[w].acts[i])
      /\ \A i \in Actions : BehindAt("verify", run[w].idx, i) =>
             Done(run[w].op, run[w].acts, i)
  BY <1>1, CopyHere DEF Locals, LocalOK, CopyFacts, EndOK
<1>3. \A i \in Actions : Done(run[w].op, run[w].acts, i)
  BY <1>2, PlanAssumption DEF BehindAt, Actions
<1>4. CASE Compensating(run[w].op)
 <2>1. run[w].op \in Compensations /\ run[w].op \notin Restores
   BY <1>4, OpsAssumption DEF Compensating
 <2>2. MayStore(w, "compensated", run[w].acts)
   BY <1>2, <1>3, <2>1 DEF MayStore, Done
 <2>3. "compensated" \in Statuses \ (Unstarted \union {"superseded"})
   BY DEF Statuses, Unstarted
 <2>4. Persist(w, "compensated", run[w].acts, "announce", "close")
   BY <1>4 DEF Finish
 <2>. QED BY <1>1, <1>2, <1>3, <2>2, <2>3, <2>4, PersistRecord
<1>5. CASE ~Compensating(run[w].op)
 <2>1. MayStore(w, "completed", run[w].acts)
   BY <1>2, <1>3, <1>5 DEF MayStore, Done, Compensating
 <2>2. "completed" \in Statuses \ (Unstarted \union {"superseded"})
   BY DEF Statuses, Unstarted
 <2>3. Persist(w, "completed", run[w].acts, "exit", "close")
   BY <1>5 DEF Finish
 <2>4. \A i \in Actions : ~BehindAt("exit", run[w].idx, i)
   BY DEF BehindAt, LoopPcs
 <2>. QED BY <1>1, <1>2, <2>1, <2>2, <2>3, <2>4, PersistRecord
<1>. QED BY <1>4, <1>5

LEMMA MainRecord ==
    ASSUME RecordInv, NEW w \in Workers, MainStep(w), WritesOK'
    PROVE  RecordOK'
<1>1. run[w] \in Locals /\ run[w].acts \in [Actions -> ActionStatuses]
  BY DEF RecordInv, Inv, TypeInv, TypeOK, Locals
<1>2. ASSUME run[w].pc \in {"fail", "verify"}, PersistFailure(w, run[w].acts, "close")
      PROVE  RecordOK'
  BY <1>1, <1>2, CopyHere, FailureRecord
<1>3. CASE PreconditionFails(w)
 <2>1. run[w].pc = "loaded" /\ ~run[w].claimed
   BY <1>3 DEF PreconditionFails, At, RecordInv, Inv, LocalsOK, LocalOK
 <2>. QED BY <1>1, <1>3, <2>1, FailureRecord DEF PreconditionFails
<1>4. CASE FailOperation(w) \/ FailVerification(w)
  BY <1>2, <1>4 DEF FailOperation, FailVerification, At
<1>5. CASE CloseFailed(w)
 <2>. DEFINE as == MarkUnconfirmed(run[w].acts)
 <2>1. run[w].pc = "close" /\ PersistFailure(w, as, "exit")
   BY <1>5 DEF CloseFailed, At
 <2>2. /\ as \in [Actions -> ActionStatuses]
       /\ \A i \in Actions :
              as[i] = IF run[w].acts[i] = "executing" THEN "unconfirmed" ELSE run[w].acts[i]
   BY <1>1, OutcomeType DEF MarkUnconfirmed
 <2>. HIDE DEF as
 <2>3. \A i \in Actions : run[w].claimed /\ writes[run[w].op][i] > 0 => PossiblyApplied(as[i])
   BY <2>1, <2>2, CopyHere DEF PossiblyApplied
 <2>. QED BY <2>1, <2>2, <2>3, FailureRecord
<1>6. CASE Claim(w)
 <2>1. run[w].pc = "loaded" /\ ~run[w].claimed
   BY <1>6 DEF Claim, At, RecordInv, Inv, LocalsOK, LocalOK
 <2>2. MayStore(w, "running", run[w].acts)
   BY <2>1 DEF MayStore
 <2>3. "running" \in Statuses \ (Unstarted \union {"superseded"})
   BY DEF Statuses, Unstarted
 <2>4. \A i \in Actions : ~BehindAt("acquire", run[w].idx, i)
   BY DEF BehindAt, LoopPcs
 <2>. QED BY <1>1, <1>6, <2>1, <2>2, <2>3, <2>4, PersistRecord DEF Claim
<1>7. CASE FailPreflight(w)
 <2>1. run[w].pc = "capture" /\ \A i \in Actions : writes[run[w].op][i] = 0
   BY <1>7, CopyHere DEF FailPreflight, At, Ahead, AheadAt
 <2>2. MayStore(w, "failed", run[w].acts)
   BY <2>1 DEF MayStore
 <2>3. "failed" \in Statuses \ (Unstarted \union {"superseded"})
   BY DEF Statuses, Unstarted
 <2>4. \A i \in Actions : ~BehindAt("exit", run[w].idx, i)
   BY DEF BehindAt, LoopPcs
 <2>. QED BY <1>1, <1>7, <2>1, <2>2, <2>3, <2>4, PersistRecord DEF FailPreflight
<1>8. run[w].pc = "check" => run[w].idx \in Actions
  BY CopyHere DEF InAction
<1>9. ASSUME NEW a \in ActionStatuses, run[w].pc = "check"
      PROVE  /\ With(w, a) \in [Actions -> ActionStatuses]
             /\ With(w, a)[run[w].idx] = a
             /\ \A i \in Actions : i # run[w].idx => With(w, a)[i] = run[w].acts[i]
  BY <1>1, <1>8, <1>9 DEF With
<1>10. CASE SkipWrite(w)
  BY <1>8, <1>9, <1>10, OpenRecord DEF SkipWrite, At, Compensating, ActionStatuses
<1>11. CASE MarkExecuting(w)
  BY <1>8, <1>9, <1>11, OpenRecord DEF MarkExecuting, At, ActionStatuses
<1>12. CASE PersistCompleted(w) \/ PersistAppliedHash(w)
 <2>1. run[w].pc \in {"record", "readback"} /\ run[w].idx \in Actions
   BY <1>12, CopyHere DEF PersistCompleted, PersistAppliedHash, At, InAction
 <2>. QED BY <1>1, <1>12, <2>1, OpenRecord DEF PersistCompleted, PersistAppliedHash
<1>13. CASE MistWrite(w) \/ Announce(w) \/ Finish(w)
  BY <1>13, MistWriteRecord, AnnounceRecord, FinishRecord
<1>14. CASE \/ AcquireLease(w) \/ CaptureSnapshot(w) \/ Drifted(w) \/ ReadBackFails(w)
            \/ RecordResult(w) \/ Unexpected(w) \/ CleanUp(w) \/ RecordEntry(w)
 <2>1. UNCHANGED <<status, acts, writes>>
   BY <1>14
   DEF AcquireLease, CaptureSnapshot, Drifted, ReadBackFails, RecordResult, Unexpected,
       CleanUp, RecordEntry, Raise, Local, stored
 <2>2. CASE AcquireLease(w)
  <3>. DEFINE r == [run[w] EXCEPT !.leasing = TRUE]
  <3>1. /\ r \in Locals /\ r.op = run[w].op /\ r.claimed = run[w].claimed
        /\ r.acts = run[w].acts
    BY <1>1 DEF Locals
  <3>2. /\ run[w].pc = "acquire"
        /\ Set(w, Goto(r, "capture")) \/ Set(w, Goto(r, "close"))
    BY <2>2 DEF AcquireLease, At
  <3>. HIDE DEF r
  <3>. QED BY <2>1, <3>1, <3>2, LeaveCopy
 <2>3. CASE CaptureSnapshot(w)
  <3>1. /\ run[w].pc = "capture" /\ run[w].idx = 0 /\ Set(w, Goto(run[w], "beat"))
        /\ \A i \in Actions : run[w].claimed /\ writes[run[w].op][i] > 0 =>
               PossiblyApplied(run[w].acts[i])
    BY <2>3, CopyHere DEF CaptureSnapshot, At, LocalOK
  <3>2. \A i \in Actions : ~BehindAt("beat", run[w].idx, i)
    BY <3>1 DEF BehindAt, Actions
  <3>3. "beat" \in Pcs \ {"idle", "mist", "announce", "verify"}
    BY DEF Pcs
  <3>. QED BY <1>1, <2>1, <3>1, <3>2, <3>3, GoCopy
 <2>4. CASE Drifted(w)
   BY <2>1, <2>4, AnswerCopy DEF Drifted, Local, At, ActionStatuses
 <2>5. CASE ReadBackFails(w)
  <3>1. run[w].pc = "readback" /\ "unconfirmed" \in ActionStatuses
    BY <2>5 DEF ReadBackFails, At, ActionStatuses
  <3>2. Set(w, Goto(run[w], "fail")) \/ Set(w, Now(w, "unconfirmed", "fail"))
    BY <2>5 DEF ReadBackFails, Local
  <3>. QED BY <1>1, <2>1, <3>1, <3>2, LeaveCopy, AnswerCopy
 <2>6. CASE RecordResult(w)
   BY <2>6, NextActionCopy
 <2>7. CASE Unexpected(w)
   BY <1>1, <2>1, <2>7, LeaveCopy DEF Unexpected, Raise, Local
 <2>8. CASE CleanUp(w)
   BY <2>1, <2>8, IdleCopy DEF CleanUp
 <2>9. CASE RecordEntry(w)
  <3>1. UNCHANGED run
    BY <2>9 DEF RecordEntry
  <3>. QED BY <2>1, <3>1, PlanStep, StillMoves
 <2>. QED BY <1>14, <2>2, <2>3, <2>4, <2>5, <2>6, <2>7, <2>8, <2>9
<1>. QED BY <1>3, <1>4, <1>5, <1>6, <1>7, <1>10, <1>11, <1>12, <1>13, <1>14 DEF MainStep

LEMMA LoadCopy ==
    ASSUME RecordInv, NEW w \in Workers, NEW op \in Ops, LoadQueued(w, op)
    PROVE  RecordOK'
<1>. DEFINE g == [Idle EXCEPT !.pc = "loaded", !.op = op, !.acts = acts[op]]
<1>1. g.pc = "loaded" /\ ~g.claimed
  BY DEF Idle
<1>2. Set(w, g) /\ UNCHANGED <<status, acts, writes>>
  BY DEF LoadQueued, Local, stored
<1>. HIDE DEF g
<1>3. CopyFacts(g)
  BY <1>1 DEF CopyFacts, CopyOK, SendingOK, BehindOK, BehindAt, EndOK, LoopPcs
<1>. QED BY <1>2, <1>3, CopyStep

\* Time changes no copy.
LEMMA TickCopy ==
    ASSUME RecordInv, Tick
    PROVE  RecordOK'
<1>1. UNCHANGED <<status, acts, writes>>
  BY DEF Tick
<1>2. \A w \in Workers :
         /\ run'[w].pc = run[w].pc /\ run'[w].op = run[w].op
         /\ run'[w].idx = run[w].idx /\ run'[w].acts = run[w].acts
         /\ run'[w].claimed = run[w].claimed
 <2>. TAKE w \in Workers
 <2>. DEFINE a == IF Writing(w) THEN run[w].age + 1 ELSE run[w].age
             h == IF run[w].beat # "none" THEN run[w].half + 1 ELSE run[w].half
 <2>1. run'[w] = [run[w] EXCEPT !.age = a, !.half = h]
   BY DEF Tick
 <2>2. run[w] \in Locals
   BY DEF RecordInv, Inv, TypeInv, TypeOK
 <2>. HIDE DEF a, h
 <2>. QED BY <2>1, <2>2 DEF Locals
<1>3. ASSUME NEW w \in Workers PROVE CopyFacts(run[w])'
 <2>1. CopyFacts(run[w])
   BY DEF RecordInv, CopiesOK
 <2>. QED BY <1>1, <1>2, <2>1
   DEF CopyFacts, CopyOK, SendingOK, SaidFirst, BehindOK, Done, EndOK
<1>4. StoredOK' /\ Outcomes'
  BY <1>1 DEF RecordInv, StoredOK, Outcomes, AppliedIsReversible, SuccessIsComplete,
              CompensatedByAPlan, Written
<1>. QED BY <1>3, <1>4 DEF RecordOK, CopiesOK

LEMMA RequestRecord ==
    ASSUME RecordInv, MovesOK, NEW op \in Ops, Request(op)
    PROVE  RecordOK'
<1>1. UNCHANGED <<acts, run, writes>>
  BY DEF Request, CheckRequest, Reserve, SendTask, RequestDies, Release, Supersede,
         ExpireCredential, stored
<1>2. CASE CheckRequest(op) \/ SendTask(op) \/ RequestDies(op)
 <2>1. UNCHANGED status
   BY <1>2 DEF CheckRequest, SendTask, RequestDies, stored
 <2>. QED BY <1>1, <2>1, PlanStep
<1>3. ASSUME status[op] \in Unstarted \union {"failed"},
             NEW st \in Unstarted \union {"failed", "superseded"},
             status' = [status EXCEPT ![op] = st]
      PROVE  RecordOK'
 <2>1. \A o \in Ops : status'[o] # status[o] => o = op /\ status'[o] = st
   BY <1>3 DEF RecordInv, Inv, TypeInv, TypeOK
 <2>. QED BY <1>1, <1>3, <2>1, PlanStep
<1>4. CASE Reserve(op) \/ Supersede(op) \/ ExpireCredential(op)
  BY <1>3, <1>4 DEF Reserve, Authorizable, Supersede, ExpireCredential, Unstarted
<1>5. CASE Release(op)
 <2>1. CASE status[op] = "queued"
   BY <1>3, <1>5, <2>1 DEF Release, Unstarted
 <2>2. CASE status[op] # "queued"
  <3>1. UNCHANGED status
    BY <1>5, <2>2 DEF Release
  <3>. QED BY <1>1, <3>1, PlanStep
 <2>. QED BY <2>1, <2>2
<1>. QED BY <1>2, <1>4, <1>5 DEF Request

LEMMA RecordInit == Init => RecordInv
<1>. SUFFICES ASSUME Init PROVE RecordInv
  OBVIOUS
<1>1. Inv
  BY InvInit
<1>2. \A op \in Ops, i \in Actions : writes[op][i] = 0
  BY DEF Init
<1>3. StoredOK
  BY <1>2 DEF StoredOK
<1>4. CopiesOK
 <2>1. Idle.pc = "idle" /\ ~Idle.claimed
   BY DEF Idle
 <2>2. \A w \in Workers : run[w] = Idle
   BY DEF Init
 <2>. QED BY <2>1, <2>2, ExitFacts DEF CopiesOK
<1>5. \A op \in Ops : status[op] \in {"planned", "unplanned"}
  BY DEF Init
<1>6. AppliedIsReversible
  BY <1>2 DEF AppliedIsReversible, Written, Ops
<1>7. SuccessIsComplete /\ CompensatedByAPlan
  BY <1>5 DEF SuccessIsComplete, CompensatedByAPlan, Ops
<1>. QED BY <1>1, <1>3, <1>4, <1>6, <1>7 DEF RecordInv, Outcomes

LEMMA RecordStepOK == RecordInv /\ [Next]_vars => RecordInv'
<1>. SUFFICES ASSUME RecordInv, [Next]_vars PROVE RecordInv'
  OBVIOUS
<1>1. Inv' /\ WritesOK' /\ MovesOK
  BY InvStep, StepKeeps DEF RecordInv, Inv
<1>2. CASE \E c \in Compensations : PlanCompensation(c)
 <2>1. PICK c \in Compensations : PlanCompensation(c)
   BY <1>2
 <2>2. c \in Ops /\ UNCHANGED <<acts, run, writes>>
   BY <2>1 DEF PlanCompensation, Ops, requests
 <2>3. \A o \in Ops : status'[o] # status[o] =>
           status[o] = "unplanned" /\ status'[o] = "planned"
   BY <2>1, <2>2 DEF PlanCompensation, RecordInv, Inv, TypeInv, TypeOK
 <2>4. RecordOK'
   BY <1>1, <2>2, <2>3, PlanStep DEF Unstarted
 <2>. QED BY <1>1, <2>4 DEF RecordInv, RecordOK
<1>3. CASE \E op \in Ops : Request(op)
  BY <1>1, <1>3, RequestRecord DEF RecordInv, RecordOK
<1>4. CASE \E w \in Workers, op \in Ops : LoadQueued(w, op)
  BY <1>1, <1>4, LoadCopy DEF RecordInv, RecordOK
<1>5. CASE \E w \in Workers : MainStep(w)
  BY <1>1, <1>5, MainRecord DEF RecordInv, RecordOK
<1>6. CASE \E w \in Workers : Beat(w)
  BY <1>1, <1>6, BeatCopy DEF RecordInv, RecordOK
<1>7. CASE \E w \in Workers : Crash(w)
  BY <1>1, <1>7, CrashRecord DEF RecordInv, RecordOK
<1>8. CASE \E op \in Ops : Janitor(op)
 <2>1. PICK op \in Ops : Janitor(op)
   BY <1>8
 <2>2. CASE FindSilent(op) \/ JanitorRelease(op)
  <3>1. UNCHANGED <<status, acts, run, writes>>
    BY <2>2 DEF FindSilent, JanitorRelease, stored
  <3>. QED BY <1>1, <3>1, PlanStep DEF RecordInv, RecordOK
 <2>3. CASE Interrupt(op)
   BY <1>1, <2>3, InterruptStep DEF RecordInv, RecordOK
 <2>. QED BY <2>1, <2>2, <2>3 DEF Janitor
<1>9. CASE RemoveLapsedLease \/ UNCHANGED vars
 <2>1. UNCHANGED <<status, acts, run, writes>>
   BY <1>9 DEF RemoveLapsedLease, vars, stored
 <2>. QED BY <1>1, <2>1, PlanStep DEF RecordInv, RecordOK
<1>10. CASE Tick
  BY <1>1, <1>10, TickCopy DEF RecordInv, RecordOK
<1>. QED BY <1>2, <1>3, <1>4, <1>5, <1>6, <1>7, <1>8, <1>9, <1>10 DEF Next

-----------------------------------------------------------------------------
\* Wherever a worker dies or is closed by the janitor, and whenever its last
\* write lands, the record of a closed operation owns up to every action Mist
\* applied (`mark_unconfirmed`, the guarded `_persist` before every write).
THEOREM WritesAreRecorded == Spec => []AppliedIsRecorded
<1>1. RecordInv => AppliedIsRecorded
  BY DEF RecordInv, StoredOK, AppliedIsRecorded, Written, Terminal
<1>. QED BY RecordInit, RecordStepOK, <1>1, PTL DEF Spec

\* A restore that changed anything at Mist stays open, succeeds, or can be
\* compensated: no schedule leaves it "failed" or "superseded".
THEOREM WritesAreReversible == Spec => []AppliedIsReversible
<1>1. RecordInv => AppliedIsReversible
  BY DEF RecordInv, Outcomes
<1>. QED BY RecordInit, RecordStepOK, <1>1, PTL DEF Spec

\* "completed" means every action reached Mist exactly once; "compensated", of
\* a reversal, that each was applied or found already undone.
THEOREM SuccessMeansDone == Spec => []SuccessIsComplete
<1>1. RecordInv => SuccessIsComplete
  BY DEF RecordInv, Outcomes
<1>. QED BY RecordInit, RecordStepOK, <1>1, PTL DEF Spec

\* Only `_announce_success` of a reversal that ended well marks a restore
\* compensated.
THEOREM CompensationsAreFinished == Spec => []CompensatedByAPlan
<1>1. RecordInv => CompensatedByAPlan
  BY DEF RecordInv, Outcomes
<1>. QED BY RecordInit, RecordStepOK, <1>1, PTL DEF Spec

\* What the organization lease buys, if a worker with writes ahead beats
\* within MaxStall ticks and a lease, or a silence, lasts longer than that:
\* the restores of one organization are serial.
\* The lease has, or had t ticks ago, its whole term to run.
Covers(op, t) == lease.holder = op /\ lease.left + t >= TTL

\* t ticks after its last beat began, nobody may take the run or the lease.
Secure(op, t) ==
    /\ status[op] = "running" /\ ~judged[op] /\ silence[op] <= t
    /\ Covers(op, t)

\* A worker inside its loop is secure since its last beat, and since the beat it
\* is in the middle of.
WritingOK(r) ==
    r.pc \in LoopPcs /\ r.idx \in Actions =>
        /\ ~r.lost /\ Secure(r.op, r.age)
        /\ r.beat # "none" => r.half <= r.age /\ Covers(r.op, r.half)

\* The beat that opens the loop has renewed the lease; the run may have been
\* closed before it, and then it does not enter.
OpeningOK(r) ==
    r.beat = "main" /\ r.idx = 0 =>
        /\ ~r.lost
        /\ status[r.op] = "running" => Covers(r.op, r.half)

EntryOK(r) == r.pc = "mist" => r.idx \in snap[r.op]

HoldFacts(r) == WritingOK(r) /\ OpeningOK(r) /\ EntryOK(r)
HoldsOK == \A w \in Workers : HoldFacts(run[w])

\* Only a claimer ever asked for the lease, and the janitor frees closed runs.
LeasingOK == \A w \in Workers : run[w].leasing => run[w].claimed
FreeingOK == \A op \in freeing : status[op] \in Terminal

LeaseInv == Inv /\ HoldsOK /\ LeasingOK /\ FreeingOK

\* What a step leaves of an operation whose worker does not take it.
Kept(op) ==
    /\ status'[op] = "running" => status[op] = "running"
    /\ status[op] = "running" =>
          /\ ~judged[op] /\ silence[op] < TTL =>
                status'[op] = "running" /\ ~judged'[op] /\ silence'[op] \in {0, silence[op]}
          /\ lease.holder = op /\ lease.left > 0 => UNCHANGED lease
    /\ snap[op] \subseteq snap'[op]

-----------------------------------------------------------------------------
LEMMA Claimers ==
    ASSUME Inv, NEW w \in Workers,
           run[w].pc \in {"acquire", "capture"} \union LoopPcs
    PROVE  /\ run[w].claimed /\ run[w].op \in Ops
           /\ \A v \in Workers : v # w /\ run[v].claimed => run[v].op # run[w].op
<1>1. run[w].claimed
  BY DEF Inv, LocalsOK, LocalOK
<1>. QED BY <1>1 DEF Inv, ClaimsOK

LEMMA Stays ==
    ASSUME LeaseInv, MaxStall < TTL, NEW v \in Workers, run'[v] = run[v],
           run[v].claimed => Kept(run[v].op)
    PROVE  HoldFacts(run[v])'
<1>1. HoldFacts(run[v]) /\ LocalOK(run[v])
  BY DEF LeaseInv, HoldsOK, Inv, LocalsOK
<1>2. /\ run[v].age \in 0 .. MaxStall /\ run[v].half \in 0 .. MaxStall
      /\ lease.left \in 0 .. TTL
      /\ run[v].pc # "idle" => silence[run[v].op] \in 0 .. TTL /\ run[v].op \in Ops
  BY <1>1 DEF LeaseInv, Inv, TypeInv, TypeOK, Locals, LocalOK
<1>3. MaxStall \in Nat /\ TTL \in Nat
  BY TimeAssumption
<1>4. run[v].pc \in LoopPcs => Kept(run[v].op)
  BY <1>1 DEF LocalOK
<1>5. WritingOK(run[v])'
 <2>. SUFFICES ASSUME run[v].pc \in LoopPcs, run[v].idx \in Actions
               PROVE  /\ ~run[v].lost /\ Secure(run[v].op, run[v].age)'
                      /\ run[v].beat # "none" =>
                           run[v].half <= run[v].age /\ Covers(run[v].op, run[v].half)'
   BY DEF WritingOK
 <2>1. /\ ~run[v].lost /\ Secure(run[v].op, run[v].age)
       /\ run[v].beat # "none" =>
             run[v].half <= run[v].age /\ Covers(run[v].op, run[v].half)
   BY <1>1 DEF HoldFacts, WritingOK
 <2>2. /\ status[run[v].op] = "running" /\ ~judged[run[v].op]
       /\ silence[run[v].op] <= run[v].age
       /\ lease.holder = run[v].op /\ lease.left + run[v].age >= TTL
   BY <2>1 DEF Secure, Covers
 <2>3. silence[run[v].op] < TTL /\ lease.left > 0
   BY <1>2, <1>3, <2>2 DEF LoopPcs
 <2>4. /\ status'[run[v].op] = "running" /\ ~judged'[run[v].op]
       /\ silence'[run[v].op] \in {0, silence[run[v].op]} /\ UNCHANGED lease
   BY <1>4, <2>2, <2>3 DEF Kept
 <2>5. silence'[run[v].op] <= run[v].age
   BY <1>2, <2>2, <2>4
 <2>. QED BY <2>1, <2>2, <2>4, <2>5 DEF Secure, Covers
<1>6. OpeningOK(run[v])'
 <2>. SUFFICES ASSUME run[v].beat = "main", run[v].idx = 0
               PROVE  /\ ~run[v].lost
                      /\ status'[run[v].op] = "running" => Covers(run[v].op, run[v].half)'
   BY DEF OpeningOK
 <2>1. /\ ~run[v].lost /\ run[v].pc = "beat"
       /\ status[run[v].op] = "running" => Covers(run[v].op, run[v].half)
   BY <1>1 DEF HoldFacts, OpeningOK, LocalOK
 <2>2. ASSUME status'[run[v].op] = "running"
       PROVE  Covers(run[v].op, run[v].half)'
  <3>1. status[run[v].op] = "running" /\ Kept(run[v].op)
    BY <1>4, <2>1, <2>2 DEF Kept, LoopPcs
  <3>2. lease.holder = run[v].op /\ lease.left + run[v].half >= TTL
    BY <2>1, <3>1 DEF Covers
  <3>3. lease.left > 0
    BY <1>2, <1>3, <3>2
  <3>. QED BY <3>1, <3>2, <3>3 DEF Kept, Covers
 <2>. QED BY <2>1, <2>2
<1>7. EntryOK(run[v])'
  BY <1>1, <1>4 DEF HoldFacts, EntryOK, Kept, LoopPcs
<1>. QED BY <1>5, <1>6, <1>7 DEF HoldFacts

\* One worker moves; the others stay where they are.
LEMMA OneMoves ==
    ASSUME LeaseInv, MaxStall < TTL, NEW w \in Workers, NEW r, Set(w, r),
           HoldFacts(run[w])',
           \A v \in Workers : v # w /\ run[v].claimed => Kept(run[v].op)
    PROVE  HoldsOK'
<1>. SUFFICES ASSUME NEW v \in Workers, v # w PROVE HoldFacts(run[v])'
  BY DEF HoldsOK
<1>1. run'[v] = run[v]
  BY DEF Set, LeaseInv, Inv, TypeInv, TypeOK
<1>. QED BY <1>1, Stays

\* Nobody moves.
LEMMA NoneMoves ==
    ASSUME LeaseInv, MaxStall < TTL, UNCHANGED run,
           \A v \in Workers : run[v].claimed => Kept(run[v].op)
    PROVE  HoldsOK' /\ LeasingOK'
<1>1. \A v \in Workers : run'[v] = run[v]
  OBVIOUS
<1>2. HoldsOK'
  BY <1>1, Stays DEF HoldsOK
<1>. QED BY <1>2 DEF LeaseInv, LeasingOK

\* A worker that is not in the loop, nor opening it, holds nothing.
LEMMA OutOfLoop ==
    ASSUME NEW w \in Workers,
           run'[w].pc \notin LoopPcs \/ (run'[w].pc = "beat" /\ run'[w].idx \notin Actions),
           run'[w].beat = "main" => run'[w].idx # 0
    PROVE  HoldFacts(run[w])'
  BY DEF HoldFacts, WritingOK, OpeningOK, EntryOK, LoopPcs

\* A worker that goes on inside the loop keeps what its last beat gave it.
LEMMA StaysInLoop ==
    ASSUME LeaseInv, MaxStall < TTL, NEW w \in Workers, Writing(w), Kept(run[w].op),
           run'[w].pc \in LoopPcs, run'[w].idx # 0,
           run'[w].pc = "mist" => run[w].pc = "mist" /\ run'[w].idx = run[w].idx,
           run'[w].op = run[w].op, run'[w].lost = run[w].lost,
           run'[w].age = run[w].age,
           run'[w].beat # "none" => run[w].beat # "none" /\ run'[w].half = run[w].half
    PROVE  HoldFacts(run[w])'
<1>1. /\ HoldFacts(run[w]) /\ run[w].pc \in LoopPcs /\ run[w].idx \in Actions
      /\ run[w].age \in 0 .. MaxStall /\ run[w].op \in Ops
      /\ silence[run[w].op] \in 0 .. TTL /\ lease.left \in 0 .. TTL
  BY Claimers DEF LeaseInv, HoldsOK, Writing, Inv, TypeInv, TypeOK, Locals
<1>2. /\ ~run[w].lost /\ Secure(run[w].op, run[w].age)
      /\ run[w].beat # "none" => run[w].half <= run[w].age /\ Covers(run[w].op, run[w].half)
  BY <1>1 DEF HoldFacts, WritingOK
<1>3. silence[run[w].op] < TTL /\ lease.left > 0 /\ lease.holder = run[w].op
  BY <1>1, <1>2, TimeAssumption DEF Secure, Covers
<1>4. /\ status'[run[w].op] = "running" /\ ~judged'[run[w].op]
      /\ silence'[run[w].op] \in {0, silence[run[w].op]} /\ UNCHANGED lease
  BY <1>2, <1>3 DEF Secure, Kept
<1>5. Secure(run[w].op, run[w].age)'
  BY <1>1, <1>2, <1>4 DEF Secure, Covers
<1>6. WritingOK(run[w])'
 <2>1. run'[w].beat # "none" =>
           run'[w].half <= run'[w].age /\ Covers(run[w].op, run[w].half)'
   BY <1>2, <1>4 DEF Covers
 <2>. QED BY <1>2, <1>4, <1>5, <2>1 DEF WritingOK
<1>7. OpeningOK(run[w])'
  BY DEF OpeningOK
<1>8. EntryOK(run[w])'
  BY <1>1 DEF HoldFacts, EntryOK, Kept
<1>. QED BY <1>6, <1>7, <1>8 DEF HoldFacts

LEMMA QuietKept ==
    ASSUME UNCHANGED <<status, silence, judged, lease, snap>>, NEW o
    PROVE  Kept(o)
  BY DEF Kept

-----------------------------------------------------------------------------
\* Steps of a worker.

LEMMA GotoRest ==
    ASSUME NEW r \in Locals, NEW pc \in Pcs
    PROVE  LET g == Goto(r, pc) IN
           /\ g.leasing = r.leasing
           /\ pc # "exit" => g.lost = r.lost
           /\ pc \in LoopPcs => g.age = r.age
           /\ g.beat # "none" => g.beat = r.beat /\ g.half = r.half
<1>1. CASE pc = "exit"
  BY <1>1 DEF Goto, Idle, LoopPcs
<1>2. CASE pc # "exit"
  BY <1>2 DEF Goto, Locals
<1>. QED BY <1>1, <1>2

LEMMA LeasingStep ==
    ASSUME LeaseInv, NEW w \in Workers, NEW r, Set(w, r), r.leasing => r.claimed
    PROVE  LeasingOK'
  BY DEF Set, LeaseInv, LeasingOK, Inv, TypeInv, TypeOK

LEMMA PersistHold ==
    ASSUME LeaseInv, MaxStall < TTL, NEW w \in Workers,
           run[w].pc \notin {"idle", "announce"},
           NEW st, NEW as \in [Actions -> ActionStatuses], st \in Statuses,
           NEW next \in {"acquire", "mist", "readback", "result", "announce", "exit"},
           NEW onError \in {"close", "exit"},
           next \in LoopPcs => InAction(run[w].pc) /\ st = "running",
           next = "mist" => run[w].idx \in snap[run[w].op],
           Persist(w, st, as, next, onError)
    PROVE  HoldsOK' /\ LeasingOK'
<1>. DEFINE r == [run[w] EXCEPT !.acts = as]
            ok == [r EXCEPT !.own = st, !.claimed = TRUE]
            refused == [r EXCEPT !.lost = TRUE]
<1>1. /\ run[w] \in Locals /\ LocalOK(run[w]) /\ run[w].op \in Ops
      /\ run[w].beat = "none" /\ HoldFacts(run[w])
      /\ run[w].leasing => run[w].claimed
      /\ InAction(run[w].pc) => run[w].idx \in Actions /\ run[w].pc \in LoopPcs
  BY DEF LeaseInv, Inv, TypeInv, TypeOK, CursorOK, LocalsOK, LocalOK, Persist, Unlocked,
         HoldsOK, LeasingOK, InAction, LoopPcs
<1>2. /\ r \in Locals /\ r.leasing = run[w].leasing /\ r.claimed = run[w].claimed
      /\ r.beat = "none"
  BY <1>1 DEF Locals
<1>3. /\ ok \in Locals /\ ok.claimed = TRUE /\ ok.op = run[w].op /\ ok.idx = run[w].idx
      /\ ok.age = run[w].age /\ ok.beat = "none" /\ ok.lost = run[w].lost
  BY <1>1 DEF Locals
<1>4. /\ refused \in Locals /\ refused.leasing = run[w].leasing
      /\ refused.claimed = run[w].claimed /\ refused.beat = "none"
  BY <1>1 DEF Locals
<1>5. \A g : Set(w, g) => run'[w] = g
  BY DEF Set, LeaseInv, Inv, TypeInv, TypeOK
<1>6. UNCHANGED <<snap, lease>> /\ next \in Pcs /\ onError \in Pcs /\ "exit" \in Pcs
  BY DEF Persist, Pcs
<1>. HIDE DEF r, ok, refused
<1>7. ASSUME NEW g \in Locals, NEW pc \in {"close", "exit"}, g.beat = "none",
             g.leasing => g.claimed, Set(w, Goto(g, pc)),
             \A v \in Workers : v # w /\ run[v].claimed => Kept(run[v].op)
      PROVE  HoldsOK' /\ LeasingOK'
 <2>1. /\ Goto(g, pc).pc = pc /\ Goto(g, pc).beat = "none"
       /\ Goto(g, pc).leasing => Goto(g, pc).claimed
   BY <1>7, GotoFields, GotoRest DEF Pcs
 <2>2. HoldFacts(run[w])'
   BY <1>5, <1>7, <2>1, OutOfLoop DEF LoopPcs
 <2>. QED BY <1>7, <2>1, <2>2, OneMoves, LeasingStep
<1>8. CASE UNCHANGED stored /\ (Set(w, Goto(refused, "exit")) \/ Set(w, Goto(r, onError)))
 <2>1. \A o : Kept(o)
   BY <1>6, <1>8, QuietKept DEF stored
 <2>. QED BY <1>1, <1>2, <1>4, <1>7, <1>8, <2>1
<1>9. ASSUME Owns(w), Store(w, st, as)
      PROVE  /\ \A v \in Workers : v # w /\ run[v].claimed => Kept(run[v].op)
             /\ status'[run[w].op] = st /\ silence'[run[w].op] = 0
             /\ judged'[run[w].op] = FALSE
 <2>1. /\ status'[run[w].op] = st /\ silence'[run[w].op] = 0 /\ judged'[run[w].op] = FALSE
       /\ \A o \in Ops \ {run[w].op} :
             /\ status'[o] = status[o] /\ silence'[o] = silence[o] /\ judged'[o] = judged[o]
   BY <1>1, <1>9 DEF Store, LeaseInv, Inv, TypeInv, TypeOK
 <2>2. \A v \in Workers : v # w /\ run[v].claimed =>
           run[v].op \in Ops /\ run[v].op # run[w].op
   BY <1>9, StoreApart DEF LeaseInv, Inv, ClaimsOK
 <2>. QED BY <1>6, <2>1, <2>2 DEF Kept
<1>10. CASE Owns(w) /\ Store(w, st, as) /\ Set(w, Goto(r, onError))
  BY <1>1, <1>2, <1>7, <1>9, <1>10
<1>11. CASE Owns(w) /\ Store(w, st, as) /\ Set(w, Goto(ok, next))
 <2>. DEFINE g == Goto(ok, next)
 <2>1. /\ g.pc = next /\ g.op = run[w].op /\ g.claimed = TRUE /\ g.beat = "none"
       /\ next # "exit" => g.idx = run[w].idx /\ g.lost = run[w].lost
       /\ next \in LoopPcs => g.age = run[w].age
   BY <1>3, <1>6, GotoFields, GotoRest
 <2>2. run'[w] = g
   BY <1>5, <1>11
 <2>. HIDE DEF g
 <2>3. HoldFacts(run[w])'
  <3>1. CASE next \notin LoopPcs
    BY <2>1, <2>2, <3>1, OutOfLoop
  <3>2. CASE next \in LoopPcs
   <4>1. /\ ~run[w].lost /\ Secure(run[w].op, run[w].age) /\ run[w].age \in 0 .. MaxStall
     BY <1>1, <3>2 DEF HoldFacts, WritingOK, Locals
   <4>2. Secure(run[w].op, run[w].age) /\ run'[w].age = run[w].age
         /\ run'[w].op = run[w].op /\ ~run'[w].lost /\ run'[w].beat = "none"
         /\ run'[w].idx = run[w].idx /\ run'[w].idx # 0 /\ run'[w].pc = next
     BY <1>1, <2>1, <2>2, <3>2, <4>1, Bounds DEF LoopPcs
   <4>3. /\ status'[run[w].op] = "running" /\ ~judged'[run[w].op]
         /\ silence'[run[w].op] = 0
     BY <1>9, <1>11, <3>2
   <4>4. WritingOK(run[w])'
     BY <1>6, <4>1, <4>2, <4>3, TimeAssumption DEF WritingOK, Secure, Covers
   <4>5. OpeningOK(run[w])' /\ EntryOK(run[w])'
     BY <1>6, <4>2 DEF OpeningOK, EntryOK
   <4>. QED BY <4>4, <4>5 DEF HoldFacts
  <3>. QED BY <3>1, <3>2
 <2>4. HoldsOK'
   BY <1>9, <1>11, <2>3, OneMoves
 <2>5. LeasingOK'
   BY <1>11, <2>1, LeasingStep DEF g
 <2>. QED BY <2>4, <2>5
<1>. QED BY <1>8, <1>10, <1>11 DEF Persist, r, ok, refused

\* A worker that leaves the loop, or was not in it, and touches no document.
LEMMA LeaveHold ==
    ASSUME LeaseInv, MaxStall < TTL, UNCHANGED <<status, silence, judged, lease, snap>>,
           NEW w \in Workers, NEW r \in Locals, r.beat \in {"none", run[w].beat},
           r.leasing => r.claimed, run[w].pc \in Pcs,
           NEW pc \in Pcs \ LoopPcs, run[w].pc = "beat" => pc \in {"close", "exit"},
           Set(w, Goto(r, pc))
    PROVE  HoldsOK' /\ LeasingOK'
<1>. DEFINE g == Goto(r, pc)
<1>1. /\ g.pc = pc /\ (g.leasing => g.claimed)
      /\ g.beat \in {"none", r.beat}
      /\ pc \notin BeatPcs => g.beat = "none"
  BY GotoFields, GotoRest
<1>2. run[w].beat = "main" => run[w].pc = "beat"
  BY DEF LeaseInv, Inv, LocalsOK, LocalOK
<1>3. run'[w] = g
  BY DEF Set, LeaseInv, Inv, TypeInv, TypeOK
<1>4. Set(w, g)
  OBVIOUS
<1>. HIDE DEF g
<1>5. run'[w].beat # "main"
  BY <1>1, <1>2, <1>3 DEF BeatPcs
<1>6. HoldFacts(run[w])'
  BY <1>1, <1>3, <1>5, OutOfLoop
<1>7. \A o : Kept(o)
  BY QuietKept
<1>. QED BY <1>1, <1>4, <1>6, <1>7, OneMoves, LeasingStep

LEMMA IdleHold ==
    ASSUME LeaseInv, MaxStall < TTL, NEW w \in Workers, Set(w, Idle),
           \A v \in Workers : v # w /\ run[v].claimed => Kept(run[v].op)
    PROVE  HoldsOK' /\ LeasingOK'
<1>1. Idle.pc = "idle" /\ Idle.beat = "none" /\ Idle.leasing = FALSE
  BY DEF Idle
<1>2. run'[w] = Idle
  BY DEF Set, LeaseInv, Inv, TypeInv, TypeOK
<1>3. HoldFacts(run[w])'
  BY <1>1, <1>2, OutOfLoop DEF LoopPcs
<1>. QED BY <1>1, <1>3, OneMoves, LeasingStep

\* The lease is granted only when nobody else's is running.
LEMMA AcquireHold ==
    ASSUME LeaseInv, MaxStall < TTL, NEW w \in Workers, AcquireLease(w)
    PROVE  HoldsOK' /\ LeasingOK'
<1>. DEFINE r == [run[w] EXCEPT !.leasing = TRUE]
<1>1. /\ run[w] \in Locals /\ run[w].pc = "acquire" /\ run[w].claimed
      /\ \A v \in Workers : v # w /\ run[v].claimed =>
             run[v].op \in Ops /\ run[v].op # run[w].op
      /\ run[w].beat = "none"
  BY Claimers
  DEF AcquireLease, At, LeaseInv, Inv, TypeInv, TypeOK, ClaimsOK, LocalsOK, LocalOK, BeatPcs
<1>2. r \in Locals /\ r.claimed = TRUE /\ r.beat = "none"
  BY <1>1 DEF Locals
<1>3. PICK pc \in {"capture", "close"} : Set(w, Goto(r, pc))
  BY DEF AcquireLease
<1>. HIDE DEF r
<1>4. ASSUME NEW v \in Workers, v # w, run[v].claimed
      PROVE  Kept(run[v].op)
 <2>1. /\ UNCHANGED <<status, silence, judged, snap>>
       /\ UNCHANGED lease \/ Acquirable(run[w].op)
   BY DEF AcquireLease, stored
 <2>2. run[v].op # NoOp /\ run[v].op # run[w].op
   BY <1>1, <1>4, OpsAssumption
 <2>3. lease.holder = run[v].op /\ lease.left > 0 => UNCHANGED lease
   BY <2>1, <2>2 DEF Acquirable, LeaseInv, Inv, TypeInv, TypeOK
 <2>. QED BY <2>1, <2>3 DEF Kept
<1>5. /\ Goto(r, pc).pc = pc /\ Goto(r, pc).beat = "none"
      /\ Goto(r, pc).claimed = TRUE
  BY <1>2, GotoFields DEF Pcs
<1>6. run'[w] = Goto(r, pc)
  BY <1>3 DEF Set, LeaseInv, Inv, TypeInv, TypeOK
<1>7. HoldFacts(run[w])'
  BY <1>5, <1>6, OutOfLoop DEF LoopPcs
<1>. QED BY <1>3, <1>4, <1>5, <1>7, OneMoves, LeasingStep

LEMMA CaptureHold ==
    ASSUME LeaseInv, MaxStall < TTL, NEW w \in Workers, CaptureSnapshot(w)
    PROVE  HoldsOK' /\ LeasingOK'
<1>. DEFINE g == Goto(run[w], "beat")
<1>1. /\ run[w] \in Locals /\ run[w].pc = "capture" /\ run[w].claimed /\ run[w].idx = 0
      /\ run[w].op \in Ops
      /\ \A v \in Workers : v # w /\ run[v].claimed =>
             run[v].op \in Ops /\ run[v].op # run[w].op
      /\ run[w].beat # "main"
  BY Claimers
  DEF CaptureSnapshot, At, LeaseInv, Inv, TypeInv, TypeOK, ClaimsOK, LocalsOK, LocalOK
<1>2. /\ g.pc = "beat" /\ g.claimed /\ g.idx = 0 /\ g.beat # "main"
  BY <1>1, GotoFields DEF Pcs
<1>3. Set(w, g) /\ run'[w] = g
  BY DEF CaptureSnapshot, Set, LeaseInv, Inv, TypeInv, TypeOK
<1>. HIDE DEF g
<1>4. ASSUME NEW v \in Workers, v # w, run[v].claimed
      PROVE  Kept(run[v].op)
  BY <1>1, <1>4 DEF Kept, CaptureSnapshot, stored, LeaseInv, Inv, TypeInv, TypeOK
<1>5. HoldFacts(run[w])'
  BY <1>2, <1>3, Bounds, OutOfLoop
<1>. QED BY <1>2, <1>3, <1>4, <1>5, OneMoves, LeasingStep

\* Mist answers, and the cursor moves on, under the same beat.
LEMMA LoopHold ==
    ASSUME LeaseInv, MaxStall < TTL, UNCHANGED <<status, silence, judged, lease, snap>>,
           NEW w \in Workers, Writing(w), NEW r, Set(w, r),
           r.op = run[w].op, r.lost = run[w].lost, r.claimed = run[w].claimed,
           r.beat # "none" => r.beat = run[w].beat /\ r.half = run[w].half,
           r.beat = "main" => r.idx # 0,
           r.pc \in LoopPcs /\ r.idx \in Actions => r.age = run[w].age,
           r.idx # 0, r.pc # "mist", r.pc \in LoopPcs => r.pc = "beat" \/ r.idx \in Actions
    PROVE  HoldsOK' /\ LeasingOK'
<1>1. run'[w] = r
  BY DEF Set, LeaseInv, Inv, TypeInv, TypeOK
<1>2. \A o : Kept(o)
  BY QuietKept
<1>3. HoldFacts(run[w])'
 <2>1. CASE r.pc \in LoopPcs /\ r.idx \in Actions
   BY <1>1, <1>2, <2>1, StaysInLoop
 <2>2. CASE ~(r.pc \in LoopPcs /\ r.idx \in Actions)
   BY <1>1, <2>2, OutOfLoop
 <2>. QED BY <2>1, <2>2
<1>4. HoldsOK'
  BY <1>2, <1>3, OneMoves
<1>5. run[w].claimed
  BY Claimers DEF LeaseInv, Writing
<1>. QED BY <1>4, <1>5, LeasingStep

\* Every write of a whole record, from anywhere in `execute`.
LEMMA PersistHolds ==
    ASSUME LeaseInv, MaxStall < TTL, NEW w \in Workers,
           \/ PreconditionFails(w) \/ Claim(w) \/ FailPreflight(w) \/ SkipWrite(w)
           \/ MarkExecuting(w) \/ PersistCompleted(w) \/ PersistAppliedHash(w)
           \/ FailOperation(w) \/ FailVerification(w) \/ Finish(w) \/ CloseFailed(w)
    PROVE  HoldsOK' /\ LeasingOK'
<1>. DEFINE closed == TerminalFailureStatus(run[w].acts, Compensating(run[w].op))
            interrupted == MarkUnconfirmed(run[w].acts)
<1>1. /\ run[w].acts \in [Actions -> ActionStatuses]
      /\ \A a \in ActionStatuses : With(w, a) \in [Actions -> ActionStatuses]
  BY DEF LeaseInv, Inv, TypeInv, TypeOK, Locals, With
<1>2. /\ closed \in Statuses /\ interrupted \in [Actions -> ActionStatuses]
      /\ TerminalFailureStatus(interrupted, Compensating(run[w].op)) \in Statuses
  BY <1>1, OutcomeType DEF Statuses
<1>. HIDE DEF closed, interrupted
<1>3. CASE PreconditionFails(w) \/ FailOperation(w) \/ FailVerification(w) \/ CloseFailed(w)
  BY <1>1, <1>2, <1>3, PersistHold
  DEF PreconditionFails, FailOperation, FailVerification, CloseFailed, PersistFailure,
      At, closed, interrupted, LoopPcs
<1>4. CASE Claim(w) \/ FailPreflight(w) \/ Finish(w)
  BY <1>1, <1>4, Constants, PersistHold DEF Claim, FailPreflight, Finish, At, LoopPcs
<1>5. CASE SkipWrite(w)
  BY <1>1, <1>5, Constants, PersistHold DEF SkipWrite, At, InAction
<1>6. CASE MarkExecuting(w)
  BY <1>1, <1>6, Constants, PersistHold DEF MarkExecuting, At, InAction
<1>7. CASE PersistCompleted(w) \/ PersistAppliedHash(w)
  BY <1>1, <1>7, Constants, PersistHold DEF PersistCompleted, PersistAppliedHash, At, InAction
<1>. QED BY <1>3, <1>4, <1>5, <1>6, <1>7

\* The action's outcome, on the way to the rest of the loop or out of it.
LEMMA NowHold ==
    ASSUME LeaseInv, MaxStall < TTL, UNCHANGED <<status, silence, judged, lease, snap>>,
           NEW w \in Workers, InAction(run[w].pc), NEW r \in Locals,
           r.op = run[w].op, r.lost = run[w].lost, r.claimed = run[w].claimed,
           r.leasing = run[w].leasing, r.idx = run[w].idx, r.age = run[w].age,
           r.beat = run[w].beat, r.half = run[w].half,
           NEW pc \in {"record", "fail", "close"}, Set(w, Goto(r, pc))
    PROVE  HoldsOK' /\ LeasingOK'
<1>1. /\ run[w].idx \in Actions /\ run[w].idx # 0 /\ run[w].pc \in LoopPcs
      /\ run[w].leasing => run[w].claimed
      /\ pc \in Pcs
  BY Bounds DEF LeaseInv, LeasingOK, Inv, TypeInv, CursorOK, InAction, LoopPcs, Pcs
<1>2. CASE pc = "record"
 <2>. DEFINE g == Goto(r, pc)
 <2>1. /\ g.pc = "record" /\ g.op = r.op /\ g.claimed = r.claimed /\ g.idx = r.idx
       /\ g.lost = r.lost /\ g.age = r.age
       /\ g.beat # "none" => g.beat = r.beat /\ g.half = r.half
   BY <1>1, <1>2, GotoFields, GotoRest DEF LoopPcs
 <2>2. Set(w, g)
   OBVIOUS
 <2>. HIDE DEF g
 <2>. QED BY <1>1, <2>1, <2>2, LoopHold DEF Writing
<1>3. CASE pc # "record"
 <2>1. r.leasing => r.claimed
   BY <1>1
 <2>2. pc \in Pcs \ LoopPcs /\ run[w].pc # "beat" /\ run[w].pc \in Pcs
   BY <1>1, <1>3 DEF LoopPcs, InAction, Pcs
 <2>. QED BY <2>1, <2>2, LeaveHold
<1>. QED BY <1>2, <1>3

LEMMA MistHold ==
    ASSUME LeaseInv, MaxStall < TTL, NEW w \in Workers,
           MistWrite(w) \/ Drifted(w) \/ ReadBackFails(w)
    PROVE  HoldsOK' /\ LeasingOK'
<1>1. UNCHANGED <<status, silence, judged, lease, snap>> /\ InAction(run[w].pc)
  BY DEF MistWrite, Drifted, ReadBackFails, Local, stored, At, InAction
<1>2. run[w] \in Locals
  BY DEF LeaseInv, Inv, TypeInv, TypeOK
<1>3. ASSUME NEW a \in ActionStatuses, NEW pc \in {"record", "fail", "close"},
             Set(w, Now(w, a, pc))
      PROVE  HoldsOK' /\ LeasingOK'
 <2>. DEFINE r == [run[w] EXCEPT !.acts[run[w].idx] = a]
 <2>1. /\ r \in Locals /\ r.op = run[w].op /\ r.lost = run[w].lost
       /\ r.claimed = run[w].claimed /\ r.leasing = run[w].leasing
       /\ r.idx = run[w].idx /\ r.age = run[w].age
       /\ r.beat = run[w].beat /\ r.half = run[w].half
   BY <1>2 DEF Locals
 <2>2. Set(w, Goto(r, pc))
   BY <1>3 DEF Now
 <2>. HIDE DEF r
 <2>. QED BY <1>1, <2>1, <2>2, NowHold
<1>4. ASSUME NEW pc \in {"fail", "close"}, Set(w, Goto(run[w], pc))
      PROVE  HoldsOK' /\ LeasingOK'
  BY <1>1, <1>2, <1>4, NowHold
<1>. QED BY <1>3, <1>4, Constants DEF MistWrite, Drifted, ReadBackFails, Local

LEMMA ResultHold ==
    ASSUME LeaseInv, MaxStall < TTL, NEW w \in Workers, RecordResult(w)
    PROVE  HoldsOK' /\ LeasingOK'
<1>1. /\ UNCHANGED <<status, silence, judged, lease, snap>> /\ run[w] \in Locals
      /\ run[w].pc = "result" /\ run[w].idx \in Actions
      /\ run[w].beat # "main"
  BY DEF RecordResult, Local, stored, At, LeaseInv, Inv, TypeInv, TypeOK, CursorOK,
         InAction, LocalsOK, LocalOK
<1>2. CASE Set(w, Goto(run[w], "fail"))
  BY <1>1, <1>2, NowHold DEF InAction
<1>3. CASE Set(w, [Goto(run[w], "beat") EXCEPT !.idx = @ + 1,
                                               !.age = IF run[w].idx = N THEN 0 ELSE @])
 <2>. DEFINE h == Goto(run[w], "beat")
             r == [h EXCEPT !.idx = @ + 1, !.age = IF run[w].idx = N THEN 0 ELSE @]
 <2>1. /\ h \in Locals /\ h.pc = "beat" /\ h.op = run[w].op /\ h.claimed = run[w].claimed
       /\ h.idx = run[w].idx /\ h.lost = run[w].lost /\ h.age = run[w].age
       /\ h.beat # "none" => h.beat = run[w].beat /\ h.half = run[w].half
       /\ h.beat \in {"none", run[w].beat}
  <3>1. "beat" \in Pcs /\ "beat" \in LoopPcs /\ "beat" # "exit"
    BY DEF Pcs, LoopPcs
  <3>. QED BY <1>1, <3>1, GotoType, GotoFields, GotoRest
 <2>. HIDE DEF h
 <2>2. /\ r.pc = "beat" /\ r.op = run[w].op /\ r.claimed = run[w].claimed
       /\ r.idx = run[w].idx + 1 /\ r.lost = run[w].lost
       /\ r.age = IF run[w].idx = N THEN 0 ELSE run[w].age
       /\ r.beat = h.beat /\ r.half = h.half
   BY <2>1 DEF Locals
 <2>3. r.idx # 0 /\ (r.idx \in Actions => run[w].idx # N)
   BY <1>1, <2>2, PlanAssumption DEF Actions
 <2>4. Set(w, r)
   BY <1>3 DEF h
 <2>. HIDE DEF r
 <2>. QED BY <1>1, <2>1, <2>2, <2>3, <2>4, LoopHold DEF Writing, LoopPcs
<1>. QED BY <1>2, <1>3 DEF RecordResult, Local

LEMMA RaiseHold ==
    ASSUME LeaseInv, MaxStall < TTL, NEW w \in Workers, Raise(w)
    PROVE  HoldsOK' /\ LeasingOK'
<1>1. /\ UNCHANGED <<status, silence, judged, lease, snap>>
      /\ Set(w, Goto(run[w], "close")) /\ run[w] \in Locals /\ run[w].pc \in Pcs
      /\ run[w].leasing => run[w].claimed
  BY DEF Raise, Local, stored, LeaseInv, LeasingOK, Inv, TypeInv, TypeOK, Locals
<1>. QED BY <1>1, LeaveHold DEF LoopPcs, Pcs

\* Only a restore that is closed is marked compensated.
LEMMA AnnounceHold ==
    ASSUME LeaseInv, MaxStall < TTL, NEW w \in Workers, Announce(w)
    PROVE  HoldsOK' /\ LeasingOK'
<1>. DEFINE g == Goto(run[w], "exit")
            o == Reverses[run[w].op]
<1>1. /\ run[w] \in Locals /\ run[w].pc = "announce" /\ LocalOK(run[w])
      /\ run[w].leasing => run[w].claimed
  BY DEF Announce, At, LeaseInv, LeasingOK, Inv, TypeInv, TypeOK, LocalsOK
<1>2. run[w].op \in Compensations /\ status[run[w].op] # "unplanned"
  BY <1>1 DEF LocalOK, LeaseInv, Inv, ClaimsOK, Unstarted
<1>3. status[o] \in {"compensation_available", "compensated"}
  BY <1>2 DEF LeaseInv, Inv, PlansOK
<1>4. ASSUME NEW q \in Ops PROVE Kept(q)
  BY <1>3 DEF Announce, Kept, LeaseInv, Inv, TypeInv, TypeOK
<1>5. Set(w, g)
  BY DEF Announce
<1>6. g.pc = "exit" /\ g.beat = "none" /\ (g.leasing => g.claimed)
  BY <1>1, GotoFields, GotoRest DEF Pcs
<1>. HIDE DEF g
<1>7. run'[w] = g
  BY <1>5 DEF Set, LeaseInv, Inv, TypeInv, TypeOK
<1>8. HoldFacts(run[w])'
  BY <1>6, <1>7, OutOfLoop DEF LoopPcs
<1>9. \A v \in Workers : run[v].claimed => run[v].op \in Ops
  BY DEF LeaseInv, Inv, ClaimsOK
<1>. QED BY <1>4, <1>5, <1>6, <1>8, <1>9, OneMoves, LeasingStep

\* The worker hands back its own lease only.
LEMMA CleanUpHold ==
    ASSUME LeaseInv, MaxStall < TTL, NEW w \in Workers, CleanUp(w)
    PROVE  HoldsOK' /\ LeasingOK'
<1>1. /\ UNCHANGED <<status, silence, judged, snap>> /\ Set(w, Idle)
      /\ UNCHANGED lease \/ (run[w].leasing /\ HandBack(run[w].op))
  BY DEF CleanUp
<1>2. ASSUME NEW v \in Workers, v # w, run[v].claimed
      PROVE  Kept(run[v].op)
 <2>1. run[w].leasing => run[v].op # run[w].op
   BY <1>2 DEF LeaseInv, LeasingOK, Inv, ClaimsOK
 <2>2. lease.holder = run[v].op => UNCHANGED lease
   BY <1>1, <2>1 DEF HandBack
 <2>. QED BY <1>1, <2>2 DEF Kept
<1>. QED BY <1>1, <1>2, IdleHold

LEMMA EntryHold ==
    ASSUME LeaseInv, MaxStall < TTL, NEW w \in Workers, RecordEntry(w)
    PROVE  HoldsOK' /\ LeasingOK'
<1>1. \A v \in Workers : run[v].claimed => Kept(run[v].op)
  BY DEF RecordEntry, stored, Kept, LeaseInv, Inv, TypeInv, TypeOK, ClaimsOK
<1>. QED BY <1>1, NoneMoves DEF RecordEntry

LEMMA MainHold ==
    ASSUME LeaseInv, MaxStall < TTL, NEW w \in Workers, MainStep(w)
    PROVE  HoldsOK' /\ LeasingOK'
<1>1. CASE Unexpected(w)
  BY <1>1, RaiseHold DEF Unexpected
<1>2. CASE MistWrite(w) \/ Drifted(w) \/ ReadBackFails(w)
  BY <1>2, MistHold
<1>3. CASE AcquireLease(w) \/ CaptureSnapshot(w) \/ RecordEntry(w) \/ RecordResult(w)
  BY <1>3, AcquireHold, CaptureHold, EntryHold, ResultHold
<1>4. CASE Announce(w) \/ CleanUp(w)
  BY <1>4, AnnounceHold, CleanUpHold
<1>. QED BY <1>1, <1>2, <1>3, <1>4, PersistHolds DEF MainStep

-----------------------------------------------------------------------------
\* Heartbeats.

\* A beat, or the news that it was refused, is a claimer's own.
LEMMA Beater ==
    ASSUME LeaseInv, NEW w \in Workers,
           run[w].pc = "beat" \/ run[w].own = "running" \/ run[w].beat # "none"
    PROVE  /\ run[w] \in Locals /\ LocalOK(run[w]) /\ HoldFacts(run[w])
           /\ run[w].leasing => run[w].claimed
           /\ run[w].pc = "beat" \/ run[w].own = "running" => run[w].claimed /\ run[w].op \in Ops
           /\ run[w].pc = "beat" \/ run[w].own = "running" =>
                 \A v \in Workers : v # w /\ run[v].claimed => run[v].op # run[w].op
  BY DEF LeaseInv, LeasingOK, HoldsOK, Inv, TypeInv, TypeOK, LocalsOK, LocalOK, LoopPcs,
         ClaimsOK

\* Whoever learns that the run is no longer its own was not inside its loop.
LEMMA LoseHold ==
    ASSUME LeaseInv, MaxStall < TTL, NEW w \in Workers, ~Writing(w), NEW who,
           who = "main" => run[w].pc = "beat", Lose(w, who),
           \A v \in Workers : v # w /\ run[v].claimed => Kept(run[v].op)
    PROVE  HoldsOK' /\ LeasingOK'
<1>. DEFINE r == [run[w] EXCEPT !.lost = TRUE, !.beat = "none", !.half = 0]
            g == IF who = "main" THEN Goto(r, "exit") ELSE r
<1>1. run[w] \in Locals /\ (run[w].leasing => run[w].claimed)
  BY DEF LeaseInv, LeasingOK, Inv, TypeInv, TypeOK
<1>2. /\ r \in Locals /\ r.beat = "none" /\ r.pc = run[w].pc /\ r.idx = run[w].idx
      /\ r.claimed = run[w].claimed /\ r.leasing = run[w].leasing
  BY <1>1, Bounds DEF Locals
<1>3. Set(w, g) /\ run'[w] = g
  BY DEF Lose, Set, LeaseInv, Inv, TypeInv, TypeOK
<1>4. /\ g.beat = "none" /\ (g.leasing => g.claimed)
      /\ g.pc = "exit" \/ (g.pc = run[w].pc /\ g.idx = run[w].idx)
 <2>. HIDE DEF r
 <2>1. CASE who = "main"
  <3>1. "exit" \in Pcs
    BY DEF Pcs
  <3>. QED BY <1>1, <1>2, <2>1, <3>1, GotoFields, GotoRest
 <2>2. CASE who # "main"
   BY <1>1, <1>2, <2>2
 <2>. QED BY <2>1, <2>2
<1>. HIDE DEF g, r
<1>5. run'[w].pc \notin LoopPcs \/ run'[w].idx \notin Actions
  BY <1>2, <1>3, <1>4 DEF Writing, LoopPcs
<1>6. run'[w].pc \notin LoopPcs \/ (run'[w].pc = "beat" /\ run'[w].idx \notin Actions)
  BY <1>3, <1>4, <1>5 DEF LoopPcs, LeaseInv, Inv, TypeInv, CursorOK, InAction
<1>7. run'[w].beat = "main" => run'[w].idx # 0
  BY <1>3, <1>4
<1>8. HoldFacts(run[w])'
  BY <1>6, <1>7, OutOfLoop
<1>9. HoldsOK'
  BY <1>3, <1>8, OneMoves
<1>10. LeasingOK'
  BY <1>3, <1>4, LeasingStep
<1>. QED BY <1>9, <1>10

LEMMA RenewHold ==
    ASSUME LeaseInv, MaxStall < TTL, NEW w \in Workers, NEW who \in {"main", "task"},
           RenewLease(w, who)
    PROVE  HoldsOK' /\ LeasingOK'
<1>1. /\ UNCHANGED <<status, silence, judged, snap>>
      /\ run[w].pc = "beat" \/ run[w].own = "running"
      /\ who = "main" => run[w].pc = "beat"
      /\ run[w].beat = "none"
  BY DEF RenewLease, Beating, Unlocked, At, stored
<1>2. /\ run[w] \in Locals /\ HoldFacts(run[w]) /\ (run[w].leasing => run[w].claimed)
      /\ run[w].op \in Ops
      /\ \A v \in Workers : v # w /\ run[v].claimed => run[v].op # run[w].op
  BY <1>1, Beater
<1>3. CASE lease.holder = run[w].op /\ ~run[w].lost
 <2>. DEFINE r == [run[w] EXCEPT !.beat = who, !.half = 0]
 <2>1. Grant(run[w].op) /\ Set(w, r)
   BY <1>3 DEF RenewLease
 <2>2. /\ r.beat = who /\ r.half = 0 /\ r.pc = run[w].pc /\ r.idx = run[w].idx
       /\ r.op = run[w].op /\ r.lost = run[w].lost /\ r.age = run[w].age
       /\ r.leasing = run[w].leasing /\ r.claimed = run[w].claimed
   BY <1>2, Bounds DEF Locals
 <2>. HIDE DEF r
 <2>3. run'[w] = r
   BY <2>1 DEF Set, LeaseInv, Inv, TypeInv, TypeOK
 <2>4. \A v \in Workers : v # w /\ run[v].claimed => Kept(run[v].op)
   BY <1>1, <1>2, <1>3, <2>1 DEF Kept
 <2>5. \A t \in 0 .. MaxStall : Covers(run[w].op, t)'
   BY <2>1, <2>2, <2>3, TimeAssumption DEF Grant, Covers
 <2>6. run[w].age \in 0 .. MaxStall /\ 0 \in 0 .. MaxStall
   BY <1>2, Bounds DEF Locals
 <2>7. WritingOK(run[w])'
  <3>. SUFFICES ASSUME run'[w].pc \in LoopPcs, run'[w].idx \in Actions
                PROVE  /\ ~run'[w].lost /\ Secure(run[w].op, run[w].age)'
                       /\ run'[w].half <= run'[w].age /\ Covers(run[w].op, run[w].half)'
    BY DEF WritingOK
  <3>1. ~run[w].lost /\ Secure(run[w].op, run[w].age)
    BY <1>2, <2>2, <2>3 DEF HoldFacts, WritingOK
  <3>2. Covers(run[w].op, run[w].age)' /\ Covers(run[w].op, run[w].half)'
    BY <2>2, <2>3, <2>5, <2>6
  <3>3. Secure(run[w].op, run[w].age)'
    BY <1>1, <2>2, <2>3, <3>1, <3>2 DEF Secure
  <3>. QED BY <2>2, <2>3, <2>6, <3>1, <3>2, <3>3
 <2>8. OpeningOK(run[w])'
   BY <1>3, <2>2, <2>3, <2>5, <2>6 DEF OpeningOK
 <2>9. EntryOK(run[w])'
   BY <1>1, <1>2, <2>2, <2>3 DEF HoldFacts, EntryOK
 <2>10. HoldFacts(run[w])'
   BY <2>7, <2>8, <2>9 DEF HoldFacts
 <2>. QED BY <1>2, <2>1, <2>2, <2>4, <2>10, OneMoves, LeasingStep
<1>4. CASE ~(lease.holder = run[w].op /\ ~run[w].lost)
 <2>1. UNCHANGED lease /\ Lose(w, who)
   BY <1>4 DEF RenewLease
 <2>2. ~Writing(w)
   BY <1>2, <1>4 DEF Writing, HoldFacts, WritingOK, Secure, Covers
 <2>3. \A o : Kept(o)
   BY <1>1, <2>1, QuietKept
 <2>. QED BY <1>1, <2>1, <2>2, <2>3, LoseHold
<1>. QED BY <1>3, <1>4

\* The beat that ends is as good as the moment it began.
LEMMA TouchHold ==
    ASSUME LeaseInv, MaxStall < TTL, NEW w \in Workers, TouchRun(w)
    PROVE  HoldsOK' /\ LeasingOK'
<1>. DEFINE op == run[w].op
            who == run[w].beat
            entering == who = "main" /\ run[w].idx = 0
            r == [run[w] EXCEPT !.beat = "none", !.half = 0,
                                !.age = IF Writing(w) \/ entering THEN run[w].half ELSE 0]
            g == IF who = "main" THEN AfterBeat(r) ELSE r
<1>1. /\ UNCHANGED <<status, lease, snap>> /\ run[w].beat # "none"
      /\ who = "main" => run[w].pc = "beat"
      /\ run[w] \in Locals /\ LocalOK(run[w]) /\ HoldFacts(run[w])
      /\ run[w].leasing => run[w].claimed
      /\ op \in Ops
  BY Beater DEF TouchRun, Unlocked, LocalOK, BeatPcs
<1>2. CASE status[op] # "running"
 <2>1. UNCHANGED <<silence, judged>> /\ Lose(w, who)
   BY <1>2 DEF TouchRun
 <2>2. ~Writing(w)
   BY <1>1, <1>2 DEF Writing, HoldFacts, WritingOK, Secure
 <2>3. \A o : Kept(o)
   BY <1>1, <2>1, QuietKept
 <2>. QED BY <1>1, <2>1, <2>2, <2>3, LoseHold
<1>3. CASE status[op] = "running"
 <2>1. /\ silence' = [silence EXCEPT ![op] = 0] /\ judged' = [judged EXCEPT ![op] = FALSE]
       /\ Set(w, g) /\ run'[w] = g
   BY <1>3 DEF TouchRun, Set, LeaseInv, Inv, TypeInv, TypeOK
 <2>2. ASSUME NEW v \in Workers, run[v].claimed PROVE Kept(run[v].op)
  <3>1. run[v].op \in Ops
    BY <2>2 DEF LeaseInv, Inv, ClaimsOK
  <3>. QED BY <1>1, <2>1, <3>1 DEF Kept, LeaseInv, Inv, TypeInv, TypeOK
 <2>3. silence'[op] = 0 /\ ~judged'[op]
   BY <1>1, <2>1 DEF LeaseInv, Inv, TypeInv, TypeOK
 <2>4. /\ r.beat = "none" /\ r.pc = run[w].pc /\ r.idx = run[w].idx
       /\ r.op = op /\ r.lost = run[w].lost
       /\ r.leasing = run[w].leasing /\ r.claimed = run[w].claimed
       /\ Writing(w) \/ entering => r.age = run[w].half
       /\ run[w].half \in 0 .. MaxStall /\ r \in Locals
   BY <1>1, Bounds DEF Locals
 <2>. HIDE DEF r
 <2>5. /\ g.beat = "none" /\ (g.leasing => g.claimed) /\ g.op = op /\ g.lost = run[w].lost
       /\ g.pc \in LoopPcs => g.age = r.age /\ g.pc \in {run[w].pc, "beat", "check"}
       /\ g.pc \in LoopPcs /\ g.idx \in Actions =>
              Writing(w) \/ (who = "main" /\ run[w].idx = 0)
       /\ g.pc = "mist" => run[w].pc = "mist" /\ g.idx = run[w].idx
  <3>1. CASE who # "main"
    BY <1>1, <2>4, <3>1 DEF Writing
  <3>2. CASE who = "main" /\ r.idx = 0
    BY <1>1, <2>4, <3>2 DEF AfterBeat, Locals
  <3>3. CASE who = "main" /\ r.idx # 0 /\ r.idx \in Actions
    BY <1>1, <2>4, <3>3 DEF AfterBeat, Locals, Writing, LoopPcs
  <3>4. CASE who = "main" /\ r.idx # 0 /\ r.idx \notin Actions
   <4>1. g = [r EXCEPT !.pc = "verify", !.age = 0]
     BY <3>4 DEF AfterBeat
   <4>. QED BY <1>1, <2>4, <3>4, <4>1 DEF Locals, LoopPcs
  <3>. QED BY <3>1, <3>2, <3>3, <3>4
 <2>. HIDE DEF g
 <2>6. WritingOK(run[w])'
  <3>. SUFFICES ASSUME g.pc \in LoopPcs, g.idx \in Actions
                PROVE  ~run'[w].lost /\ Secure(run[w].op, run[w].age)'
    BY <2>1, <2>5 DEF WritingOK
  <3>1. g.age = run[w].half /\ ~run[w].lost /\ Covers(op, run[w].half)
   <4>1. CASE Writing(w)
     BY <1>1, <2>4, <2>5, <4>1 DEF Writing, HoldFacts, WritingOK
   <4>2. CASE who = "main" /\ run[w].idx = 0
     BY <1>1, <1>3, <2>4, <2>5, <4>2 DEF HoldFacts, OpeningOK
   <4>. QED BY <2>5, <4>1, <4>2
  <3>2. run'[w].op = op /\ run'[w].age = run[w].half /\ ~run'[w].lost
    BY <2>1, <2>5, <3>1
  <3>. QED BY <1>1, <1>3, <2>3, <2>4, <3>1, <3>2 DEF Secure, Covers
 <2>7. OpeningOK(run[w])' /\ EntryOK(run[w])'
   BY <1>1, <2>1, <2>5 DEF OpeningOK, HoldFacts, EntryOK
 <2>8. HoldFacts(run[w])'
   BY <2>6, <2>7 DEF HoldFacts
 <2>. QED BY <2>1, <2>2, <2>5, <2>8, OneMoves, LeasingStep
<1>. QED BY <1>2, <1>3

LEMMA BeatErrorHold ==
    ASSUME LeaseInv, MaxStall < TTL, NEW w \in Workers, BeatError(w)
    PROVE  HoldsOK' /\ LeasingOK'
<1>1. CASE run[w].beat = "task" /\ Local(w, [run[w] EXCEPT !.beat = "none", !.half = 0])
 <2>. DEFINE r == [run[w] EXCEPT !.beat = "none", !.half = 0]
 <2>1. /\ UNCHANGED <<status, silence, judged, lease, snap>> /\ Set(w, r)
       /\ run[w] \in Locals /\ (run[w].leasing => run[w].claimed)
   BY <1>1 DEF Local, stored, LeaseInv, LeasingOK, Inv, TypeInv, TypeOK
 <2>2. /\ r.beat = "none" /\ r.pc = run[w].pc /\ r.idx = run[w].idx
       /\ r.op = run[w].op /\ r.lost = run[w].lost /\ r.age = run[w].age
       /\ r.leasing = run[w].leasing /\ r.claimed = run[w].claimed
   BY <2>1 DEF Locals
 <2>. HIDE DEF r
 <2>3. run'[w] = r
   BY <2>1 DEF Set, LeaseInv, Inv, TypeInv, TypeOK
 <2>4. \A o : Kept(o)
   BY <2>1, QuietKept
 <2>5. HoldFacts(run[w])'
  <3>1. CASE Writing(w)
    BY <2>2, <2>3, <2>4, <3>1, Bounds, StaysInLoop DEF Writing
  <3>2. CASE ~Writing(w)
   <4>1. r.pc \notin LoopPcs \/ (r.pc = "beat" /\ r.idx \notin Actions)
     BY <2>2, <3>2 DEF Writing, LoopPcs, LeaseInv, Inv, TypeInv, CursorOK, InAction
   <4>. QED BY <2>2, <2>3, <4>1, OutOfLoop
  <3>. QED BY <3>1, <3>2
 <2>. QED BY <2>1, <2>2, <2>4, <2>5, OneMoves, LeasingStep
<1>. QED BY <1>1, RaiseHold DEF BeatError

-----------------------------------------------------------------------------
\* Everyone else's steps.

LEMMA RequestHold ==
    ASSUME LeaseInv, MaxStall < TTL,
           \/ \E op \in Ops : Request(op)
           \/ \E c \in Compensations : PlanCompensation(c)
    PROVE  HoldsOK' /\ LeasingOK'
<1>1. ASSUME NEW q \in Ops PROVE Kept(q)
 <2>1. UNCHANGED <<silence, judged, lease, snap>>
   BY DEF Request, CheckRequest, Reserve, SendTask, RequestDies, Release, Supersede,
          ExpireCredential, PlanCompensation, stored
 <2>2. status'[q] = "running" => status[q] = "running"
   BY DEF Request, CheckRequest, Reserve, SendTask, RequestDies, Release, Supersede,
          ExpireCredential, PlanCompensation, stored, LeaseInv, Inv, TypeInv, TypeOK
 <2>3. status[q] = "running" => status'[q] = "running"
   BY OpsAssumption
   DEF Request, CheckRequest, Reserve, SendTask, RequestDies, Release, Supersede,
       ExpireCredential, PlanCompensation, stored, Authorizable, LeaseInv, Inv, TypeInv, TypeOK
 <2>4. judged'[q] = judged[q] /\ silence'[q] = silence[q]
   BY <2>1
 <2>. QED BY <2>1, <2>2, <2>3, <2>4 DEF Kept
<1>2. UNCHANGED run
  BY DEF Request, CheckRequest, Reserve, SendTask, RequestDies, Release, Supersede,
         ExpireCredential, PlanCompensation
<1>3. \A v \in Workers : run[v].claimed => run[v].op \in Ops
  BY DEF LeaseInv, Inv, ClaimsOK
<1>. QED BY <1>1, <1>2, <1>3, NoneMoves

\* The janitor acts on silence, and hands back the lease of a run it has closed.
LEMMA JanitorHold ==
    ASSUME LeaseInv, MaxStall < TTL, NEW op \in Ops, Janitor(op)
    PROVE  HoldsOK' /\ LeasingOK'
<1>1. ASSUME NEW q \in Ops PROVE Kept(q)
 <2>. USE DEF LeaseInv, Inv, TypeInv, TypeOK
 <2>1. CASE FindSilent(op)
  <3>1. /\ UNCHANGED <<status, silence, lease, snap>> /\ silence[op] >= TTL
        /\ judged' = [judged EXCEPT ![op] = TRUE]
    BY <2>1 DEF FindSilent
  <3>2. silence[q] < TTL => judged'[q] = judged[q]
   <4>1. CASE q = op
     BY <3>1, <4>1, TimeAssumption
   <4>2. CASE q # op
     BY <3>1, <4>2
   <4>. QED BY <4>1, <4>2
  <3>. QED BY <3>1, <3>2 DEF Kept
 <2>2. CASE Interrupt(op)
  <3>1. PICK c \in {Compensating(op), FALSE} :
          status' = [status EXCEPT ![op] = TerminalFailureStatus(MarkUnconfirmed(acts[op]), c)]
    BY <2>2 DEF Interrupt
  <3>2. TerminalFailureStatus(MarkUnconfirmed(acts[op]), c) # "running"
    BY DEF TerminalFailureStatus
  <3>3. /\ judged[op] /\ status[op] = "running" /\ UNCHANGED <<snap, lease>>
        /\ silence' = [silence EXCEPT ![op] = 0] /\ judged' = [judged EXCEPT ![op] = FALSE]
    BY <2>2 DEF Interrupt
  <3>4. CASE q = op
    BY <3>1, <3>2, <3>3, <3>4 DEF Kept
  <3>5. CASE q # op
    BY <3>1, <3>3, <3>5 DEF Kept
  <3>. QED BY <3>4, <3>5
 <2>3. CASE JanitorRelease(op)
  <3>1. /\ UNCHANGED <<status, silence, judged, snap>>
        /\ UNCHANGED lease \/ HandBack(op)
        /\ status[op] # "running"
    BY <2>3 DEF JanitorRelease, stored, FreeingOK, Terminal
  <3>2. status[q] = "running" /\ lease.holder = q => UNCHANGED lease
    BY <3>1 DEF HandBack
  <3>. QED BY <3>1, <3>2 DEF Kept
 <2>. QED BY <2>1, <2>2, <2>3 DEF Janitor
<1>2. UNCHANGED run
  BY DEF Janitor, FindSilent, Interrupt, JanitorRelease
<1>3. \A v \in Workers : run[v].claimed => run[v].op \in Ops
  BY DEF LeaseInv, Inv, ClaimsOK
<1>. QED BY <1>1, <1>2, <1>3, NoneMoves

LEMMA CrashHold ==
    ASSUME LeaseInv, MaxStall < TTL, NEW w \in Workers, Crash(w)
    PROVE  HoldsOK' /\ LeasingOK'
<1>1. UNCHANGED <<status, silence, judged, lease, snap>> /\ Set(w, Idle)
  BY DEF Crash, stored
<1>2. \A o : Kept(o)
  BY <1>1, QuietKept
<1>. QED BY <1>1, <1>2, IdleHold

LEMMA LoadHold ==
    ASSUME LeaseInv, MaxStall < TTL, NEW w \in Workers, NEW op \in Ops, LoadQueued(w, op)
    PROVE  HoldsOK' /\ LeasingOK'
<1>. DEFINE r == [Idle EXCEPT !.pc = "loaded", !.op = op, !.acts = acts[op]]
<1>1. UNCHANGED <<status, silence, judged, lease, snap>> /\ Set(w, r)
  BY DEF LoadQueued, Local, stored
<1>2. r.pc = "loaded" /\ r.beat = "none" /\ r.leasing = FALSE
  BY DEF Idle
<1>. HIDE DEF r
<1>3. run'[w] = r
  BY <1>1 DEF Set, LeaseInv, Inv, TypeInv, TypeOK
<1>4. \A o : Kept(o)
  BY <1>1, QuietKept
<1>5. HoldFacts(run[w])'
  BY <1>2, <1>3, OutOfLoop DEF LoopPcs
<1>. QED BY <1>1, <1>2, <1>4, <1>5, OneMoves, LeasingStep

LEMMA LapsedHold ==
    ASSUME LeaseInv, MaxStall < TTL, RemoveLapsedLease \/ UNCHANGED vars
    PROVE  HoldsOK' /\ LeasingOK'
<1>1. \A o : Kept(o)
  BY DEF RemoveLapsedLease, vars, stored, Kept
<1>. QED BY <1>1, NoneMoves DEF RemoveLapsedLease, vars

\* A tick lengthens the silence, the beat and the lease's spent term alike.
LEMMA TickHold ==
    ASSUME LeaseInv, MaxStall < TTL, Tick
    PROVE  HoldsOK' /\ LeasingOK'
<1>1. UNCHANGED <<status, judged, snap>>
  BY DEF Tick
<1>2. ASSUME NEW w \in Workers
      PROVE  HoldFacts(run[w])' /\ (run'[w].leasing => run'[w].claimed)
 <2>. DEFINE a == IF Writing(w) THEN run[w].age + 1 ELSE run[w].age
             h == IF run[w].beat # "none" THEN run[w].half + 1 ELSE run[w].half
 <2>1. /\ run[w] \in Locals /\ HoldFacts(run[w]) /\ LocalOK(run[w])
       /\ run'[w] = [run[w] EXCEPT !.age = a, !.half = h]
       /\ run[w].leasing => run[w].claimed
   BY DEF Tick, LeaseInv, HoldsOK, LeasingOK, Inv, TypeInv, TypeOK, LocalsOK
 <2>2. /\ run'[w].pc = run[w].pc /\ run'[w].op = run[w].op /\ run'[w].idx = run[w].idx
       /\ run'[w].lost = run[w].lost /\ run'[w].beat = run[w].beat
       /\ run'[w].leasing = run[w].leasing /\ run'[w].claimed = run[w].claimed
       /\ run'[w].age = a /\ run'[w].half = h
       /\ run[w].age \in Nat /\ run[w].half \in Nat
  <3>. HIDE DEF a, h
  <3>. QED BY <2>1, TimeAssumption DEF Locals
 <2>3. /\ lease'.holder = lease.holder
       /\ lease'.left = (IF lease.left > 0 THEN lease.left - 1 ELSE 0)
       /\ lease.left \in Nat
  <3>1. /\ lease \in [holder : Ops \union {NoOp}, left : 0 .. TTL]
        /\ lease' = [lease EXCEPT !.left = IF @ > 0 THEN @ - 1 ELSE 0]
    BY DEF Tick, LeaseInv, Inv, TypeInv, TypeOK
  <3>. QED BY <3>1, TimeAssumption
 <2>4. ASSUME NEW t \in Nat, NEW op, Covers(op, t)
       PROVE  lease'.holder = op /\ lease'.left + (t + 1) >= TTL
   BY <2>3, <2>4, TimeAssumption DEF Covers
 <2>5. WritingOK(run[w])'
  <3>. SUFFICES ASSUME run[w].pc \in LoopPcs, run[w].idx \in Actions
                PROVE  /\ ~run'[w].lost /\ Secure(run[w].op, run[w].age)'
                       /\ run'[w].beat # "none" =>
                             run'[w].half <= run'[w].age /\ Covers(run[w].op, run[w].half)'
    BY <2>2 DEF WritingOK
  <3>1. /\ ~run[w].lost /\ Secure(run[w].op, run[w].age)
        /\ run[w].beat # "none" => run[w].half <= run[w].age /\ Covers(run[w].op, run[w].half)
        /\ Writing(w)
    BY <2>1 DEF HoldFacts, WritingOK, Writing
  <3>2. run[w].op \in Ops
    BY <2>1 DEF LocalOK, LoopPcs
  <3>3. /\ silence[run[w].op] \in Nat /\ silence'[run[w].op] \in Nat
        /\ silence'[run[w].op] <= silence[run[w].op] + 1
   <4>1. /\ silence[run[w].op] \in 0 .. TTL
         /\ silence'[run[w].op] \in {silence[run[w].op], silence[run[w].op] + 1}
     BY <3>2 DEF Tick, LeaseInv, Inv, TypeInv, TypeOK
   <4>. QED BY <4>1, TimeAssumption
  <3>4. silence'[run[w].op] <= run[w].age + 1
   <4>1. silence[run[w].op] <= run[w].age
     BY <3>1 DEF Secure
   <4>. QED BY <2>2, <3>3, <4>1
  <3>5. Secure(run[w].op, run[w].age)'
    BY <1>1, <2>2, <2>4, <3>1, <3>4 DEF Secure, Covers
  <3>6. run'[w].beat # "none" =>
            run'[w].half <= run'[w].age /\ Covers(run[w].op, run[w].half)'
    BY <2>2, <2>4, <3>1 DEF Covers
  <3>. QED BY <2>2, <3>1, <3>5, <3>6
 <2>6. OpeningOK(run[w])'
   BY <1>1, <2>1, <2>2, <2>4 DEF HoldFacts, OpeningOK, Covers
 <2>7. EntryOK(run[w])'
   BY <1>1, <2>1, <2>2 DEF HoldFacts, EntryOK
 <2>. QED BY <2>1, <2>2, <2>5, <2>6, <2>7 DEF HoldFacts
<1>. QED BY <1>2 DEF HoldsOK, LeasingOK

-----------------------------------------------------------------------------
LEMMA FreeingStep ==
    ASSUME LeaseInv, [Next]_vars
    PROVE  FreeingOK'
<1>1. MovesOK
  BY StepKeeps DEF LeaseInv
<1>2. \A op \in freeing : status'[op] \in Terminal
 <2>. TAKE op \in freeing
 <2>1. op \in Ops /\ status[op] \in Terminal
   BY DEF LeaseInv, FreeingOK, Inv, TypeInv, TypeOK
 <2>. QED BY <1>1, <2>1 DEF MovesOK, MayBecome, Terminal
<1>3. CASE \E op \in Ops : Janitor(op)
 <2>1. PICK op \in Ops : Janitor(op)
   BY <1>3
 <2>2. CASE FindSilent(op) \/ JanitorRelease(op)
   BY <1>2, <2>2 DEF FindSilent, JanitorRelease, FreeingOK
 <2>3. CASE Interrupt(op)
  <3>1. status'[op] \in Terminal
    BY <2>3 DEF Interrupt, TerminalFailureStatus, Terminal, LeaseInv, Inv, TypeInv, TypeOK
  <3>2. freeing' = freeing \union {op}
    BY <2>3 DEF Interrupt
  <3>. QED BY <1>2, <3>1, <3>2 DEF FreeingOK
 <2>. QED BY <2>1, <2>2, <2>3 DEF Janitor
<1>4. CASE ~\E op \in Ops : Janitor(op)
 <2>1. UNCHANGED freeing
   BY <1>4, ZenonT(40)
   DEF Next, PlanCompensation, Request, CheckRequest, Reserve, SendTask, RequestDies,
       Release, Supersede, ExpireCredential, LoadQueued, Local, MainStep, PreconditionFails,
       PersistFailure, Persist, Claim, AcquireLease, CaptureSnapshot, FailPreflight, Drifted,
       RecordEntry, SkipWrite, MarkExecuting, MistWrite, PersistCompleted, ReadBackFails,
       PersistAppliedHash, RecordResult, Unexpected, Raise, FailOperation, FailVerification,
       Finish, Announce, CloseFailed, CleanUp, Beat, RenewLease, TouchRun, BeatError, Crash,
       RemoveLapsedLease, Tick, vars
 <2>. QED BY <1>2, <2>1 DEF FreeingOK
<1>. QED BY <1>3, <1>4

LEMMA LeaseInit == Init => LeaseInv
<1>. SUFFICES ASSUME Init PROVE LeaseInv
  OBVIOUS
<1>1. \A w \in Workers : run[w] = Idle
  BY DEF Init
<1>2. Idle.pc = "idle" /\ Idle.beat = "none" /\ Idle.leasing = FALSE
  BY DEF Idle
<1>3. HoldsOK /\ LeasingOK
  BY <1>1, <1>2 DEF HoldsOK, HoldFacts, WritingOK, OpeningOK, EntryOK, LeasingOK, LoopPcs
<1>4. FreeingOK
  BY DEF Init, FreeingOK
<1>. QED BY <1>3, <1>4, InvInit DEF LeaseInv

LEMMA LeaseStep ==
    ASSUME MaxStall < TTL
    PROVE  LeaseInv /\ [Next]_vars => LeaseInv'
<1>. SUFFICES ASSUME LeaseInv, [Next]_vars PROVE LeaseInv'
  OBVIOUS
<1>1. Inv' /\ FreeingOK'
  BY InvStep, FreeingStep DEF LeaseInv
<1>2. HoldsOK' /\ LeasingOK'
 <2>1. CASE (\E op \in Ops : Request(op)) \/ (\E c \in Compensations : PlanCompensation(c))
   BY <2>1, RequestHold
 <2>2. CASE \E w \in Workers, op \in Ops : LoadQueued(w, op)
   BY <2>2, LoadHold
 <2>3. CASE \E w \in Workers : MainStep(w)
   BY <2>3, MainHold
 <2>4. CASE \E w \in Workers : Beat(w)
   BY <2>4, RenewHold, TouchHold, BeatErrorHold DEF Beat
 <2>5. CASE \E w \in Workers : Crash(w)
   BY <2>5, CrashHold
 <2>6. CASE \E op \in Ops : Janitor(op)
   BY <2>6, JanitorHold
 <2>7. CASE RemoveLapsedLease \/ UNCHANGED vars
   BY <2>7, LapsedHold
 <2>8. CASE Tick
   BY <2>8, TickHold
 <2>. QED BY <2>1, <2>2, <2>3, <2>4, <2>5, <2>6, <2>7, <2>8 DEF Next
<1>. QED BY <1>1, <1>2 DEF LeaseInv

-----------------------------------------------------------------------------
\* Only Mist's answer, or a death before it, leaves a write behind.
LEMMA WhoWrites ==
    ASSUME [Next]_vars
    PROVE  \/ UNCHANGED writes
           \/ \E w \in Workers : /\ At(w, "mist") /\ Apply(run[w].op, run[w].idx)
                                 /\ MistWrite(w) \/ Crash(w)
<1>1. CASE \E w \in Workers : MistWrite(w) \/ Crash(w)
  BY <1>1 DEF MistWrite, Crash
<1>2. CASE ~\E w \in Workers : MistWrite(w) \/ Crash(w)
  BY <1>2, ZenonT(40)
  DEF Next, PlanCompensation, Request, CheckRequest, Reserve, SendTask, RequestDies,
      Release, Supersede, ExpireCredential, LoadQueued, Local, MainStep, PreconditionFails,
      PersistFailure, Persist, Claim, AcquireLease, CaptureSnapshot, FailPreflight, Drifted,
      RecordEntry, SkipWrite, MarkExecuting, PersistCompleted, ReadBackFails,
      PersistAppliedHash, RecordResult, Unexpected, Raise, FailOperation, FailVerification,
      Finish, Announce, CloseFailed, CleanUp, Beat, RenewLease, TouchRun, BeatError,
      Janitor, FindSilent, Interrupt, JanitorRelease, RemoveLapsedLease, Tick, vars
<1>. QED BY <1>1, <1>2

\* A worker inside its loop holds the organization.
LEMMA Held ==
    ASSUME LeaseInv, MaxStall < TTL, NEW w \in Workers, Writing(w)
    PROVE  /\ run[w].claimed /\ run[w].op \in Ops /\ ~run[w].lost
           /\ status[run[w].op] = "running"
           /\ lease.holder = run[w].op /\ lease.left > 0
<1>1. /\ HoldFacts(run[w]) /\ LocalOK(run[w])
      /\ run[w].age \in 0 .. MaxStall /\ lease.left \in 0 .. TTL
  BY DEF LeaseInv, HoldsOK, Inv, LocalsOK, TypeInv, TypeOK, Locals
<1>2. /\ ~run[w].lost /\ status[run[w].op] = "running"
      /\ lease.holder = run[w].op /\ lease.left + run[w].age >= TTL
  BY <1>1 DEF Writing, HoldFacts, WritingOK, Secure, Covers
<1>3. lease.left > 0
  BY <1>1, <1>2, TimeAssumption
<1>4. run[w].claimed /\ run[w].op \in Ops
  BY <1>1 DEF Writing, LocalOK, LoopPcs
<1>. QED BY <1>2, <1>3, <1>4

LEMMA HeldOnce ==
    ASSUME LeaseInv, MaxStall < TTL
    PROVE  ExclusiveWriter
<1>. SUFFICES ASSUME NEW w1 \in Workers, NEW w2 \in Workers, Writing(w1), Writing(w2)
              PROVE  w1 = w2
  BY DEF ExclusiveWriter
<1>1. /\ run[w1].claimed /\ run[w2].claimed /\ run[w1].op = run[w2].op
  BY Held
<1>. QED BY <1>1 DEF LeaseInv, Inv, ClaimsOK

\* The write a worker sends, or dies on, is one the lease and the record allow.
LEMMA WriteGuarded ==
    ASSUME LeaseInv, MaxStall < TTL, NEW w \in Workers, At(w, "mist"),
           Apply(run[w].op, run[w].idx)
    PROVE  /\ Writing(w)
           /\ WriteAllowed(run[w].op, run[w].idx)
           /\ \A op \in Ops, i \in Actions :
                 writes'[op][i] # writes[op][i] => op = run[w].op /\ i = run[w].idx
<1>1. Writing(w) /\ HoldFacts(run[w])
  BY DEF At, Writing, LoopPcs, InAction, LeaseInv, HoldsOK, Inv, TypeInv, CursorOK
<1>2. WriteAllowed(run[w].op, run[w].idx)
  BY <1>1, Held DEF At, HoldFacts, EntryOK, WriteAllowed
<1>3. ASSUME NEW op \in Ops, NEW i \in Actions, writes'[op][i] # writes[op][i]
      PROVE  op = run[w].op /\ i = run[w].idx
 <2>1. writes[op] \in [Actions -> 0 .. 2] /\ writes \in [Ops -> [Actions -> 0 .. 2]]
   BY DEF LeaseInv, Inv, TypeInv, TypeOK
 <2>2. writes' = [writes EXCEPT ![run[w].op][run[w].idx] = IF @ = 0 THEN 1 ELSE 2]
   BY DEF Apply
 <2>3. CASE op # run[w].op
   BY <1>3, <2>1, <2>2, <2>3
 <2>4. CASE op = run[w].op /\ i # run[w].idx
  <3>1. writes'[op] = [writes[op] EXCEPT ![run[w].idx] = IF @ = 0 THEN 1 ELSE 2]
    BY <2>1, <2>2, <2>4
  <3>. QED BY <1>3, <2>1, <2>4, <3>1
 <2>. QED BY <2>3, <2>4
<1>. QED BY <1>1, <1>2, <1>3

\* When every beat of a worker with writes ahead comes within a lease's term, no
\* schedule of requests, deliveries, deaths and recoveries lets two workers of
\* one organization be inside their action loops at once.
THEOREM WritersAreExclusive ==
    ASSUME MaxStall < TTL
    PROVE  Spec => []ExclusiveWriter
<1>1. LeaseInv /\ [Next]_vars => LeaseInv'
  BY LeaseStep
<1>2. LeaseInv => ExclusiveWriter
  BY HeldOnce
<1>. QED BY LeaseInit, <1>1, <1>2, PTL DEF Spec

\* Under the same hypothesis, whatever reaches Mist reaches it from a run that is
\* still open, under its own live lease, over an object whose prior state is
\* stored: also the write that a dying worker left in flight.
THEOREM WritesAreGuarded ==
    ASSUME MaxStall < TTL
    PROVE  Spec => GuardedWrites
<1>1. LeaseInv /\ [Next]_vars => LeaseInv'
  BY LeaseStep
<1>2. LeaseInv /\ [Next]_vars =>
          [\A op \in Ops, i \in Actions :
              writes'[op][i] # writes[op][i] => WriteAllowed(op, i)]_vars
  BY WhoWrites, WriteGuarded
<1>. QED BY LeaseInit, <1>1, <1>2, PTL DEF Spec, GuardedWrites

\* What restore_executor.py says of the write that marks an action executing: an
\* operation the janitor closed never reaches Mist again.  The hypothesis is what
\* the comment leaves out; a longer stall breaks it.
THEOREM ClosedStaysOffMist ==
    ASSUME MaxStall < TTL
    PROVE  Spec => ClosedNeverReachesMist
<1>1. LeaseInv /\ [Next]_vars => LeaseInv'
  BY LeaseStep
<1>2. LeaseInv /\ [Next]_vars =>
          [\A op \in Ops : status[op] \in Terminal => writes'[op] = writes[op]]_vars
 <2>. SUFFICES ASSUME LeaseInv, [Next]_vars, NEW op \in Ops, status[op] \in Terminal
               PROVE  writes'[op] = writes[op]
   OBVIOUS
 <2>1. ASSUME NEW i \in Actions PROVE writes'[op][i] = writes[op][i]
   BY WhoWrites, WriteGuarded DEF WriteAllowed, Terminal
 <2>2. writes[op] \in [Actions -> 0 .. 2] /\ writes'[op] \in [Actions -> 0 .. 2]
   BY <1>1 DEF LeaseInv, Inv, TypeInv, TypeOK
 <2>. QED BY <2>1, <2>2
<1>. QED BY LeaseInit, <1>1, <1>2, PTL DEF Spec, ClosedNeverReachesMist

-----------------------------------------------------------------------------
\* The organization's restores implement SerialRestores.

\* A step changes at most one worker's place in the loop, and a worker enters it
\* from the beat that opens it.
Same(w) == (Writing(w)' <=> Writing(w)) /\ run'[w].op = run[w].op
Continues(w) ==
    Writing(w)' =>
        /\ run'[w].op = run[w].op
        /\ Writing(w) \/ (run[w].pc = "beat" /\ run[w].idx = 0 /\ UNCHANGED writes)
TenureStep ==
    /\ \A w \in Workers : Continues(w)
    /\ \A v, w \in Workers : v # w => Same(v) \/ Same(w)

LEMMA StillTenure == UNCHANGED run => TenureStep
  BY DEF TenureStep, Continues, Same, Writing

LEMMA WorkerTenure ==
    ASSUME LeaseInv, NEW w \in Workers, NEW r, Set(w, r),
           r.pc \in LoopPcs /\ r.idx \in Actions =>
               /\ r.op = run[w].op
               /\ Writing(w) \/ (run[w].pc = "beat" /\ run[w].idx = 0 /\ UNCHANGED writes)
    PROVE  TenureStep
<1>1. run'[w] = r /\ \A v \in Workers : v # w => run'[v] = run[v]
  BY DEF Set, LeaseInv, Inv, TypeInv, TypeOK
<1>2. Continues(w)
  BY <1>1 DEF Continues, Writing
<1>3. \A v \in Workers : v # w => Continues(v) /\ Same(v)
  BY <1>1 DEF Continues, Same, Writing
<1>. QED BY <1>2, <1>3 DEF TenureStep

LEMMA GotoTenure ==
    ASSUME LeaseInv, NEW w \in Workers, NEW r \in Locals, NEW pc \in Pcs,
           pc \in LoopPcs => r.op = run[w].op /\ (Writing(w) \/ r.idx = 0),
           Set(w, Goto(r, pc))
    PROVE  TenureStep
<1>. DEFINE g == Goto(r, pc)
<1>1. g.pc = pc /\ g.op = r.op /\ (pc # "exit" => g.idx = r.idx)
  BY GotoFields
<1>2. Set(w, g)
  OBVIOUS
<1>. HIDE DEF g
<1>. QED BY <1>1, <1>2, Bounds, WorkerTenure DEF LoopPcs

LEMMA PersistTenure ==
    ASSUME LeaseInv, NEW w \in Workers, NEW st \in Statuses,
           NEW as \in [Actions -> ActionStatuses], NEW next \in Pcs,
           NEW onError \in {"close", "exit"}, next \in LoopPcs => InAction(run[w].pc),
           Persist(w, st, as, next, onError)
    PROVE  TenureStep
<1>. DEFINE r == [run[w] EXCEPT !.acts = as]
            ok == [r EXCEPT !.own = st, !.claimed = TRUE]
            refused == [r EXCEPT !.lost = TRUE]
<1>1. run[w] \in Locals
  BY DEF LeaseInv, Inv, TypeInv, TypeOK
<1>2. r \in Locals
  BY <1>1 DEF Locals
<1>3. ok \in Locals /\ ok.op = run[w].op /\ refused \in Locals
  BY <1>1 DEF Locals
<1>4. next \in LoopPcs => Writing(w)
  BY DEF Writing, LeaseInv, Inv, TypeInv, CursorOK, InAction, LoopPcs
<1>5. onError \in Pcs \ LoopPcs /\ "exit" \in Pcs \ LoopPcs
  BY DEF Pcs, LoopPcs
<1>6. Set(w, Goto(ok, next)) \/ Set(w, Goto(refused, "exit")) \/ Set(w, Goto(r, onError))
  BY DEF Persist
<1>. HIDE DEF r, ok, refused
<1>. QED BY <1>2, <1>3, <1>4, <1>5, <1>6, GotoTenure

LEMMA PersistTenures ==
    ASSUME LeaseInv, NEW w \in Workers,
           \/ PreconditionFails(w) \/ Claim(w) \/ FailPreflight(w) \/ SkipWrite(w)
           \/ MarkExecuting(w) \/ PersistCompleted(w) \/ PersistAppliedHash(w)
           \/ FailOperation(w) \/ FailVerification(w) \/ Finish(w) \/ CloseFailed(w)
    PROVE  TenureStep
<1>. DEFINE closed == TerminalFailureStatus(run[w].acts, Compensating(run[w].op))
            interrupted == MarkUnconfirmed(run[w].acts)
<1>1. /\ run[w].acts \in [Actions -> ActionStatuses]
      /\ \A a \in ActionStatuses : With(w, a) \in [Actions -> ActionStatuses]
  BY DEF LeaseInv, Inv, TypeInv, TypeOK, Locals, With
<1>2. /\ closed \in Statuses /\ interrupted \in [Actions -> ActionStatuses]
      /\ TerminalFailureStatus(interrupted, Compensating(run[w].op)) \in Statuses
  BY <1>1, OutcomeType DEF Statuses
<1>3. \A pc \in {"acquire", "announce", "exit"} : pc \notin LoopPcs
  BY DEF LoopPcs
<1>. HIDE DEF closed, interrupted
<1>4. CASE PreconditionFails(w) \/ FailOperation(w) \/ FailVerification(w) \/ CloseFailed(w)
  BY <1>1, <1>2, <1>3, <1>4, Constants, PersistTenure
  DEF PreconditionFails, FailOperation, FailVerification, CloseFailed, PersistFailure,
      closed, interrupted
<1>5. CASE Claim(w) \/ FailPreflight(w) \/ Finish(w)
  BY <1>1, <1>3, <1>5, Constants, PersistTenure DEF Claim, FailPreflight, Finish
<1>6. CASE SkipWrite(w) \/ MarkExecuting(w)
  BY <1>1, <1>6, Constants, PersistTenure DEF SkipWrite, MarkExecuting, At, InAction
<1>7. CASE PersistCompleted(w) \/ PersistAppliedHash(w)
  BY <1>1, <1>7, Constants, PersistTenure DEF PersistCompleted, PersistAppliedHash, At, InAction
<1>. QED BY <1>4, <1>5, <1>6, <1>7

LEMMA MainTenure ==
    ASSUME LeaseInv, NEW w \in Workers, MainStep(w)
    PROVE  TenureStep
<1>1. /\ run[w] \in Locals
      /\ InAction(run[w].pc) => Writing(w)
  BY DEF LeaseInv, Inv, TypeInv, TypeOK, CursorOK, InAction, Writing, LoopPcs
<1>2. CASE MistWrite(w) \/ Drifted(w) \/ ReadBackFails(w)
 <2>1. Writing(w)
   BY <1>1, <1>2 DEF MistWrite, Drifted, ReadBackFails, At, InAction
 <2>2. ASSUME NEW a \in ActionStatuses, NEW pc \in Pcs, Set(w, Now(w, a, pc))
       PROVE  TenureStep
  <3>. DEFINE r == [run[w] EXCEPT !.acts[run[w].idx] = a]
  <3>1. r \in Locals /\ r.op = run[w].op
    BY <1>1 DEF Locals
  <3>2. Set(w, Goto(r, pc))
    BY <2>2 DEF Now
  <3>. HIDE DEF r
  <3>. QED BY <2>1, <3>1, <3>2, GotoTenure
 <2>3. ASSUME NEW pc \in Pcs, Set(w, Goto(run[w], pc)) PROVE TenureStep
   BY <1>1, <2>1, <2>3, GotoTenure
 <2>. QED BY <1>2, <2>2, <2>3, Constants DEF MistWrite, Drifted, ReadBackFails, Local
<1>3. CASE RecordResult(w)
 <2>1. Writing(w)
   BY <1>1, <1>3 DEF RecordResult, At, InAction
 <2>2. CASE Set(w, Goto(run[w], "fail"))
   BY <1>1, <2>1, <2>2, Constants, GotoTenure
 <2>3. CASE Set(w, [Goto(run[w], "beat") EXCEPT !.idx = @ + 1,
                                                !.age = IF run[w].idx = N THEN 0 ELSE @])
  <3>. DEFINE h == Goto(run[w], "beat")
              r == [h EXCEPT !.idx = @ + 1, !.age = IF run[w].idx = N THEN 0 ELSE @]
  <3>1. h \in Locals /\ h.op = run[w].op
    BY <1>1, Constants, GotoType, GotoFields
  <3>. HIDE DEF h
  <3>2. r.op = run[w].op
    BY <3>1 DEF Locals
  <3>3. Set(w, r)
    BY <2>3 DEF h
  <3>. HIDE DEF r
  <3>. QED BY <2>1, <3>2, <3>3, WorkerTenure
 <2>. QED BY <1>3, <2>2, <2>3 DEF RecordResult, Local
<1>4. CASE AcquireLease(w)
 <2>. DEFINE r == [run[w] EXCEPT !.leasing = TRUE]
 <2>1. r \in Locals
   BY <1>1 DEF Locals
 <2>2. Set(w, Goto(r, "capture")) \/ Set(w, Goto(r, "close"))
   BY <1>4 DEF AcquireLease
 <2>. HIDE DEF r
 <2>. QED BY <2>1, <2>2, Constants, GotoTenure DEF LoopPcs
<1>5. CASE CaptureSnapshot(w)
 <2>1. run[w].idx = 0 /\ Set(w, Goto(run[w], "beat"))
   BY <1>5 DEF CaptureSnapshot, At, LeaseInv, Inv, LocalsOK, LocalOK
 <2>. QED BY <1>1, <2>1, Constants, GotoTenure
<1>6. CASE Unexpected(w) \/ Announce(w)
 <2>1. Set(w, Goto(run[w], "close")) \/ Set(w, Goto(run[w], "exit"))
   BY <1>6 DEF Unexpected, Raise, Local, Announce
 <2>. QED BY <1>1, <2>1, Constants, GotoTenure DEF LoopPcs
<1>7. CASE CleanUp(w)
  BY <1>7, WorkerTenure DEF CleanUp, Idle, LoopPcs
<1>8. CASE RecordEntry(w)
  BY <1>8, StillTenure DEF RecordEntry
<1>. QED BY <1>2, <1>3, <1>4, <1>5, <1>6, <1>7, <1>8, PersistTenures DEF MainStep

LEMMA LoseTenure ==
    ASSUME LeaseInv, NEW w \in Workers, NEW who, Lose(w, who)
    PROVE  TenureStep
<1>. DEFINE r == [run[w] EXCEPT !.lost = TRUE, !.beat = "none", !.half = 0]
<1>1. run[w] \in Locals
  BY DEF LeaseInv, Inv, TypeInv, TypeOK
<1>2. r \in Locals /\ r.pc = run[w].pc /\ r.idx = run[w].idx /\ r.op = run[w].op
  BY <1>1, Bounds DEF Locals
<1>3. Set(w, Goto(r, "exit")) \/ Set(w, r)
  BY DEF Lose
<1>. HIDE DEF r
<1>4. CASE Set(w, Goto(r, "exit"))
  BY <1>2, <1>4, Constants, GotoTenure DEF LoopPcs
<1>5. CASE Set(w, r)
  BY <1>2, <1>5, WorkerTenure DEF Writing
<1>. QED BY <1>3, <1>4, <1>5

LEMMA BeatTenure ==
    ASSUME LeaseInv, NEW w \in Workers, Beat(w)
    PROVE  TenureStep
<1>1. run[w] \in Locals /\ LocalOK(run[w])
  BY DEF LeaseInv, Inv, TypeInv, TypeOK, LocalsOK
<1>2. ASSUME NEW who, RenewLease(w, who) PROVE TenureStep
 <2>. DEFINE r == [run[w] EXCEPT !.beat = who, !.half = 0]
 <2>1. r.pc = run[w].pc /\ r.idx = run[w].idx /\ r.op = run[w].op
   BY <1>1 DEF Locals
 <2>2. Set(w, r) \/ Lose(w, who)
   BY <1>2 DEF RenewLease
 <2>. HIDE DEF r
 <2>. QED BY <2>1, <2>2, WorkerTenure, LoseTenure DEF Writing
<1>3. CASE TouchRun(w)
 <2>. DEFINE who == run[w].beat
             entering == who = "main" /\ run[w].idx = 0
             r == [run[w] EXCEPT !.beat = "none", !.half = 0,
                                 !.age = IF Writing(w) \/ entering THEN run[w].half ELSE 0]
             g == IF who = "main" THEN AfterBeat(r) ELSE r
 <2>1. Set(w, g) \/ Lose(w, who)
   BY <1>3 DEF TouchRun
 <2>2. r.pc = run[w].pc /\ r.idx = run[w].idx /\ r.op = run[w].op /\ r \in Locals
   BY <1>1, Bounds DEF Locals
 <2>3. UNCHANGED writes
   BY <1>3 DEF TouchRun
 <2>. HIDE DEF r
 <2>4. g.pc \in LoopPcs /\ g.idx \in Actions =>
           /\ g.op = run[w].op
           /\ Writing(w) \/ (run[w].pc = "beat" /\ run[w].idx = 0)
  <3>1. CASE who # "main"
    BY <2>2, <3>1 DEF Writing
  <3>2. CASE who = "main" /\ r.idx = 0
    BY <1>1, <2>2, <3>2 DEF AfterBeat, Locals, LocalOK
  <3>3. CASE who = "main" /\ r.idx # 0 /\ r.idx \in Actions
    BY <1>1, <2>2, <3>3 DEF AfterBeat, Locals, LocalOK, Writing, LoopPcs
  <3>4. CASE who = "main" /\ r.idx # 0 /\ r.idx \notin Actions
   <4>1. g = [r EXCEPT !.pc = "verify", !.age = 0]
     BY <3>4 DEF AfterBeat
   <4>. QED BY <2>2, <4>1 DEF Locals, LoopPcs
  <3>. QED BY <3>1, <3>2, <3>3, <3>4
 <2>. HIDE DEF g
 <2>. QED BY <2>1, <2>3, <2>4, WorkerTenure, LoseTenure
<1>4. CASE BeatError(w)
 <2>. DEFINE r == [run[w] EXCEPT !.beat = "none", !.half = 0]
 <2>1. r.pc = run[w].pc /\ r.idx = run[w].idx /\ r.op = run[w].op
   BY <1>1 DEF Locals
 <2>2. Set(w, r) \/ Set(w, Goto(run[w], "close"))
   BY <1>4 DEF BeatError, Raise, Local
 <2>. HIDE DEF r
 <2>3. CASE Set(w, r)
   BY <2>1, <2>3, WorkerTenure DEF Writing
 <2>4. CASE Set(w, Goto(run[w], "close"))
   BY <1>1, <2>4, Constants, GotoTenure DEF LoopPcs
 <2>. QED BY <2>2, <2>3, <2>4
<1>. QED BY <1>2, <1>3, <1>4 DEF Beat

LEMMA TenureSteps ==
    ASSUME LeaseInv, [Next]_vars
    PROVE  TenureStep
<1>1. CASE \E w \in Workers : MainStep(w)
  BY <1>1, MainTenure
<1>2. CASE \E w \in Workers : Beat(w)
  BY <1>2, BeatTenure
<1>3. CASE \E w \in Workers : Crash(w)
  BY <1>3, WorkerTenure DEF Crash, Idle, LoopPcs
<1>4. CASE \E w \in Workers, op \in Ops : LoadQueued(w, op)
 <2>1. PICK w \in Workers, op \in Ops : LoadQueued(w, op)
   BY <1>4
 <2>2. Set(w, [Idle EXCEPT !.pc = "loaded", !.op = op, !.acts = acts[op]])
   BY <2>1 DEF LoadQueued, Local
 <2>. QED BY <2>2, WorkerTenure DEF Idle, LoopPcs
<1>5. CASE Tick
 <2>. DEFINE a(w) == IF Writing(w) THEN run[w].age + 1 ELSE run[w].age
             h(w) == IF run[w].beat # "none" THEN run[w].half + 1 ELSE run[w].half
 <2>1. \A w \in Workers : run'[w] = [run[w] EXCEPT !.age = a(w), !.half = h(w)]
   BY <1>5 DEF Tick
 <2>2. \A w \in Workers : run[w] \in Locals
   BY DEF LeaseInv, Inv, TypeInv, TypeOK
 <2>. HIDE DEF a, h
 <2>3. \A w \in Workers : /\ run'[w].pc = run[w].pc /\ run'[w].idx = run[w].idx
                          /\ run'[w].op = run[w].op
   BY <2>1, <2>2 DEF Locals
 <2>. QED BY <2>3 DEF TenureStep, Continues, Same, Writing
<1>6. CASE \/ \E c \in Compensations : PlanCompensation(c)
           \/ \E op \in Ops : Request(op) \/ Janitor(op)
           \/ RemoveLapsedLease \/ UNCHANGED vars
 <2>1. UNCHANGED run
   BY <1>6
   DEF PlanCompensation, Request, CheckRequest, Reserve, SendTask, RequestDies, Release,
       Supersede, ExpireCredential, Janitor, FindSilent, Interrupt, JanitorRelease,
       RemoveLapsedLease, vars
 <2>. QED BY <2>1, StillTenure
<1>. QED BY <1>1, <1>2, <1>3, <1>4, <1>5, <1>6 DEF Next

\* Who is in tenure: the operation of the one worker inside its loop.
LEMMA Tenures ==
    ASSUME LeaseInv, MaxStall < TTL, NEW op \in Ops
    PROVE  /\ InTenure(op) <=> \E w \in Workers : Writing(w) /\ run[w].op = op
           /\ \A w \in Workers : Writing(w) /\ InTenure(op) => run[w].op = op
  BY Held, HeldOnce DEF InTenure, ExclusiveWriter

Recorded == [op \in Ops |-> Written(op)]

LEMMA SerialInit == Init => Serial!Init
<1>. SUFFICES ASSUME Init PROVE Serial!Init
  OBVIOUS
<1>1. \A w \in Workers : ~Writing(w)
  BY DEF Init, Idle, Writing, LoopPcs
<1>2. \A op \in Ops : Written(op) = {} /\ ~InTenure(op)
  BY <1>1 DEF Init, Written, InTenure
<1>. QED BY <1>2 DEF Serial!Init, Tenure

\* At most one worker is inside its loop, and its operation alone is in tenure.
OneTenure ==
    /\ ExclusiveWriter
    /\ \A op \in Ops : InTenure(op) <=> \E w \in Workers : Writing(w) /\ run[w].op = op
    /\ \A w \in Workers : Writing(w) => run[w].op \in Ops

LEMMA TenureOnce ==
    ASSUME MaxStall < TTL
    PROVE  LeaseInv => OneTenure
  BY HeldOnce, Tenures, Held DEF OneTenure

\* Nothing was written: a tenure begins, ends, or goes on.
LEMMA QuietTenure ==
    ASSUME LeaseInv, OneTenure, OneTenure', TenureStep, UNCHANGED writes
    PROVE  [Serial!Next]_<<Tenure, Recorded>>
<1>1. \A op \in Ops : Written(op)' = Written(op)
  BY DEF Written
<1>2. UNCHANGED Recorded
  BY <1>1 DEF Recorded
<1>3. CASE \E w \in Workers : Writing(w)' /\ ~Writing(w)
 <2>1. PICK w \in Workers : Writing(w)' /\ ~Writing(w)
   BY <1>3
 <2>. DEFINE op == run[w].op
 <2>2. /\ run'[w].op = op /\ run[w].pc = "beat" /\ run[w].idx = 0
       /\ op \in Ops
   BY <2>1 DEF TenureStep, Continues, OneTenure
 <2>3. \A i \in Actions : writes[op][i] = 0
   BY <2>2 DEF LeaseInv, Inv, WritesOK, Ahead, AheadAt, LoopPcs, Actions
 <2>4. Written(op) = {}
   BY <2>3 DEF Written
 <2>5. \A v \in Workers : v # w => ~Writing(v) /\ ~Writing(v)'
   BY <2>1 DEF TenureStep, Same, OneTenure, ExclusiveWriter
 <2>6. \A o \in Ops : ~InTenure(o) /\ (InTenure(o)' <=> o = op)
   BY <2>1, <2>2, <2>5 DEF OneTenure
 <2>7. /\ Tenure[op] = "before" /\ \A o \in Ops : Tenure[o] # "writing"
       /\ Tenure' = [Tenure EXCEPT ![op] = "writing"]
   BY <1>1, <2>2, <2>4, <2>6 DEF Tenure
 <2>8. Serial!Begin(op)
   BY <1>2, <2>7 DEF Serial!Begin, Recorded
 <2>. QED BY <2>2, <2>8 DEF Serial!Next
<1>4. CASE /\ ~\E w \in Workers : Writing(w)' /\ ~Writing(w)
           /\ \E w \in Workers : Writing(w) /\ ~Writing(w)'
 <2>1. PICK w \in Workers : Writing(w) /\ ~Writing(w)'
   BY <1>4
 <2>. DEFINE op == run[w].op
 <2>2. op \in Ops
   BY <2>1 DEF OneTenure
 <2>3. \A v \in Workers : ~Writing(v)' /\ (Writing(v) => v = w)
   BY <1>4, <2>1 DEF OneTenure, ExclusiveWriter
 <2>4. \A o \in Ops : ~InTenure(o)' /\ (InTenure(o) <=> o = op)
   BY <2>1, <2>2, <2>3 DEF OneTenure
 <2>5. Tenure' = [Tenure EXCEPT ![op] = IF Recorded[op] = {} THEN "before" ELSE "over"]
   BY <1>1, <2>2, <2>4 DEF Tenure, Recorded
 <2>6. Tenure[op] = "writing"
   BY <2>2, <2>4 DEF Tenure
 <2>7. Serial!End(op)
   BY <1>2, <2>5, <2>6 DEF Serial!End, Recorded
 <2>. QED BY <2>2, <2>7 DEF Serial!Next
<1>5. CASE \A w \in Workers : Writing(w)' <=> Writing(w)
 <2>1. \A o \in Ops : InTenure(o)' <=> InTenure(o)
   BY <1>5 DEF OneTenure, TenureStep, Continues
 <2>2. UNCHANGED Tenure
   BY <1>1, <2>1 DEF Tenure
 <2>. QED BY <1>2, <2>2
<1>. QED BY <1>3, <1>4, <1>5

\* Mist applied an action: of the operation in tenure, and for the first time.
LEMMA WriteTenure ==
    ASSUME LeaseInv, MaxStall < TTL, OneTenure, OneTenure', TenureStep,
           NEW w \in Workers, At(w, "mist"), Writing(w),
           NEW op \in Ops, run[w].op = op, NEW i \in Actions, run[w].idx = i,
           Apply(op, i)
    PROVE  Serial!Next
<1>1. \A v \in Workers : Writing(v) => v = w
  BY DEF OneTenure, ExclusiveWriter
<1>2. writes[op][i] = 0
  BY <1>1 DEF At, LeaseInv, Inv, WritesOK, Ahead, AheadAt
<1>3. /\ writes' = [writes EXCEPT ![op] = [@ EXCEPT ![i] = 1]]
      /\ writes \in [Ops -> [Actions -> 0 .. 2]]
  BY <1>1, <1>2 DEF Apply, LeaseInv, Inv, TypeInv, TypeOK
<1>4. /\ \A o \in Ops : o # op => Written(o)' = Written(o)
      /\ Written(op)' = Written(op) \union {i} /\ i \notin Written(op)
 <2>1. \A o \in Ops : o # op => writes'[o] = writes[o]
   BY <1>3
 <2>2. writes'[op] = [writes[op] EXCEPT ![i] = 1] /\ writes[op] \in [Actions -> 0 .. 2]
   BY <1>1, <1>3
 <2>3. \A j \in Actions : writes'[op][j] > 0 <=> writes[op][j] > 0 \/ j = i
   BY <1>1, <2>2
 <2>. QED BY <1>1, <1>2, <2>1, <2>3 DEF Written
<1>5. Recorded' = [Recorded EXCEPT ![op] = @ \union {i}] /\ i \notin Recorded[op]
  BY <1>1, <1>4 DEF Recorded
<1>6. writes' # writes
  BY <1>1, <1>4 DEF Written
<1>7. \A v \in Workers : Writing(v)' => v = w /\ run'[w].op = op
  BY <1>1, <1>6 DEF TenureStep, Continues
<1>8. \A o \in Ops : /\ InTenure(o) <=> o = op
                     /\ InTenure(o)' => o = op
  BY <1>1, <1>7 DEF OneTenure
<1>9. Tenure[op] = "writing" /\ Tenure' \in {Tenure, [Tenure EXCEPT ![op] = "over"]}
 <2>1. CASE InTenure(op)'
  <3>1. UNCHANGED Tenure
    BY <1>4, <1>8, <2>1 DEF Tenure
  <3>. QED BY <1>1, <1>8, <3>1 DEF Tenure
 <2>2. CASE ~InTenure(op)'
  <3>1. Tenure' = [Tenure EXCEPT ![op] = "over"]
    BY <1>1, <1>4, <1>8, <2>2 DEF Tenure
  <3>. QED BY <1>1, <1>8, <3>1 DEF Tenure
 <2>. QED BY <2>1, <2>2
<1>10. Serial!Write(op, i)
  BY <1>5, <1>9 DEF Serial!Write, Recorded
<1>. QED BY <1>1, <1>10 DEF Serial!Next

\* The restores of one organization are serial: each has one tenure in which it
\* writes, no two overlap, and none begins again once its restore has written.
THEOREM RestoresAreSerial ==
    ASSUME MaxStall < TTL
    PROVE  Spec => SerialSpec
<1>1. LeaseInv /\ [Next]_vars => LeaseInv'
  BY LeaseStep
<1>2. LeaseInv => OneTenure
  BY TenureOnce
<1>3. /\ LeaseInv /\ OneTenure /\ OneTenure' /\ [Next]_vars
      => [Serial!Next]_<<Tenure, [op \in Ops |-> Written(op)]>>
 <2>. SUFFICES ASSUME LeaseInv, OneTenure, OneTenure', [Next]_vars
               PROVE  [Serial!Next]_<<Tenure, Recorded>>
   BY DEF Recorded
 <2>1. CASE UNCHANGED writes
   BY <2>1, TenureSteps, QuietTenure
 <2>2. ASSUME NEW w \in Workers, At(w, "mist"), Apply(run[w].op, run[w].idx)
       PROVE  Serial!Next
  <3>1. Writing(w) /\ run[w].op \in Ops /\ run[w].idx \in Actions
    BY <2>2, WriteGuarded, Held DEF Writing
  <3>. QED BY <2>2, <3>1, TenureSteps, WriteTenure
 <2>. QED BY <2>1, <2>2, WhoWrites
<1>4. QED
  BY LeaseInit, SerialInit, <1>1, <1>2, <1>3, PTL DEF Spec, SerialSpec, Serial!Spec
=============================================================================
