----------------------------- MODULE RestoreRun -----------------------------
\* One organization's restores, from a reviewed plan to a terminal status.
\*
\* API requests reserve a plan and publish a Celery task; worker processes
\* run RestoreExecutor.execute; the janitor closes silent runs; the expiry
\* job fails plans whose credential lapsed; MongoDB's TTL monitor removes
\* lapsed leases.  They share three documents: the operation (status,
\* actions, updated_at, credential), its state record (the stored safety
\* snapshot) and the organization's lease.  Each action is one database
\* write, one Mist call, or the local computation between two of them.
\*
\* Time is relative: the model counts ticks since updated_at, ticks left
\* on the lease, and ticks since a worker's last heartbeat began.
EXTENDS Integers

\* The definitions named ...Slip are not part of the specification: each is a
\* wrong version of the definition after it, which the runs must find out.

CONSTANTS
    Restores,       \* operations planned from backups
    Compensations,  \* plans that reverse a restore
    Reverses,       \* which restore each compensation reverses
    Workers,        \* Celery worker processes
    N,              \* actions in every plan
    Deferred,       \* actions under a site the plan recreates
    SendErrors,     \* plans whose publication the broker may report as failed
    TTL,            \* ticks of silence the janitor and the lease allow
    MaxStall,       \* ticks a worker with writes ahead may go without a beat
    NoOp            \* no operation

Ops == Restores \union Compensations
Actions == 1 .. N

ASSUME OpsAssumption ==
    /\ Restores \intersect Compensations = {}
    /\ Reverses \in [Compensations -> Restores]
    /\ SendErrors \subseteq Ops
    /\ NoOp \notin Ops
ASSUME PlanAssumption == N \in Nat \ {0} /\ Deferred \subseteq Actions
ASSUME TimeAssumption == TTL \in Nat \ {0} /\ MaxStall \in Nat

VARIABLES
    status,     \* RestoreOperation.status
    acts,       \* RestoreOperation.actions: each action's stored status
    cred,       \* whether encrypted_delegated_credential is set
    started,    \* whether started_at is set
    silence,    \* ticks since updated_at of a running operation, up to TTL
    snap,       \* actions the stored safety snapshot describes
    lease,      \* the organization's RestoreLease: holder and ticks left
    checked,    \* plans some request found free to start and may still reserve
    call,       \* what the request that reserved a plan does next
    sent,       \* published tasks; the broker may deliver one more than once
    judged,     \* read as silent by the janitor, updated_at unchanged since
    freeing,    \* closed by the janitor, lease not yet handed back
    run,        \* each worker's locals
    writes      \* history: how often Mist applied each action (2 = "again")

stored == <<status, acts, cred, started, silence, judged>>
requests == <<checked, call, sent>>
vars == <<stored, snap, lease, requests, freeing, run, writes>>

Statuses == {"unplanned", "planned", "queued", "running", "completed",
             "failed", "compensation_available", "compensated", "superseded"}
Terminal == {"completed", "failed", "compensation_available", "compensated",
             "superseded"}
\* "failed" is RestoreActionStatus.FAILED with outcome_unknown unset,
\* "unconfirmed" the same status with it set.
ActionStatuses == {"pending", "executing", "completed", "failed",
                   "unconfirmed", "skipped"}

------------------------
\* services/restore_outcome.py
PossiblyAppliedSlip(a) == a = "completed"
PossiblyApplied(a) == a \in {"completed", "unconfirmed"}

TerminalFailureStatus(as, compensating) ==
    IF ~compensating /\ \E i \in Actions : PossiblyApplied(as[i])
    THEN "compensation_available"
    ELSE "failed"

MarkUnconfirmedSlip(as) ==
    [i \in Actions |-> IF as[i] = "executing" THEN "failed" ELSE as[i]]
MarkUnconfirmed(as) ==
    [i \in Actions |-> IF as[i] = "executing" THEN "unconfirmed" ELSE as[i]]

------------------------
\* services/restore_lease.py
NoLease == [holder |-> NoOp, left |-> 0]

AcquirableSlip(op) == TRUE
Acquirable(op) == lease.holder \in {NoOp, op} \/ lease.left = 0
Grant(op) == lease' = [holder |-> op, left |-> TTL]
HandBackSlip(op) == lease' = NoLease
HandBack(op) == lease' = IF lease.holder = op THEN NoLease ELSE lease
HeldByAnother(op) == lease.holder \notin {NoOp, op} /\ lease.left > 0

HasActiveRestore(op) ==
    \/ \E o \in Ops \ {op} : status[o] \in {"queued", "running"}
    \/ HeldByAnother(op)

------------------------
\* The executor's locals.
Pcs == {"idle", "loaded", "acquire", "capture", "beat", "check", "mist",
        "record", "readback", "result", "fail", "verify", "announce", "close",
        "exit"}
\* Where `_run` keeps the background beat alive.
BeatPcs == Pcs \ {"idle", "loaded", "acquire", "close", "exit"}
\* Inside the action loop: Mist writes may still follow.
LoopPcs == {"beat", "check", "mist", "record", "readback", "result"}

Idle == [pc |-> "idle", op |-> NoOp, own |-> "queued",
         acts |-> [i \in Actions |-> "pending"], idx |-> 0,
         claimed |-> FALSE, leasing |-> FALSE, lost |-> FALSE,
         beat |-> "none", age |-> 0, half |-> 0]

Compensating(op) == op \in Compensations
Writing(w) == run[w].pc \in LoopPcs /\ run[w].idx \in Actions
Unlocked(w) == run[w].beat = "none"
Set(w, r) == run' = [run EXCEPT ![w] = r]
At(w, pc) == run[w].pc = pc
\* Leaving `_run` cancels the background beat, wherever it is; the clean-up of
\* `execute` needs only what the worker claimed.
Goto(r, pc) ==
    IF pc = "exit"
    THEN [Idle EXCEPT !.pc = pc, !.op = r.op, !.claimed = r.claimed, !.leasing = r.leasing]
    ELSE [r EXCEPT !.pc = pc,
                   !.age = IF pc \in LoopPcs THEN @ ELSE 0,
                   !.beat = IF pc \in BeatPcs THEN @ ELSE "none",
                   !.half = IF pc \in BeatPcs THEN @ ELSE 0]

------------------------
\* `_persist`: the whole document, only over the status this worker last
\* wrote.  The copy carries the credential until a terminal status drops
\* it.  A storage error may come before or after the write took effect.
OwnsSlip(w) == ~run[w].lost
Owns(w) == ~run[w].lost /\ status[run[w].op] = run[w].own

Store(w, st, as) ==
    LET op == run[w].op IN
    /\ status' = [status EXCEPT ![op] = st]
    /\ acts' = [acts EXCEPT ![op] = as]
    /\ cred' = [cred EXCEPT ![op] = st = "running"]
    /\ started' = [started EXCEPT ![op] = ~At(w, "loaded") \/ st = "running"]
    /\ silence' = [silence EXCEPT ![op] = 0]
    /\ judged' = [judged EXCEPT ![op] = FALSE]

Persist(w, st, as, next, onError) ==
    LET r == [run[w] EXCEPT !.acts = as] IN
    /\ Unlocked(w)
    /\ \/ /\ Owns(w)
          /\ Store(w, st, as)
          /\ Set(w, Goto([r EXCEPT !.own = st, !.claimed = TRUE], next))
       \/ /\ ~Owns(w)
          /\ UNCHANGED stored
          /\ Set(w, Goto([r EXCEPT !.lost = TRUE], "exit"))
       \/ /\ ~run[w].lost
          /\ UNCHANGED stored \/ (Owns(w) /\ Store(w, st, as))
          /\ Set(w, Goto(r, onError))
    /\ UNCHANGED <<snap, lease, requests, freeing, writes>>

\* The two ways the run itself ends badly: at action idx, or anywhere else.
PersistFailure(w, as, onError) ==
    Persist(w, TerminalFailureStatus(as, Compensating(run[w].op)), as, "exit", onError)

\* A step of worker w that touches only its own locals.
Local(w, r) ==
    /\ Set(w, r)
    /\ UNCHANGED <<stored, snap, lease, requests, freeing, writes>>
Raise(w) == Local(w, Goto(run[w], "close"))

------------------------
\* Requests: RestoreAuthorizationService and the execute routes.
PlanCompensation(c) ==
    /\ status[c] = "unplanned"
    /\ status[Reverses[c]] = "compensation_available"
    /\ status' = [status EXCEPT ![c] = "planned"]
    /\ UNCHANGED <<acts, cred, started, silence, judged, snap, lease, requests,
                   freeing, run, writes>>

\* A restore writes with the session its fresh backup retained.
Authorizable(op) == status[op] = "planned" /\ (Compensating(op) \/ cred[op])

CheckRequest(op) ==
    /\ Authorizable(op)
    /\ ~HasActiveRestore(op)
    /\ checked' = checked \union {op}
    /\ UNCHANGED <<stored, snap, lease, call, sent, freeing, run, writes>>

\* Any number of requests may stand between the check and this update.
Reserve(op) ==
    /\ op \in checked
    /\ Authorizable(op)
    /\ status' = [status EXCEPT ![op] = "queued"]
    /\ cred' = [cred EXCEPT ![op] = TRUE]
    /\ call' = [call EXCEPT ![op] = "send"]
    /\ UNCHANGED <<acts, started, silence, judged, snap, lease, checked, sent,
                   freeing, run, writes>>

\* A broker error releases the plan even if the task was published.
SendTask(op) ==
    /\ call[op] = "send"
    /\ \/ sent' = sent \union {op} /\ call' = [call EXCEPT ![op] = "none"]
       \/ op \in SendErrors /\ sent' \in {sent, sent \union {op}} 
          /\ call' = [call EXCEPT ![op] = "release"]
    /\ UNCHANGED <<stored, snap, lease, checked, freeing, run, writes>>

\* The API process stops between its reservation and its send, or release.
RequestDies(op) ==
    /\ call[op] # "none"
    /\ call' = [call EXCEPT ![op] = "none"]
    /\ UNCHANGED <<stored, snap, lease, checked, sent, freeing, run, writes>>

Release(op) ==
    /\ call[op] = "release"
    /\ call' = [call EXCEPT ![op] = "none"]
    /\ IF status[op] = "queued"
       THEN /\ status' = [status EXCEPT ![op] = "planned"]
            /\ cred' = [cred EXCEPT ![op] = FALSE]
       ELSE UNCHANGED <<status, cred>>
    /\ UNCHANGED <<acts, started, silence, judged, snap, lease, checked, sent,
                   freeing, run, writes>>

\* `prepare` built another plan from a fresh backup of this one.
Supersede(op) ==
    /\ ~Compensating(op)
    /\ status[op] \in {"planned", "failed"}
    /\ ~started[op]
    /\ status' = [status EXCEPT ![op] = "superseded"]
    /\ cred' = [cred EXCEPT ![op] = FALSE]
    /\ UNCHANGED <<acts, started, silence, judged, snap, lease, requests,
                   freeing, run, writes>>

ExpireCredentialSlip(op) ==
    /\ status[op] = "planned"
    /\ cred[op]
    /\ status' = [status EXCEPT ![op] = "failed"]
    /\ cred' = [cred EXCEPT ![op] = FALSE]
    /\ UNCHANGED <<acts, started, silence, judged, snap, lease, requests,
                   freeing, run, writes>>

\* tasks.restores.expire_credentials; the deadline itself is not modelled.
ExpireCredential(op) ==
    /\ status[op] \in {"planned", "queued"}
    /\ cred[op]
    /\ status' = [status EXCEPT ![op] = "failed"]
    /\ cred' = [cred EXCEPT ![op] = FALSE]
    /\ UNCHANGED <<acts, started, silence, judged, snap, lease, requests,
                   freeing, run, writes>>

------------------------
\* RestoreExecutor.execute.
LoadQueued(w, op) ==
    /\ At(w, "idle")
    /\ op \in sent
    /\ status[op] = "queued"
    /\ Local(w, [Idle EXCEPT !.pc = "loaded", !.op = op, !.acts = acts[op]])

\* `_prepare` or the plan state failed: close without ever having started.
PreconditionFails(w) == At(w, "loaded") /\ PersistFailure(w, run[w].acts, "exit")

Claim(w) == At(w, "loaded") /\ Persist(w, "running", run[w].acts, "acquire", "close")

\* `leasing` is set before the call, so a grant followed by an error is released.
AcquireLease(w) ==
    LET op == run[w].op IN
    /\ At(w, "acquire")
    /\ \/ Acquirable(op) /\ Grant(op) /\ Set(w, Goto([run[w] EXCEPT !.leasing = TRUE], "capture"))
       \/ ~Acquirable(op) /\ UNCHANGED lease /\ Set(w, Goto([run[w] EXCEPT !.leasing = TRUE], "close"))
       \/ /\ UNCHANGED lease \/ (Acquirable(op) /\ Grant(op))
          /\ Set(w, Goto([run[w] EXCEPT !.leasing = TRUE], "close"))
    /\ UNCHANGED <<stored, snap, requests, freeing, writes>>

\* capture_safety_snapshot, then `store.save(state)`.
CaptureSnapshot(w) ==
    /\ At(w, "capture")
    /\ snap' = [snap EXCEPT ![run[w].op] = Actions \ Deferred]
    /\ Set(w, Goto(run[w], "beat"))
    /\ UNCHANGED <<stored, lease, requests, freeing, writes>>
FailPreflight(w) ==
    At(w, "capture") /\ Persist(w, "failed", run[w].acts, "exit", "close")

------------------------
\* `_heartbeat`: the lease first, then updated_at, under the lock `_persist`
\* takes.  The run's own beats and the background task share it.
Beating(w, who) ==
    /\ Unlocked(w)
    /\ IF who = "main" THEN At(w, "beat")
                       ELSE /\ run[w].pc \in BeatPcs
                            /\ run[w].own = "running" /\ ~run[w].lost

\* The worker knows the run or its organization is no longer its own; the main
\* line stops, the background task only records it.
Lose(w, who) ==
    LET r == [run[w] EXCEPT !.lost = TRUE, !.beat = "none", !.half = 0]
    IN Set(w, IF who = "main" THEN Goto(r, "exit") ELSE r)

RenewLease(w, who) ==
    LET op == run[w].op IN
    /\ Beating(w, who)
    /\ IF lease.holder = op /\ ~run[w].lost
       THEN Grant(op) /\ Set(w, [run[w] EXCEPT !.beat = who, !.half = 0])
       ELSE UNCHANGED lease /\ Lose(w, who)
    /\ UNCHANGED <<stored, snap, requests, freeing, writes>>

AfterBeatSlip(r) ==
    CASE r.idx = 0 -> [r EXCEPT !.idx = 1]
      [] r.idx \in Actions \ {N} -> [r EXCEPT !.pc = "check"]
      [] OTHER -> [r EXCEPT !.pc = "verify", !.age = 0]
AfterBeat(r) ==
    CASE r.idx = 0       -> [r EXCEPT !.idx = 1]
      [] r.idx \in Actions -> [r EXCEPT !.pc = "check"]
      [] OTHER           -> [r EXCEPT !.pc = "verify", !.age = 0]

TouchRun(w) ==
    LET op  == run[w].op
        who == run[w].beat
        r   == [run[w] EXCEPT !.beat = "none", !.half = 0,
                              !.age = IF Writing(w) \/ (who = "main" /\ run[w].idx = 0)
                                      THEN run[w].half ELSE 0]
    IN
    /\ ~Unlocked(w)
    /\ IF status[op] = "running"
       THEN /\ silence' = [silence EXCEPT ![op] = 0]
            /\ judged' = [judged EXCEPT ![op] = FALSE]
            /\ Set(w, IF who = "main" THEN AfterBeat(r) ELSE r)
       ELSE UNCHANGED <<silence, judged>> /\ Lose(w, who)
    /\ UNCHANGED <<status, acts, cred, started, snap, lease, requests, freeing, writes>>

\* A storage error: the background task tries again later, the main line raises.
BeatError(w) ==
    \/ /\ run[w].beat = "task"
       /\ Local(w, [run[w] EXCEPT !.beat = "none", !.half = 0])
    \/ At(w, "beat") /\ run[w].beat # "task" /\ Raise(w)

------------------------
\* `_execute_action` for action idx.
Now(w, a, pc) == Goto([run[w] EXCEPT !.acts[run[w].idx] = a], pc)

With(w, a) == [run[w].acts EXCEPT ![run[w].idx] = a]

\* check_before_write.  The live object drifted, or Mist refused the read:
\* nothing was sent.
Drifted(w) ==
    /\ At(w, "check")
    /\ run[w].idx \in Deferred => run[w].idx \notin snap[run[w].op]
    /\ Local(w, Now(w, "failed", "fail"))

\* A deferred entry is stored before the write.
RecordEntry(w) ==
    LET i == run[w].idx
        op == run[w].op
    IN
    /\ At(w, "check")
    /\ i \in Deferred \ snap[op]
    /\ snap' = [snap EXCEPT ![op] = @ \union {i}]
    /\ UNCHANGED <<stored, lease, requests, freeing, run, writes>>

\* A reversal that finds nothing left to undo.
SkipWrite(w) ==
    /\ At(w, "check")
    /\ Compensating(run[w].op)
    /\ run[w].idx \in snap[run[w].op]
    /\ Persist(w, "running", With(w, "skipped"), "result", "close")

\* Guarded, so an operation the janitor closed never reaches Mist again.
MarkExecuting(w) ==
    /\ At(w, "check")
    /\ run[w].idx \in snap[run[w].op]
    /\ Persist(w, "running", With(w, "executing"), "mist", "close")

Apply(op, i) == writes' = [writes EXCEPT ![op][i] = IF @ = 0 THEN 1 ELSE 2]

\* Mist's answer: done, refused, or unknown whether the write was applied.
MistWrite(w) ==
    LET i == run[w].idx
        op == run[w].op
    IN
    /\ At(w, "mist")
    /\ \/ Apply(op, i) /\ Set(w, Now(w, "completed", "record"))
       \/ UNCHANGED writes /\ Set(w, Now(w, "failed", "fail"))
       \/ (Apply(op, i) \/ UNCHANGED writes) /\ Set(w, Now(w, "unconfirmed", "fail"))
       \/ (Apply(op, i) \/ UNCHANGED writes) /\ Set(w, Goto(run[w], "close"))
    /\ UNCHANGED <<stored, snap, lease, requests, freeing>>

PersistCompleted(w) ==
    At(w, "record") /\ Persist(w, "running", run[w].acts, "readback", "close")

\* The object is missing after the write (still applied), or a deleted one is
\* still there (unconfirmed); otherwise the digest of what Mist shows is stored.
ReadBackFails(w) ==
    /\ At(w, "readback")
    /\ \/ Local(w, Goto(run[w], "fail"))
       \/ Local(w, Now(w, "unconfirmed", "fail"))

PersistAppliedHash(w) ==
    At(w, "readback") /\ Persist(w, "running", run[w].acts, "result", "close")

RecordResultSlip(w) ==
    /\ At(w, "result")
    /\ Local(w, [Goto(run[w], "beat") EXCEPT !.idx = @ + 2])

\* `_record_result` appends the restored version; then the next action.
RecordResult(w) ==
    /\ At(w, "result")
    /\ \/ Local(w, [Goto(run[w], "beat") EXCEPT !.idx = @ + 1,
                                                !.age = IF run[w].idx = N THEN 0 ELSE @])
       \/ run[w].acts[run[w].idx] # "skipped" /\ Local(w, Goto(run[w], "fail"))

\* An unexpected error between two writes.
Unexpected(w) ==
    /\ run[w].pc \in {"capture", "check", "readback", "result", "verify"}
    /\ Raise(w)

FailOperation(w) == At(w, "fail") /\ PersistFailure(w, run[w].acts, "close")

FailVerificationSlip(w) ==
    /\ At(w, "verify")
    /\ Compensating(run[w].op)
    /\ Persist(w, "failed", run[w].acts, "announce", "close")
FailVerification(w) == At(w, "verify") /\ PersistFailure(w, run[w].acts, "close")

Finish(w) ==
    /\ At(w, "verify")
    /\ IF Compensating(run[w].op)
       THEN Persist(w, "compensated", run[w].acts, "announce", "close")
       ELSE Persist(w, "completed", run[w].acts, "exit", "close")

\* `_announce_success`; a failing mark is logged and never retried.
Announce(w) ==
    LET op == run[w].op IN
    /\ At(w, "announce")
    /\ \/ UNCHANGED <<status, silence, judged>>
       \/ /\ status' = [status EXCEPT ![Reverses[op]] = "compensated"]
          /\ silence' = [silence EXCEPT ![Reverses[op]] = 0]
          /\ judged' = [judged EXCEPT ![Reverses[op]] = FALSE]
    /\ Set(w, Goto(run[w], "exit"))
    /\ UNCHANGED <<acts, cred, started, snap, lease, requests, freeing, writes>>

\* `_close_failed`, entered by every error nothing more specific handled.
CloseFailed(w) ==
    At(w, "close") /\ PersistFailure(w, MarkUnconfirmed(run[w].acts), "exit")

\* `finally` in execute: the claimer clears the credential and hands the lease
\* back, each as a best effort.
CleanUp(w) ==
    LET op == run[w].op IN
    /\ At(w, "exit")
    /\ UNCHANGED cred \/ (run[w].claimed /\ cred' = [cred EXCEPT ![op] = FALSE])
    /\ UNCHANGED lease \/ (run[w].leasing /\ HandBack(op))
    /\ Set(w, Idle)
    /\ UNCHANGED <<status, acts, started, silence, judged, snap, requests, freeing, writes>>

\* The process dies; a write in flight may have reached Mist.
Crash(w) ==
    /\ ~At(w, "idle")
    /\ Set(w, Idle)
    /\ UNCHANGED writes \/ (At(w, "mist") /\ Apply(run[w].op, run[w].idx))
    /\ UNCHANGED <<stored, snap, lease, requests, freeing>>

------------------------
\* The janitor (services/restore_recovery.py) and MongoDB's TTL monitor.
FindSilentSlip(op) ==
    /\ status[op] = "running"
    /\ silence[op] >= TTL - 1
    /\ judged' = [judged EXCEPT ![op] = TRUE]
    /\ UNCHANGED <<status, acts, cred, started, silence, snap, lease, requests,
                   freeing, run, writes>>
FindSilentCredentialSlip(op) ==
    /\ status[op] = "running"
    /\ silence[op] >= TTL
    /\ cred[op]
    /\ judged' = [judged EXCEPT ![op] = TRUE]
    /\ UNCHANGED <<status, acts, cred, started, silence, snap, lease, requests,
                   freeing, run, writes>>
FindSilent(op) ==
    /\ status[op] = "running"
    /\ silence[op] >= TTL
    /\ judged' = [judged EXCEPT ![op] = TRUE]
    /\ UNCHANGED <<status, acts, cred, started, silence, snap, lease, requests,
                   freeing, run, writes>>

InterruptSlip(op) ==
    LET as == MarkUnconfirmed(acts[op]) IN
    /\ judged[op]
    /\ status[op] = "running"
    /\ status' = [status EXCEPT ![op] = TerminalFailureStatus(as, Compensating(op))]
    /\ acts' = [acts EXCEPT ![op] = as]
    /\ silence' = [silence EXCEPT ![op] = 0]
    /\ judged' = [judged EXCEPT ![op] = FALSE]
    /\ freeing' = freeing \union {op}
    /\ UNCHANGED <<cred, started, snap, lease, requests, run, writes>>

\* Compare-and-set on status and the updated_at it read.  Plan state it cannot
\* read makes a compensation close as a restore does.
Interrupt(op) ==
    LET as == MarkUnconfirmed(acts[op]) IN
    /\ judged[op]
    /\ status[op] = "running"
    /\ \E compensating \in {Compensating(op), FALSE} :
          status' = [status EXCEPT ![op] = TerminalFailureStatus(as, compensating)]
    /\ acts' = [acts EXCEPT ![op] = as]
    /\ cred' = [cred EXCEPT ![op] = FALSE]
    /\ silence' = [silence EXCEPT ![op] = 0]
    /\ judged' = [judged EXCEPT ![op] = FALSE]
    /\ freeing' = freeing \union {op}
    /\ UNCHANGED <<started, snap, lease, requests, run, writes>>

JanitorRelease(op) ==
    /\ op \in freeing
    /\ freeing' = freeing \ {op}
    /\ UNCHANGED lease \/ HandBack(op)
    /\ UNCHANGED <<stored, snap, requests, run, writes>>

RemoveLapsedLease ==
    /\ lease.holder # NoOp /\ lease.left = 0
    /\ lease' = NoLease
    /\ UNCHANGED <<stored, snap, requests, freeing, run, writes>>

\* MaxStall: a worker inside the action loop begins its next beat, and ends
\* the one it began, within MaxStall ticks, or is gone.
InTime(w) ==
    /\ Writing(w) => run[w].age < MaxStall
    /\ run[w].beat # "none" => run[w].half < MaxStall

Tick ==
    /\ \A w \in Workers : InTime(w)
    /\ silence' = [op \in Ops |->
          IF status[op] = "running" /\ silence[op] < TTL THEN silence[op] + 1 ELSE silence[op]]
    /\ lease' = [lease EXCEPT !.left = IF @ > 0 THEN @ - 1 ELSE 0]
    /\ run' = [w \in Workers |->
          [run[w] EXCEPT !.age = IF Writing(w) THEN @ + 1 ELSE @,
                         !.half = IF run[w].beat # "none" THEN @ + 1 ELSE @]]
    /\ UNCHANGED <<status, acts, cred, started, judged, snap, requests, freeing, writes>>

------------------------
\* The specification.
Init ==
    /\ status = [op \in Ops |-> IF op \in Restores THEN "planned" ELSE "unplanned"]
    /\ acts = [op \in Ops |-> [i \in Actions |-> "pending"]]
    /\ cred \in {f \in [Ops -> BOOLEAN] : \A c \in Compensations : ~f[c]}
    /\ started = [op \in Ops |-> FALSE]
    /\ silence = [op \in Ops |-> 0]
    /\ snap = [op \in Ops |-> {}]
    /\ lease = NoLease
    /\ checked = {}
    /\ call = [op \in Ops |-> "none"]
    /\ sent = {}
    /\ judged = [op \in Ops |-> FALSE]
    /\ freeing = {}
    /\ run = [w \in Workers |-> Idle]
    /\ writes = [op \in Ops |-> [i \in Actions |-> 0]]

Request(op) ==
    \/ CheckRequest(op) \/ Reserve(op) \/ SendTask(op) \/ RequestDies(op)
    \/ Release(op) \/ Supersede(op) \/ ExpireCredential(op)

\* Every step of `execute` but the heartbeat's own.
MainStep(w) ==
    \/ PreconditionFails(w) \/ Claim(w) \/ AcquireLease(w)
    \/ CaptureSnapshot(w) \/ FailPreflight(w)
    \/ Drifted(w) \/ RecordEntry(w) \/ SkipWrite(w) \/ MarkExecuting(w)
    \/ MistWrite(w) \/ PersistCompleted(w) \/ ReadBackFails(w) \/ PersistAppliedHash(w)
    \/ RecordResult(w) \/ Unexpected(w) \/ FailOperation(w) \/ FailVerification(w)
    \/ Finish(w) \/ Announce(w) \/ CloseFailed(w) \/ CleanUp(w)

Beat(w) == RenewLease(w, "main") \/ RenewLease(w, "task") \/ TouchRun(w) \/ BeatError(w)

Janitor(op) == FindSilent(op) \/ Interrupt(op) \/ JanitorRelease(op)

Next ==
    \/ \E c \in Compensations : PlanCompensation(c)
    \/ \E op \in Ops : Request(op)
    \/ \E w \in Workers, op \in Ops : LoadQueued(w, op)
    \/ \E w \in Workers : MainStep(w)
    \/ \E w \in Workers : Beat(w)
    \/ \E w \in Workers : Crash(w)
    \/ \E op \in Ops : Janitor(op)
    \/ RemoveLapsedLease
    \/ Tick

Spec == Init /\ [][Next]_vars

\* The asyncio lock is first come, first served, and every call a run makes has
\* a timeout, so a living worker gets on; the clock, the janitor and the expiry
\* job are periodic.  Nothing makes a request, the broker or a beat succeed.
Fairness ==
    /\ WF_vars(Tick)
    /\ \A w \in Workers :
          /\ SF_vars(MainStep(w))
          /\ SF_vars(RenewLease(w, "main"))
          /\ WF_vars(TouchRun(w))
    /\ \A op \in Ops :
          WF_vars(FindSilent(op)) /\ WF_vars(Interrupt(op)) /\ WF_vars(ExpireCredential(op))

LiveSpec == Spec /\ Fairness

-----------------------------------------------------------------------------
Locals == [pc : Pcs, op : Ops \union {NoOp}, own : Statuses,
           acts : [Actions -> ActionStatuses], idx : 0 .. N + 1,
           claimed : BOOLEAN, leasing : BOOLEAN, lost : BOOLEAN,
           beat : {"none", "task", "main"}, age : 0 .. MaxStall, half : 0 .. MaxStall]

TypeOK ==
    /\ status \in [Ops -> Statuses]
    /\ acts \in [Ops -> [Actions -> ActionStatuses]]
    /\ cred \in [Ops -> BOOLEAN]
    /\ started \in [Ops -> BOOLEAN]
    /\ silence \in [Ops -> 0 .. TTL]
    /\ snap \in [Ops -> SUBSET Actions]
    /\ lease \in [holder : Ops \union {NoOp}, left : 0 .. TTL]
    /\ checked \subseteq Ops
    /\ call \in [Ops -> {"none", "send", "release"}]
    /\ sent \subseteq Ops
    /\ judged \in [Ops -> BOOLEAN]
    /\ freeing \subseteq Ops
    /\ run \in [Workers -> Locals]
    /\ writes \in [Ops -> [Actions -> 0 .. 2]]

\* restore_lease.py: two restores of one organization never interleave writes.
\* At most one worker is inside its action loop.
ExclusiveWriter ==
    \A w1, w2 \in Workers : Writing(w1) /\ Writing(w2) => w1 = w2

Written(op) == {i \in Actions : writes[op][i] > 0}

\* Mist is written only for a run that is still open, by the holder of a live
\* lease, and only over an object whose prior state is already stored.
WriteAllowed(op, i) ==
    /\ status[op] = "running"
    /\ lease.holder = op /\ lease.left > 0
    /\ i \in snap[op]
GuardedWrites ==
    [][\A op \in Ops, i \in Actions :
          writes'[op][i] # writes[op][i] => WriteAllowed(op, i)]_vars

\* restore_executor.py says of the guarded write that marks an action executing:
\* "an operation the janitor closed never reaches Mist again".
ClosedNeverReachesMist ==
    [][\A op \in Ops : status[op] \in Terminal => writes'[op] = writes[op]]_vars

\* However often a task is delivered, no action reaches Mist twice.
WrittenOnce == \A op \in Ops, i \in Actions : writes[op][i] < 2

\* A write Mist applied is never forgotten: once the operation is closed, its
\* record says so, and a restore that was not finished stays compensable.
AppliedIsRecorded ==
    \A op \in Ops : status[op] \in Terminal =>
        \A i \in Written(op) : PossiblyApplied(acts[op][i])
AppliedIsReversible ==
    \A op \in Restores : Written(op) # {} =>
        status[op] \in {"running", "completed", "compensation_available", "compensated"}

\* A success is only reported for a plan whose every action was applied, or, in
\* a compensation, found already reversed.
SuccessIsComplete ==
    \A op \in Ops, i \in Actions :
        /\ status[op] = "completed" => writes[op][i] = 1
        /\ op \in Compensations /\ status[op] = "compensated" =>
              writes[op][i] = 1 \/ acts[op][i] = "skipped"

\* A restore reads compensated only once the plan that reverses it finished.
CompensatedByAPlan ==
    \A op \in Restores : status[op] = "compensated" =>
        \E c \in Compensations : Reverses[c] = op /\ status[c] = "compensated"

\* No closed operation keeps a delegated credential.
NoCredentialAtRest == \A op \in Ops : status[op] \in Terminal => ~cred[op]

\* A closed operation is never reopened: only a compensable restore may still be
\* compensated, and a plan that never started be retired.
MayBecome(old, new) ==
    \/ old = new
    \/ old = "compensation_available" /\ new = "compensated"
    \/ old = "failed" /\ new = "superseded"
ClosedStaysClosed ==
    [][\A op \in Ops : status[op] \in Terminal => MayBecome(status[op], status'[op])]_vars

\* The organization's restores are serial: a tenure lasts as long as a worker is
\* inside its action loop and has not found out that it lost the run.
InTenure(op) == \E w \in Workers : run[w].op = op /\ Writing(w) /\ ~run[w].lost
Tenure == [op \in Ops |-> IF InTenure(op) THEN "writing"
                          ELSE IF Written(op) # {} THEN "over" ELSE "before"]
Serial == INSTANCE SerialRestores WITH
            tenure <- Tenure, written <- [op \in Ops |-> Written(op)]
SerialSpec == Serial!Spec

\* A running restore ends, whatever happens to its worker, and a queued one
\* does not wait for ever, whatever happens to its task.
RunningEnds == \A op \in Ops : status[op] = "running" ~> status[op] \in Terminal
QueuedEnds == \A op \in Ops : status[op] = "queued" ~> status[op] # "queued"

=============================================================================
