------------------------ MODULE GuardianInvestigation ------------------------
\* Guardian's investigation of one audit: services/guardian.py over the
\* conditional writes of guardian/repository.py.
\*
\* The root document holds the claim, the attempts consumed and pointers to
\* the published runs; each attempt has a run document whose id is the
\* claim's token.  Every minute some worker runs a tick over the roots that
\* look due; ticks overlap, stop anywhere and take any time.  A worker's
\* steps are its database calls.  Every condition on time is judged by the
\* server's clock at the write; a worker's own clock, off by up to Skew,
\* only picks what to try.
\*
\* Time is in units of RECHECK_DELAY: the clock counts from changed_at up
\* to where nothing depends on it, lease and check count down.
EXTENDS Integers, FiniteSets

\* The definitions named ...Slip are not part of the specification: each is a
\* wrong version of the definition after it, which the runs must find out.

CONSTANTS
    Workers,        \* processes that may run a tick
    Tokens,         \* ObjectIds
    NoToken,
    MaxAttempts,    \* MAX_ATTEMPTS_PER_KIND
    EarlyCutoff,    \* EARLY_CUTOFF
    FinalMinimum,   \* FINAL_MINIMUM
    FinalForced,    \* FINAL_FORCED
    Lease,          \* LEASE
    Skew,           \* how far a worker's clock may be off
    MaxFaults       \* bound on workers lost and commits left unanswered

ASSUME InvestigationAssumption ==
    /\ NoToken \notin Tokens
    /\ MaxAttempts \in Nat \ {0}
    /\ EarlyCutoff \in Nat /\ FinalMinimum \in Nat /\ FinalForced \in Nat
    /\ Lease \in Nat \ {0} /\ Skew \in Nat /\ MaxFaults \in Nat

VARIABLES
    root,       \* GuardianInvestigation, but for its times
    clock,      \* time since changed_at
    lease,      \* what is left until claim.lease_until, 0 without a claim
    check,      \* what is left until next_check_at
    runs,       \* GuardianRun, by token
    late,       \* commits sent, unanswered and not applied yet
    degraded,   \* a linked session's timeline records a degradation
    job,        \* each worker's locals
    faults

times == <<clock, lease, check>>
vars == <<root, times, runs, late, degraded, job, faults>>

Kinds == {"early", "final"}
NoClaim == [token |-> NoToken, kind |-> "early", attempt |-> 0]
NoRun == [state |-> "none", kind |-> "early", attempt |-> 0]
Failed == {"failed", "abandoned"}
TerminalRun == Failed \union {"succeeded"}
ClockEnd == FinalForced + Skew

Idle == [pc |-> "idle", choices |-> {}, token |-> NoToken, kind |-> "early",
         attempt |-> 0, forced |-> FALSE, passes |-> 0, outcome |-> "none"]

Set(w, j) == job' = [job EXCEPT ![w] = j]
Goto(w, pc) == Set(w, [job[w] EXCEPT !.pc = pc])
At(w, pc) == job[w].pc = pc
Stop(w) == Set(w, Idle)
\* A step of worker w that writes no document.
Local(w, j) == Set(w, j) /\ UNCHANGED <<root, times, runs, late, degraded, faults>>

\* An ObjectId nothing refers to.
Fresh(t) ==
    /\ root.claim.token # t /\ runs[t] = NoRun
    /\ \A w \in Workers : job[w].token # t
    /\ \A c \in late : c.token # t

Waiting == root.status = "waiting"
Unclaimed == root.claim = NoClaim
Due == check = 0
\* ClaimFence: the token and its phase, 0 for an uncommitted claim.
Holds(t, attempt) == root.claim.token = t /\ root.claim.attempt = attempt

------------------------
\* The tick: recover, exhaust, or evaluate.
ExhaustedSlip == root.attempts["final"] > MaxAttempts /\ root.published["final"] = NoToken
Exhausted == root.attempts["final"] >= MaxAttempts /\ root.published["final"] = NoToken

\* poll_due, on the worker's clock.  What it reads is all `tick` knows of the root.
Poll(w) ==
    /\ At(w, "idle")
    /\ Waiting /\ check <= Skew /\ (Unclaimed \/ lease <= Skew)
    /\ Local(w,
         IF ~Unclaimed
         THEN [Idle EXCEPT !.pc = IF root.claim.attempt = 0 THEN "clear" ELSE "expired",
                           !.token = root.claim.token, !.kind = root.claim.kind,
                           !.attempt = root.claim.attempt]
         ELSE IF Exhausted
         THEN [Idle EXCEPT !.pc = "reason"]
         ELSE [Idle EXCEPT !.pc = "evaluate",
                           !.choices = {k \in Kinds : /\ root.attempts[k] < MaxAttempts
                                                      /\ k = "early" => root.published[k] = NoToken}])

\* due_kind: a final run wins when both are due.
DueKind(choices, now, active) ==
    IF "final" \in choices /\ now >= FinalMinimum /\ (now >= FinalForced \/ ~active)
    THEN "final"
    ELSE IF "early" \in choices /\ now < EarlyCutoff /\ degraded THEN "early" ELSE "none"

Evaluate(w) ==
    /\ At(w, "evaluate")
    /\ \E now \in (clock - Skew) .. (clock + Skew), active \in BOOLEAN :
          LET kind == DueKind(job[w].choices, now, active) IN
          Local(w, IF kind = "none" THEN [Idle EXCEPT !.pc = "nothing"]
                   ELSE [Idle EXCEPT !.pc = "lease", !.kind = kind])

NothingDue(w) ==
    /\ At(w, "nothing")
    /\ check' = IF Waiting /\ Unclaimed /\ Due THEN 1 ELSE check
    /\ Stop(w)
    /\ UNCHANGED <<root, clock, lease, runs, late, degraded, faults>>

------------------------
\* One attempt: lease, revalidate, commit, run, finalize, publish.
EarlyAllowed == root.published["early"] = NoToken /\ clock < EarlyCutoff

CanLease(kind) ==
    /\ Waiting /\ Unclaimed /\ Due /\ root.attempts[kind] < MaxAttempts
    /\ IF kind = "early" THEN EarlyAllowed ELSE clock >= FinalMinimum

TakeLease(w) ==
    /\ At(w, "lease")
    /\ IF CanLease(job[w].kind)
       THEN LET t == CHOOSE t \in Tokens : Fresh(t) IN
            /\ \E u \in Tokens : Fresh(u)
            /\ root' = [root EXCEPT !.claim = [token |-> t, kind |-> job[w].kind, attempt |-> 0]]
            /\ lease' = Lease
            /\ Set(w, [job[w] EXCEPT !.pc = "revalidate", !.token = t,
                                     !.forced = job[w].kind = "final" /\ clock >= FinalForced])
       ELSE Stop(w) /\ UNCHANGED <<root, lease>>
    /\ UNCHANGED <<clock, check, runs, late, degraded, faults>>

Revalidate(w) ==
    /\ At(w, "revalidate")
    /\ \E active \in BOOLEAN :
       LET holds == IF job[w].kind = "final" THEN job[w].forced \/ ~active ELSE degraded
       IN Local(w, [job[w] EXCEPT !.pc = IF holds THEN "commit" ELSE "release", !.forced = FALSE])

Release(w) ==
    /\ At(w, "release")
    /\ IF Holds(job[w].token, 0)
       THEN root' = [root EXCEPT !.claim = NoClaim] /\ lease' = 0 /\ check' = 1
       ELSE UNCHANGED <<root, lease, check>>
    /\ Stop(w)
    /\ UNCHANGED <<clock, runs, late, degraded, faults>>

CanCommit(t, kind) ==
    /\ Waiting /\ Holds(t, 0) /\ root.claim.kind = kind
    /\ root.attempts[kind] < MaxAttempts
    /\ lease > 0
    /\ kind = "early" => EarlyAllowed

ApplyCommitSlip(kind) ==
    /\ root' = [root EXCEPT !.attempts[kind] = @ + 1,
                            !.claim.attempt = root.attempts[kind] + 1]
    /\ lease' = lease + Lease
ApplyCommit(kind) ==
    /\ root' = [root EXCEPT !.attempts[kind] = @ + 1,
                            !.claim.attempt = root.attempts[kind] + 1]
    /\ lease' = Lease

CommitApplies(w) ==
    /\ At(w, "commit") /\ CanCommit(job[w].token, job[w].kind)
    /\ ApplyCommit(job[w].kind)
    /\ Set(w, [job[w] EXCEPT !.pc = "insert", !.attempt = root.attempts[job[w].kind] + 1])
    /\ UNCHANGED <<clock, check, runs, late, degraded, faults>>

CommitMatchesNothing(w) ==
    /\ At(w, "commit") /\ ~CanCommit(job[w].token, job[w].kind)
    /\ Local(w, [job[w] EXCEPT !.pc = "release"])

\* No answer: the write took effect, or may still, or never will.
CommitUnanswered(w) ==
    LET j == job[w] IN
    /\ At(w, "commit") /\ faults < MaxFaults
    /\ \/ CanCommit(j.token, j.kind) /\ ApplyCommit(j.kind) /\ UNCHANGED late
       \/ late' = late \union {[token |-> j.token, kind |-> j.kind]} /\ UNCHANGED <<root, lease>>
       \/ UNCHANGED <<root, lease, late>>
    /\ faults' = faults + 1
    /\ Goto(w, "resolve")
    /\ UNCHANGED <<clock, check, runs, degraded>>

LateCommit(c) ==
    /\ late' = late \ {c}
    /\ IF CanCommit(c.token, c.kind) THEN ApplyCommit(c.kind) ELSE UNCHANGED <<root, lease>>
    /\ UNCHANGED <<clock, check, runs, degraded, job, faults>>

\* commit_applied_filter.  An attempt it does not find is left to its lease.
Resolve(w) ==
    /\ At(w, "resolve")
    /\ Local(w, IF root.claim.token = job[w].token /\ root.claim.attempt # 0
                THEN [job[w] EXCEPT !.pc = "insert", !.attempt = root.claim.attempt]
                ELSE Idle)

RunOf(w, state) == [state |-> state, kind |-> job[w].kind, attempt |-> job[w].attempt]

\* A duplicate key: recovery resolved the token first.
InsertRun(w) ==
    /\ At(w, "insert")
    /\ IF runs[job[w].token] = NoRun
       THEN runs' = [runs EXCEPT ![job[w].token] = RunOf(w, "running")] /\ Goto(w, "finalize")
       ELSE UNCHANGED runs /\ Stop(w)
    /\ UNCHANGED <<root, times, late, degraded, faults>>

FinalizeSlip(w) ==
    /\ At(w, "finalize")
    /\ \E state \in {"succeeded", "failed"} :
            /\ runs' = [runs EXCEPT ![job[w].token].state = state]
            /\ Set(w, [job[w] EXCEPT !.pc = "publish", !.outcome = state])
    /\ UNCHANGED <<root, times, late, degraded, faults>>
\* The attempt ran; nothing but its run's state stops a late one.
Finalize(w) ==
    /\ At(w, "finalize")
    /\ IF runs[job[w].token].state = "running"
       THEN \E state \in {"succeeded", "failed"} :
               /\ runs' = [runs EXCEPT ![job[w].token].state = state]
               /\ Set(w, [job[w] EXCEPT !.pc = "publish", !.outcome = state])
       ELSE UNCHANGED runs /\ Stop(w)
    /\ UNCHANGED <<root, times, late, degraded, faults>>

Published(j) ==
    /\ root' = [root EXCEPT !.claim = NoClaim, !.published[j.kind] = j.token,
                            !.result = j.token,
                            !.status = IF j.kind = "final" THEN "done" ELSE @]
    /\ lease' = 0
    /\ check' = IF j.kind = "final" THEN check ELSE 1
NotPublished == root' = [root EXCEPT !.claim = NoClaim] /\ lease' = 0 /\ check' = 1

PublishSlip(w) ==
    LET j == job[w] IN
    /\ At(w, "publish")
    /\ \/ j.outcome = "succeeded" /\ Published(j)
       \/ j.outcome # "succeeded" /\ NotPublished
    /\ Stop(w)
    /\ UNCHANGED <<clock, runs, late, degraded, faults>>
\* The worker and a recovering tick publish alike; the fence lets one through.
Publish(w) ==
    LET j == job[w]
        matches == /\ Waiting /\ Holds(j.token, j.attempt)
                   /\ j.outcome = "succeeded" => root.claim.kind = j.kind
    IN
    /\ At(w, "publish")
    /\ \/ matches /\ j.outcome = "succeeded" /\ Published(j)
       \/ matches /\ j.outcome # "succeeded" /\ NotPublished
       \/ ~matches /\ UNCHANGED <<root, lease, check>>
    /\ Stop(w)
    /\ UNCHANGED <<clock, runs, late, degraded, faults>>

------------------------
\* Recovery of an expired claim, and exhaustion.
ClearUncommittedSlip(w) ==
    /\ At(w, "clear")
    /\ root' = IF root.claim.token = job[w].token /\ lease = 0
               THEN [root EXCEPT !.claim = NoClaim] ELSE root
    /\ Stop(w)
    /\ UNCHANGED <<times, runs, late, degraded, faults>>
ClearUncommitted(w) ==
    /\ At(w, "clear")
    /\ root' = IF Holds(job[w].token, 0) /\ lease = 0
               THEN [root EXCEPT !.claim = NoClaim] ELSE root
    /\ Stop(w)
    /\ UNCHANGED <<times, runs, late, degraded, faults>>

FindExpired(w) ==
    /\ At(w, "expired")
    /\ Local(w, IF Holds(job[w].token, job[w].attempt) /\ lease = 0
                THEN [job[w] EXCEPT !.pc = "read"] ELSE Idle)

PassesSlip == 1
\* Two passes suffice.
Passes == 2

ReadRun(w) ==
    LET run == runs[job[w].token] IN
    /\ At(w, "read")
    /\ Local(w, CASE run.state \in TerminalRun \/ (job[w].passes = Passes /\ run # NoRun) ->
                       [job[w] EXCEPT !.pc = "publish", !.kind = run.kind,
                                      !.attempt = run.attempt, !.outcome = run.state]
                  [] job[w].passes = Passes /\ run = NoRun -> Idle
                  [] OTHER -> [job[w] EXCEPT !.pc = "abandon", !.outcome = run.state])

\* The abandoned run is inserted, or the running one marked, as the read found.
Abandon(w) ==
    LET t == job[w].token IN
    /\ At(w, "abandon")
    /\ runs' = IF runs[t].state = job[w].outcome
               THEN [runs EXCEPT ![t] = RunOf(w, "abandoned")] ELSE runs
    /\ Set(w, [job[w] EXCEPT !.pc = "read", !.passes = @ + 1, !.outcome = "none"])
    /\ UNCHANGED <<root, times, late, degraded, faults>>

FailedFinals == {runs[t].attempt : t \in {u \in Tokens : runs[u].kind = "final"
                                                      /\ runs[u].state \in Failed}}

\* last_failed_final_run, then exhaust_final_attempts.
ReadReasonSlip(w) ==
    /\ At(w, "reason")
    /\ \E n \in FailedFinals \union {0} : Local(w, [job[w] EXCEPT !.pc = "exhaust", !.attempt = n])
ReadReason(w) ==
    /\ At(w, "reason")
    /\ \E n \in FailedFinals \union {0} :
          /\ \A m \in FailedFinals : m <= n
          /\ Local(w, [job[w] EXCEPT !.pc = "exhaust", !.attempt = n])

Exhaust(w) ==
    /\ At(w, "exhaust")
    /\ root' = IF /\ Waiting /\ Unclaimed /\ root.attempts["final"] = MaxAttempts
                  /\ root.published["final"] = NoToken /\ Due
               THEN [root EXCEPT !.status = "done", !.quoted = job[w].attempt]
               ELSE root
    /\ Stop(w)
    /\ UNCHANGED <<times, runs, late, degraded, faults>>

------------------------
\* What happens meanwhile.
Crash(w) ==
    /\ ~At(w, "idle") /\ faults < MaxFaults
    /\ Stop(w)
    /\ faults' = faults + 1
    /\ UNCHANGED <<root, times, runs, late, degraded>>

\* The timeline is append-only.  That a session is active may be found at any read.
Degrade ==
    /\ ~degraded /\ degraded' = TRUE
    /\ UNCHANGED <<root, times, runs, late, job, faults>>

Left(n) == IF n > 0 THEN n - 1 ELSE 0
Tick ==
    /\ clock' = IF clock < ClockEnd THEN clock + 1 ELSE clock
    /\ lease' = Left(lease)
    /\ check' = Left(check)
    /\ UNCHANGED <<root, runs, late, degraded, job, faults>>

------------------------
\* The specification.
\* ensure: the webhook that announces the change may be long delayed.
Init ==
    /\ root = [status |-> "waiting", claim |-> NoClaim,
               attempts |-> [k \in Kinds |-> 0], published |-> [k \in Kinds |-> NoToken],
               result |-> NoToken, quoted |-> 0]
    /\ clock \in 0 .. FinalForced
    /\ lease = 0 /\ check = 1
    /\ runs = [t \in Tokens |-> NoRun]
    /\ late = {}
    /\ degraded \in BOOLEAN
    /\ job = [w \in Workers |-> Idle]
    /\ faults = 0

Attempt(w) ==
    \/ TakeLease(w) \/ Revalidate(w) \/ Release(w) \/ CommitApplies(w)
    \/ CommitMatchesNothing(w) \/ Resolve(w) \/ InsertRun(w) \/ Finalize(w) \/ Publish(w)
Recover(w) == ClearUncommitted(w) \/ FindExpired(w) \/ ReadRun(w) \/ Abandon(w)
WorkerStep(w) ==
    \/ Poll(w) \/ Evaluate(w) \/ NothingDue(w) \/ Attempt(w) \/ Recover(w)
    \/ ReadReason(w) \/ Exhaust(w)

Next ==
    \/ \E w \in Workers : WorkerStep(w) \/ CommitUnanswered(w) \/ Crash(w)
    \/ \E c \in late : LateCommit(c)
    \/ Degrade
    \/ Tick

Spec == Init /\ [][Next]_vars

\* worker.py schedules a tick every minute: some worker gets on, if not every
\* one.  Now and then one revalidates and commits within its five-minute lease.
InTime(w) == lease > 0 /\ Holds(job[w].token, 0) /\ Revalidate(w)
Fairness ==
    /\ WF_vars(Tick)
    /\ WF_vars(\E w \in Workers : WorkerStep(w))
    /\ SF_vars(\E w \in Workers : InTime(w))
    /\ SF_vars(\E w \in Workers : CommitApplies(w))
LiveSpec == Spec /\ Fairness

-----------------------------------------------------------------------------
Claims == [token : Tokens \union {NoToken}, kind : Kinds, attempt : 0 .. MaxAttempts]
Roots == [status : {"waiting", "done"}, claim : Claims,
          attempts : [Kinds -> 0 .. MaxAttempts],
          published : [Kinds -> Tokens \union {NoToken}],
          result : Tokens \union {NoToken}, quoted : 0 .. MaxAttempts]
Runs == [state : TerminalRun \union {"none", "running"}, kind : Kinds,
         attempt : 0 .. MaxAttempts]
Locals ==
    [pc : {"idle", "evaluate", "nothing", "lease", "revalidate", "release", "commit",
           "resolve", "insert", "finalize", "publish", "clear", "expired", "read",
           "abandon", "reason", "exhaust"},
     choices : SUBSET Kinds, token : Tokens \union {NoToken}, kind : Kinds,
     attempt : 0 .. MaxAttempts, forced : BOOLEAN, passes : 0 .. Passes,
     outcome : TerminalRun \union {"none", "running"}]

TypeOK ==
    /\ root \in Roots
    /\ clock \in 0 .. ClockEnd /\ lease \in 0 .. Lease /\ check \in 0 .. 1
    /\ runs \in [Tokens -> Runs]
    /\ late \subseteq [token : Tokens, kind : Kinds]
    /\ degraded \in BOOLEAN
    /\ job \in [Workers -> Locals]
    /\ faults \in 0 .. MaxFaults

\* repository.py: recovery "adopts a terminal" run and a worker publishes its
\* own; whoever is lost in between, a run that succeeded is the one the root
\* points at, or its claim is still there for a tick to publish.
SucceededIsPublished ==
    \A t \in Tokens : runs[t].state = "succeeded" =>
        \/ root.published[runs[t].kind] = t
        \/ Waiting /\ Holds(t, runs[t].attempt) /\ root.claim.kind = runs[t].kind

\* models/guardian.py, consistent_lifecycle: "the published result describes the
\* latest run the root points at", and what it points at is a run that succeeded.
ResultIsLatest ==
    /\ root.result = IF root.published["final"] # NoToken THEN root.published["final"]
                     ELSE root.published["early"]
    /\ \A k \in Kinds : root.published[k] # NoToken =>
          LET run == runs[root.published[k]] IN run.state = "succeeded" /\ run.kind = k

\* repository.py, exhaust_final_attempts: a root that ends without a final run
\* has had every final attempt fail, and quotes the last one's reason.
ExhaustedAfterLast ==
    root.status = "done" /\ root.published["final"] = NoToken =>
        FailedFinals = 1 .. MaxAttempts /\ root.quoted = MaxAttempts

\* repository.py: "Immutable terminal runs".
TerminalRunsStay ==
    [][\A t \in Tokens : runs[t].state \in TerminalRun => runs'[t] = runs[t]]_vars

\* The investigation a reader sees: numbered attempts, one at a time.
States(k, n) ==
    {runs[t].state : t \in {u \in Tokens : runs[u] # NoRun /\ runs[u].kind = k
                                                         /\ runs[u].attempt = n}}
Outcome(k, n) ==
    IF n > root.attempts[k] THEN "none"
    ELSE LET states == States(k, n) IN
         IF "succeeded" \in states THEN "succeeded"
         ELSE IF states \subseteq {"running"} THEN "open" ELSE "failed"
Record == INSTANCE InvestigationRecord WITH
    outcome <- [k \in Kinds |-> [n \in 1 .. MaxAttempts |-> Outcome(k, n)]],
    published <- [k \in Kinds |-> IF root.published[k] = NoToken THEN 0
                                  ELSE runs[root.published[k]].attempt],
    closed <- root.status = "done"
RecordSpec == Record!Spec

\* Every investigation ends.
RootEnds == <>(root.status = "done")
=============================================================================
