--------------------- MODULE GuardianInvestigationProofs ---------------------
\* What no schedule of overlapping ticks, lost workers, unanswered and late
\* commits can do to an investigation, for any workers, tokens, times and
\* numbers of attempts and faults.
EXTENDS GuardianInvestigation, TLAPS

Claimed == root.claim.token # NoToken
\* Attempt n of kind k is committed and its token still holds the root.
Open(t, n, k) ==
    /\ Waiting /\ n # 0
    /\ root.claim.token = t /\ root.claim.attempt = n /\ root.claim.kind = k

ClaimOK ==
    /\ ~Claimed => Unclaimed
    /\ Claimed => Waiting
    /\ Waiting => root.published["final"] = NoToken
    /\ Claimed /\ root.claim.kind = "early" => root.published["early"] = NoToken
    /\ ~Waiting /\ root.published["final"] = NoToken =>
          root.attempts["final"] = MaxAttempts /\ root.quoted = MaxAttempts

\* A run in flight or succeeded and not published is the one the claim holds.
RunOK(t) ==
    LET r == runs[t] IN
    /\ r.state = "none" => r = NoRun
    /\ r.state # "none" => r.attempt # 0 /\ (root.claim.token = t => root.claim.kind = r.kind)
    /\ r.state = "running" => Open(t, r.attempt, r.kind)
    /\ r.state = "succeeded" => root.published[r.kind] = t \/ Open(t, r.attempt, r.kind)
RunsOK == \A t \in Tokens : RunOK(t)

\* Every attempt consumed is the one claimed or has ended.
AttemptsOK ==
    \A k \in Kinds : \A n \in 1 .. root.attempts[k] :
        \/ root.claim.kind = k /\ root.claim.attempt = n
        \/ \E t \in Tokens : runs[t].kind = k /\ runs[t].attempt = n
                             /\ runs[t].state \in TerminalRun

FinalsSpent ==
    /\ root.attempts["final"] = MaxAttempts /\ root.published["final"] = NoToken
    /\ Claimed => root.claim.kind # "final"

\* What a worker's place in its tick says of what it carries.
Fenced == {"revalidate", "release", "commit", "resolve", "insert", "finalize",
           "publish", "clear", "expired", "read", "abandon"}
JobOK(j) ==
    LET r == runs[j.token] IN
    /\ j.pc \in Fenced => j.token \in Tokens
    /\ j.token \in Tokens /\ root.claim.token = j.token => root.claim.kind = j.kind
    /\ j.pc = "insert" => j.attempt # 0 /\ (r.state = "none" => Open(j.token, j.attempt, j.kind))
    /\ j.pc = "finalize" =>
          /\ r.state # "none"
          /\ r.state = "running" => r.kind = j.kind /\ r.attempt = j.attempt
    /\ j.pc \in {"expired", "read", "abandon"} => j.attempt # 0
    /\ j.pc = "expired" => j.passes = 0
    /\ j.pc = "read" => /\ j.passes # 0 => r.state # "none"
                        /\ j.passes = 2 => r.state \in TerminalRun
    /\ j.pc = "abandon" => /\ j.passes # 2 /\ j.outcome \in {"none", "running"}
                           /\ j.passes = 1 => j.outcome = "running"
                           /\ j.outcome = "running" => r.state # "none"
    /\ j.pc = "publish" =>
          /\ j.outcome \in TerminalRun
          /\ r.state = j.outcome /\ r.kind = j.kind /\ r.attempt = j.attempt
    /\ j.pc = "reason" => FinalsSpent
    /\ j.pc = "exhaust" => j.attempt = MaxAttempts
JobsOK == \A w \in Workers : JobOK(job[w])

Inv == TypeOK /\ ClaimOK /\ RunsOK /\ AttemptsOK /\ JobsOK /\ ResultIsLatest

-----------------------------------------------------------------------------
\* The claim of a root without one.
LEMMA NoClaimType ==
    /\ NoClaim \in Claims /\ NoClaim.token = NoToken /\ NoClaim.attempt = 0
    /\ NoClaim.kind = "early"
  BY InvestigationAssumption DEF NoClaim, Claims, Kinds

\* The locals of a worker between ticks.
LEMMA IdleType ==
    Idle \in Locals /\ Idle.pc = "idle" /\ Idle.token = NoToken /\ Idle.passes = 0
  BY InvestigationAssumption DEF Idle, Locals, Kinds, Passes

\* They fit any state.
LEMMA IdleOK == JobOK(Idle)
  BY IdleType, InvestigationAssumption DEF JobOK, Fenced

\* The root and the runs stay; the invariant is then the types and the locals.
LEMMA StillOK ==
    ASSUME Inv, UNCHANGED <<root, runs>>, TypeOK', JobsOK'
    PROVE  Inv'
  BY DEF Inv, ClaimOK, RunsOK, RunOK, Open, Claimed, Waiting, Unclaimed, AttemptsOK,
         ResultIsLatest

\* One worker's locals change, and every other worker's still fit.
LEMMA JobsStep ==
    ASSUME TypeOK, JobsOK, NEW w \in Workers, NEW j \in Locals, Set(w, j), JobOK(j)',
           \A v \in Workers \ {w} : \A i \in Locals : i = job[v] /\ JobOK(i) => JobOK(i)'
    PROVE  job' \in [Workers -> Locals] /\ JobsOK'
<1>1. job \in [Workers -> Locals]
  BY DEF TypeOK
<1>2. job' = [job EXCEPT ![w] = j]
  BY DEF Set
<1>3. job' \in [Workers -> Locals]
  BY <1>1, <1>2
<1>4. ASSUME NEW v \in Workers PROVE JobOK(job[v])'
 <2>1. CASE v = w
  <3>1. job'[v] = j
    BY <1>1, <1>2, <2>1
  <3>. QED BY <3>1 DEF JobOK, FinalsSpent, Open, Claimed, Waiting
 <2>2. CASE v # w
  <3>1. job'[v] = job[v] /\ job[v] \in Locals
    BY <1>1, <1>2, <2>2
  <3>. DEFINE i == job[v]
  <3>2. JobOK(i)
    BY DEF JobsOK
  <3>3. PICK u \in Locals : u = job[v]
    BY <3>1
  <3>4. JobOK(u)'
    BY <2>2, <3>2, <3>3
  <3>5. job'[v] = u
    BY <3>1, <3>3
  <3>. QED BY <3>4, <3>5 DEF JobOK, FinalsSpent, Open, Claimed, Waiting
 <2>. QED BY <2>1, <2>2
<1>. QED BY <1>3, <1>4 DEF JobsOK

\* A worker moves and nothing a job depends on changes.
LEMMA JobsStill ==
    ASSUME TypeOK, JobsOK, UNCHANGED <<root, runs>>,
           NEW w \in Workers, NEW j \in Locals, Set(w, j), JobOK(j)
    PROVE  job' \in [Workers -> Locals] /\ JobsOK'
<1>1. \A i \in Locals : JobOK(i) => JobOK(i)'
  BY DEF JobOK, FinalsSpent, Open, Claimed, Waiting
<1>. QED BY <1>1, JobsStep

-----------------------------------------------------------------------------
\* A step of one worker that writes nothing the invariant is about.
LEMMA LocalStep ==
    ASSUME Inv, UNCHANGED <<root, times, runs, late, degraded, faults>>,
           NEW w \in Workers, NEW j \in Locals, Set(w, j), JobOK(j)
    PROVE  Inv'
<1>1. job' \in [Workers -> Locals] /\ JobsOK'
  BY JobsStill DEF Inv
<1>2. TypeOK'
  BY <1>1 DEF Inv, TypeOK, times
<1>. QED BY <1>1, <1>2, StillOK

\* A worker gives its tick up.
LEMMA StopStep ==
    ASSUME Inv, UNCHANGED <<root, times, runs, late, degraded, faults>>,
           NEW w \in Workers, Stop(w)
    PROVE  Inv'
  BY LocalStep, IdleType, IdleOK DEF Stop

\* What the invariant says of one worker's locals.
LEMMA JobFacts ==
    ASSUME Inv, NEW w \in Workers
    PROVE  job[w] \in Locals /\ JobOK(job[w])
  BY DEF Inv, TypeOK, JobsOK

\* The root is a record, its claim one too.
LEMMA RootFacts ==
    ASSUME TypeOK
    PROVE  /\ root.status \in {"waiting", "done"}
           /\ root.claim \in Claims
           /\ root.claim.token \in Tokens \union {NoToken}
           /\ root.claim.kind \in Kinds
           /\ root.claim.attempt \in 0 .. MaxAttempts
           /\ \A k \in Kinds : root.attempts[k] \in 0 .. MaxAttempts
           /\ \A k \in Kinds : root.published[k] \in Tokens \union {NoToken}
           /\ root.result \in Tokens \union {NoToken}
           /\ root.quoted \in 0 .. MaxAttempts
  BY DEF TypeOK, Roots, Claims

\* One lemma per step: poll, evaluate, and finding nothing due.
LEMMA PollOK == ASSUME Inv, NEW w \in Workers, Poll(w) PROVE Inv'
<1>1. CASE ~Unclaimed
 <2>. DEFINE pc == IF root.claim.attempt = 0 THEN "clear" ELSE "expired"
             j == [Idle EXCEPT !.pc = pc, !.token = root.claim.token,
                               !.kind = root.claim.kind, !.attempt = root.claim.attempt]
 <2>1. Local(w, j)
   BY <1>1 DEF Poll
 <2>2. root.claim.token \in Tokens
   BY <1>1, RootFacts DEF Inv, ClaimOK, Claimed
 <2>3. /\ j \in Locals /\ j.pc = pc /\ j.token = root.claim.token
       /\ j.kind = root.claim.kind /\ j.attempt = root.claim.attempt /\ j.passes = 0
   BY IdleType, RootFacts, ZenonT(40) DEF Inv, Locals
 <2>4. JobOK(j)
   BY <2>2, <2>3 DEF JobOK, Fenced
 <2>. QED BY <2>1, <2>3, <2>4, LocalStep DEF Local
<1>2. CASE Unclaimed /\ Exhausted
 <2>. DEFINE j == [Idle EXCEPT !.pc = "reason"]
 <2>1. Local(w, j)
   BY <1>2 DEF Poll
 <2>2. j \in Locals /\ j.pc = "reason" /\ j.token = NoToken
   BY IdleType DEF Locals
 <2>3. FinalsSpent
   BY <1>2, RootFacts, NoClaimType, InvestigationAssumption
      DEF FinalsSpent, Exhausted, Inv, Claimed, Unclaimed, Kinds
 <2>4. JobOK(j)
   BY <2>2, <2>3, InvestigationAssumption DEF JobOK, Fenced
 <2>. QED BY <2>1, <2>2, <2>4, LocalStep DEF Local
<1>3. CASE Unclaimed /\ ~Exhausted
 <2>. DEFINE C == {k \in Kinds : /\ root.attempts[k] < MaxAttempts
                                 /\ k = "early" => root.published[k] = NoToken}
             j == [Idle EXCEPT !.pc = "evaluate", !.choices = C]
 <2>1. Local(w, j)
   BY <1>3 DEF Poll
 <2>2. j \in Locals /\ j.pc = "evaluate" /\ j.token = NoToken
   BY IdleType DEF Locals
 <2>3. JobOK(j)
   BY <2>2, InvestigationAssumption DEF JobOK, Fenced
 <2>. QED BY <2>1, <2>2, <2>3, LocalStep DEF Local
<1>. QED BY <1>1, <1>2, <1>3

\* due_kind picks a kind or none.
LEMMA EvaluateOK == ASSUME Inv, NEW w \in Workers, Evaluate(w) PROVE Inv'
<1>1. PICK kind \in Kinds \union {"none"} :
          Local(w, IF kind = "none" THEN [Idle EXCEPT !.pc = "nothing"]
                   ELSE [Idle EXCEPT !.pc = "lease", !.kind = kind])
  BY DEF Evaluate, DueKind, Kinds
<1>. DEFINE j == IF kind = "none" THEN [Idle EXCEPT !.pc = "nothing"]
                 ELSE [Idle EXCEPT !.pc = "lease", !.kind = kind]
<1>2. j \in Locals /\ j.pc \in {"nothing", "lease"} /\ j.token = NoToken
  BY IdleType DEF Locals
<1>3. JobOK(j)
  BY <1>2, InvestigationAssumption DEF JobOK, Fenced
<1>. QED BY <1>1, <1>2, <1>3, LocalStep DEF Local

\* Only the next check moves.
LEMMA NothingDueOK == ASSUME Inv, NEW w \in Workers, NothingDue(w) PROVE Inv'
<1>1. job' \in [Workers -> Locals] /\ JobsOK'
  BY JobsStill, IdleType, IdleOK DEF NothingDue, Stop, Inv
<1>2. TypeOK'
  BY <1>1 DEF Inv, TypeOK, NothingDue
<1>. QED BY <1>1, <1>2, StillOK DEF NothingDue

\* The trigger still holds, or the lease is given back.
LEMMA RevalidateOK == ASSUME Inv, NEW w \in Workers, Revalidate(w) PROVE Inv'
<1>1. PICK pc \in {"commit", "release"} :
          Local(w, [job[w] EXCEPT !.pc = pc, !.forced = FALSE])
  BY DEF Revalidate
<1>. DEFINE j == [job[w] EXCEPT !.pc = pc, !.forced = FALSE]
<1>2. /\ j \in Locals /\ j.pc = pc /\ j.token = job[w].token
      /\ j.kind = job[w].kind
  BY JobFacts DEF Locals
<1>3. JobOK(j)
  BY <1>2, JobFacts DEF JobOK, Fenced, Revalidate, At
<1>. QED BY <1>1, <1>2, <1>3, LocalStep DEF Local

\* A refused commit leads to the release.
LEMMA CommitMatchesNothingOK ==
    ASSUME Inv, NEW w \in Workers, CommitMatchesNothing(w) PROVE Inv'
<1>. DEFINE j == [job[w] EXCEPT !.pc = "release"]
<1>2. /\ j \in Locals /\ j.pc = "release" /\ j.token = job[w].token
      /\ j.kind = job[w].kind
  BY JobFacts DEF Locals
<1>3. JobOK(j)
  BY <1>2, JobFacts DEF JobOK, Fenced, CommitMatchesNothing, At
<1>. QED BY <1>2, <1>3, LocalStep DEF Local, CommitMatchesNothing

\* An unanswered commit found applied makes its worker run the attempt.
LEMMA ResolveOK == ASSUME Inv, NEW w \in Workers, Resolve(w) PROVE Inv'
<1>1. CASE root.claim.token = job[w].token /\ root.claim.attempt # 0
 <2>. DEFINE j == [job[w] EXCEPT !.pc = "insert", !.attempt = root.claim.attempt]
 <2>1. /\ j \in Locals /\ j.pc = "insert" /\ j.token = job[w].token
       /\ j.kind = job[w].kind /\ j.attempt = root.claim.attempt
   BY JobFacts, RootFacts DEF Locals, Inv
 <2>2. job[w].token \in Tokens /\ root.claim.kind = job[w].kind
   BY <1>1, JobFacts DEF Resolve, At, JobOK, Fenced
 <2>3. Open(j.token, j.attempt, j.kind)
   BY <1>1, <2>1, <2>2, InvestigationAssumption DEF Open, Inv, ClaimOK, Claimed
 <2>4. JobOK(j)
   BY <1>1, <2>1, <2>2, <2>3 DEF JobOK, Fenced
 <2>. QED BY <1>1, <2>1, <2>4, LocalStep DEF Resolve, Local
<1>2. CASE ~(root.claim.token = job[w].token /\ root.claim.attempt # 0)
  BY <1>2, StopStep DEF Resolve, Local, Stop
<1>. QED BY <1>1, <1>2

\* A committed claim found expired is recovered.
LEMMA FindExpiredOK == ASSUME Inv, NEW w \in Workers, FindExpired(w) PROVE Inv'
<1>1. CASE Holds(job[w].token, job[w].attempt) /\ lease = 0
 <2>. DEFINE j == [job[w] EXCEPT !.pc = "read"]
 <2>1. /\ j \in Locals /\ j.pc = "read" /\ j.token = job[w].token
       /\ j.kind = job[w].kind /\ j.attempt = job[w].attempt /\ j.passes = job[w].passes
   BY JobFacts DEF Locals
 <2>2. job[w].passes = 0
   BY JobFacts DEF FindExpired, At, JobOK
 <2>3. JobOK(j)
   BY <2>1, <2>2, JobFacts DEF FindExpired, At, JobOK, Fenced
 <2>. QED BY <1>1, <2>1, <2>3, LocalStep DEF FindExpired, Local
<1>2. CASE ~(Holds(job[w].token, job[w].attempt) /\ lease = 0)
  BY <1>2, StopStep DEF FindExpired, Local, Stop
<1>. QED BY <1>1, <1>2

-----------------------------------------------------------------------------
\* The steps of recovery and exhaustion that only read.
LEMMA ReadRunOK == ASSUME Inv, NEW w \in Workers, ReadRun(w) PROVE Inv'
<1>. DEFINE run == runs[job[w].token]
<1>1. /\ job[w] \in Locals /\ JobOK(job[w]) /\ job[w].pc = "read"
      /\ job[w].token \in Tokens /\ run \in Runs /\ RunOK(job[w].token)
  BY JobFacts DEF ReadRun, At, JobOK, Fenced, Inv, TypeOK, RunsOK
<1>2. CASE run.state \in TerminalRun
 <2>. DEFINE j == [job[w] EXCEPT !.pc = "publish", !.kind = run.kind,
                                 !.attempt = run.attempt, !.outcome = run.state]
 <2>1. /\ j \in Locals /\ j.pc = "publish" /\ j.token = job[w].token
       /\ j.kind = run.kind /\ j.attempt = run.attempt /\ j.outcome = run.state
   BY <1>1 DEF Locals, Runs
 <2>2. run.state # "none"
   BY <1>2 DEF TerminalRun, Failed
 <2>3. JobOK(j)
   BY <1>1, <1>2, <2>1, <2>2 DEF JobOK, Fenced, RunOK
 <2>4. run # NoRun
   BY <2>2 DEF NoRun
 <2>5. Local(w, j)
   BY <1>2, <2>4 DEF ReadRun
 <2>. QED BY <2>1, <2>3, <2>5, LocalStep DEF Local
<1>3. CASE run.state \notin TerminalRun
 <2>1. job[w].passes # 2
   BY <1>1, <1>3 DEF JobOK
 <2>2. run.state \in {"none", "running"}
   BY <1>1, <1>3 DEF Runs, TerminalRun
 <2>. DEFINE j == [job[w] EXCEPT !.pc = "abandon", !.outcome = run.state]
 <2>3. /\ j \in Locals /\ j.pc = "abandon" /\ j.token = job[w].token
       /\ j.kind = job[w].kind /\ j.attempt = job[w].attempt
       /\ j.passes = job[w].passes /\ j.outcome = run.state
   BY <1>1 DEF Locals, Runs
 <2>4. JobOK(j)
   BY <1>1, <2>1, <2>2, <2>3 DEF JobOK, Fenced
 <2>5. Local(w, j)
   BY <1>3, <2>1 DEF ReadRun, Passes
 <2>. QED BY <2>3, <2>4, <2>5, LocalStep DEF Local
<1>. QED BY <1>2, <1>3

\* When the final attempts are spent, the last one is among those that failed.
LEMMA LastFinalFailed ==
    ASSUME Inv, FinalsSpent
    PROVE  MaxAttempts \in FailedFinals
<1>1. MaxAttempts \in 1 .. root.attempts["final"] /\ MaxAttempts # 0
  BY InvestigationAssumption DEF FinalsSpent
<1>2. ~(root.claim.kind = "final" /\ root.claim.attempt = MaxAttempts)
  BY <1>1, NoClaimType DEF FinalsSpent, Inv, ClaimOK, Unclaimed
<1>3. PICK t \in Tokens : /\ runs[t].kind = "final" /\ runs[t].attempt = MaxAttempts
                          /\ runs[t].state \in TerminalRun
  BY <1>1, <1>2 DEF Inv, AttemptsOK, Kinds
<1>4. runs[t].state # "succeeded"
  BY <1>3, InvestigationAssumption
     DEF FinalsSpent, Inv, RunsOK, RunOK, Open, Claimed
<1>. QED BY <1>3, <1>4 DEF FailedFinals, TerminalRun

\* The reason read for the exhaustion is the last final attempt's.
LEMMA ReadReasonOK == ASSUME Inv, NEW w \in Workers, ReadReason(w) PROVE Inv'
<1>1. PICK n \in FailedFinals \union {0} :
          /\ \A m \in FailedFinals : m <= n
          /\ Local(w, [job[w] EXCEPT !.pc = "exhaust", !.attempt = n])
  BY DEF ReadReason
<1>2. MaxAttempts \in FailedFinals
  BY LastFinalFailed, JobFacts DEF ReadReason, At, JobOK
<1>3. FailedFinals \subseteq 0 .. MaxAttempts
  BY DEF FailedFinals, Inv, TypeOK, Runs
<1>4. n = MaxAttempts
  BY <1>1, <1>2, <1>3, InvestigationAssumption
<1>. DEFINE j == [job[w] EXCEPT !.pc = "exhaust", !.attempt = n]
<1>4a. n \in 0 .. MaxAttempts
  BY <1>4, InvestigationAssumption
<1>5. /\ j \in Locals /\ j.pc = "exhaust" /\ j.token = job[w].token
      /\ j.kind = job[w].kind /\ j.attempt = MaxAttempts
  BY <1>4, <1>4a, JobFacts DEF Locals
<1>6. JobOK(j)
  BY <1>5, JobFacts DEF JobOK, Fenced
<1>. QED BY <1>1, <1>5, <1>6, LocalStep DEF Local

-----------------------------------------------------------------------------
\* A change of the root alone: the parts of the invariant it must keep, and
\* what every worker's locals say must still be so.
RootKept ==
    /\ root' \in Roots
    /\ ClaimOK' /\ RunsOK' /\ AttemptsOK' /\ ResultIsLatest'
    /\ \A i \in Locals : JobOK(i) => JobOK(i)'

\* A worker's step that changes the root and keeps those parts keeps the invariant.
LEMMA RootStep ==
    ASSUME Inv, UNCHANGED <<runs, degraded, faults>>, RootKept, late' = late,
           clock' = clock, lease' \in 0 .. Lease, check' \in 0 .. 1,
           NEW w \in Workers, NEW j \in Locals, Set(w, j), JobOK(j)'
    PROVE  Inv'
<1>1. job' \in [Workers -> Locals] /\ JobsOK'
  BY JobsStep DEF RootKept, Inv
<1>2. TypeOK'
  BY <1>1 DEF Inv, TypeOK, RootKept
<1>. QED BY <1>1, <1>2 DEF Inv, RootKept

\* An idle worker's locals fit any root.
LEMMA IdleFits == JobOK(Idle)'
  BY IdleType, InvestigationAssumption DEF JobOK, Fenced

\* A claim not committed is dropped: no run is in flight.
LEMMA ClearKept ==
    ASSUME Inv, UNCHANGED runs, root.claim.attempt = 0,
           root' = [root EXCEPT !.claim = NoClaim]
    PROVE  RootKept
<1>1. /\ root'.status = root.status /\ root'.claim = NoClaim
      /\ root'.attempts = root.attempts /\ root'.published = root.published
      /\ root'.result = root.result /\ root'.quoted = root.quoted
  BY DEF Inv, TypeOK
<1>2. root' \in Roots
  BY NoClaimType DEF Inv, TypeOK, Roots
<1>3. ClaimOK'
  BY <1>1, NoClaimType DEF Inv, ClaimOK, Claimed, Unclaimed, Waiting
<1>4. RunsOK'
  BY <1>1, NoClaimType, InvestigationAssumption DEF Inv, RunsOK, RunOK, Open, Waiting
<1>5. AttemptsOK'
 <2>1. \A k \in Kinds : \A n \in 1 .. root.attempts[k] : root.claim.attempt # n
   BY RootFacts DEF Inv
 <2>. QED BY <1>1, <2>1 DEF Inv, AttemptsOK
<1>6. ResultIsLatest'
  BY <1>1 DEF Inv, ResultIsLatest
<1>7. \A i \in Locals : JobOK(i) => JobOK(i)'
  BY <1>1, NoClaimType, InvestigationAssumption
     DEF JobOK, Open, FinalsSpent, Claimed, Waiting
<1>. QED BY <1>2, <1>3, <1>4, <1>5, <1>6, <1>7 DEF RootKept

\* The two writes that drop an uncommitted claim: a worker's and a recovering tick's.
LEMMA ReleaseOK == ASSUME Inv, NEW w \in Workers, Release(w) PROVE Inv'
<1>1. CASE Holds(job[w].token, 0)
 <2>1. RootKept
   BY <1>1, ClearKept DEF Release, Holds
 <2>. QED BY <1>1, <2>1, RootStep, IdleType, IdleFits, InvestigationAssumption
          DEF Release, Stop
<1>2. CASE ~Holds(job[w].token, 0)
  BY <1>2, StopStep DEF Release, times
<1>. QED BY <1>1, <1>2

\* The phase in the fence is what makes this one safe.
LEMMA ClearUncommittedOK ==
    ASSUME Inv, NEW w \in Workers, ClearUncommitted(w) PROVE Inv'
<1>1. CASE Holds(job[w].token, 0) /\ lease = 0
 <2>1. RootKept
   BY <1>1, ClearKept DEF ClearUncommitted, Holds
 <2>. QED BY <1>1, <2>1, RootStep, IdleType, IdleFits
          DEF ClearUncommitted, Stop, times, Inv, TypeOK
<1>2. CASE ~(Holds(job[w].token, 0) /\ lease = 0)
  BY <1>2, StopStep DEF ClearUncommitted
<1>. QED BY <1>1, <1>2

\* A root in waiting with no claim takes one for a token nothing refers to.
LEMMA TakeLeaseOK == ASSUME Inv, NEW w \in Workers, TakeLease(w) PROVE Inv'
<1>1. CASE ~CanLease(job[w].kind)
  BY <1>1, StopStep DEF TakeLease, times
<1>2. CASE CanLease(job[w].kind)
 <2>. DEFINE k == job[w].kind
             t == CHOOSE u \in Tokens : Fresh(u)
             c == [token |-> t, kind |-> k, attempt |-> 0]
             forced == job[w].kind = "final" /\ clock >= FinalForced
             held == [job[w] EXCEPT !.pc = "revalidate", !.token = t, !.forced = forced]
 <2>1. t \in Tokens /\ Fresh(t)
   BY <1>2 DEF TakeLease
 <2>2. /\ root' = [root EXCEPT !.claim = c] /\ lease' = Lease /\ Set(w, held)
       /\ UNCHANGED <<clock, check, runs, late, degraded, faults>>
   BY <1>2 DEF TakeLease
 <2>3. job[w] \in Locals /\ k \in Kinds
   BY JobFacts DEF Locals
 <2>4. c \in Claims /\ c.token = t /\ c.kind = k /\ c.attempt = 0
   BY <2>1, <2>3, InvestigationAssumption DEF Claims
 <2>. HIDE DEF t, c, k
 <2>5. /\ root'.status = root.status /\ root'.claim = c
       /\ root'.attempts = root.attempts /\ root'.published = root.published
       /\ root'.result = root.result /\ root'.quoted = root.quoted
   BY <2>2 DEF Inv, TypeOK
 <2>6. root' \in Roots
   BY <2>2, <2>4 DEF Inv, TypeOK, Roots
 <2>7. /\ Waiting /\ Unclaimed /\ root.attempts[k] < MaxAttempts
       /\ k = "early" => root.published["early"] = NoToken
   BY <1>2 DEF CanLease, EarlyAllowed, k
 <2>8. ~Claimed /\ root.claim.attempt = 0
   BY <2>7, NoClaimType DEF Claimed, Unclaimed
 <2>9. ClaimOK'
   BY <2>1, <2>4, <2>5, <2>7, InvestigationAssumption
      DEF Inv, ClaimOK, Claimed, Waiting
 <2>10. RunsOK'
  <3>1. runs[t] = NoRun
    BY <2>1 DEF Fresh
  <3>2. \A u \in Tokens : ~Open(u, runs[u].attempt, runs[u].kind)
    BY <2>8, InvestigationAssumption DEF Open, Claimed
  <3>. QED BY <2>2, <2>4, <2>5, <3>1, <3>2 DEF Inv, RunsOK, RunOK, NoRun
 <2>11. AttemptsOK'
  <3>1. \A l \in Kinds : \A n \in 1 .. root.attempts[l] : root.claim.attempt # n
    BY <2>8, RootFacts DEF Inv
  <3>. QED BY <2>2, <2>5, <3>1 DEF Inv, AttemptsOK
 <2>12. ResultIsLatest'
   BY <2>2, <2>5 DEF Inv, ResultIsLatest
 <2>13. \A v \in Workers : \A i \in Locals : i = job[v] /\ JobOK(i) => JobOK(i)'
  <3>. SUFFICES ASSUME NEW v \in Workers, NEW i \in Locals, i = job[v], JobOK(i)
                PROVE  JobOK(i)'
    OBVIOUS
  <3>1. i.token # t
    BY <2>1 DEF Fresh
  <3>2. i.token \in Tokens => ~Open(i.token, i.attempt, i.kind)
    BY <2>8, InvestigationAssumption DEF Open, Claimed
  <3>3. FinalsSpent => FinalsSpent'
    BY <2>4, <2>5, <2>7, RootFacts, InvestigationAssumption
       DEF FinalsSpent, Claimed, Inv, Kinds
  <3>. QED BY <2>2, <2>4, <2>5, <3>1, <3>2, <3>3 DEF JobOK, Fenced
 <2>14. PICK j \in Locals : /\ j = held /\ j.pc = "revalidate"
                            /\ j.token = t /\ j.kind = k
  <3>. held \in Locals /\ held.pc = "revalidate" /\ held.token = t /\ held.kind = k
    BY <2>1, <2>3 DEF Locals, k
  <3>. QED OBVIOUS
 <2>15. JobOK(j)'
   BY <2>1, <2>4, <2>5, <2>14 DEF JobOK, Fenced
 <2>16. job' \in [Workers -> Locals] /\ JobsOK'
   BY <2>2, <2>13, <2>14, <2>15, JobsStep DEF Inv
 <2>17. TypeOK'
   BY <2>2, <2>6, <2>16, InvestigationAssumption DEF Inv, TypeOK
 <2>. QED BY <2>9, <2>10, <2>11, <2>12, <2>16, <2>17 DEF Inv
<1>. QED BY <1>1, <1>2

\* A commit that applies consumes the attempt it numbers.
LEMMA CommitKept ==
    ASSUME Inv, NEW t \in Tokens, NEW kind \in Kinds,
           CanCommit(t, kind), ApplyCommit(kind), UNCHANGED runs
    PROVE  /\ RootKept
           /\ root'.claim.token = t /\ root'.claim.kind = kind
           /\ root'.claim.attempt = root.attempts[kind] + 1
           /\ root'.status = root.status
           /\ root.attempts[kind] + 1 \in 1 .. MaxAttempts
<1>. DEFINE n == root.attempts[kind] + 1
<1>1. n \in 1 .. MaxAttempts
  BY RootFacts, InvestigationAssumption DEF Inv, CanCommit
<1>2. /\ Waiting /\ root.claim.token = t /\ root.claim.attempt = 0
      /\ root.claim.kind = kind /\ root.attempts[kind] < MaxAttempts
  BY DEF CanCommit, Holds
<1>3. root' = [root EXCEPT !.attempts[kind] = @ + 1, !.claim.attempt = n]
  BY DEF ApplyCommit
<1>4. /\ root'.status = root.status
      /\ root'.claim = [root.claim EXCEPT !.attempt = n]
      /\ root'.attempts = [root.attempts EXCEPT ![kind] = n]
      /\ root'.published = root.published
      /\ root'.result = root.result /\ root'.quoted = root.quoted
  BY <1>3 DEF Inv, TypeOK
<1>5. /\ root'.claim \in Claims /\ root'.claim.token = t /\ root'.claim.kind = kind
      /\ root'.claim.attempt = n
  BY <1>1, <1>2, <1>4, RootFacts DEF Claims, Inv
<1>6. /\ root'.attempts \in [Kinds -> 0 .. MaxAttempts] /\ root'.attempts[kind] = n
      /\ \A k \in Kinds \ {kind} : root'.attempts[k] = root.attempts[k]
  BY <1>1, <1>4 DEF Inv, TypeOK, Roots
<1>. HIDE DEF n
<1>7. root' \in Roots
  BY <1>3, <1>4, <1>5, <1>6 DEF Inv, TypeOK, Roots
<1>8. ClaimOK'
  BY <1>2, <1>4, <1>5, InvestigationAssumption DEF Inv, ClaimOK, Claimed, Waiting
<1>9. \A u, m, k : ~Open(u, m, k)
  BY <1>2 DEF Open
<1>10. RunsOK'
  BY <1>2, <1>4, <1>5, <1>9 DEF Inv, RunsOK, RunOK
<1>11. AttemptsOK'
 <2>. SUFFICES ASSUME NEW k \in Kinds, NEW m \in 1 .. root'.attempts[k],
                      ~(root'.claim.kind = k /\ root'.claim.attempt = m)
               PROVE  \E u \in Tokens : runs[u].kind = k /\ runs[u].attempt = m
                                        /\ runs[u].state \in TerminalRun
   BY DEF AttemptsOK
 <2>1. m \in 1 .. root.attempts[k]
   BY <1>5, <1>6, <1>1, RootFacts DEF Inv, n
 <2>2. root.claim.attempt # m
   BY <1>2, <2>1
 <2>. QED BY <2>1, <2>2 DEF Inv, AttemptsOK
<1>12. ResultIsLatest'
  BY <1>4 DEF Inv, ResultIsLatest
<1>13. FinalsSpent => FinalsSpent'
 <2>1. FinalsSpent => kind # "final"
   BY <1>2, InvestigationAssumption DEF FinalsSpent
 <2>. QED BY <1>4, <1>5, <1>6, <2>1 DEF FinalsSpent, Kinds
<1>14. \A i \in Locals : JobOK(i) => JobOK(i)'
  BY <1>2, <1>5, <1>9, <1>13 DEF JobOK
<1>. QED BY <1>1, <1>4, <1>5, <1>7, <1>8, <1>10, <1>11, <1>12, <1>14 DEF RootKept, n

\* The commit by its worker, answered.
LEMMA CommitAppliesOK == ASSUME Inv, NEW w \in Workers, CommitApplies(w) PROVE Inv'
<1>. DEFINE t == job[w].token
            kind == job[w].kind
            n == root.attempts[kind] + 1
            committed == [job[w] EXCEPT !.pc = "insert", !.attempt = n]
<1>1. job[w] \in Locals /\ t \in Tokens /\ kind \in Kinds
  BY JobFacts DEF CommitApplies, At, JobOK, Fenced, Locals
<1>2. /\ CanCommit(t, kind) /\ ApplyCommit(kind) /\ Set(w, committed)
      /\ UNCHANGED <<clock, check, runs, late, degraded, faults>>
  BY DEF CommitApplies
<1>3. /\ RootKept /\ root'.claim.token = t /\ root'.claim.kind = kind
      /\ root'.claim.attempt = n /\ root'.status = root.status /\ n \in 1 .. MaxAttempts
  BY <1>1, <1>2, CommitKept
<1>4. PICK j \in Locals : /\ j = committed /\ j.pc = "insert" /\ j.token = t
                          /\ j.kind = kind /\ j.attempt = n
 <2>1. n \in 0 .. MaxAttempts
   BY <1>3, InvestigationAssumption
 <2>. HIDE DEF n
 <2>2. /\ committed \in Locals /\ committed.pc = "insert" /\ committed.token = t
       /\ committed.kind = kind /\ committed.attempt = n
   BY <1>1, <2>1 DEF Locals
 <2>. QED BY <2>2
<1>5. Open(j.token, j.attempt, j.kind)'
  BY <1>2, <1>3, <1>4 DEF Open, CanCommit, Waiting
<1>6. JobOK(j)'
  BY <1>1, <1>3, <1>4, <1>5 DEF JobOK, Fenced
<1>7. lease' \in 0 .. Lease
  BY <1>2, InvestigationAssumption DEF ApplyCommit
<1>. QED BY <1>2, <1>3, <1>4, <1>6, <1>7, RootStep DEF Inv, TypeOK

\* The commit that gets no answer, applied or not.
LEMMA CommitUnansweredOK ==
    ASSUME Inv, NEW w \in Workers, CommitUnanswered(w) PROVE Inv'
<1>. DEFINE t == job[w].token
            kind == job[w].kind
            unanswered == [job[w] EXCEPT !.pc = "resolve"]
<1>1. job[w] \in Locals /\ JobOK(job[w]) /\ t \in Tokens /\ kind \in Kinds
  BY JobFacts DEF CommitUnanswered, At, JobOK, Fenced, Locals
<1>2. /\ Set(w, unanswered) /\ UNCHANGED <<clock, check, runs, degraded>>
      /\ faults' = faults + 1 /\ faults < MaxFaults
  BY DEF CommitUnanswered, Goto
<1>3. PICK j \in Locals : /\ j = unanswered /\ j.pc = "resolve" /\ j.token = t
                          /\ j.kind = kind
 <2>. /\ unanswered \in Locals /\ unanswered.pc = "resolve" /\ unanswered.token = t
      /\ unanswered.kind = kind
   BY <1>1 DEF Locals
 <2>. QED OBVIOUS
<1>4. faults' \in 0 .. MaxFaults
  BY <1>2, InvestigationAssumption DEF Inv, TypeOK
<1>5. late' \subseteq [token : Tokens, kind : Kinds]
  BY <1>1 DEF CommitUnanswered, Inv, TypeOK
<1>6. CASE CanCommit(t, kind) /\ ApplyCommit(kind)
 <2>1. RootKept /\ root'.claim.token = t /\ root'.claim.kind = kind
   BY <1>1, <1>2, <1>6, CommitKept
 <2>2. JobOK(j)'
   BY <1>1, <1>3, <2>1 DEF JobOK, Fenced
 <2>3. job' \in [Workers -> Locals] /\ JobsOK'
   BY <1>2, <1>3, <2>1, <2>2, JobsStep DEF RootKept, Inv
 <2>4. TypeOK'
   BY <1>2, <1>4, <1>5, <1>6, <2>1, <2>3, InvestigationAssumption
      DEF Inv, TypeOK, RootKept, ApplyCommit
 <2>. QED BY <2>1, <2>3, <2>4 DEF Inv, RootKept
<1>7. CASE UNCHANGED <<root, lease>>
 <2>1. JobOK(j)
   BY <1>1, <1>3 DEF JobOK, Fenced
 <2>2. job' \in [Workers -> Locals] /\ JobsOK'
   BY <1>2, <1>3, <1>7, <2>1, JobsStill DEF Inv
 <2>3. TypeOK'
   BY <1>2, <1>4, <1>5, <1>7, <2>2 DEF Inv, TypeOK
 <2>. QED BY <1>2, <1>7, <2>2, <2>3, StillOK
<1>. QED BY <1>6, <1>7 DEF CommitUnanswered

\* Nobody's step: no worker's locals change.
LEMMA JobsWait ==
    ASSUME JobsOK, job \in [Workers -> Locals], UNCHANGED job,
           \A i \in Locals : JobOK(i) => JobOK(i)'
    PROVE  JobsOK'
<1>. SUFFICES ASSUME NEW v \in Workers PROVE JobOK(job[v])'
  BY DEF JobsOK
<1>1. PICK i \in Locals : i = job[v]
  OBVIOUS
<1>2. JobOK(i)'
  BY <1>1 DEF JobsOK
<1>3. job'[v] = i
  BY <1>1
<1>. QED BY <1>2, <1>3 DEF JobOK, FinalsSpent, Open, Claimed, Waiting

\* The commit that applies after its worker stopped waiting.
LEMMA LateCommitOK == ASSUME Inv, NEW c \in late, LateCommit(c) PROVE Inv'
<1>1. c.token \in Tokens /\ c.kind \in Kinds
  BY DEF Inv, TypeOK
<1>2. /\ UNCHANGED <<clock, check, runs, degraded, job, faults>>
      /\ late' \subseteq [token : Tokens, kind : Kinds]
  BY DEF LateCommit, Inv, TypeOK
<1>3. CASE CanCommit(c.token, c.kind)
 <2>. ApplyCommit(c.kind)
   BY <1>3 DEF LateCommit
 <2>1. RootKept
   BY <1>1, <1>2, <1>3, CommitKept
 <2>1a. lease' \in 0 .. Lease
   BY InvestigationAssumption DEF ApplyCommit
 <2>2. JobsOK'
   BY <1>2, <2>1, JobsWait DEF Inv, TypeOK, RootKept
 <2>3. TypeOK'
   BY <1>2, <2>1, <2>1a DEF Inv, TypeOK, RootKept
 <2>. QED BY <2>1, <2>2, <2>3 DEF Inv, RootKept
<1>4. CASE ~CanCommit(c.token, c.kind)
 <2>1. UNCHANGED <<root, lease, runs>>
   BY <1>2, <1>4 DEF LateCommit
 <2>2. TypeOK'
   BY <1>2, <2>1 DEF Inv, TypeOK
 <2>3. \A i \in Locals : JobOK(i) => JobOK(i)'
   BY <2>1 DEF JobOK, FinalsSpent, Open, Claimed, Waiting
 <2>. QED BY <1>2, <2>1, <2>2, <2>3, JobsWait, StillOK DEF Inv, TypeOK
<1>. QED BY <1>3, <1>4

\* A worker lost, anywhere in its tick.
LEMMA CrashOK == ASSUME Inv, NEW w \in Workers, Crash(w) PROVE Inv'
<1>1. job' \in [Workers -> Locals] /\ JobsOK'
  BY JobsStill, IdleType, IdleOK DEF Crash, Stop, Inv
<1>2. TypeOK'
  BY <1>1, InvestigationAssumption DEF Inv, TypeOK, Crash, times
<1>. QED BY <1>1, <1>2, StillOK DEF Crash

\* Time, and a session degrading.
LEMMA ElapseOK == ASSUME Inv, Degrade \/ Tick PROVE Inv'
<1>1. UNCHANGED <<root, runs, late, job, faults>>
  BY DEF Degrade, Tick
<1>2. clock' \in 0 .. ClockEnd /\ lease' \in 0 .. Lease /\ check' \in 0 .. 1
 <2>1. ClockEnd \in Nat
   BY InvestigationAssumption DEF ClockEnd
 <2>. QED BY <2>1, InvestigationAssumption DEF Degrade, Tick, times, Left, Inv, TypeOK
<1>3. TypeOK'
  BY <1>1, <1>2 DEF Inv, TypeOK, Degrade, Tick
<1>4. \A i \in Locals : JobOK(i) => JobOK(i)'
  BY <1>1 DEF JobOK, FinalsSpent, Open, Claimed, Waiting
<1>. QED BY <1>1, <1>3, <1>4, JobsWait, StillOK DEF Inv, TypeOK

-----------------------------------------------------------------------------
\* A publication, by whoever gets there first.
LEMMA PublishFacts ==
    ASSUME Inv, NEW w \in Workers, At(w, "publish"),
           Holds(job[w].token, job[w].attempt)
    PROVE  LET j == job[w]
               r == runs[j.token]
           IN  /\ j.token \in Tokens /\ j.kind \in Kinds /\ r.state = j.outcome
               /\ r.kind = j.kind /\ r.attempt = j.attempt /\ j.outcome \in TerminalRun
               /\ root.claim.token = j.token /\ root.claim.attempt = j.attempt
               /\ root.claim.kind = j.kind /\ Claimed
               /\ \A t \in Tokens \ {j.token} : \A n, k : ~Open(t, n, k)
  BY JobFacts, InvestigationAssumption
     DEF At, JobOK, Fenced, Locals, Holds, Claimed, Open

\* The claim is dropped with its run's end on record.
LEMMA AttemptsKept ==
    ASSUME Inv, NEW w \in Workers, At(w, "publish"), Holds(job[w].token, job[w].attempt),
           UNCHANGED runs, root'.attempts = root.attempts
    PROVE  AttemptsOK'
<1>. SUFFICES ASSUME NEW k \in Kinds, NEW n \in 1 .. root.attempts[k]
              PROVE  \E t \in Tokens : runs[t].kind = k /\ runs[t].attempt = n
                                       /\ runs[t].state \in TerminalRun
  BY DEF AttemptsOK
<1>1. CASE root.claim.kind = k /\ root.claim.attempt = n
  BY <1>1, PublishFacts
<1>2. CASE ~(root.claim.kind = k /\ root.claim.attempt = n)
  BY <1>2 DEF Inv, AttemptsOK
<1>. QED BY <1>1, <1>2

\* A failed attempt releases the claim.
LEMMA NotPublishedKept ==
    ASSUME Inv, NEW w \in Workers, At(w, "publish"), Holds(job[w].token, job[w].attempt),
           job[w].outcome # "succeeded", NotPublished, UNCHANGED runs
    PROVE  RootKept
<1>. DEFINE t == job[w].token
<1>1. /\ t \in Tokens /\ root.claim.token = t /\ Claimed
      /\ runs[t].state \in TerminalRun \ {"succeeded"}
      /\ \A u \in Tokens \ {t} : \A n, k : ~Open(u, n, k)
  BY PublishFacts
<1>2. /\ root'.status = root.status /\ root'.claim = NoClaim
      /\ root'.attempts = root.attempts /\ root'.published = root.published
      /\ root'.result = root.result /\ root'.quoted = root.quoted
  BY DEF Inv, TypeOK, NotPublished
<1>3. root' \in Roots
  BY NoClaimType DEF Inv, TypeOK, NotPublished, Roots
<1>4. ClaimOK'
  BY <1>2, NoClaimType DEF Inv, ClaimOK, Claimed, Unclaimed, Waiting
<1>5. RunsOK'
 <2>. SUFFICES ASSUME NEW u \in Tokens PROVE RunOK(u)'
   BY DEF RunsOK
 <2>1. RunOK(u)
   BY DEF Inv, RunsOK
 <2>2. runs[u].state # "running"
   BY <1>1, <2>1 DEF RunOK, TerminalRun, Failed
 <2>3. runs[u].state = "succeeded" => root.published[runs[u].kind] = u
   BY <1>1, <2>1 DEF RunOK
 <2>. QED BY <1>2, <2>1, <2>2, <2>3, NoClaimType, InvestigationAssumption DEF RunOK
<1>6. AttemptsOK'
  BY <1>2, AttemptsKept
<1>7. ResultIsLatest'
  BY <1>2 DEF Inv, ResultIsLatest
<1>8. ASSUME NEW i \in Locals, JobOK(i) PROVE JobOK(i)'
 <2>1. i.pc = "insert" => runs[i.token].state # "none"
   BY <1>1, <1>8 DEF JobOK, Fenced, TerminalRun, Failed
 <2>2. FinalsSpent => FinalsSpent'
   BY <1>2, NoClaimType DEF FinalsSpent, Claimed
 <2>. QED BY <1>2, <1>8, <2>1, <2>2, NoClaimType, InvestigationAssumption
          DEF JobOK, Fenced
<1>. QED BY <1>3, <1>4, <1>5, <1>6, <1>7, <1>8 DEF RootKept

\* A success is published: no other is in flight, and nothing is overwritten.
LEMMA PublishedKept ==
    ASSUME Inv, NEW w \in Workers, At(w, "publish"), Holds(job[w].token, job[w].attempt),
           Waiting, job[w].outcome = "succeeded", Published(job[w]), UNCHANGED runs
    PROVE  RootKept
<1>. DEFINE t == job[w].token
            kind == job[w].kind
<1>1. /\ t \in Tokens /\ kind \in Kinds /\ root.claim.token = t
      /\ root.claim.kind = kind /\ Claimed
      /\ runs[t].state = "succeeded" /\ runs[t].kind = kind
      /\ \A u \in Tokens \ {t} : \A n, k : ~Open(u, n, k)
  BY PublishFacts
<1>2. /\ root'.status = IF kind = "final" THEN "done" ELSE root.status
      /\ root'.claim = NoClaim /\ root'.attempts = root.attempts
      /\ root'.published = [root.published EXCEPT ![kind] = t]
      /\ root'.result = t /\ root'.quoted = root.quoted
  BY DEF Inv, TypeOK, Published
<1>3. root' \in Roots
  BY <1>1, NoClaimType DEF Inv, TypeOK, Published, Roots
<1>4. /\ root'.published[kind] = t
      /\ \A k \in Kinds \ {kind} : root'.published[k] = root.published[k]
  BY <1>1, <1>2 DEF Inv, TypeOK, Roots
<1>5. root.published["final"] = NoToken /\ root.published[kind] = NoToken
  BY <1>1 DEF Inv, ClaimOK, Kinds
<1>6. ClaimOK'
  BY <1>1, <1>2, <1>4, <1>5, NoClaimType, InvestigationAssumption
     DEF ClaimOK, Claimed, Unclaimed, Waiting, Kinds
<1>7. RunsOK'
 <2>. SUFFICES ASSUME NEW u \in Tokens PROVE RunOK(u)'
   BY DEF RunsOK
 <2>1. RunOK(u) /\ runs[u].kind \in Kinds
   BY DEF Inv, RunsOK, TypeOK, Runs
 <2>2. runs[u].state # "running"
   BY <1>1, <2>1 DEF RunOK
 <2>3. runs[u].state = "succeeded" => root'.published[runs[u].kind] = u
   BY <1>1, <1>4, <1>5, <2>1, InvestigationAssumption DEF RunOK
 <2>. QED BY <1>2, <2>1, <2>2, <2>3, NoClaimType, InvestigationAssumption DEF RunOK
<1>8. AttemptsOK'
  BY <1>2, AttemptsKept
<1>9. ResultIsLatest'
  BY <1>1, <1>2, <1>4, <1>5, InvestigationAssumption DEF Inv, ResultIsLatest, Kinds
<1>10. ASSUME NEW i \in Locals, JobOK(i) PROVE JobOK(i)'
 <2>1. i.pc = "insert" => runs[i.token].state # "none"
   BY <1>1, <1>10 DEF JobOK, Fenced
 <2>2. FinalsSpent => FinalsSpent'
   BY <1>1, <1>2, <1>4, NoClaimType DEF FinalsSpent, Claimed, Kinds
 <2>. QED BY <1>2, <1>10, <2>1, <2>2, NoClaimType, InvestigationAssumption
          DEF JobOK, Fenced
<1>. QED BY <1>3, <1>6, <1>7, <1>8, <1>9, <1>10 DEF RootKept

\* Whoever loses the fence writes nothing.
LEMMA PublishOK == ASSUME Inv, NEW w \in Workers, Publish(w) PROVE Inv'
<1>. DEFINE matches == /\ Waiting /\ Holds(job[w].token, job[w].attempt)
                       /\ job[w].outcome = "succeeded" => root.claim.kind = job[w].kind
<1>1. At(w, "publish") /\ Stop(w) /\ UNCHANGED <<clock, runs, late, degraded, faults>>
  BY DEF Publish
<1>2. CASE matches /\ job[w].outcome = "succeeded" /\ Published(job[w])
 <2>1. RootKept
   BY <1>1, <1>2, PublishedKept
 <2>2. lease' \in 0 .. Lease /\ check' \in 0 .. 1
   BY <1>2, InvestigationAssumption DEF Published, Inv, TypeOK
 <2>. QED BY <1>1, <2>1, <2>2, RootStep, IdleType, IdleFits DEF Stop
<1>3. CASE matches /\ job[w].outcome # "succeeded" /\ NotPublished
 <2>1. RootKept
   BY <1>1, <1>3, NotPublishedKept
 <2>2. lease' \in 0 .. Lease /\ check' \in 0 .. 1
   BY <1>3, InvestigationAssumption DEF NotPublished
 <2>. QED BY <1>1, <2>1, <2>2, RootStep, IdleType, IdleFits DEF Stop
<1>4. CASE UNCHANGED <<root, lease, check>>
  BY <1>1, <1>4, StopStep DEF times
<1>. QED BY <1>2, <1>3, <1>4 DEF Publish

\* The root ends for want of attempts.
LEMMA ExhaustOK == ASSUME Inv, NEW w \in Workers, Exhaust(w) PROVE Inv'
<1>. DEFINE ends == /\ Waiting /\ Unclaimed /\ root.attempts["final"] = MaxAttempts
                    /\ root.published["final"] = NoToken /\ Due
<1>1. Stop(w) /\ UNCHANGED <<times, runs, late, degraded, faults>>
  BY DEF Exhaust
<1>2. CASE ~ends
  BY <1>1, <1>2, StopStep DEF Exhaust
<1>3. CASE ends
 <2>1. job[w].attempt = MaxAttempts
   BY JobFacts DEF Exhaust, At, JobOK
 <2>2. root' = [root EXCEPT !.status = "done", !.quoted = MaxAttempts]
   BY <1>3, <2>1 DEF Exhaust
 <2>3. /\ root'.status = "done" /\ root'.quoted = MaxAttempts /\ root'.claim = root.claim
       /\ root'.attempts = root.attempts /\ root'.published = root.published
       /\ root'.result = root.result
   BY <2>2 DEF Inv, TypeOK
 <2>4. root' \in Roots
  <3>1. MaxAttempts \in 0 .. MaxAttempts
    BY InvestigationAssumption
  <3>. QED BY <2>2, <3>1 DEF Inv, TypeOK, Roots
 <2>5. root.claim = NoClaim /\ ~Claimed
   BY <1>3, NoClaimType DEF Unclaimed, Claimed
 <2>6. ClaimOK'
   BY <1>3, <2>3, <2>5 DEF Inv, ClaimOK, Claimed, Unclaimed, Waiting
 <2>7. \A t \in Tokens : \A n, k : ~Open(t, n, k)
   BY <2>5, InvestigationAssumption DEF Open, Claimed
 <2>8. RunsOK'
   BY <1>1, <2>3, <2>7 DEF Inv, RunsOK, RunOK
 <2>9. AttemptsOK' /\ ResultIsLatest'
   BY <1>1, <2>3 DEF Inv, AttemptsOK, ResultIsLatest
 <2>10. \A i \in Locals : JobOK(i) => JobOK(i)'
   BY <1>1, <2>3, <2>7 DEF JobOK, Fenced, FinalsSpent, Claimed
 <2>11. RootKept
   BY <2>4, <2>6, <2>8, <2>9, <2>10 DEF RootKept
 <2>. QED BY <1>1, <2>11, RootStep, IdleType, IdleFits DEF Stop, times, Inv, TypeOK
<1>. QED BY <1>2, <1>3

-----------------------------------------------------------------------------
\* A worker's step that changes one run that has not ended, and no other document.
LEMMA RunStep ==
    ASSUME Inv, UNCHANGED <<root, times, late, degraded, faults>>,
           NEW t \in Tokens, runs[t].state \notin TerminalRun,
           NEW r \in Runs, runs' = [runs EXCEPT ![t] = r],
           r.state # "none", RunOK(t)',
           runs[t].state = "running" => r.state # "running",
           NEW w \in Workers, NEW j \in Locals, Set(w, j), JobOK(j)'
    PROVE  Inv'
<1>1. /\ runs' \in [Tokens -> Runs] /\ runs'[t] = r
      /\ \A u \in Tokens \ {t} : runs'[u] = runs[u]
  BY DEF Inv, TypeOK
<1>2. RunsOK'
 <2>. SUFFICES ASSUME NEW u \in Tokens PROVE RunOK(u)'
   BY DEF RunsOK
 <2>1. CASE u = t
   BY <2>1
 <2>2. CASE u # t
   BY <1>1, <2>2 DEF Inv, RunsOK, RunOK, Open, Waiting
 <2>. QED BY <2>1, <2>2
<1>3. AttemptsOK'
 <2>. SUFFICES ASSUME NEW k \in Kinds, NEW n \in 1 .. root.attempts[k],
                      ~(root.claim.kind = k /\ root.claim.attempt = n)
               PROVE  \E u \in Tokens : runs'[u].kind = k /\ runs'[u].attempt = n
                                        /\ runs'[u].state \in TerminalRun
   BY DEF AttemptsOK
 <2>1. PICK u \in Tokens : /\ runs[u].kind = k /\ runs[u].attempt = n
                           /\ runs[u].state \in TerminalRun
   BY DEF Inv, AttemptsOK
 <2>. QED BY <1>1, <2>1
<1>4. ResultIsLatest'
 <2>1. \A k \in Kinds : root.published[k] # NoToken =>
          /\ root.published[k] \in Tokens \ {t}
          /\ runs[root.published[k]].state = "succeeded"
          /\ runs[root.published[k]].kind = k
   BY RootFacts DEF Inv, ResultIsLatest, TerminalRun
 <2>. QED BY <1>1, <2>1 DEF Inv, ResultIsLatest
<1>5. \A i \in Locals : JobOK(i) => JobOK(i)'
 <2>. SUFFICES ASSUME NEW i \in Locals, JobOK(i) PROVE JobOK(i)'
   OBVIOUS
 <2>1. runs[t].state \in {"none", "running"}
   BY DEF Inv, TypeOK, Runs, TerminalRun
 <2>2. UNCHANGED FinalsSpent /\ \A u, n, k : Open(u, n, k)' = Open(u, n, k)
   BY DEF FinalsSpent, Open, Claimed, Waiting
 <2>3. CASE i.token # t
   BY <1>1, <2>2, <2>3 DEF JobOK, Fenced
 <2>4. CASE i.token = t
   BY <1>1, <2>1, <2>2, <2>4 DEF JobOK, Fenced, TerminalRun, Failed
 <2>. QED BY <2>3, <2>4
<1>6. job' \in [Workers -> Locals] /\ JobsOK'
  BY <1>5, JobsStep DEF Inv
<1>7. TypeOK'
  BY <1>1, <1>6 DEF Inv, TypeOK, times
<1>8. ClaimOK'
  BY DEF Inv, ClaimOK, Claimed, Unclaimed, Waiting
<1>. QED BY <1>2, <1>3, <1>4, <1>6, <1>7, <1>8 DEF Inv

\* A committed worker begins its run.
LEMMA InsertRunOK == ASSUME Inv, NEW w \in Workers, InsertRun(w) PROVE Inv'
<1>. DEFINE t == job[w].token
<1>1. /\ job[w] \in Locals /\ JobOK(job[w]) /\ job[w].pc = "insert" /\ t \in Tokens
      /\ job[w].attempt # 0
  BY JobFacts DEF InsertRun, At, JobOK, Fenced
<1>2. CASE runs[t] = NoRun
 <2>1. PICK r \in Runs : r = RunOf(w, "running")
   BY <1>1 DEF RunOf, Locals, Runs
 <2>2. r.state = "running" /\ r.kind = job[w].kind /\ r.attempt = job[w].attempt
   BY <2>1 DEF RunOf
 <2>3. PICK j \in Locals : /\ j = [job[w] EXCEPT !.pc = "finalize"]
                           /\ j.pc = "finalize" /\ j.token = t
                           /\ j.kind = job[w].kind /\ j.attempt = job[w].attempt
  <3>. DEFINE j == [job[w] EXCEPT !.pc = "finalize"]
  <3>. /\ j \in Locals /\ j.pc = "finalize" /\ j.token = t
       /\ j.kind = job[w].kind /\ j.attempt = job[w].attempt
    BY <1>1 DEF Locals
  <3>. QED OBVIOUS
 <2>4. /\ runs' = [runs EXCEPT ![t] = r] /\ Set(w, j)
       /\ UNCHANGED <<root, times, late, degraded, faults>>
   BY <1>2, <2>1, <2>3 DEF InsertRun, Goto
 <2>5. runs'[t] = r
   BY <1>1, <2>4 DEF Inv, TypeOK
 <2>6. Open(t, r.attempt, r.kind) /\ root.claim.kind = r.kind
   BY <1>1, <1>2, <2>2 DEF JobOK, NoRun, Open
 <2>7. ASSUME NEW u \in Tokens, u = t PROVE RunOK(u)'
   BY <1>1, <2>2, <2>4, <2>5, <2>6, <2>7 DEF RunOK, Open, Waiting
 <2>8. JobOK(j)'
   BY <1>1, <2>2, <2>3, <2>4, <2>5, <2>6 DEF JobOK, Fenced
 <2>9. PICK u \in Tokens : u = t
   BY <1>1
 <2>10. runs[u].state = "none" /\ runs[u].state \notin TerminalRun
   BY <1>2, <2>9 DEF NoRun, TerminalRun, Failed
 <2>. QED BY <2>2, <2>4, <2>7, <2>8, <2>9, <2>10, RunStep
<1>3. CASE runs[t] # NoRun
  BY <1>3, StopStep DEF InsertRun
<1>. QED BY <1>2, <1>3

\* A worker ends its run.
LEMMA FinalizeOK == ASSUME Inv, NEW w \in Workers, Finalize(w) PROVE Inv'
<1>1. /\ job[w] \in Locals /\ JobOK(job[w]) /\ job[w].pc = "finalize"
      /\ job[w].token \in Tokens
  BY JobFacts DEF Finalize, At, JobOK, Fenced
<1>. PICK t \in Tokens : t = job[w].token
  BY <1>1
<1>2. CASE runs[t].state = "running"
 <2>1. PICK state \in {"succeeded", "failed"} :
          /\ runs' = [runs EXCEPT ![t].state = state]
          /\ Set(w, [job[w] EXCEPT !.pc = "publish", !.outcome = state])
   BY <1>2 DEF Finalize
 <2>2. PICK r \in Runs : /\ r = [runs[t] EXCEPT !.state = state] /\ r.state = state
                         /\ r.kind = runs[t].kind /\ r.attempt = runs[t].attempt
  <3>. DEFINE r == [runs[t] EXCEPT !.state = state]
  <3>. /\ r \in Runs /\ r.state = state
       /\ r.kind = runs[t].kind /\ r.attempt = runs[t].attempt
    BY DEF Inv, TypeOK, Runs, TerminalRun, Failed
  <3>. QED OBVIOUS
 <2>3. PICK j \in Locals : /\ j = [job[w] EXCEPT !.pc = "publish", !.outcome = state]
                           /\ j.pc = "publish" /\ j.token = t /\ j.outcome = state
                           /\ j.kind = job[w].kind /\ j.attempt = job[w].attempt
  <3>. DEFINE j == [job[w] EXCEPT !.pc = "publish", !.outcome = state]
  <3>. /\ j \in Locals /\ j.pc = "publish" /\ j.token = t /\ j.outcome = state
       /\ j.kind = job[w].kind /\ j.attempt = job[w].attempt
    BY <1>1 DEF Locals, TerminalRun, Failed
  <3>. QED OBVIOUS
 <2>4. /\ runs' = [runs EXCEPT ![t] = r] /\ Set(w, j)
       /\ UNCHANGED <<root, times, late, degraded, faults>>
   BY <2>1, <2>2, <2>3 DEF Finalize
 <2>5. runs'[t] = r
   BY <2>4 DEF Inv, TypeOK
 <2>6. RunOK(t) /\ Open(t, runs[t].attempt, runs[t].kind)
   BY <1>2 DEF Inv, RunsOK, RunOK
 <2>7. RunOK(t)'
   BY <2>2, <2>4, <2>5, <2>6 DEF RunOK, Open, Waiting
 <2>8. JobOK(j)'
  <3>1. /\ r.kind = job[w].kind /\ r.attempt = job[w].attempt
        /\ root.claim.token = t => root.claim.kind = job[w].kind
    BY <1>1, <1>2, <2>2 DEF JobOK
  <3>2. state \in TerminalRun
    BY DEF TerminalRun, Failed
  <3>3. root'.claim = root.claim
    BY <2>4
  <3>. QED BY <2>2, <2>3, <2>5, <3>1, <3>2, <3>3 DEF JobOK
 <2>9. runs[t].state \notin TerminalRun /\ r.state # "none" /\ r.state # "running"
   BY <1>2, <2>2 DEF TerminalRun, Failed
 <2>. QED BY <2>2, <2>4, <2>7, <2>8, <2>9, RunStep
<1>3. CASE runs[t].state # "running"
  BY <1>3, StopStep DEF Finalize
<1>. QED BY <1>2, <1>3

\* A recovering tick ends the run it read, or finds it ended meanwhile.
LEMMA AbandonOK == ASSUME Inv, NEW w \in Workers, Abandon(w) PROVE Inv'
<1>. DEFINE again == [job[w] EXCEPT !.pc = "read", !.passes = @ + 1, !.outcome = "none"]
<1>1. /\ job[w] \in Locals /\ JobOK(job[w]) /\ job[w].pc = "abandon"
      /\ job[w].token \in Tokens /\ job[w].attempt # 0 /\ job[w].passes \in {0, 1}
      /\ job[w].outcome \in {"none", "running"}
  BY JobFacts DEF Abandon, At, JobOK, Fenced, Locals, Passes
<1>. PICK t \in Tokens : t = job[w].token
  BY <1>1
<1>2. PICK j \in Locals : /\ j = again /\ j.pc = "read" /\ j.token = t
                          /\ j.kind = job[w].kind /\ j.attempt = job[w].attempt
                          /\ j.passes = job[w].passes + 1
 <2>1. job[w].passes + 1 \in 0 .. Passes
   BY <1>1 DEF Passes
 <2>2. /\ again \in Locals /\ again.pc = "read" /\ again.token = t
       /\ again.kind = job[w].kind /\ again.attempt = job[w].attempt
       /\ again.passes = job[w].passes + 1
   BY <1>1, <2>1 DEF Locals
 <2>. QED BY <2>2
<1>3. Set(w, j) /\ UNCHANGED <<root, times, late, degraded, faults>>
  BY <1>2 DEF Abandon
<1>4. /\ job[w].outcome = "running" => runs[t].state # "none"
      /\ job[w].passes = 1 => job[w].outcome = "running"
      /\ root.claim.token = t => root.claim.kind = job[w].kind
  BY <1>1 DEF JobOK
<1>5. j.passes = 2 => job[w].passes = 1
  BY <1>1, <1>2
<1>6. CASE runs[t].state = job[w].outcome
 <2>1. PICK r \in Runs : r = RunOf(w, "abandoned")
   BY <1>1 DEF RunOf, Locals, Runs, TerminalRun, Failed
 <2>2. r.state = "abandoned" /\ r.kind = job[w].kind /\ r.attempt = job[w].attempt
   BY <2>1 DEF RunOf
 <2>3. runs' = [runs EXCEPT ![t] = r]
   BY <1>6, <2>1 DEF Abandon
 <2>4. runs'[t] = r
   BY <2>3 DEF Inv, TypeOK
 <2>5. RunOK(t)'
   BY <1>1, <1>3, <1>4, <2>2, <2>4 DEF RunOK
 <2>6. JobOK(j)'
   BY <1>1, <1>2, <1>3, <1>4, <2>2, <2>4 DEF JobOK, Fenced, TerminalRun, Failed
 <2>7. runs[t].state \notin TerminalRun /\ r.state # "none" /\ r.state # "running"
   BY <1>1, <1>6, <2>2 DEF TerminalRun, Failed
 <2>. QED BY <1>3, <2>3, <2>5, <2>6, <2>7, RunStep
<1>7. CASE runs[t].state # job[w].outcome
 <2>1. UNCHANGED runs
   BY <1>7 DEF Abandon
 <2>2. runs[t].state \in TerminalRun \union {"none", "running"}
   BY DEF Inv, TypeOK, Runs
 <2>3. runs[t].state # "none" /\ (j.passes = 2 => runs[t].state \in TerminalRun)
   BY <1>1, <1>4, <1>5, <1>7, <2>2
 <2>4. JobOK(j)
   BY <1>1, <1>2, <1>4, <2>3 DEF JobOK, Fenced
 <2>. QED BY <1>3, <2>1, <2>4, LocalStep
<1>. QED BY <1>6, <1>7

-----------------------------------------------------------------------------
\* The invariant holds of a root that was just ensured,
LEMMA InitOK == Init => Inv
<1>. SUFFICES ASSUME Init PROVE Inv
  OBVIOUS
<1>1. /\ root.status = "waiting" /\ root.claim = NoClaim
      /\ root.attempts = [k \in Kinds |-> 0]
      /\ root.published = [k \in Kinds |-> NoToken]
      /\ root.result = NoToken /\ root.quoted = 0
      /\ \A t \in Tokens : runs[t] = NoRun
      /\ \A w \in Workers : job[w] = Idle
  BY DEF Init
<1>2. TypeOK
 <2>1. NoRun \in Runs
   BY InvestigationAssumption DEF NoRun, Runs, Kinds
 <2>2. 0 .. FinalForced \subseteq 0 .. ClockEnd
   BY InvestigationAssumption DEF ClockEnd
 <2>3. root \in Roots
   BY NoClaimType, InvestigationAssumption DEF Init, Roots
 <2>. QED BY <2>1, <2>2, <2>3, IdleType, InvestigationAssumption DEF TypeOK, Init
<1>3. ClaimOK
  BY <1>1, NoClaimType DEF ClaimOK, Claimed, Unclaimed, Waiting, Kinds
<1>4. RunsOK
  BY <1>1 DEF RunsOK, RunOK, NoRun
<1>5. AttemptsOK
  BY <1>1 DEF AttemptsOK
<1>6. JobsOK
  BY <1>1, IdleOK DEF JobsOK
<1>7. ResultIsLatest
  BY <1>1 DEF ResultIsLatest, Kinds
<1>. QED BY <1>2, <1>3, <1>4, <1>5, <1>6, <1>7 DEF Inv

\* is kept by every step,
LEMMA NextOK == Inv /\ [Next]_vars => Inv'
<1>. SUFFICES ASSUME Inv, [Next]_vars PROVE Inv'
  OBVIOUS
<1>1. ASSUME NEW w \in Workers, Poll(w) \/ Evaluate(w) \/ NothingDue(w) PROVE Inv'
  BY <1>1, PollOK, EvaluateOK, NothingDueOK
<1>2. ASSUME NEW w \in Workers, Attempt(w) PROVE Inv'
  BY <1>2, TakeLeaseOK, RevalidateOK, ReleaseOK, CommitAppliesOK, CommitMatchesNothingOK,
     ResolveOK, InsertRunOK, FinalizeOK, PublishOK DEF Attempt
<1>3. ASSUME NEW w \in Workers, Recover(w) PROVE Inv'
  BY <1>3, ClearUncommittedOK, FindExpiredOK, ReadRunOK, AbandonOK DEF Recover
<1>4. ASSUME NEW w \in Workers, ReadReason(w) \/ Exhaust(w) PROVE Inv'
  BY <1>4, ReadReasonOK, ExhaustOK
<1>5. ASSUME NEW w \in Workers, CommitUnanswered(w) \/ Crash(w) PROVE Inv'
  BY <1>5, CommitUnansweredOK, CrashOK
<1>6. ASSUME NEW c \in late, LateCommit(c) PROVE Inv'
  BY <1>6, LateCommitOK
<1>7. CASE Degrade \/ Tick
  BY <1>7, ElapseOK
<1>8. CASE UNCHANGED vars
 <2>1. TypeOK'
   BY <1>8 DEF vars, times, Inv, TypeOK
 <2>2. \A i \in Locals : JobOK(i) => JobOK(i)'
   BY <1>8 DEF vars, JobOK, FinalsSpent, Open, Claimed, Waiting
 <2>. QED BY <1>8, <2>1, <2>2, JobsWait, StillOK DEF vars, Inv, TypeOK
<1>. QED BY <1>1, <1>2, <1>3, <1>4, <1>5, <1>6, <1>7, <1>8 DEF Next, WorkerStep

\* and so always holds.
LEMMA Invariant == Spec => []Inv
  BY InitOK, NextOK, PTL DEF Spec

-----------------------------------------------------------------------------
\* Every root, claim, run, late commit and worker's locals has its type: no
\* attempt goes beyond MAX_ATTEMPTS_PER_KIND (tick, commit_attempt).
THEOREM TypeCorrect == Spec => []TypeOK
<1>1. Inv => TypeOK
  BY DEF Inv
<1>. QED BY <1>1, Invariant, PTL

\* A run that succeeded is the one the root points at, or its claim is still
\* there for a tick to publish (publish, recover_one).
THEOREM SuccessIsNotLost == Spec => []SucceededIsPublished
<1>1. Inv => SucceededIsPublished
  BY DEF Inv, RunsOK, RunOK, Open, Holds, SucceededIsPublished
<1>. QED BY <1>1, Invariant, PTL

\* What the root publishes is the latest run that succeeded (consistent_lifecycle).
THEOREM ResultPublished == Spec => []ResultIsLatest
<1>1. Inv => ResultIsLatest
  BY DEF Inv
<1>. QED BY <1>1, Invariant, PTL

\* A root is exhausted only after every final attempt has failed, and quotes the
\* last one's reason (exhaust_final_attempts).
THEOREM ExhaustionIsEarned == Spec => []ExhaustedAfterLast
<1>1. Inv => ExhaustedAfterLast
 <2>. SUFFICES ASSUME Inv, root.status = "done", root.published["final"] = NoToken
               PROVE  FailedFinals = 1 .. MaxAttempts /\ root.quoted = MaxAttempts
   BY DEF ExhaustedAfterLast
 <2>1. ~Waiting /\ ~Claimed /\ Unclaimed
   BY DEF Inv, ClaimOK, Waiting
 <2>2. root.attempts["final"] = MaxAttempts /\ root.quoted = MaxAttempts
   BY <2>1 DEF Inv, ClaimOK
 <2>3. ASSUME NEW n \in 1 .. MaxAttempts PROVE n \in FailedFinals
  <3>1. root.claim.attempt # n
    BY <2>1, NoClaimType DEF Unclaimed
  <3>2. PICK t \in Tokens : /\ runs[t].kind = "final" /\ runs[t].attempt = n
                            /\ runs[t].state \in TerminalRun
    BY <2>2, <3>1 DEF Inv, AttemptsOK, Kinds
  <3>3. runs[t].state # "succeeded"
    BY <2>1, <3>2, InvestigationAssumption DEF Inv, RunsOK, RunOK, Open
  <3>. QED BY <3>2, <3>3 DEF FailedFinals, TerminalRun
 <2>4. ASSUME NEW n \in FailedFinals PROVE n \in 1 .. MaxAttempts
  <3>1. PICK t \in Tokens : runs[t].attempt = n /\ runs[t].state \in Failed
    BY DEF FailedFinals
  <3>2. n # 0 /\ n \in 0 .. MaxAttempts
    BY <3>1 DEF Inv, RunsOK, RunOK, TypeOK, Runs, Failed
  <3>. QED BY <3>2, InvestigationAssumption
 <2>. QED BY <2>2, <2>3, <2>4
<1>. QED BY <1>1, Invariant, PTL

\* A run that has ended never changes again, whoever still works on it
\* (finalize_run, abandon_running_run, insert_abandoned_run).
THEOREM TerminalRunsAreFinal == Spec => TerminalRunsStay
<1>. DEFINE Stay == \A t \in Tokens : runs[t].state \in TerminalRun => runs'[t] = runs[t]
<1>1. Inv /\ [Next]_vars => [Stay]_vars
 <2>. SUFFICES ASSUME Inv, [Next]_vars PROVE Stay \/ UNCHANGED vars
   OBVIOUS
 <2>1. CASE UNCHANGED runs
   BY <2>1
 <2>2. ASSUME NEW w \in Workers, InsertRun(w) \/ Finalize(w) \/ Abandon(w) PROVE Stay
  <3>1. job[w].token \in Tokens /\ JobOK(job[w])
    BY <2>2, JobFacts DEF InsertRun, Finalize, Abandon, At, JobOK, Fenced
  <3>2. NoRun.state \notin TerminalRun /\ "running" \notin TerminalRun
        /\ "none" \notin TerminalRun
    BY DEF NoRun, TerminalRun, Failed
  <3>3. CASE InsertRun(w)
    BY <3>1, <3>2, <3>3 DEF InsertRun, Inv, TypeOK
  <3>4. CASE Finalize(w)
    BY <3>1, <3>2, <3>4 DEF Finalize, Inv, TypeOK
  <3>5. CASE Abandon(w)
   <4>1. job[w].outcome \in {"none", "running"}
     BY <3>1, <3>5 DEF Abandon, At, JobOK
   <4>. QED BY <3>1, <3>2, <3>5, <4>1 DEF Abandon, Inv, TypeOK
  <3>. QED BY <2>2, <3>3, <3>4, <3>5
 <2>. QED BY <2>1, <2>2 DEF Next, WorkerStep, Attempt, Recover, Poll, Evaluate, NothingDue,
             TakeLease, Revalidate, Release, CommitApplies, CommitMatchesNothing, Resolve,
             Publish, ClearUncommitted, FindExpired, ReadRun, ReadReason, Exhaust, Local,
             CommitUnanswered, Crash, LateCommit, Degrade, Tick
<1>. QED BY <1>1, Invariant, PTL DEF Spec, TerminalRunsStay

-----------------------------------------------------------------------------
\* The investigation implements InvestigationRecord.  Every step does one of
\* five things to the root and its runs, and the numbers of the attempts say
\* which attempt of the record that is.

\* Attempts are numbered in the order they are committed, and each is the run of
\* one token: the claim's, while the attempt holds it.
NumbersOK ==
    /\ root.claim.attempt # 0 => root.claim.attempt = root.attempts[root.claim.kind]
    /\ \A t \in Tokens : runs[t].state # "none" =>
          /\ runs[t].attempt <= root.attempts[runs[t].kind]
          /\ root.claim.attempt = runs[t].attempt /\ root.claim.kind = runs[t].kind =>
                root.claim.token = t
          /\ \A u \in Tokens : runs[u].state # "none" /\ runs[u].kind = runs[t].kind
                               /\ runs[u].attempt = runs[t].attempt => u = t

\* A tick that recovers an attempt finds it open until its run has ended.
Reading(j) ==
    j.pc \in {"read", "abandon"} /\ runs[j.token].state \in {"none", "running"} =>
        Open(j.token, j.attempt, j.kind)
ReadersOK == \A w \in Workers : Reading(job[w])

RecordInv == Inv /\ NumbersOK /\ ReadersOK

\* What a step may do to the root and the runs: nothing a reader sees, ...
Quiet ==
    /\ UNCHANGED <<root.attempts, root.published, root.status, runs>>
    /\ \/ UNCHANGED root.claim
       \/ /\ root'.claim.attempt = 0
          /\ \/ root.claim.attempt = 0
             \/ root.claim.token \in Tokens /\ runs[root.claim.token].state \in TerminalRun
\* ... commit the next attempt of a kind, ...
Commits(t, k) ==
    /\ CanCommit(t, k) /\ UNCHANGED runs
    /\ root' = [root EXCEPT !.attempts[k] = @ + 1, !.claim.attempt = root.attempts[k] + 1]
\* ... write the run of the open attempt, ...
WritesRun(t, r) ==
    /\ Open(t, r.attempt, r.kind) /\ UNCHANGED root
    /\ r.state # "none" /\ runs' = [runs EXCEPT ![t] = r]
    /\ \/ runs[t].state = "none"
       \/ runs[t].state = "running" /\ r.state # "running"
\* ... publish it, ...
Publishes(t, k) ==
    /\ Open(t, root.claim.attempt, k) /\ UNCHANGED runs
    /\ runs[t].state = "succeeded" /\ runs[t].kind = k
    /\ runs[t].attempt = root.claim.attempt
    /\ root' = [root EXCEPT !.claim = NoClaim, !.published[k] = t, !.result = t,
                            !.status = IF k = "final" THEN "done" ELSE @]
\* ... or close a root whose finals are spent.
Exhausts ==
    /\ Waiting /\ Unclaimed /\ UNCHANGED runs
    /\ root.attempts["final"] = MaxAttempts /\ root.published["final"] = NoToken
    /\ \E n : root' = [root EXCEPT !.status = "done", !.quoted = n]

Change ==
    \/ Quiet
    \/ \E t \in Tokens, k \in Kinds : Commits(t, k) \/ Publishes(t, k)
    \/ \E t \in Tokens, r \in Runs : WritesRun(t, r)
    \/ Exhausts

\* A step that writes neither root nor run.
LEMMA WaitIsQuiet == UNCHANGED <<root, runs>> => Quiet
  BY DEF Quiet

\* A commit that applies, answered or not, early or late.
LEMMA CommitChange ==
    ASSUME Inv, NEW t \in Tokens, NEW k \in Kinds, CanCommit(t, k), ApplyCommit(k),
           UNCHANGED runs
    PROVE  Change
  BY DEF Change, Commits, ApplyCommit

\* A lease taken, given up or cleared.
LEMMA ClaimChange ==
    ASSUME Inv, NEW w \in Workers, TakeLease(w) \/ Release(w) \/ ClearUncommitted(w)
    PROVE  Quiet
<1>1. UNCHANGED runs
  BY DEF TakeLease, Release, ClearUncommitted
<1>2. CASE UNCHANGED root
  BY <1>1, <1>2 DEF Quiet
<1>3. CASE root' = [root EXCEPT !.claim = NoClaim] /\ root.claim.attempt = 0
  BY <1>1, <1>3, NoClaimType DEF Quiet, Inv, TypeOK, Roots
<1>4. ASSUME Unclaimed,
             NEW t, root' = [root EXCEPT !.claim = [token |-> t, kind |-> job[w].kind,
                                                   attempt |-> 0]]
      PROVE  Quiet
  BY <1>1, <1>4, NoClaimType DEF Quiet, Unclaimed, Inv, TypeOK, Roots
<1>5. CASE TakeLease(w)
  BY <1>2, <1>4, <1>5 DEF TakeLease, CanLease
<1>6. CASE Release(w) \/ ClearUncommitted(w)
  BY <1>2, <1>3, <1>6 DEF Release, ClearUncommitted, Holds
<1>. QED BY <1>5, <1>6

\* A run inserted, finalized or abandoned: the attempt is still open.
LEMMA RunChange ==
    ASSUME RecordInv, NEW w \in Workers, InsertRun(w) \/ Finalize(w) \/ Abandon(w)
    PROVE  Change
<1>1. /\ job[w] \in Locals /\ JobOK(job[w]) /\ Reading(job[w])
      /\ job[w].token \in Tokens
      /\ UNCHANGED root /\ runs \in [Tokens -> Runs]
  BY JobFacts DEF RecordInv, ReadersOK, InsertRun, Finalize, Abandon, At, JobOK, Fenced,
                  Inv, TypeOK
<1>. PICK t \in Tokens : t = job[w].token
  BY <1>1
<1>2. RunOK(t)
  BY DEF RecordInv, Inv, RunsOK
<1>3. CASE UNCHANGED runs
  BY <1>1, <1>3, WaitIsQuiet DEF Change
<1>4. ASSUME NEW state \in {"running", "abandoned"},
             runs' = [runs EXCEPT ![t] = RunOf(w, state)],
             Open(t, job[w].attempt, job[w].kind),
             runs[t].state = "none" \/ (runs[t].state = "running" /\ state = "abandoned")
      PROVE  Change
 <2>1. PICK r \in Runs : /\ r = RunOf(w, state) /\ r.state = state
                         /\ r.kind = job[w].kind /\ r.attempt = job[w].attempt
  <3>1. RunOf(w, state) \in Runs
    BY <1>1, <1>4 DEF RunOf, Locals, Runs, TerminalRun, Failed
  <3>. QED BY <3>1 DEF RunOf
 <2>2. WritesRun(t, r)
   BY <1>1, <1>4, <2>1 DEF WritesRun
 <2>. QED BY <2>2 DEF Change
<1>5. CASE InsertRun(w)
 <2>1. CASE runs[t] = NoRun
   BY <1>1, <1>4, <1>5, <2>1 DEF InsertRun, At, JobOK, NoRun
 <2>. QED BY <1>3, <1>5, <2>1 DEF InsertRun
<1>6. CASE Finalize(w)
 <2>1. CASE runs[t].state = "running"
  <3>1. PICK state \in {"succeeded", "failed"} : runs' = [runs EXCEPT ![t].state = state]
    BY <1>6, <2>1 DEF Finalize
  <3>2. PICK r \in Runs : /\ r = [runs[t] EXCEPT !.state = state] /\ r.state = state
                          /\ r.kind = runs[t].kind /\ r.attempt = runs[t].attempt
   <4>. DEFINE r == [runs[t] EXCEPT !.state = state]
   <4>. /\ r \in Runs /\ r.state = state
        /\ r.kind = runs[t].kind /\ r.attempt = runs[t].attempt
     BY <1>1 DEF Runs, TerminalRun, Failed
   <4>. QED OBVIOUS
  <3>3. runs' = [runs EXCEPT ![t] = r] /\ Open(t, r.attempt, r.kind)
    BY <1>2, <2>1, <3>1, <3>2 DEF RunOK
  <3>4. WritesRun(t, r)
    BY <1>1, <2>1, <3>2, <3>3 DEF WritesRun
  <3>. QED BY <3>4 DEF Change
 <2>. QED BY <1>3, <1>6, <2>1 DEF Finalize
<1>7. CASE Abandon(w)
 <2>1. job[w].outcome \in {"none", "running"} /\ job[w].pc = "abandon"
   BY <1>1, <1>7 DEF Abandon, At, JobOK
 <2>2. CASE runs[t].state = job[w].outcome
   BY <1>1, <1>4, <1>7, <2>1, <2>2 DEF Abandon, Reading
 <2>. QED BY <1>3, <1>7, <2>2 DEF Abandon
<1>. QED BY <1>5, <1>6, <1>7

\* A publication, of the worker or of a recovering tick.
LEMMA PublishChange ==
    ASSUME Inv, NEW w \in Workers, Publish(w)
    PROVE  Change
<1>. DEFINE j == job[w]
<1>1. /\ j \in Locals /\ JobOK(j) /\ j.pc = "publish" /\ j.token \in Tokens
      /\ UNCHANGED runs
  BY JobFacts DEF Publish, At, JobOK, Fenced
<1>2. /\ j.outcome \in TerminalRun /\ runs[j.token].state = j.outcome
      /\ runs[j.token].kind = j.kind /\ runs[j.token].attempt = j.attempt
  BY <1>1 DEF JobOK
<1>3. CASE Holds(j.token, j.attempt) /\ NotPublished
 <2>1. Quiet
   BY <1>1, <1>2, <1>3, NoClaimType DEF NotPublished, Quiet, Holds, Inv, TypeOK, Roots
 <2>. QED BY <2>1 DEF Change
<1>4. CASE /\ Waiting /\ Holds(j.token, j.attempt) /\ root.claim.kind = j.kind
           /\ j.outcome = "succeeded" /\ Published(j)
 <2>1. j.attempt # 0
   BY <1>1, <1>2, <1>4 DEF Inv, RunsOK, RunOK
 <2>2. Publishes(j.token, j.kind)
   BY <1>1, <1>2, <1>4, <2>1 DEF Publishes, Published, Open, Holds
 <2>3. j.kind \in Kinds
   BY <1>1 DEF Locals
 <2>. QED BY <1>1, <2>2, <2>3 DEF Change
<1>5. CASE UNCHANGED root
  BY <1>1, <1>5, WaitIsQuiet DEF Change
<1>. QED BY <1>3, <1>4, <1>5 DEF Publish

\* Every step is one of these.
LEMMA StepChange ==
    ASSUME RecordInv, [Next]_vars
    PROVE  Change
<1>. Inv
  BY DEF RecordInv
<1>1. CASE UNCHANGED <<root, runs>>
  BY <1>1, WaitIsQuiet DEF Change
<1>2. ASSUME NEW w \in Workers, TakeLease(w) \/ Release(w) \/ ClearUncommitted(w)
      PROVE  Change
  BY <1>2, ClaimChange DEF Change
<1>3. ASSUME NEW w \in Workers, CommitApplies(w) \/ CommitUnanswered(w) PROVE Change
 <2>1. job[w].token \in Tokens /\ job[w].kind \in Kinds
   BY <1>3, JobFacts DEF CommitApplies, CommitUnanswered, At, JobOK, Fenced, Locals
 <2>. QED BY <1>1, <1>3, <2>1, CommitChange DEF CommitApplies, CommitUnanswered
<1>4. ASSUME NEW c \in late, LateCommit(c) PROVE Change
 <2>1. c.token \in Tokens /\ c.kind \in Kinds
   BY DEF Inv, TypeOK
 <2>. QED BY <1>1, <1>4, <2>1, CommitChange DEF LateCommit
<1>5. ASSUME NEW w \in Workers, Exhaust(w) PROVE Change
  BY <1>1, <1>5 DEF Exhaust, Exhausts, Change
<1>6. ASSUME NEW w \in Workers,
             \/ Poll(w) \/ Evaluate(w) \/ NothingDue(w) \/ Revalidate(w)
             \/ CommitMatchesNothing(w) \/ Resolve(w) \/ FindExpired(w) \/ ReadRun(w)
             \/ ReadReason(w) \/ Crash(w)
      PROVE  Change
  BY <1>1, <1>6 DEF Poll, Evaluate, NothingDue, Revalidate, CommitMatchesNothing, Resolve,
                    FindExpired, ReadRun, ReadReason, Crash, Local
<1>7. CASE Degrade \/ Tick \/ UNCHANGED vars
  BY <1>1, <1>7 DEF Degrade, Tick, vars
<1>8. ASSUME NEW w \in Workers, WorkerStep(w) PROVE Change
  BY <1>2, <1>3, <1>5, <1>6, <1>8, RunChange, PublishChange
  DEF WorkerStep, Attempt, Recover
<1>. QED BY <1>3, <1>4, <1>6, <1>7, <1>8 DEF Next

-----------------------------------------------------------------------------
\* A claim that is given up, or stays, leaves the numbers as they are.
LEMMA NumbersKept ==
    ASSUME Inv, NumbersOK, UNCHANGED <<root.attempts, runs>>,
           UNCHANGED root.claim \/ root'.claim.attempt = 0
    PROVE  NumbersOK'
<1>1. \A t \in Tokens : runs[t].state # "none" => runs[t].attempt # 0
  BY DEF Inv, RunsOK, RunOK
<1>2. CASE UNCHANGED root.claim
  BY <1>2 DEF NumbersOK
<1>3. CASE root'.claim.attempt = 0
  BY <1>1, <1>3 DEF NumbersOK
<1>. QED BY <1>2, <1>3

\* A commit takes the next number of its kind.
LEMMA NumbersCommit ==
    ASSUME Inv, NumbersOK, NEW t \in Tokens, NEW k \in Kinds, Commits(t, k)
    PROVE  NumbersOK'
<1>. DEFINE n == root.attempts[k] + 1
<1>1. /\ root'.attempts = [root.attempts EXCEPT ![k] = n]
      /\ root'.claim = [root.claim EXCEPT !.attempt = n]
      /\ root.claim \in Claims /\ root.claim.kind = k
      /\ root.attempts \in [Kinds -> 0 .. MaxAttempts]
  BY DEF Commits, CanCommit, Inv, TypeOK, Roots
<1>2. root'.claim.attempt = n /\ root'.claim.kind = k
  BY <1>1 DEF Claims
<1>3. /\ root.attempts[k] \in Int /\ root'.attempts[k] = n
      /\ \A l \in Kinds : root.attempts[l] \in Int /\ root.attempts[l] <= root'.attempts[l]
  BY <1>1, InvestigationAssumption
<1>4. ASSUME NEW u \in Tokens, runs[u].state # "none"
      PROVE  /\ runs[u].attempt <= root'.attempts[runs[u].kind]
             /\ ~(runs[u].attempt = n /\ runs[u].kind = k)
 <2>1. runs[u].kind \in Kinds /\ runs[u].attempt \in Int
   BY InvestigationAssumption DEF Inv, TypeOK, Runs
 <2>2. runs[u].attempt <= root.attempts[runs[u].kind]
   BY <1>4 DEF NumbersOK
 <2>3. /\ root.attempts[runs[u].kind] \in Int
       /\ root.attempts[runs[u].kind] <= root'.attempts[runs[u].kind]
   BY <1>3, <2>1
 <2>4. root'.attempts[runs[u].kind] \in Int
   BY <1>1, <1>3, <2>1
 <2>5. runs[u].attempt <= root'.attempts[runs[u].kind]
   BY <2>1, <2>2, <2>3, <2>4
 <2>6. CASE runs[u].kind = k
   BY <1>3, <2>1, <2>2, <2>6
 <2>. QED BY <2>5, <2>6
<1>. HIDE DEF n
<1>5. UNCHANGED runs
  BY DEF Commits
<1>. QED BY <1>2, <1>3, <1>4, <1>5 DEF NumbersOK

\* The run of the open attempt bears the number of the claim.
LEMMA NumbersRun ==
    ASSUME Inv, NumbersOK, NEW t \in Tokens, NEW r \in Runs, WritesRun(t, r)
    PROVE  NumbersOK'
<1>1. /\ UNCHANGED root /\ root.claim.token = t /\ r.attempt # 0
      /\ root.claim.attempt = r.attempt /\ root.claim.kind = r.kind
      /\ r.attempt = root.attempts[r.kind]
  BY DEF WritesRun, Open, NumbersOK
<1>2. runs'[t] = r /\ \A u \in Tokens \ {t} : runs'[u] = runs[u]
  BY DEF WritesRun, Inv, TypeOK
<1>3. \A u \in Tokens \ {t} : runs[u].state # "none" =>
          ~(runs[u].kind = r.kind /\ runs[u].attempt = r.attempt)
  BY <1>1 DEF NumbersOK
<1>4. r.attempt <= root.attempts[r.kind]
 <2>1. r.attempt \in Int
   BY InvestigationAssumption DEF Runs
 <2>. QED BY <1>1, <2>1
<1>5. ASSUME NEW u \in Tokens, runs'[u].state # "none"
      PROVE  /\ runs'[u].attempt <= root.attempts[runs'[u].kind]
             /\ root.claim.attempt = runs'[u].attempt /\ root.claim.kind = runs'[u].kind =>
                   root.claim.token = u
             /\ \A v \in Tokens : runs'[v].state # "none" /\ runs'[v].kind = runs'[u].kind
                                  /\ runs'[v].attempt = runs'[u].attempt => v = u
 <2>1. CASE u = t
   BY <1>1, <1>2, <1>3, <1>4, <2>1
 <2>2. CASE u # t
  <3>1. runs'[u] = runs[u] /\ runs[u].state # "none"
    BY <1>2, <1>5, <2>2
  <3>2. runs[u].attempt <= root.attempts[runs[u].kind]
    BY <3>1 DEF NumbersOK
  <3>. QED BY <1>1, <1>2, <1>3, <2>2, <3>1, <3>2 DEF NumbersOK
 <2>. QED BY <2>1, <2>2
<1>. QED BY <1>1, <1>5 DEF NumbersOK

\* The numbers hold across any step.
LEMMA NumbersStep ==
    ASSUME Inv, NumbersOK, Change
    PROVE  NumbersOK'
<1>1. CASE Quiet
  BY <1>1, NumbersKept DEF Quiet
<1>2. ASSUME NEW t \in Tokens, NEW k \in Kinds, Commits(t, k) PROVE NumbersOK'
  BY <1>2, NumbersCommit
<1>3. ASSUME NEW t \in Tokens, NEW k \in Kinds, Publishes(t, k) PROVE NumbersOK'
 <2>1. UNCHANGED <<root.attempts, runs>> /\ root'.claim.attempt = 0
   BY <1>3, NoClaimType DEF Publishes, Inv, TypeOK, Roots
 <2>. QED BY <2>1, NumbersKept
<1>4. ASSUME NEW t \in Tokens, NEW r \in Runs, WritesRun(t, r) PROVE NumbersOK'
  BY <1>4, NumbersRun
<1>5. CASE Exhausts
 <2>1. UNCHANGED <<root.attempts, root.claim, runs>>
   BY <1>5 DEF Exhausts, Inv, TypeOK, Roots
 <2>. QED BY <2>1, NumbersKept
<1>. QED BY <1>1, <1>2, <1>3, <1>4, <1>5 DEF Change

-----------------------------------------------------------------------------
\* The open attempt stays open until its run has ended.
LEMMA OpenKept ==
    ASSUME Inv, Change, NEW t \in Tokens, NEW n, NEW k, Open(t, n, k),
           runs'[t].state \in {"none", "running"}
    PROVE  Open(t, n, k)'
<1>0. "succeeded" \notin {"none", "running"} /\ TerminalRun \cap {"none", "running"} = {}
  BY DEF TerminalRun, Failed
<1>1. CASE Quiet
 <2>1. UNCHANGED <<root.status, runs>>
   BY <1>1 DEF Quiet
 <2>2. CASE UNCHANGED root.claim
   BY <2>1, <2>2 DEF Open, Waiting
 <2>3. CASE root.claim.attempt = 0
   BY <2>3 DEF Open
 <2>4. CASE runs[root.claim.token].state \in TerminalRun
   BY <1>0, <2>1, <2>4 DEF Open
 <2>. QED BY <1>1, <2>2, <2>3, <2>4 DEF Quiet
<1>2. ASSUME NEW u \in Tokens, NEW l \in Kinds, Commits(u, l) PROVE Open(t, n, k)'
  BY <1>2 DEF Commits, CanCommit, Holds, Open
<1>3. ASSUME NEW u \in Tokens, NEW l \in Kinds, Publishes(u, l) PROVE Open(t, n, k)'
  BY <1>0, <1>3 DEF Publishes, Open
<1>4. ASSUME NEW u \in Tokens, NEW r \in Runs, WritesRun(u, r) PROVE Open(t, n, k)'
  BY <1>4 DEF WritesRun, Open, Waiting
<1>5. CASE Exhausts
  BY <1>5, NoClaimType DEF Exhausts, Unclaimed, Open
<1>. QED BY <1>1, <1>2, <1>3, <1>4, <1>5 DEF Change

\* A run that has not ended had not ended.
LEMMA UnendedBefore ==
    ASSUME Inv, Change, NEW t \in Tokens, runs'[t].state \in {"none", "running"}
    PROVE  runs[t].state \in {"none", "running"}
<1>1. CASE UNCHANGED runs
  BY <1>1
<1>2. ASSUME NEW u \in Tokens, NEW r \in Runs, WritesRun(u, r)
      PROVE  runs[t].state \in {"none", "running"}
  BY <1>2 DEF WritesRun, Inv, TypeOK
<1>. QED BY <1>1, <1>2 DEF Change, Quiet, Commits, Publishes, Exhausts

\* A tick comes to the run of an expired claim from that claim.
LEMMA ReaderStep ==
    ASSUME Inv, [Next]_vars, NEW w \in Workers, job'[w].pc \in {"read", "abandon"}
    PROVE  /\ job[w].token \in Tokens
           /\ UNCHANGED <<job[w].token, job[w].attempt, job[w].kind>>
           /\ \/ job[w].pc \in {"read", "abandon"}
              \/ Open(job[w].token, job[w].attempt, job[w].kind)
<1>. DEFINE j == job[w]
            Same(i) == i.token = j.token /\ i.attempt = j.attempt /\ i.kind = j.kind
<1>0. job \in [Workers -> Locals] /\ j \in Locals /\ JobOK(j) /\ Idle.pc = "idle"
  BY JobFacts, IdleType DEF Inv, TypeOK
<1>. SUFFICES j.token \in Tokens /\ Same(job'[w]) /\ (j.pc \in {"read", "abandon"}
                                 \/ Open(j.token, j.attempt, j.kind))
  OBVIOUS
<1>1. CASE UNCHANGED job
  BY <1>0, <1>1 DEF JobOK, Fenced
<1>2. ASSUME NEW v \in Workers, NEW i, Set(v, i), v # w \/ i.pc \notin {"read", "abandon"}
      PROVE  /\ j.token \in Tokens /\ Same(job'[w]) /\ j.pc \in {"read", "abandon"}
 <2>1. v # w /\ job'[w] = j
   BY <1>0, <1>2 DEF Set
 <2>. QED BY <1>0, <2>1 DEF JobOK, Fenced
<1>3. ASSUME NEW v \in Workers, FindExpired(v) \/ ReadRun(v) \/ Abandon(v), v = w
      PROVE  j.token \in Tokens /\ Same(job'[w]) /\ (j.pc \in {"read", "abandon"}
                                 \/ Open(j.token, j.attempt, j.kind))
 <2>1. j.token \in Tokens
   BY <1>0, <1>3 DEF FindExpired, ReadRun, Abandon, At, JobOK, Fenced
 <2>2. CASE FindExpired(w)
  <3>1. /\ job' = [job EXCEPT ![w] = [j EXCEPT !.pc = "read"]]
        /\ Holds(j.token, j.attempt) /\ j.pc = "expired"
    BY <1>0, <2>2 DEF FindExpired, Local, Set, At
  <3>2. Same(job'[w])
    BY <1>0, <3>1 DEF Locals
  <3>3. Open(j.token, j.attempt, j.kind)
    BY <1>0, <2>1, <3>1, InvestigationAssumption
    DEF Holds, JobOK, Open, Inv, ClaimOK, Claimed
  <3>. QED BY <2>1, <3>2, <3>3
 <2>3. CASE ReadRun(w)
  <3>1. j.pc = "read"
    BY <2>3 DEF ReadRun, At
  <3>2. \/ job'[w].pc = "publish"
        \/ job'[w] = Idle
        \/ job'[w] = [j EXCEPT !.pc = "abandon", !.outcome = runs[j.token].state]
    BY <1>0, <2>3 DEF ReadRun, Local, Set, Locals
  <3>3. Same(job'[w])
    BY <1>0, <3>2 DEF Locals
  <3>. QED BY <2>1, <3>1, <3>3
 <2>4. CASE Abandon(w)
  <3>1. /\ j.pc = "abandon"
        /\ job'[w] = [j EXCEPT !.pc = "read", !.passes = @ + 1, !.outcome = "none"]
    BY <1>0, <2>4 DEF Abandon, At, Set
  <3>2. Same(job'[w])
    BY <1>0, <3>1 DEF Locals
  <3>. QED BY <2>1, <3>1, <3>2
 <2>. QED BY <1>3, <2>2, <2>3, <2>4
<1>4. ASSUME NEW v \in Workers, v # w,
             \/ Poll(v) \/ Evaluate(v) \/ NothingDue(v) \/ TakeLease(v) \/ Revalidate(v)
             \/ Release(v) \/ CommitApplies(v) \/ CommitMatchesNothing(v) \/ Resolve(v)
             \/ InsertRun(v) \/ Finalize(v) \/ Publish(v) \/ ClearUncommitted(v)
             \/ FindExpired(v) \/ ReadRun(v) \/ Abandon(v) \/ ReadReason(v) \/ Exhaust(v)
             \/ CommitUnanswered(v) \/ Crash(v)
      PROVE  job'[w] = j
  BY <1>0, <1>4
  DEF Poll, Evaluate, NothingDue, TakeLease, Revalidate, Release, CommitApplies,
      CommitMatchesNothing, Resolve, InsertRun, Finalize, Publish, ClearUncommitted,
      FindExpired, ReadRun, Abandon, ReadReason, Exhaust, CommitUnanswered, Crash,
      Local, Goto, Set, Stop
<1>5. ASSUME NEW v \in Workers, v = w,
             \/ Poll(v) \/ Evaluate(v) \/ NothingDue(v) \/ TakeLease(v) \/ Revalidate(v)
             \/ Release(v) \/ CommitApplies(v) \/ CommitMatchesNothing(v) \/ Resolve(v)
             \/ InsertRun(v) \/ Finalize(v) \/ Publish(v) \/ ClearUncommitted(v)
             \/ ReadReason(v) \/ Exhaust(v)
             \/ CommitUnanswered(v) \/ Crash(v)
      PROVE  job'[w].pc \notin {"read", "abandon"}
 <2>1. Idle \in Locals
   BY IdleType
 <2>2. CASE Poll(w)
   BY <1>0, <2>1, <2>2 DEF Poll, Local, Set, Locals
 <2>3. ASSUME NEW i, Set(w, i), i.pc \notin {"read", "abandon"}
       PROVE  job'[w].pc \notin {"read", "abandon"}
   BY <1>0, <2>3 DEF Set
 <2>4. \A pc : [j EXCEPT !.pc = pc].pc = pc
   BY <1>0 DEF Locals
 <2>5. CASE Evaluate(w) \/ NothingDue(w)
   BY <1>0, <2>1, <2>3, <2>5 DEF Evaluate, NothingDue, Local, Stop, Locals
 <2>6. CASE Revalidate(w) \/ ReadReason(w) \/ Resolve(w) \/ CommitMatchesNothing(w)
   BY <1>0, <2>1, <2>3, <2>6
   DEF Revalidate, ReadReason, Resolve, CommitMatchesNothing, Local, Locals
 <2>7. CASE TakeLease(w) \/ CommitApplies(w)
   BY <1>0, <2>1, <2>3, <2>7 DEF TakeLease, CommitApplies, Stop, Locals
 <2>8. CASE InsertRun(w) \/ Finalize(w) \/ CommitUnanswered(w)
   BY <1>0, <2>1, <2>3, <2>4, <2>8 DEF InsertRun, Finalize, CommitUnanswered, Goto, Stop, Locals
 <2>9. CASE Release(w) \/ Publish(w) \/ ClearUncommitted(w) \/ Exhaust(w) \/ Crash(w)
   BY <1>0, <2>9 DEF Release, Publish, ClearUncommitted, Exhaust, Crash, Set, Stop
 <2>. QED BY <1>5, <2>2, <2>5, <2>6, <2>7, <2>8, <2>9
<1>6. CASE Degrade \/ Tick \/ UNCHANGED vars \/ \E c \in late : LateCommit(c)
  BY <1>1, <1>6 DEF Degrade, Tick, vars, LateCommit
<1>7. ASSUME job'[w] = j PROVE j.pc \in {"read", "abandon"} /\ j.token \in Tokens
  BY <1>0, <1>7 DEF JobOK, Fenced
<1>. QED BY <1>3, <1>4, <1>5, <1>6, <1>7 DEF Next, WorkerStep, Attempt, Recover

\* What a recovering tick has read holds across any step.
LEMMA ReadersStep ==
    ASSUME Inv, ReadersOK, Change, [Next]_vars
    PROVE  ReadersOK'
<1>. SUFFICES ASSUME NEW w \in Workers, job'[w].pc \in {"read", "abandon"},
                     runs'[job'[w].token].state \in {"none", "running"}
              PROVE  Open(job[w].token, job[w].attempt, job[w].kind)'
  BY DEF ReadersOK, Reading
<1>1. PICK t \in Tokens : t = job[w].token
  BY ReaderStep
<1>2. /\ t = job'[w].token
      /\ job'[w].attempt = job[w].attempt /\ job'[w].kind = job[w].kind
  BY <1>1, ReaderStep
<1>3. runs[t].state \in {"none", "running"}
  BY <1>2, UnendedBefore
<1>4. Open(t, job[w].attempt, job[w].kind)
  BY <1>1, <1>3, ReaderStep DEF ReadersOK, Reading
<1>. PICK n, k : n = job[w].attempt /\ k = job[w].kind
  OBVIOUS
<1>5. Open(t, n, k)'
  BY <1>2, <1>4, OpenKept
<1>. QED BY <1>2, <1>5 DEF Open, Waiting

-----------------------------------------------------------------------------
\* The record invariant holds of a new root.
LEMMA RecordInit == Init => RecordInv
<1>. SUFFICES ASSUME Init PROVE NumbersOK /\ ReadersOK
  BY InitOK DEF RecordInv
<1>1. NumbersOK
  BY NoClaimType DEF Init, NumbersOK, NoRun
<1>2. ReadersOK
  BY IdleType DEF Init, ReadersOK, Reading
<1>. QED BY <1>1, <1>2

\* The record invariant is inductive.
LEMMA RecordStep == RecordInv /\ [Next]_vars => RecordInv'
  BY NextOK, StepChange, NumbersStep, ReadersStep DEF RecordInv

-----------------------------------------------------------------------------
\* What a reader sees of an attempt is what its run says, once there is one.
Tried(t, k, n) == runs[t].state # "none" /\ runs[t].kind = k /\ runs[t].attempt = n
Seen(state) ==
    CASE state = "succeeded" -> "succeeded" [] state = "running" -> "open" [] OTHER -> "failed"

OutcomesOK ==
    \A k \in Kinds, n \in 1 .. MaxAttempts :
        /\ n > root.attempts[k] => Outcome(k, n) = "none"
        /\ \A t \in Tokens : Tried(t, k, n) => Outcome(k, n) = Seen(runs[t].state)
        /\ n <= root.attempts[k] /\ (\A t \in Tokens : ~Tried(t, k, n)) =>
              Outcome(k, n) = "open"

LEMMA OutcomesSeen == RecordInv => OutcomesOK
<1>. SUFFICES ASSUME RecordInv, NEW k \in Kinds, NEW n \in 1 .. MaxAttempts
              PROVE  /\ n > root.attempts[k] => Outcome(k, n) = "none"
                     /\ \A t \in Tokens : Tried(t, k, n) => Outcome(k, n) = Seen(runs[t].state)
                     /\ n <= root.attempts[k] /\ (\A t \in Tokens : ~Tried(t, k, n)) =>
                            Outcome(k, n) = "open"
  BY DEF OutcomesOK
<1>1. States(k, n) = {runs[t].state : t \in {u \in Tokens : Tried(u, k, n)}}
 <2>1. \A t \in Tokens : runs[t] # NoRun <=> runs[t].state # "none"
   BY DEF RecordInv, Inv, RunsOK, RunOK, NoRun
 <2>. QED BY <2>1 DEF States, Tried
<1>2. root.attempts[k] \in Int
  BY InvestigationAssumption DEF RecordInv, Inv, TypeOK, Roots
<1>3. n > root.attempts[k] => Outcome(k, n) = "none"
  BY DEF Outcome
<1>4. ASSUME NEW t \in Tokens, Tried(t, k, n) PROVE Outcome(k, n) = Seen(runs[t].state)
 <2>1. ~(n > root.attempts[k])
   BY <1>2, <1>4 DEF Tried, RecordInv, NumbersOK
 <2>2. States(k, n) = {runs[t].state}
   BY <1>1, <1>4 DEF Tried, RecordInv, NumbersOK
 <2>. QED BY <2>1, <2>2 DEF Outcome, Seen
<1>5. ASSUME n <= root.attempts[k], \A t \in Tokens : ~Tried(t, k, n)
      PROVE  Outcome(k, n) = "open"
 <2>1. States(k, n) = {}
   BY <1>1, <1>5
 <2>. QED BY <1>2, <1>5, <2>1 DEF Outcome
<1>. QED BY <1>3, <1>4, <1>5

\* An attempt with no claim on it has ended, and a success among them is published.
LEMMA EndedAttempts ==
    ASSUME RecordInv, OutcomesOK, root.claim.attempt = 0,
           NEW k \in Kinds, NEW n \in 1 .. MaxAttempts, n <= root.attempts[k]
    PROVE  \/ Outcome(k, n) = "failed"
           \/ root.published[k] \in Tokens /\ runs[root.published[k]].attempt = n
<1>1. PICK t \in Tokens : /\ runs[t].kind = k /\ runs[t].attempt = n
                          /\ runs[t].state \in TerminalRun
 <2>1. n \in 1 .. root.attempts[k]
   BY InvestigationAssumption DEF RecordInv, Inv, TypeOK, Roots
 <2>. QED BY <2>1 DEF RecordInv, Inv, AttemptsOK
<1>2. Tried(t, k, n)
  BY <1>1 DEF Tried, TerminalRun, Failed
<1>3. Outcome(k, n) = Seen(runs[t].state)
  BY <1>2 DEF OutcomesOK
<1>4. CASE runs[t].state = "succeeded"
  BY <1>1, <1>4 DEF RecordInv, Inv, RunsOK, RunOK, Open
<1>. QED BY <1>1, <1>3, <1>4 DEF Seen, TerminalRun, Failed

\* The record a reader sees.
Outcomes == [k \in Kinds |-> [n \in 1 .. MaxAttempts |-> Outcome(k, n)]]
PublishedNumbers ==
    [k \in Kinds |-> IF root.published[k] = NoToken THEN 0 ELSE runs[root.published[k]].attempt]
Closed == root.status = "done"

\* Each kind of step, on the record.
LEMMA QuietRecord ==
    ASSUME Quiet
    PROVE  UNCHANGED <<Outcomes, PublishedNumbers, Closed>>
  BY DEF Quiet, Outcomes, PublishedNumbers, Closed, Outcome, States

LEMMA ExhaustsRecord ==
    ASSUME RecordInv, OutcomesOK, Exhausts
    PROVE  Record!Exhaust
<1>1. /\ root'.attempts = root.attempts /\ root'.published = root.published
      /\ root'.status = "done" /\ root.status = "waiting" /\ UNCHANGED runs
      /\ root.claim.attempt = 0 /\ root.attempts["final"] = MaxAttempts
      /\ root.published["final"] = NoToken
  BY NoClaimType DEF Exhausts, Unclaimed, Waiting, RecordInv, Inv, TypeOK, Roots
<1>2. UNCHANGED <<Outcomes, PublishedNumbers>>
  BY <1>1 DEF Outcomes, PublishedNumbers, Outcome, States
<1>3. ASSUME NEW n \in 1 .. MaxAttempts PROVE Outcomes["final"][n] = "failed"
 <2>1. "final" \in Kinds /\ n <= root.attempts["final"]
   BY <1>1, InvestigationAssumption DEF Kinds
 <2>2. Outcome("final", n) = "failed"
   BY <1>1, <2>1, EndedAttempts, InvestigationAssumption
 <2>. QED BY <2>1, <2>2 DEF Outcomes
<1>. QED BY <1>1, <1>2, <1>3 DEF Record!Exhaust, Record!Numbers, Outcomes, PublishedNumbers

LEMMA CommitsRecord ==
    ASSUME RecordInv, OutcomesOK, OutcomesOK', NumbersOK',
           NEW t \in Tokens, NEW k \in Kinds, Commits(t, k)
    PROVE  \E n \in 1 .. MaxAttempts : Record!Begin(k, n)
<1>. PICK n \in 1 .. MaxAttempts : n = root.attempts[k] + 1
  BY InvestigationAssumption DEF Commits, CanCommit, RecordInv, Inv, TypeOK, Roots
<1>1. /\ root'.attempts = [root.attempts EXCEPT ![k] = n]
      /\ root'.published = root.published /\ root'.status = root.status
      /\ root.status = "waiting" /\ UNCHANGED runs
      /\ root.claim.attempt = 0 /\ root.claim.token = t /\ root.claim.kind = k
      /\ root.attempts \in [Kinds -> 0 .. MaxAttempts]
  BY DEF Commits, CanCommit, Holds, Waiting, RecordInv, Inv, TypeOK, Roots
<1>2. n \in Int /\ root.attempts[k] \in Int
  BY <1>1, InvestigationAssumption
<1>3. UNCHANGED <<PublishedNumbers, Closed>>
  BY <1>1 DEF PublishedNumbers, Closed
<1>4. ~Closed /\ root.published[k] = NoToken /\ PublishedNumbers[k] = 0
  BY <1>1, InvestigationAssumption
  DEF Closed, PublishedNumbers, RecordInv, Inv, ClaimOK, Claimed, Waiting, Kinds
<1>5. Outcome(k, n) = "none"
  BY <1>2 DEF OutcomesOK
<1>6. Outcome(k, n)' = "open"
 <2>1. root'.attempts[k] = n
   BY <1>1
 <2>2. \A u \in Tokens : ~Tried(u, k, n)'
  <3>. SUFFICES ASSUME NEW u \in Tokens, runs[u].state # "none", runs[u].kind = k,
                       runs[u].attempt = n
                PROVE  FALSE
    BY <1>1 DEF Tried
  <3>1. runs[u].attempt <= root.attempts[k]
    BY DEF RecordInv, NumbersOK
  <3>. QED BY <1>2, <3>1
 <2>3. n <= root'.attempts[k] /\ (\A u \in Tokens : ~Tried(u, k, n)') =>
          Outcome(k, n)' = "open"
   BY DEF OutcomesOK
 <2>. QED BY <1>2, <2>1, <2>2, <2>3
<1>7. ASSUME NEW l \in Kinds, NEW m \in 1 .. MaxAttempts, l # k \/ m # n
      PROVE  Outcome(l, m)' = Outcome(l, m)
 <2>1. root.attempts[l] \in Int
   BY <1>1, InvestigationAssumption
 <2>2. m > root'.attempts[l] <=> m > root.attempts[l]
  <3>1. root'.attempts[l] = IF l = k THEN n ELSE root.attempts[l]
    BY <1>1
  <3>2. CASE l = k
   <4>1. m # n /\ m \in Int
     BY <1>7, <3>2
   <4>. QED BY <1>2, <3>1, <3>2, <4>1
  <3>. QED BY <3>1, <3>2
 <2>3. States(l, m)' = States(l, m)
   BY <1>1 DEF States
 <2>. QED BY <2>2, <2>3 DEF Outcome
<1>8. ASSUME NEW l \in Kinds, NEW m \in 1 .. MaxAttempts
      PROVE  Outcomes[l][m] \in {"none", "failed"} \/ PublishedNumbers[l] = m
 <2>1. root.attempts[l] \in Int
   BY <1>1, InvestigationAssumption
 <2>2. CASE m > root.attempts[l]
   BY <2>2 DEF OutcomesOK, Outcomes
 <2>3. CASE m <= root.attempts[l]
   BY <1>1, <2>3, EndedAttempts, InvestigationAssumption DEF Outcomes, PublishedNumbers
 <2>. QED BY <2>1, <2>2, <2>3
<1>9. ASSUME NEW m \in 1 .. n - 1 PROVE Outcomes[k][m] = "failed"
 <2>1. m \in 1 .. MaxAttempts /\ m <= root.attempts[k]
   BY <1>2, InvestigationAssumption
 <2>2. Outcome(k, m) = "failed"
   BY <1>1, <1>4, <2>1, EndedAttempts, InvestigationAssumption
 <2>. QED BY <2>1, <2>2 DEF Outcomes
<1>10. Outcomes' = [Outcomes EXCEPT ![k][n] = "open"]
  BY <1>2, <1>6, <1>7 DEF Outcomes
<1>11. Outcomes[k][n] = "none" /\ Outcomes'[k][n] = "open"
  BY <1>2, <1>5, <1>6 DEF Outcomes
<1>12. Record!Begin(k, n)
  BY <1>2, <1>3, <1>4, <1>8, <1>9, <1>10, <1>11
  DEF Record!Begin, Record!Settled, Record!Numbers, Outcomes, PublishedNumbers, Closed
<1>. QED BY <1>2, <1>12

LEMMA PublishesRecord ==
    ASSUME RecordInv, OutcomesOK, NEW t \in Tokens, NEW k \in Kinds, Publishes(t, k)
    PROVE  \E n \in 1 .. MaxAttempts : Record!Publish(k, n)
<1>1. /\ root'.attempts = root.attempts /\ UNCHANGED runs
      /\ root'.published = [root.published EXCEPT ![k] = t]
      /\ root'.status = IF k = "final" THEN "done" ELSE root.status
      /\ root.status = "waiting"
      /\ root.claim.token = t /\ root.claim.kind = k
      /\ runs[t].state = "succeeded" /\ runs[t].kind = k
      /\ root.published \in [Kinds -> Tokens \union {NoToken}]
  BY DEF Publishes, Open, Waiting, RecordInv, Inv, TypeOK, Roots
<1>2. PICK n \in 1 .. MaxAttempts : n = runs[t].attempt
  BY <1>1, InvestigationAssumption DEF RecordInv, Inv, TypeOK, Runs, RunsOK, RunOK
<1>3. UNCHANGED Outcomes
  BY <1>1 DEF Outcomes, Outcome, States
<1>4. Outcomes[k][n] = "succeeded"
  BY <1>1, <1>2 DEF Outcomes, OutcomesOK, Tried, Seen
<1>5. ~Closed /\ PublishedNumbers[k] = 0
  BY <1>1, InvestigationAssumption
  DEF Closed, PublishedNumbers, RecordInv, Inv, ClaimOK, Claimed, Waiting, Kinds
<1>6. PublishedNumbers' = [PublishedNumbers EXCEPT ![k] = n]
  BY <1>1, <1>2, InvestigationAssumption DEF PublishedNumbers
<1>7. Closed' = (k = "final")
  BY <1>1 DEF Closed
<1>8. Record!Publish(k, n)
  BY <1>3, <1>4, <1>5, <1>6, <1>7 DEF Record!Publish, Outcomes, PublishedNumbers, Closed
<1>. QED BY <1>8

LEMMA WriteRecord ==
    ASSUME RecordInv, OutcomesOK, OutcomesOK', NEW t \in Tokens, NEW r \in Runs, WritesRun(t, r)
    PROVE  \/ UNCHANGED <<Outcomes, PublishedNumbers, Closed>>
           \/ \E k \in Kinds, n \in 1 .. MaxAttempts : Record!End(k, n)
<1>1. PICK k \in Kinds, n \in 1 .. MaxAttempts : k = r.kind /\ n = r.attempt
  BY InvestigationAssumption DEF WritesRun, Open, Runs
<1>2. /\ UNCHANGED root /\ root.claim.token = t
      /\ root.claim.kind = k /\ root.claim.attempt = n /\ n = root.attempts[k]
      /\ runs \in [Tokens -> Runs] /\ runs' = [runs EXCEPT ![t] = r]
  BY <1>1 DEF WritesRun, Open, RecordInv, NumbersOK, Inv, TypeOK
<1>3. \A u \in Tokens \ {t} : ~Tried(u, k, n) /\ runs'[u] = runs[u]
  BY <1>2 DEF Tried, RecordInv, NumbersOK
<1>4. runs[t].state # "none" => runs[t].kind = k /\ runs[t].attempt = n
  BY <1>2 DEF WritesRun, RecordInv, Inv, RunsOK, RunOK, Open
<1>5. Outcome(k, n) = "open"
 <2>1. CASE runs[t].state = "none"
   BY <1>2, <1>3, <2>1, InvestigationAssumption DEF OutcomesOK, Tried
 <2>2. CASE runs[t].state = "running"
   BY <1>4, <2>2 DEF OutcomesOK, Tried, Seen
 <2>. QED BY <2>1, <2>2 DEF WritesRun
<1>6. Outcome(k, n)' = Seen(r.state)
 <2>1. Tried(t, k, n)' /\ runs'[t] = r
   BY <1>1, <1>2 DEF Tried, WritesRun
 <2>2. \A u \in Tokens : Tried(u, k, n)' => Outcome(k, n)' = Seen(runs'[u].state)
   BY DEF OutcomesOK, Seen
 <2>. QED BY <2>1, <2>2
<1>7. ASSUME NEW l \in Kinds, NEW m \in 1 .. MaxAttempts, l # k \/ m # n
      PROVE  Outcome(l, m)' = Outcome(l, m)
 <2>1. \A u \in Tokens : Tried(u, l, m) => u # t /\ runs'[u] = runs[u]
   BY <1>3, <1>4, <1>7 DEF Tried
 <2>2. \A u \in Tokens : Tried(u, l, m)' => u # t /\ runs'[u] = runs[u]
   BY <1>1, <1>2, <1>3, <1>7 DEF Tried
 <2>3. \A u \in Tokens : runs[u] # NoRun /\ runs[u].kind = l /\ runs[u].attempt = m
                         <=> Tried(u, l, m)
   BY DEF Tried, RecordInv, Inv, RunsOK, RunOK, NoRun
 <2>4. \A u \in Tokens : runs'[u] # NoRun /\ runs'[u].kind = l /\ runs'[u].attempt = m
                         <=> Tried(u, l, m)'
   BY <1>2, <1>3, <2>3 DEF Tried, WritesRun, NoRun
 <2>5. States(l, m)' = States(l, m)
   BY <2>1, <2>2, <2>3, <2>4 DEF States, Tried
 <2>. QED BY <1>2, <2>5 DEF Outcome
<1>8. UNCHANGED <<PublishedNumbers, Closed>>
 <2>1. ASSUME NEW l \in Kinds, root.published[l] # NoToken
       PROVE  runs'[root.published[l]] = runs[root.published[l]]
  <3>1. root.published[l] \in Tokens /\ runs[root.published[l]].state = "succeeded"
    BY <2>1 DEF RecordInv, Inv, ResultIsLatest, TypeOK, Roots
  <3>. QED BY <1>2, <3>1 DEF WritesRun
 <2>. QED BY <1>2, <2>1 DEF PublishedNumbers, Closed
<1>9. CASE r.state = "running"
 <2>1. UNCHANGED Outcomes
   BY <1>5, <1>6, <1>7, <1>9 DEF Outcomes, Seen
 <2>. QED BY <1>8, <2>1
<1>10. CASE r.state # "running"
 <2>1. PICK o \in {"succeeded", "failed"} : o = Seen(r.state)
   BY <1>10 DEF Seen
 <2>2. Outcomes' = [Outcomes EXCEPT ![k][n] = o]
   BY <1>6, <1>7, <2>1 DEF Outcomes
 <2>3. Outcomes[k][n] = "open"
   BY <1>5 DEF Outcomes
 <2>4. Record!End(k, n)
   BY <1>8, <2>2, <2>3 DEF Record!End, Outcomes, PublishedNumbers, Closed
 <2>. QED BY <2>4
<1>. QED BY <1>9, <1>10

\* The investigation a reader sees, attempts of each kind numbered, bounded, one
\* open at a time, each ended once, a success published before anything else is
\* tried: overlapping ticks, lost workers, unanswered and late commits never show
\* (commit_attempt, insert_run, finalize_run, publish, recover_one, exhaust_final_attempts).
THEOREM RecordIsKept == Spec => RecordSpec
<1>1. Init => Record!Init
 <2>. SUFFICES ASSUME Init PROVE Record!Init
   OBVIOUS
 <2>1. \A k \in Kinds, n \in 1 .. MaxAttempts : Outcome(k, n) = "none"
   BY DEF Init, Outcome
 <2>. QED BY <2>1 DEF Init, Record!Init, Record!Numbers
<1>2. /\ RecordInv /\ OutcomesOK /\ RecordInv' /\ OutcomesOK' /\ [Next]_vars
      => [Record!Next]_<<[k \in Kinds |-> [n \in 1 .. MaxAttempts |-> Outcome(k, n)]],
                         [k \in Kinds |-> IF root.published[k] = NoToken THEN 0
                                          ELSE runs[root.published[k]].attempt],
                         root.status = "done">>
 <2>. SUFFICES ASSUME RecordInv, OutcomesOK, RecordInv', OutcomesOK', [Next]_vars
               PROVE  Record!Next \/ UNCHANGED <<Outcomes, PublishedNumbers, Closed>>
   BY DEF Outcomes, PublishedNumbers, Closed
 <2>1. Change
   BY StepChange
 <2>2. CASE Quiet
   BY <2>2, QuietRecord
 <2>3. ASSUME NEW t \in Tokens, NEW k \in Kinds, Commits(t, k) PROVE Record!Next
   BY <2>3, CommitsRecord DEF RecordInv, Record!Next, Record!Numbers
 <2>4. ASSUME NEW t \in Tokens, NEW k \in Kinds, Publishes(t, k) PROVE Record!Next
   BY <2>4, PublishesRecord DEF Record!Next, Record!Numbers
 <2>5. ASSUME NEW t \in Tokens, NEW r \in Runs, WritesRun(t, r)
       PROVE  Record!Next \/ UNCHANGED <<Outcomes, PublishedNumbers, Closed>>
   BY <2>5, WriteRecord DEF Record!Next, Record!Numbers
 <2>6. CASE Exhausts
   BY <2>6, ExhaustsRecord DEF Record!Next
 <2>. QED BY <2>1, <2>2, <2>3, <2>4, <2>5, <2>6 DEF Change
<1>. QED BY RecordInit, RecordStep, OutcomesSeen, <1>1, <1>2, PTL
         DEF Spec, RecordSpec, Record!Spec
=============================================================================
