----------------------- MODULE ChangeProjectionProofs -----------------------
\* Theorems about ChangeProjection, for any receipts, polls, workers and
\* number of attempts, and any number of workers lost.
EXTENDS ChangeProjection, TLAPS

\* A job that opens or merges has a receipt; one that records has a fact.
InputOK ==
    \A w \in Workers :
        /\ job[w].pc \in {"open", "merge"} => job[w].input \in Receipts
        /\ job[w].pc = "record" => job[w].input \in Facts

TypeInv == TypeOK /\ InputOK

\* What a rebuild holds when `rev` is the stored revision, `rcp` and `pic` are
\* the stored receipts and picture and `rec` is on record.  While its revision
\* is current the group is still as it read it, and whatever was in the picture
\* then was on record when the rebuild read the sources.
JobOK(j, rec, rev, rcp, pic) ==
    /\ j.seen \subseteq rec
    /\ j.pc \in {"versions", "sessions", "write"} => j.revision <= rev
    /\ j.pc \in {"versions", "sessions", "write"} /\ j.revision = rev =>
          /\ j.receipts = rcp
          /\ j.pc = "sessions" => pic \intersect Audits \subseteq j.seen
          /\ j.pc = "write" => pic \subseteq j.seen

JobsOK == \A w \in Workers : JobOK(job[w], recorded, revision, receipts, picture)

Inv == TypeInv /\ picture \subseteq recorded /\ JobsOK

-----------------------------------------------------------------------------
\* One worker's locals change and keep the type and a valid input.
LEMMA SetType ==
    ASSUME TypeInv, NEW w \in Workers, NEW j \in Locals,
           j.pc \in {"open", "merge"} => j.input \in Receipts,
           j.pc = "record" => j.input \in Facts,
           Set(w, j)
    PROVE  job' \in [Workers -> Locals] /\ InputOK'
  BY DEF TypeInv, TypeOK, InputOK, Set

LEMMA IdleType == Idle \in Locals /\ Idle.pc = "idle" /\ Idle.seen = {}
  BY ProjectionAssumption DEF Idle, Locals

\* A worker moves on without touching its other locals.
LEMMA GotoType ==
    ASSUME TypeInv, NEW w \in Workers,
           NEW pc \in {"merge", "record", "group", "announce"},
           pc = "merge" => job[w].input \in Receipts,
           pc = "record" => job[w].input \in Facts,
           Goto(w, pc)
    PROVE  job' \in [Workers -> Locals] /\ InputOK'
<1>. DEFINE j == [job[w] EXCEPT !.pc = pc]
<1>1. job[w] \in Locals
  BY DEF TypeInv, TypeOK
<1>2. j \in Locals /\ j.pc = pc /\ j.input = job[w].input
  BY <1>1 DEF Locals
<1>3. Set(w, j)
  BY DEF Goto
<1>. HIDE DEF j
<1>. QED BY <1>2, <1>3, SetType

\* A worker moves on and drops what it read, but for what it shows.
LEMMA RestartType ==
    ASSUME TypeInv, NEW w \in Workers, NEW pc \in {"group", "announce"},
           NEW seen \in SUBSET Facts, NEW tries \in 0 .. Attempts - 1,
           Restart(w, pc, seen, tries)
    PROVE  job' \in [Workers -> Locals] /\ InputOK'
<1>. DEFINE j == [Idle EXCEPT !.pc = pc, !.kind = job[w].kind, !.input = job[w].input,
                              !.seen = seen, !.tries = tries]
<1>1. job[w] \in Locals
  BY DEF TypeInv, TypeOK
<1>2. j \in Locals /\ j.pc = pc
  BY <1>1, IdleType DEF Locals
<1>3. Set(w, j)
  BY DEF Restart
<1>. HIDE DEF j
<1>. QED BY <1>2, <1>3, SetType

LEMMA StartType ==
    ASSUME TypeInv, NEW w \in Workers,
           NEW k \in {"receipt", "poll", "backfill"},
           NEW pc \in {"open", "record", "group"},
           NEW i \in Facts \union {NoInput},
           pc = "open" => i \in Receipts, pc = "record" => i \in Facts,
           Set(w, [Idle EXCEPT !.pc = pc, !.kind = k, !.input = i])
    PROVE  job' \in [Workers -> Locals] /\ InputOK'
<1>. DEFINE j == [Idle EXCEPT !.pc = pc, !.kind = k, !.input = i]
<1>1. j \in Locals /\ j.pc = pc /\ j.input = i
  BY IdleType DEF Locals
<1>. HIDE DEF j
<1>. QED BY <1>1, SetType DEF j

LEMMA FinishType ==
    ASSUME TypeInv, NEW w \in Workers, Finish(w)
    PROVE  job' \in [Workers -> Locals] /\ InputOK' /\ todo' \subseteq Receipts
  BY IdleType, SetType DEF Finish, TypeInv, TypeOK

LEMMA TypeInit == Init => TypeInv
<1>. SUFFICES ASSUME Init PROVE TypeInv
  OBVIOUS
<1>1. job \in [Workers -> Locals] /\ InputOK
  BY IdleType DEF Init, InputOK
<1>2. deaths \in 0 .. MaxDeaths
  BY ProjectionAssumption DEF Init
<1>. QED BY <1>1, <1>2 DEF Init, TypeInv, TypeOK

LEMMA TypeStart ==
    ASSUME TypeInv, NEW w \in Workers,
           \/ \E r \in Receipts : Take(w, r)
           \/ \E p \in Polls : StartPoll(w, p)
           \/ StartBackfill(w)
    PROVE  TypeInv'
<1>1. CASE \E r \in Receipts : Take(w, r)
 <2>1. PICK r \in Receipts : Take(w, r)
   BY <1>1
 <2>2. job' \in [Workers -> Locals] /\ InputOK'
   BY <2>1, StartType DEF Take, Facts
 <2>. QED BY <2>1, <2>2 DEF Take, group, TypeInv, TypeOK
<1>2. CASE \E p \in Polls : StartPoll(w, p)
 <2>1. PICK p \in Polls : StartPoll(w, p)
   BY <1>2
 <2>2. job' \in [Workers -> Locals] /\ InputOK'
   BY <2>1, StartType DEF StartPoll, Facts
 <2>. QED BY <2>1, <2>2 DEF StartPoll, group, TypeInv, TypeOK
<1>3. CASE StartBackfill(w)
 <2>. DEFINE j == [Idle EXCEPT !.pc = "group", !.kind = "backfill"]
 <2>1. j \in Locals /\ j.pc = "group"
   BY IdleType DEF Locals
 <2>2. job' \in [Workers -> Locals] /\ InputOK'
  <3>. Set(w, j)
    BY <1>3 DEF StartBackfill
  <3>. HIDE DEF j
  <3>. QED BY <2>1, SetType
 <2>. QED BY <1>3, <2>2 DEF StartBackfill, group, TypeInv, TypeOK
<1>. QED BY <1>1, <1>2, <1>3

LEMMA TypePrepare ==
    ASSUME TypeInv, NEW w \in Workers, Open(w) \/ Merge(w) \/ Record(w)
    PROVE  TypeInv'
<1>1. CASE Open(w)
 <2>1. job' \in [Workers -> Locals] /\ InputOK'
   BY <1>1, GotoType DEF Open, TypeInv, InputOK
 <2>. QED BY <1>1, <2>1 DEF Open, TypeInv, TypeOK
<1>2. CASE Merge(w)
 <2>1. job[w].input \in Receipts
   BY <1>2 DEF Merge, TypeInv, InputOK
 <2>2. job' \in [Workers -> Locals] /\ InputOK'
   BY <1>2, <2>1, GotoType DEF Merge, Facts
 <2>. QED BY <1>2, <2>1, <2>2 DEF Merge, TypeInv, TypeOK
<1>3. CASE Record(w)
 <2>1. job' \in [Workers -> Locals] /\ InputOK'
   BY <1>3, GotoType DEF Record
 <2>2. job[w].input \in Facts
   BY <1>3 DEF Record, TypeInv, InputOK
 <2>. QED BY <1>3, <2>1, <2>2 DEF Record, group, TypeInv, TypeOK
<1>. QED BY <1>1, <1>2, <1>3

LEMMA TypeRebuild ==
    ASSUME TypeInv, NEW w \in Workers, Rebuild(w)
    PROVE  TypeInv'
<1>. job[w] \in Locals
  BY DEF TypeInv, TypeOK
<1>1. CASE ReadGroup(w)
 <2>. DEFINE j == [job[w] EXCEPT !.pc = "versions", !.revision = revision,
                                 !.receipts = receipts]
 <2>1. j \in Locals /\ j.pc = "versions"
   BY DEF TypeInv, TypeOK, Locals
 <2>2. Set(w, j)
   BY <1>1 DEF ReadGroup
 <2>. HIDE DEF j
 <2>3. job' \in [Workers -> Locals] /\ InputOK'
   BY <2>1, <2>2, SetType
 <2>. QED BY <1>1, <2>3 DEF ReadGroup, group, TypeInv, TypeOK
<1>2. CASE ReadVersions(w)
 <2>. DEFINE j == [job[w] EXCEPT !.pc = "sessions", !.seen = recorded \intersect Audits]
 <2>1. j \in Locals /\ j.pc = "sessions"
   BY DEF TypeInv, TypeOK, Locals
 <2>2. Set(w, j)
   BY <1>2 DEF ReadVersions
 <2>. HIDE DEF j
 <2>3. job' \in [Workers -> Locals] /\ InputOK'
   BY <2>1, <2>2, SetType
 <2>. QED BY <1>2, <2>3 DEF ReadVersions, group, TypeInv, TypeOK
<1>3. CASE ReadSessions(w)
 <2>. DEFINE j == [job[w] EXCEPT !.pc = "write", !.seen = @ \union (recorded \ Audits)]
 <2>1. j \in Locals /\ j.pc = "write"
   BY DEF TypeInv, TypeOK, Locals
 <2>2. Set(w, j)
   BY <1>3 DEF ReadSessions
 <2>. HIDE DEF j
 <2>3. job' \in [Workers -> Locals] /\ InputOK'
   BY <2>1, <2>2, SetType
 <2>. QED BY <1>3, <2>3 DEF ReadSessions, group, TypeInv, TypeOK
<1>4. CASE Store(w)
 <2>1. job[w].receipts \subseteq Receipts /\ job[w].seen \subseteq Facts
   BY DEF Locals
 <2>2. job' \in [Workers -> Locals] /\ InputOK'
  <3>1. 0 \in 0 .. Attempts - 1
    BY ProjectionAssumption
  <3>2. Restart(w, "announce", job[w].seen, 0)
    BY <1>4 DEF Store
  <3>. QED BY <2>1, <3>1, <3>2, RestartType
 <2>. QED BY <1>4, <2>1, <2>2 DEF Store, TypeInv, TypeOK
<1>5. CASE Contend(w)
 <2>1. CASE Finish(w)
   BY <1>5, <2>1, FinishType DEF Contend, group, TypeInv, TypeOK
 <2>2. CASE /\ job[w].tries + 1 # Attempts
            /\ Restart(w, "group", {}, job[w].tries + 1)
            /\ UNCHANGED todo
  <3>1. job[w].tries + 1 \in 0 .. Attempts - 1
    BY <2>2, ProjectionAssumption DEF Locals
  <3>2. job' \in [Workers -> Locals] /\ InputOK'
    BY <2>2, <3>1, RestartType
  <3>. QED BY <1>5, <2>2, <3>2 DEF Contend, group, TypeInv, TypeOK
 <2>. QED BY <1>5, <2>1, <2>2 DEF Contend
<1>6. CASE Announce(w)
 <2>1. alerted' \in BOOLEAN
   BY <1>6, Zenon DEF Announce
 <2>2. job' \in [Workers -> Locals] /\ InputOK' /\ todo' \subseteq Receipts
   BY <1>6, FinishType DEF Announce
 <2>. QED BY <1>6, <2>1, <2>2 DEF Announce, group, TypeInv, TypeOK
<1>. QED BY <1>1, <1>2, <1>3, <1>4, <1>5, <1>6 DEF Rebuild

LEMMA TypeCrash ==
    ASSUME TypeInv, NEW w \in Workers, Crash(w)
    PROVE  TypeInv'
<1>1. job' \in [Workers -> Locals] /\ InputOK'
  BY IdleType, SetType DEF Crash
<1>2. deaths' \in 0 .. MaxDeaths
  BY ProjectionAssumption DEF Crash, TypeInv, TypeOK
<1>. QED BY <1>1, <1>2 DEF Crash, group, TypeInv, TypeOK

LEMMA TypeStep == TypeInv /\ [Next]_vars => TypeInv'
<1>. SUFFICES ASSUME TypeInv, [Next]_vars PROVE TypeInv'
  OBVIOUS
<1>1. CASE UNCHANGED vars
  BY <1>1 DEF vars, group, TypeInv, TypeOK, InputOK
<1>2. CASE Next
  BY <1>2, TypeStart, TypePrepare, TypeRebuild, TypeCrash DEF Next
<1>. QED BY <1>1, <1>2

\* Every variable keeps its type: a job is always between two database calls
\* and never tries more than _PROJECTION_ATTEMPTS times.
THEOREM TypeCorrect == Spec => []TypeOK
<1>1. TypeInv => TypeOK
  BY DEF TypeInv
<1>. QED BY TypeInit, TypeStep, <1>1, PTL DEF Spec
-----------------------------------------------------------------------------
\* A step of one worker keeps what the others' rebuilds hold: either the group
\* is untouched and the sources only grew, or the revision moved past theirs.
LEMMA JobsStep ==
    ASSUME Inv, NEW w \in Workers, NEW j,
           Set(w, j),
           JobOK(j, recorded', revision', receipts', picture'),
           recorded \subseteq recorded',
           \/ UNCHANGED <<revision, receipts, picture>>
           \/ revision' = revision + 1
    PROVE  JobsOK'
<1>1. SUFFICES ASSUME NEW v \in Workers
               PROVE  JobOK(job'[v], recorded', revision', receipts', picture')
  BY DEF JobsOK
<1>2. CASE v = w
 <2>1. job'[v] = j
   BY <1>2 DEF Set, Inv, TypeInv, TypeOK
 <2>. QED BY <2>1
<1>3. CASE v # w
 <2>1. job'[v] = job[v] /\ job[v] \in Locals
   BY <1>3 DEF Set, Inv, TypeInv, TypeOK
 <2>2. JobOK(job[v], recorded, revision, receipts, picture)
   BY DEF Inv, JobsOK
 <2>3. job[v].revision \in Nat /\ revision \in Nat
   BY <2>1 DEF Locals, Inv, TypeInv, TypeOK
 <2>4. CASE UNCHANGED <<revision, receipts, picture>>
   BY <2>1, <2>2, <2>4 DEF JobOK
 <2>5. CASE revision' = revision + 1
   BY <2>1, <2>2, <2>3, <2>5 DEF JobOK
 <2>. QED BY <2>4, <2>5
<1>. QED BY <1>2, <1>3

\* Outside a rebuild's reads a job only has to have read what is on record.
LEMMA Elsewhere ==
    ASSUME NEW j, NEW rec, NEW rev, NEW rcp, NEW pic,
           j.pc \notin {"versions", "sessions", "write"}, j.seen \subseteq rec
    PROVE  JobOK(j, rec, rev, rcp, pic)
  BY DEF JobOK

LEMMA IdleStep ==
    ASSUME Inv, NEW w \in Workers, Set(w, Idle),
           UNCHANGED <<recorded, revision, receipts, picture>>
    PROVE  JobsOK'
<1>1. JobOK(Idle, recorded', revision', receipts', picture')
  BY IdleType, Elsewhere
<1>. QED BY <1>1, JobsStep

LEMMA GotoStep ==
    ASSUME Inv, NEW w \in Workers,
           NEW pc \in {"merge", "record", "group", "announce"},
           Goto(w, pc),
           recorded \subseteq recorded',
           \/ UNCHANGED <<revision, receipts, picture>>
           \/ revision' = revision + 1
    PROVE  JobsOK'
<1>. DEFINE j == [job[w] EXCEPT !.pc = pc]
<1>1. job[w] \in Locals /\ job[w].seen \subseteq recorded
  BY DEF Inv, TypeInv, TypeOK, JobsOK, JobOK
<1>2. j.pc = pc /\ j.seen = job[w].seen /\ Set(w, j)
  BY <1>1 DEF Locals, Goto
<1>. HIDE DEF j
<1>3. JobOK(j, recorded', revision', receipts', picture')
  BY <1>1, <1>2, Elsewhere
<1>. QED BY <1>2, <1>3, JobsStep

LEMMA RestartStep ==
    ASSUME Inv, NEW w \in Workers, NEW pc \in {"group", "announce"},
           NEW seen, seen \subseteq recorded, NEW tries,
           Restart(w, pc, seen, tries),
           recorded \subseteq recorded',
           \/ UNCHANGED <<revision, receipts, picture>>
           \/ revision' = revision + 1
    PROVE  JobsOK'
<1>. DEFINE j == [Idle EXCEPT !.pc = pc, !.kind = job[w].kind, !.input = job[w].input,
                              !.seen = seen, !.tries = tries]
<1>1. j.pc = pc /\ j.seen = seen /\ Set(w, j)
  BY DEF Idle, Restart
<1>. HIDE DEF j
<1>2. JobOK(j, recorded', revision', receipts', picture')
  BY <1>1, Elsewhere
<1>. QED BY <1>1, <1>2, JobsStep

LEMMA StartStep ==
    ASSUME Inv, NEW w \in Workers,
           \/ \E r \in Receipts : Take(w, r)
           \/ \E p \in Polls : StartPoll(w, p)
           \/ StartBackfill(w)
    PROVE  picture' \subseteq recorded' /\ JobsOK'
<1>1. PICK j : /\ Set(w, j)
               /\ j.pc \notin {"versions", "sessions", "write"}
               /\ j.seen = {}
 <2>1. CASE \E r \in Receipts : Take(w, r)
  <3>1. PICK r \in Receipts : Take(w, r)
    BY <2>1
  <3>. DEFINE j == [Idle EXCEPT !.pc = "open", !.kind = "receipt", !.input = r]
  <3>2. Set(w, j) /\ j.pc = "open" /\ j.seen = {}
    BY <3>1 DEF Take, Idle
  <3>. QED BY <3>2
 <2>2. CASE \E p \in Polls : StartPoll(w, p)
  <3>1. PICK p \in Polls : StartPoll(w, p)
    BY <2>2
  <3>. DEFINE j == [Idle EXCEPT !.pc = "record", !.kind = "poll", !.input = p]
  <3>2. Set(w, j) /\ j.pc = "record" /\ j.seen = {}
    BY <3>1 DEF StartPoll, Idle
  <3>. QED BY <3>2
 <2>3. CASE StartBackfill(w)
  <3>. DEFINE j == [Idle EXCEPT !.pc = "group", !.kind = "backfill"]
  <3>1. Set(w, j) /\ j.pc = "group" /\ j.seen = {}
    BY <2>3 DEF StartBackfill, Idle
  <3>. QED BY <3>1
 <2>. QED BY <2>1, <2>2, <2>3
<1>2. UNCHANGED <<recorded, revision, receipts, picture>>
  BY DEF Take, StartPoll, StartBackfill, group
<1>3. JobOK(j, recorded', revision', receipts', picture')
  BY <1>1, Elsewhere
<1>. QED BY <1>1, <1>2, <1>3, JobsStep DEF Inv

LEMMA PrepareStep ==
    ASSUME Inv, NEW w \in Workers, Open(w) \/ Merge(w) \/ Record(w)
    PROVE  picture' \subseteq recorded' /\ JobsOK'
<1>1. CASE Open(w)
  BY <1>1, GotoStep DEF Open, Inv
<1>2. CASE Merge(w)
  BY <1>2, GotoStep DEF Merge, Inv
<1>3. CASE Record(w)
  BY <1>3, GotoStep DEF Record, group, Inv
<1>. QED BY <1>1, <1>2, <1>3

\* The rebuild that may write has the receipts and the picture it replaces.
LEMMA StoreGrows ==
    ASSUME Inv, NEW w \in Workers, Store(w)
    PROVE  /\ picture \subseteq picture'
           /\ receipts \subseteq receipts'
           /\ picture' \subseteq recorded
<1>1. JobOK(job[w], recorded, revision, receipts, picture)
  BY DEF Inv, JobsOK
<1>. QED BY <1>1 DEF Store, Current, JobOK

LEMMA RebuildStep ==
    ASSUME Inv, NEW w \in Workers, Rebuild(w)
    PROVE  picture' \subseteq recorded' /\ JobsOK'
<1>. job[w] \in Locals /\ JobOK(job[w], recorded, revision, receipts, picture)
  BY DEF Inv, TypeInv, TypeOK, JobsOK
<1>. revision \in Nat
  BY DEF Inv, TypeInv, TypeOK
<1>1. CASE ReadGroup(w)
 <2>. DEFINE j == [job[w] EXCEPT !.pc = "versions", !.revision = revision,
                                 !.receipts = receipts]
 <2>1. Set(w, j) /\ UNCHANGED <<recorded, revision, receipts, picture>>
   BY <1>1 DEF ReadGroup, group
 <2>2. /\ j.pc = "versions" /\ j.revision = revision
       /\ j.receipts = receipts /\ j.seen = job[w].seen
   BY DEF Locals
 <2>. HIDE DEF j
 <2>3. JobOK(j, recorded', revision', receipts', picture')
   BY <2>1, <2>2 DEF JobOK
 <2>. QED BY <2>1, <2>3, JobsStep DEF Inv
<1>2. CASE ReadVersions(w)
 <2>. DEFINE j == [job[w] EXCEPT !.pc = "sessions", !.seen = recorded \intersect Audits]
 <2>1. Set(w, j) /\ UNCHANGED <<recorded, revision, receipts, picture>>
   BY <1>2 DEF ReadVersions, group
 <2>2. /\ j.pc = "sessions" /\ j.revision = job[w].revision
       /\ j.receipts = job[w].receipts /\ j.seen = recorded \intersect Audits
   BY DEF Locals
 <2>. HIDE DEF j
 <2>3. job[w].pc = "versions" /\ picture \subseteq recorded
   BY <1>2 DEF ReadVersions, Inv
 <2>4. JobOK(j, recorded', revision', receipts', picture')
   BY <2>1, <2>2, <2>3 DEF JobOK
 <2>. QED BY <2>1, <2>4, JobsStep DEF Inv
<1>3. CASE ReadSessions(w)
 <2>. DEFINE j == [job[w] EXCEPT !.pc = "write", !.seen = @ \union (recorded \ Audits)]
 <2>1. Set(w, j) /\ UNCHANGED <<recorded, revision, receipts, picture>>
   BY <1>3 DEF ReadSessions, group
 <2>2. /\ j.pc = "write" /\ j.revision = job[w].revision
       /\ j.receipts = job[w].receipts
       /\ j.seen = job[w].seen \union (recorded \ Audits)
   BY DEF Locals
 <2>. HIDE DEF j
 <2>3. job[w].pc = "sessions" /\ picture \subseteq recorded
   BY <1>3 DEF ReadSessions, Inv
 <2>4. JobOK(j, recorded', revision', receipts', picture')
   BY <2>1, <2>2, <2>3 DEF JobOK
 <2>. QED BY <2>1, <2>4, JobsStep DEF Inv
<1>4. CASE Store(w)
 <2>1. job[w].seen \subseteq recorded
   BY DEF JobOK
 <2>2. JobsOK'
   BY <1>4, <2>1, RestartStep DEF Store
 <2>. QED BY <1>4, <2>2, StoreGrows DEF Store
<1>5. CASE Contend(w)
 <2>1. UNCHANGED <<recorded, revision, receipts, picture>>
   BY <1>5 DEF Contend, group
 <2>2. CASE Set(w, Idle)
   BY <2>1, <2>2, IdleStep DEF Inv
 <2>3. CASE Restart(w, "group", {}, job[w].tries + 1)
   BY <2>1, <2>3, RestartStep DEF Inv
 <2>. QED BY <1>5, <2>2, <2>3 DEF Contend, Finish
<1>6. CASE Announce(w)
  BY <1>6, IdleStep DEF Announce, Finish, group, Inv
<1>. QED BY <1>1, <1>2, <1>3, <1>4, <1>5, <1>6 DEF Rebuild

LEMMA InvInit == Init => Inv
<1>. SUFFICES ASSUME Init PROVE Inv
  OBVIOUS
<1>1. JobsOK
  BY IdleType, Elsewhere DEF Init, JobsOK
<1>. QED BY <1>1, TypeInit DEF Init, Inv

LEMMA InvStep == Inv /\ [Next]_vars => Inv'
<1>. SUFFICES ASSUME Inv, [Next]_vars PROVE Inv'
  OBVIOUS
<1>1. TypeInv'
  BY TypeStep DEF Inv
<1>2. picture' \subseteq recorded' /\ JobsOK'
 <2>1. CASE UNCHANGED vars
   BY <2>1 DEF vars, group, Inv, JobsOK
 <2>2. ASSUME NEW w \in Workers, Crash(w)
       PROVE  picture' \subseteq recorded' /\ JobsOK'
   BY <2>2, IdleStep DEF Crash, group, Inv
 <2>3. CASE Next
   BY <2>2, <2>3, StartStep, PrepareStep, RebuildStep DEF Next
 <2>. QED BY <2>1, <2>3
<1>. QED BY <1>1, <1>2 DEF Inv

LEMMA NextGrows ==
    ASSUME Inv, [Next]_vars
    PROVE  picture \subseteq picture' /\ receipts \subseteq receipts'
<1>1. CASE UNCHANGED vars
  BY <1>1 DEF vars, group
<1>2. ASSUME NEW w \in Workers, Rebuild(w)
      PROVE  picture \subseteq picture' /\ receipts \subseteq receipts'
 <2>1. CASE Store(w)
   BY <2>1, StoreGrows
 <2>2. CASE ~Store(w)
   BY <1>2, <2>2
   DEF Rebuild, ReadGroup, ReadVersions, ReadSessions, Contend, Announce, group
 <2>. QED BY <2>1, <2>2
<1>3. ASSUME NEW w \in Workers,
             \/ \E r \in Receipts : Take(w, r)
             \/ \E p \in Polls : StartPoll(w, p)
             \/ StartBackfill(w)
             \/ Open(w) \/ Merge(w) \/ Record(w) \/ Crash(w)
      PROVE  picture \subseteq picture' /\ receipts \subseteq receipts'
  BY <1>3 DEF Take, StartPoll, StartBackfill, Open, Merge, Record, Crash, group
<1>. QED BY <1>1, <1>2, <1>3 DEF Next

\* However many workers rebuild one group, however often their writes are
\* contended and their workers lost, a stored picture is only replaced by one
\* that has everything it had: the slower worker's older picture never lands
\* last.
THEOREM PictureNeverGoesBack == Spec => PictureAdvances
<1>1. Inv /\ [Next]_vars => [picture \subseteq picture']_vars
  BY NextGrows
<1>. QED BY <1>1, InvInit, InvStep, PTL DEF Spec, PictureAdvances

\* No rebuild replaces what a delivery merged into the group with the copy it
\* read before that delivery arrived.
THEOREM MergesAreNeverLost == Spec => MergesAreKept
<1>1. Inv /\ [Next]_vars => [receipts \subseteq receipts']_vars
  BY NextGrows
<1>. QED BY <1>1, InvInit, InvStep, PTL DEF Spec, MergesAreKept

-----------------------------------------------------------------------------
\* The picture is complete.  A rebuild gives up after Attempts contended
\* writes, so what makes a fact on record reach the picture is never one job:
\* it is that every write of the group that did not show the fact was a merge
\* whose own job has its tries before it, or was read before the fact was
\* recorded, by a rebuild that can write but once.

\* What is on record and the picture does not show.
Missing == recorded \ picture
Early == {"open", "merge"}
Reads == {"versions", "sessions", "write"}

\* The reads of a rebuild show fact f, if it is on record.
WillSee(j, f) ==
    CASE j.pc = "versions" -> TRUE
      [] j.pc = "sessions" -> f \in j.seen \/ f \notin Audits
      [] j.pc = "write" -> f \in j.seen

\* Job j, at revision rev, will show f although the group is written k more times.
Shows(j, f, k, rev) ==
    \/ j.pc \in {"record", "group"} /\ j.tries + k < Attempts
    \/ j.pc \in Reads /\ j.revision = rev /\ WillSee(j, f) /\ j.tries + k < Attempts
    \/ j.pc \in Reads /\ j.revision # rev /\ j.tries + 1 + k < Attempts
Live(w, f, k) == Shows(job[w], f, k, revision)

\* Receipt r is not processed, and none of its jobs will end without showing f.
Pending(r, f, k) ==
    /\ r \in todo
    /\ \A w \in Workers : job[w].input = r => job[w].pc \in Early \/ Live(w, f, k)

\* Whoever is lost, f will be shown.
Kept(f, k) ==
    \/ \E w \in Workers \ Mortal : Live(w, f, k)
    \/ \E r \in Receipts : Pending(r, f, k)

\* f will be shown although all the workers are lost that still may be.
Safe(f) ==
    \/ Kept(f, 1)
    \/ \E w \in Workers :
          /\ Live(w, f, 1)
          /\ Kept(f, 0) \/ \E u \in Workers \ {w} : Live(u, f, 0)
    \/ deaths = MaxDeaths /\ (Kept(f, 0) \/ \E w \in Workers : Live(w, f, 0))

\* The rebuild of worker w may still write the group, without f.
Unseen(w, f) ==
    job[w].pc \in Reads /\ job[w].revision = revision /\ ~WillSee(job[w], f)

\* It will, and a rebuild that has not read it and may write costs one try more.
MissingOK ==
    \A f \in Missing :
        /\ Safe(f)
        /\ \A w \in Workers : Unseen(w, f) => Kept(f, 2)

\* A processed receipt is merged and on record, and so is one whose job is past that.
StoredOK ==
    /\ \A r \in Receipts \ todo : r \in recorded /\ r \in receipts
    /\ \A w \in Workers : job[w].input \in Receipts =>
          /\ job[w].pc \notin Early => job[w].input \in receipts
          /\ job[w].pc \notin Early \union {"record"} => job[w].input \in recorded
    /\ \A w \in Workers :
          /\ job[w].pc \in Early \union {"record"} => job[w].tries = 0
          /\ job[w].input \in Polls => w \in Pollers

CInv == Inv /\ StoredOK /\ MissingOK

\* One webhook worker is lost at most; a poll's never is.
Bounds == Attempts > 2 /\ MaxDeaths <= 1 /\ Mortal \subseteq Receivers

\* A job that stands k writes stands fewer.
LEMMA LiveLess ==
    ASSUME TypeInv, NEW w \in Workers, NEW f, NEW k \in Nat, NEW l \in Nat, l <= k, Live(w, f, k)
    PROVE  Live(w, f, l)
<1>1. job[w].tries \in Nat /\ Attempts \in Nat
  BY ProjectionAssumption DEF TypeInv, TypeOK, Locals
<1>. QED BY <1>1 DEF Live, Shows

LEMMA KeptLess ==
    ASSUME TypeInv, NEW f, NEW k \in Nat, NEW l \in Nat, l <= k, Kept(f, k)
    PROVE  Kept(f, l)
  BY LiveLess DEF Kept, Pending

\* What a step of worker x that does not write the group does to the witnesses of f.
QuietMove(x, f) ==
    /\ \A k \in 0 .. 2 : Live(x, f, k) => Live(x, f, k)'
    /\ job'[x].input \in Receipts =>
          job'[x].pc \in Early \/ (job'[x].input = job[x].input /\ job[x].pc \notin Early)
    /\ \/ UNCHANGED todo
       \/ todo' = todo \ {job[x].input} /\ job[x].pc \notin Early /\ ~Live(x, f, 0)

\* Such a step leaves the fact as safe as it was.
LEMMA QuietSafe ==
    ASSUME TypeInv, NEW x \in Workers, NEW f, UNCHANGED <<revision, deaths>>,
           \A w \in Workers \ {x} : job'[w] = job[w], QuietMove(x, f)
    PROVE  (Safe(f) => Safe(f)') /\ (Kept(f, 2) => Kept(f, 2)')
<1>1. ASSUME NEW k \in 0 .. 2, NEW w \in Workers, Live(w, f, k) PROVE Live(w, f, k)'
  BY <1>1 DEF QuietMove, Live
<1>2. ASSUME NEW k \in 0 .. 2, NEW r \in Receipts, Pending(r, f, k) PROVE Pending(r, f, k)'
 <2>1. r \in todo'
  <3>1. CASE job[x].input = r /\ job[x].pc \notin Early
   <4>1. Live(x, f, k)
     BY <1>2, <3>1 DEF Pending
   <4>. QED BY <4>1, <1>2, LiveLess DEF QuietMove, Pending
  <3>. QED BY <1>2, <3>1 DEF QuietMove, Pending
 <2>2. ASSUME NEW w \in Workers, job'[w].input = r
       PROVE  job'[w].pc \in Early \/ Live(w, f, k)'
  <3>1. CASE w # x
    BY <1>1, <1>2, <2>2, <3>1 DEF Pending
  <3>2. CASE w = x
    BY <1>1, <1>2, <2>2, <3>2 DEF Pending, QuietMove
  <3>. QED BY <3>1, <3>2
 <2>. QED BY <2>1, <2>2 DEF Pending
<1>3. ASSUME NEW k \in 0 .. 2, Kept(f, k) PROVE Kept(f, k)'
  BY <1>1, <1>2, <1>3 DEF Kept
<1>4. 0 \in 0 .. 2 /\ 1 \in 0 .. 2 /\ 2 \in 0 .. 2
  OBVIOUS
<1>5. ASSUME Safe(f) PROVE Safe(f)'
 <2>1. CASE Kept(f, 1)
   BY <1>3, <1>4, <2>1 DEF Safe
 <2>2. ASSUME NEW w \in Workers, Live(w, f, 1),
              Kept(f, 0) \/ \E u \in Workers \ {w} : Live(u, f, 0)
       PROVE  Safe(f)'
   BY <1>1, <1>3, <1>4, <2>2 DEF Safe
 <2>3. CASE deaths = MaxDeaths /\ (Kept(f, 0) \/ \E w \in Workers : Live(w, f, 0))
   BY <1>1, <1>3, <1>4, <2>3 DEF Safe
 <2>. QED BY <1>5, <2>1, <2>2, <2>3 DEF Safe
<1>. QED BY <1>3, <1>4, <1>5

\* A write of the group costs every other job at most one of its tries.
LEMMA BumpLive ==
    ASSUME TypeInv, JobsOK, NEW f, NEW k \in Nat, revision' = revision + 1,
           NEW w \in Workers, job'[w] = job[w], Live(w, f, k + 1)
    PROVE  Live(w, f, k)'
<1>1. job[w] \in Locals /\ job[w].tries \in Nat /\ Attempts \in Nat
      /\ revision \in Nat /\ job[w].revision \in Nat
  BY ProjectionAssumption DEF TypeInv, TypeOK, Locals
<1>2. job[w].pc \in Reads => job[w].revision <= revision
  BY DEF JobsOK, JobOK, Reads
<1>. QED BY <1>1, <1>2 DEF Live, Shows

\* The write is a merge: its own job has every try before it.
LEMMA MergeSafe ==
    ASSUME TypeInv, JobsOK, Bounds, NEW x \in Workers, NEW f, Safe(f),
           revision' = revision + 1, UNCHANGED <<todo, deaths>>,
           \A w \in Workers \ {x} : job'[w] = job[w],
           job[x].pc = "merge", job'[x].pc = "record", job'[x].tries = 0
    PROVE  Safe(f)'
<1>1. \A k \in 0 .. 2 : Live(x, f, k)'
  BY ProjectionAssumption DEF Bounds, Live, Shows
<1>2. \A k \in 0 .. 2 : ~Live(x, f, k)
  BY DEF Live, Shows, Reads
<1>3. ASSUME NEW k \in 0 .. 1, NEW w \in Workers, Live(w, f, k + 1) PROVE w # x /\ Live(w, f, k)'
  BY <1>2, <1>3, BumpLive
<1>4. ASSUME Kept(f, 1) PROVE Kept(f, 0)'
  BY <1>1, <1>3, <1>4 DEF Kept, Pending
<1>5. 0 \in 0 .. 1 /\ 1 \in 0 .. 1 /\ 1 \in 0 .. 2 /\ 0 + 1 = 1
  OBVIOUS
<1>6. CASE Kept(f, 1)
  BY <1>1, <1>4, <1>5, <1>6 DEF Safe
<1>7. ASSUME NEW w \in Workers, Live(w, f, 1) PROVE Safe(f)'
  BY <1>1, <1>3, <1>5, <1>7 DEF Safe
<1>8. CASE deaths = MaxDeaths
  BY <1>1, <1>8 DEF Safe
<1>. QED BY <1>6, <1>7, <1>8 DEF Safe

\* The write is a rebuild's that has not seen f: somebody will show it.
LEMMA StoreSafe ==
    ASSUME TypeInv, JobsOK, NEW x \in Workers, NEW f, Kept(f, 2),
           revision' = revision + 1, UNCHANGED <<todo, deaths>>,
           \A w \in Workers \ {x} : job'[w] = job[w],
           job[x].pc = "write", job[x].revision = revision, f \notin job[x].seen,
           job'[x].input = job[x].input
    PROVE  Safe(f)'
<1>1. ~Live(x, f, 2) /\ job[x].pc \notin Early
  BY DEF Live, Shows, WillSee, Early
<1>2. ASSUME NEW w \in Workers, Live(w, f, 2) PROVE Live(w, f, 1)'
  BY <1>1, <1>2, BumpLive
<1>3. Kept(f, 1)'
  BY <1>1, <1>2 DEF Kept, Pending
<1>. QED BY <1>3 DEF Safe

\* One webhook worker may be lost.
LEMMA CrashSafe ==
    ASSUME TypeInv, Bounds, NEW x \in Workers, NEW f, Safe(f), Crash(x)
    PROVE  Safe(f)'
<1>1. /\ x \in Mortal /\ job' = [job EXCEPT ![x] = Idle] /\ UNCHANGED <<todo, revision>>
      /\ deaths # MaxDeaths /\ deaths' = MaxDeaths
  BY ProjectionAssumption DEF Crash, Set, Bounds, TypeInv, TypeOK, group
<1>2. \A w \in Workers \ {x} : job'[w] = job[w]
  BY <1>1 DEF TypeInv, TypeOK
<1>3. job'[x] = Idle /\ Idle.input \notin Receipts
  BY <1>1, ProjectionAssumption DEF TypeInv, TypeOK, Idle, Facts
<1>4. ASSUME NEW k \in 0 .. 2, NEW w \in Workers \ {x}, Live(w, f, k) PROVE Live(w, f, k)'
  BY <1>1, <1>2, <1>4 DEF Live
<1>5. ASSUME NEW k \in 0 .. 1, Kept(f, k) PROVE Kept(f, 0)'
 <2>1. Kept(f, 0)
   BY <1>5, KeptLess
 <2>. QED BY <1>1, <1>2, <1>3, <1>4, <2>1 DEF Kept, Pending
<1>6. ASSUME NEW w \in Workers, Live(w, f, 1), NEW u \in Workers \ {w}, Live(u, f, 0)
      PROVE  \E v \in Workers : Live(v, f, 0)'
 <2>1. Live(w, f, 0)
   BY <1>6, LiveLess
 <2>. QED BY <1>4, <1>6, <2>1
<1>7. Kept(f, 0)' \/ \E v \in Workers : Live(v, f, 0)'
  BY <1>1, <1>5, <1>6 DEF Safe
<1>. QED BY <1>1, <1>7 DEF Safe

\* A worker that takes a receipt, a poll or the backfill.
LEMMA StartQuiet ==
    ASSUME CInv, NEW x \in Workers, NEW f,
           \/ \E r \in Receipts : Take(x, r)
           \/ \E p \in Polls : StartPoll(x, p)
           \/ StartBackfill(x)
    PROVE  /\ UNCHANGED <<revision, deaths>> /\ (\A w \in Workers \ {x} : job'[w] = job[w])
           /\ QuietMove(x, f) /\ ~Unseen(x, f)'
<1>1. job[x] = Idle /\ Idle.pc = "idle" /\ UNCHANGED <<todo, revision, deaths>>
  BY IdleType DEF Take, StartPoll, StartBackfill, group
<1>2. PICK j : /\ job' = [job EXCEPT ![x] = j] /\ j.pc \in {"open", "record", "group"}
               /\ j.pc = "open" \/ j.input \notin Receipts
 <2>1. CASE \E r \in Receipts : Take(x, r)
  <3>1. PICK r \in Receipts : Take(x, r)
    BY <2>1
  <3>. DEFINE j == [Idle EXCEPT !.pc = "open", !.kind = "receipt", !.input = r]
  <3>2. job' = [job EXCEPT ![x] = j] /\ j.pc = "open"
    BY <3>1 DEF Take, Set, Idle
  <3>. QED BY <3>2
 <2>2. CASE \E p \in Polls : StartPoll(x, p)
  <3>1. PICK p \in Polls : StartPoll(x, p)
    BY <2>2
  <3>. DEFINE j == [Idle EXCEPT !.pc = "record", !.kind = "poll", !.input = p]
  <3>2. job' = [job EXCEPT ![x] = j] /\ j.pc = "record" /\ j.input = p
    BY <3>1 DEF StartPoll, Set, Idle
  <3>. QED BY <3>2, ProjectionAssumption DEF Receipts
 <2>3. CASE StartBackfill(x)
  <3>. DEFINE j == [Idle EXCEPT !.pc = "group", !.kind = "backfill"]
  <3>1. job' = [job EXCEPT ![x] = j] /\ j.pc = "group" /\ j.input = NoInput
    BY <2>3 DEF StartBackfill, Set, Idle
  <3>. QED BY <3>1, ProjectionAssumption DEF Facts
 <2>. QED BY <2>1, <2>2, <2>3
<1>3. job \in [Workers -> Locals]
  BY DEF CInv, Inv, TypeInv, TypeOK
<1>4. job'[x] = j /\ \A w \in Workers \ {x} : job'[w] = job[w]
  BY <1>2, <1>3
<1>5. \A k \in 0 .. 2 : ~Live(x, f, k)
  BY <1>1 DEF Live, Shows, Reads
<1>6. ~Unseen(x, f)'
  BY <1>2, <1>4 DEF Unseen, Reads
<1>7. job'[x].input \in Receipts => job'[x].pc \in Early
  BY <1>2, <1>4 DEF Early
<1>. QED BY <1>1, <1>4, <1>5, <1>6, <1>7 DEF QuietMove

\* One that opens the group or records its fact.
LEMMA PrepareQuiet ==
    ASSUME CInv, NEW x \in Workers, NEW f, Open(x) \/ Record(x)
    PROVE  /\ UNCHANGED <<revision, deaths>> /\ (\A w \in Workers \ {x} : job'[w] = job[w])
           /\ QuietMove(x, f) /\ ~Unseen(x, f)'
<1>1. UNCHANGED <<todo, revision, deaths>>
  BY DEF Open, Record, group
<1>2. job \in [Workers -> Locals] /\ job[x] \in Locals
  BY DEF CInv, Inv, TypeInv, TypeOK
<1>3. CASE Open(x)
 <2>1. job[x].pc = "open" /\ job' = [job EXCEPT ![x] = [job[x] EXCEPT !.pc = "merge"]]
   BY <1>3 DEF Open, Goto, Set
 <2>2. /\ job'[x].pc = "merge"
       /\ \A w \in Workers \ {x} : job'[w] = job[w]
   BY <1>2, <2>1 DEF Locals
 <2>3. \A k \in 0 .. 2 : ~Live(x, f, k)
   BY <2>1 DEF Live, Shows, Reads
 <2>4. ~Unseen(x, f)'
   BY <2>2 DEF Unseen, Reads
 <2>. QED BY <1>1, <2>2, <2>3, <2>4 DEF QuietMove, Early
<1>4. CASE Record(x)
 <2>1. job[x].pc = "record" /\ job' = [job EXCEPT ![x] = [job[x] EXCEPT !.pc = "group"]]
   BY <1>4 DEF Record, Goto, Set
 <2>2. /\ job'[x].pc = "group" /\ job'[x].tries = job[x].tries /\ job'[x].input = job[x].input
       /\ \A w \in Workers \ {x} : job'[w] = job[w]
   BY <1>2, <2>1 DEF Locals
 <2>3. \A k \in 0 .. 2 : Live(x, f, k) => Live(x, f, k)'
   BY <2>1, <2>2 DEF Live, Shows, Reads
 <2>4. ~Unseen(x, f)' /\ job[x].pc \notin Early
   BY <2>1, <2>2 DEF Unseen, Reads, Early
 <2>. QED BY <1>1, <2>2, <2>3, <2>4 DEF QuietMove
<1>. QED BY <1>3, <1>4

\* One that reads for its rebuild.
LEMMA ReadQuiet ==
    ASSUME CInv, NEW x \in Workers, NEW f \in recorded,
           ReadGroup(x) \/ ReadVersions(x) \/ ReadSessions(x)
    PROVE  /\ UNCHANGED <<revision, deaths>> /\ (\A w \in Workers \ {x} : job'[w] = job[w])
           /\ QuietMove(x, f) /\ (Unseen(x, f)' => Unseen(x, f))
<1>1. UNCHANGED <<todo, revision, deaths>>
  BY DEF ReadGroup, ReadVersions, ReadSessions, group
<1>2. job \in [Workers -> Locals] /\ job[x] \in Locals
  BY DEF CInv, Inv, TypeInv, TypeOK
<1>3. /\ job'[x].tries = job[x].tries /\ job'[x].input = job[x].input
      /\ \A w \in Workers \ {x} : job'[w] = job[w]
      /\ \/ job[x].pc = "group" /\ job'[x].pc = "versions" /\ job'[x].revision = revision
         \/ /\ job[x].pc = "versions" /\ job'[x].pc = "sessions"
            /\ job'[x].revision = job[x].revision /\ job'[x].seen = recorded \intersect Audits
         \/ /\ job[x].pc = "sessions" /\ job'[x].pc = "write"
            /\ job'[x].revision = job[x].revision
            /\ job'[x].seen = job[x].seen \union (recorded \ Audits)
 <2>1. CASE ReadGroup(x)
   BY <1>2, <2>1 DEF ReadGroup, Set, Locals
 <2>2. CASE ReadVersions(x)
   BY <1>2, <2>2 DEF ReadVersions, Set, Locals
 <2>3. CASE ReadSessions(x)
   BY <1>2, <2>3 DEF ReadSessions, Set, Locals
 <2>. QED BY <2>1, <2>2, <2>3
<1>4. \A k \in 0 .. 2 : Live(x, f, k) => Live(x, f, k)'
  BY <1>1, <1>3 DEF Live, Shows, Reads, WillSee
<1>5. Unseen(x, f)' => Unseen(x, f)
  BY <1>1, <1>3 DEF Unseen, Reads, WillSee
<1>6. job[x].pc \notin Early
  BY <1>3 DEF Early
<1>. QED BY <1>1, <1>3, <1>4, <1>5, <1>6 DEF QuietMove

\* One whose write is refused, or that is through.
LEMMA EndQuiet ==
    ASSUME CInv, NEW x \in Workers, NEW f, Contend(x) \/ Announce(x)
    PROVE  /\ UNCHANGED <<revision, deaths>> /\ (\A w \in Workers \ {x} : job'[w] = job[w])
           /\ QuietMove(x, f) /\ ~Unseen(x, f)'
<1>1. UNCHANGED <<revision, deaths>>
  BY DEF Contend, Announce, group
<1>2. job \in [Workers -> Locals] /\ job[x] \in Locals /\ job[x].tries \in Nat /\ Attempts \in Nat
  BY ProjectionAssumption DEF CInv, Inv, TypeInv, TypeOK, Locals
<1>3. ASSUME Finish(x), \A k \in 0 .. 2 : ~Live(x, f, k), job[x].pc \notin Early
      PROVE  /\ \A w \in Workers \ {x} : job'[w] = job[w]
             /\ QuietMove(x, f) /\ ~Unseen(x, f)'
 <2>1. job'[x] = Idle /\ \A w \in Workers \ {x} : job'[w] = job[w]
   BY <1>2, <1>3 DEF Finish, Set
 <2>2. Idle.input \notin Receipts /\ Idle.pc = "idle"
   BY ProjectionAssumption DEF Idle, Facts
 <2>3. ~Unseen(x, f)'
   BY <2>1, <2>2 DEF Unseen, Reads
 <2>. QED BY <1>3, <2>1, <2>2, <2>3 DEF Finish, QuietMove
<1>4. CASE Contend(x)
 <2>1. job[x].pc = "write" /\ job[x].revision # revision /\ job[x].pc \notin Early
   BY <1>4 DEF Contend, Current, Early
 <2>2. CASE job[x].tries + 1 = Attempts
  <3>1. \A k \in 0 .. 2 : ~Live(x, f, k)
    BY <1>2, <2>1, <2>2 DEF Live, Shows
  <3>. QED BY <1>1, <1>3, <1>4, <2>1, <2>2, <3>1 DEF Contend
 <2>3. CASE job[x].tries + 1 # Attempts
  <3>1. Restart(x, "group", {}, job[x].tries + 1) /\ UNCHANGED todo
    BY <1>4, <2>3 DEF Contend
  <3>2. /\ job'[x].pc = "group" /\ job'[x].tries = job[x].tries + 1
        /\ job'[x].input = job[x].input /\ \A w \in Workers \ {x} : job'[w] = job[w]
    BY <1>2, <3>1 DEF Restart, Set, Idle
  <3>3. \A k \in 0 .. 2 : Live(x, f, k) => Live(x, f, k)'
    BY <2>1, <3>2 DEF Live, Shows
  <3>4. ~Unseen(x, f)'
    BY <3>2 DEF Unseen, Reads
  <3>. QED BY <1>1, <2>1, <3>1, <3>2, <3>3, <3>4 DEF QuietMove
 <2>. QED BY <2>2, <2>3
<1>5. CASE Announce(x)
 <2>1. job[x].pc = "announce" /\ Finish(x)
   BY <1>5 DEF Announce
 <2>2. (\A k \in 0 .. 2 : ~Live(x, f, k)) /\ job[x].pc \notin Early
   BY <2>1 DEF Live, Shows, Reads, Early
 <2>. QED BY <1>1, <1>3, <2>1, <2>2
<1>. QED BY <1>4, <1>5

\* A fact that was missing stays safe.
LEMMA MissingKept ==
    ASSUME CInv, Bounds, Next, NEW f \in Missing, f \notin picture'
    PROVE  Safe(f)' /\ \A w \in Workers : Unseen(w, f)' => Kept(f, 2)'
<1>1. /\ TypeInv /\ JobsOK /\ f \in recorded /\ Safe(f)
      /\ job \in [Workers -> Locals] /\ revision \in Nat
      /\ \A w \in Workers : Unseen(w, f) => Kept(f, 2)
  BY DEF CInv, Inv, MissingOK, Missing, TypeInv, TypeOK
<1>2. ASSUME NEW x \in Workers, UNCHANGED <<revision, deaths>>,
             \A w \in Workers \ {x} : job'[w] = job[w],
             QuietMove(x, f), Unseen(x, f)' => Unseen(x, f)
      PROVE  Safe(f)' /\ \A w \in Workers : Unseen(w, f)' => Kept(f, 2)'
 <2>1. (Safe(f) => Safe(f)') /\ (Kept(f, 2) => Kept(f, 2)')
   BY <1>1, <1>2, QuietSafe
 <2>2. \A w \in Workers : Unseen(w, f)' => Unseen(w, f)
   BY <1>2 DEF Unseen
 <2>. QED BY <1>1, <2>1, <2>2
<1>3. ASSUME NEW x \in Workers, revision' = revision + 1, job'[x].pc \notin Reads,
             \A w \in Workers \ {x} : job'[w] = job[w]
      PROVE  \A w \in Workers : ~Unseen(w, f)'
 <2>. SUFFICES ASSUME NEW w \in Workers, w # x, Unseen(w, f)' PROVE FALSE
   BY <1>3 DEF Unseen
 <2>1. job[w].pc \in Reads /\ job[w].revision = revision + 1
   BY <1>3 DEF Unseen
 <2>2. job[w].revision <= revision
   BY <1>1, <2>1 DEF JobsOK, JobOK, Reads
 <2>. QED BY <1>1, <2>1, <2>2
<1>4. ASSUME NEW x \in Workers, Merge(x)
      PROVE  Safe(f)' /\ \A w \in Workers : Unseen(w, f)' => Kept(f, 2)'
 <2>1. /\ revision' = revision + 1 /\ UNCHANGED <<todo, deaths>> /\ job[x].pc = "merge"
       /\ job' = [job EXCEPT ![x] = [job[x] EXCEPT !.pc = "record"]]
   BY <1>4 DEF Merge, Goto, Set
 <2>2. /\ job'[x].pc = "record" /\ job'[x].tries = job[x].tries
       /\ \A w \in Workers \ {x} : job'[w] = job[w]
   BY <1>1, <2>1 DEF Locals
 <2>3. job[x].tries = 0 /\ job'[x].pc \notin Reads
   BY <2>1, <2>2 DEF CInv, StoredOK, Early, Reads
 <2>. QED BY <1>1, <1>3, <2>1, <2>2, <2>3, MergeSafe
<1>5. ASSUME NEW x \in Workers, Store(x)
      PROVE  Safe(f)' /\ \A w \in Workers : Unseen(w, f)' => Kept(f, 2)'
 <2>1. /\ revision' = revision + 1 /\ UNCHANGED <<todo, deaths>> /\ job[x].pc = "write"
       /\ job[x].revision = revision /\ f \notin job[x].seen
       /\ Restart(x, "announce", job[x].seen, 0)
   BY <1>5 DEF Store, Current
 <2>2. /\ job'[x].pc = "announce" /\ job'[x].input = job[x].input
       /\ \A w \in Workers \ {x} : job'[w] = job[w]
   BY <1>1, <2>1 DEF Restart, Set, Idle
 <2>3. Unseen(x, f) /\ job'[x].pc \notin Reads
   BY <2>1, <2>2 DEF Unseen, Reads, WillSee
 <2>. QED BY <1>1, <1>3, <2>1, <2>2, <2>3, StoreSafe
<1>6. ASSUME NEW x \in Workers, Crash(x)
      PROVE  Safe(f)' /\ \A w \in Workers : Unseen(w, f)' => Kept(f, 2)'
 <2>1. /\ UNCHANGED <<todo, revision>> /\ x \in Mortal
       /\ job'[x] = Idle /\ \A w \in Workers \ {x} : job'[w] = job[w]
   BY <1>1, <1>6 DEF Crash, Set, group
 <2>2. \A w \in Workers : Unseen(w, f)' => Unseen(w, f)
   BY <2>1, IdleType DEF Unseen, Reads
 <2>3. Idle.input \notin Receipts
   BY ProjectionAssumption DEF Idle, Facts
 <2>4. Kept(f, 2) => Kept(f, 2)'
   BY <2>1, <2>3 DEF Kept, Pending, Live
 <2>. QED BY <1>1, <1>6, <2>2, <2>4, CrashSafe
<1>. QED BY <1>1, <1>2, <1>4, <1>5, <1>6, StartQuiet, PrepareQuiet, ReadQuiet, EndQuiet
         DEF Next, Rebuild

\* A fact that was just recorded is safe: its receipt waits, or its poll is not lost.
LEMMA RecordedSafe ==
    ASSUME CInv, Bounds, NEW x \in Workers, Record(x), job[x].input \notin recorded
    PROVE  Safe(job[x].input)' /\ Kept(job[x].input, 2)'
<1>. PICK f : f = job[x].input
  OBVIOUS
<1>. SUFFICES Kept(f, 2)' /\ Kept(f, 1)' /\ f = job'[x].input
  BY DEF Safe
<1>1. /\ job \in [Workers -> Locals] /\ job[x] \in Locals /\ job[x].pc = "record"
      /\ job' = [job EXCEPT ![x] = [job[x] EXCEPT !.pc = "group"]]
      /\ UNCHANGED <<todo, revision>> /\ f \in Facts
  BY DEF Record, Goto, Set, group, CInv, Inv, TypeInv, TypeOK, InputOK
<1>2. /\ job'[x].pc = "group" /\ job'[x].tries = job[x].tries /\ job'[x].input = f
      /\ \A w \in Workers \ {x} : job'[w] = job[w]
  BY <1>1 DEF Locals
<1>3. \A w \in Workers : job[w].pc \in {"record", "group"} /\ job[w].tries = 0 =>
          \A k \in 0 .. 2 : Live(w, f, k)
  BY ProjectionAssumption DEF Bounds, Live, Shows
<1>4. \A k \in 0 .. 2 : Live(x, f, k)'
 <2>1. job[x].tries = 0
   BY <1>1 DEF CInv, StoredOK
 <2>. QED BY <1>2, <2>1, ProjectionAssumption DEF Bounds, Live, Shows
<1>5. CASE f \in Polls
 <2>1. x \in Workers \ Mortal
   BY <1>5, ProjectionAssumption DEF CInv, StoredOK, Bounds
 <2>. QED BY <1>2, <1>4, <2>1 DEF Kept
<1>6. CASE f \in Receipts
 <2>1. f \in todo'
   BY <1>1, <1>6 DEF CInv, StoredOK
 <2>2. ASSUME NEW w \in Workers, w # x, job[w].input = f
       PROVE  job[w].pc \in Early \/ \A k \in 0 .. 2 : Live(w, f, k)'
  <3>1. job[w].pc \in Early \union {"record"}
    BY <1>6, <2>2 DEF CInv, StoredOK
  <3>2. CASE job[w].pc = "record"
   <4>1. job[w].tries = 0
     BY <3>2 DEF CInv, StoredOK
   <4>. QED BY <1>1, <1>2, <1>3, <2>2, <3>2, <4>1 DEF Live
  <3>. QED BY <3>1, <3>2
 <2>3. \A k \in 0 .. 2 : Pending(f, f, k)'
   BY <1>2, <1>4, <2>1, <2>2 DEF Pending
 <2>. QED BY <1>2, <1>6, <2>3 DEF Kept
<1>. QED BY <1>1, <1>5, <1>6 DEF Facts

\* Every fact on record that the picture lacks stays safe.
LEMMA MissingStep ==
    ASSUME CInv, Bounds, [Next]_vars
    PROVE  MissingOK'
<1>1. CASE UNCHANGED vars
  BY <1>1 DEF vars, group, CInv, MissingOK, Missing, Safe, Kept, Pending, Live, Unseen
<1>2. ASSUME Next, NEW f, f \in recorded', f \notin picture'
      PROVE  Safe(f)' /\ \A w \in Workers : Unseen(w, f)' => Kept(f, 2)'
 <2>1. CASE f \in recorded
  <3>1. f \in Missing
    BY <1>2, <2>1, NextGrows DEF CInv, Missing
  <3>. QED BY <1>2, <3>1, MissingKept
 <2>2. CASE f \notin recorded
  <3>1. PICK x \in Workers : Record(x) /\ f = job[x].input
    BY <1>2, <2>2
    DEF Next, Take, StartPoll, StartBackfill, Open, Merge, Record, Rebuild, ReadGroup,
        ReadVersions, ReadSessions, Store, Contend, Announce, Crash
  <3>2. job'[x].input = f
    BY <3>1 DEF Record, Goto, Set, CInv, Inv, TypeInv, TypeOK, Locals
  <3>. PICK g : g = f
    OBVIOUS
  <3>3. Safe(job[x].input)' /\ Kept(job[x].input, 2)'
    BY <2>2, <3>1, RecordedSafe
  <3>. QED BY <3>2, <3>3 DEF Safe, Kept, Pending, Live
 <2>. QED BY <2>1, <2>2
<1>. QED BY <1>1, <1>2 DEF MissingOK, Missing

\* What a job or a processed receipt has left in the group and on record.
JobStored(j, rcp, rec) ==
    j.input \in Receipts =>
        /\ j.pc \notin Early => j.input \in rcp
        /\ j.pc \notin Early \union {"record"} => j.input \in rec
JobFits(w, j) ==
    /\ j.pc \in Early \union {"record"} => j.tries = 0
    /\ j.input \in Polls => w \in Pollers

\* One worker moves and leaves what its place says it has left.
LEMMA StoredJob ==
    ASSUME CInv, [Next]_vars, NEW x \in Workers, NEW j, Set(x, j),
           JobStored(j, receipts', recorded'), JobFits(x, j),
           recorded \subseteq recorded',
           \/ UNCHANGED todo
           \/ todo' = todo \ {job[x].input} /\ job[x].pc \notin Early \union {"record"}
    PROVE  StoredOK'
<1>1. receipts \subseteq receipts' /\ job \in [Workers -> Locals]
  BY NextGrows DEF CInv, Inv, TypeInv, TypeOK
<1>2. job'[x] = j /\ \A w \in Workers \ {x} : job'[w] = job[w]
  BY <1>1 DEF Set
<1>3. \A w \in Workers : JobStored(job'[w], receipts', recorded') /\ JobFits(w, job'[w])
  BY <1>1, <1>2 DEF CInv, StoredOK, JobStored, JobFits
<1>4. ASSUME NEW r \in Receipts \ todo' PROVE r \in recorded' /\ r \in receipts'
  BY <1>1, <1>4 DEF CInv, StoredOK
<1>. QED BY <1>3, <1>4 DEF StoredOK, JobStored, JobFits

\* What is merged and recorded stays.
LEMMA StoredStep ==
    ASSUME CInv, [Next]_vars
    PROVE  StoredOK'
<1>1. CASE UNCHANGED vars
  BY <1>1 DEF vars, group, CInv, StoredOK
<1>2. Idle.input = NoInput /\ Idle.tries = 0 /\ Idle.pc = "idle"
      /\ NoInput \notin Receipts /\ NoInput \notin Polls
  BY ProjectionAssumption DEF Idle, Facts
<1>3. ASSUME NEW x \in Workers
      PROVE  /\ job[x] \in Locals
             /\ JobStored(job[x], receipts, recorded) /\ JobFits(x, job[x])
  BY DEF CInv, Inv, TypeInv, TypeOK, StoredOK, JobStored, JobFits
<1>4. ASSUME NEW x \in Workers,
             (\E r \in Receipts : Take(x, r)) \/ (\E p \in Polls : StartPoll(x, p))
             \/ StartBackfill(x)
      PROVE  StoredOK'
 <2>1. UNCHANGED <<todo, recorded, receipts>>
   BY <1>4 DEF Take, StartPoll, StartBackfill, group
 <2>2. CASE \E r \in Receipts : Take(x, r)
  <3>1. PICK r \in Receipts : Take(x, r)
    BY <2>2
  <3>. DEFINE j == [Idle EXCEPT !.pc = "open", !.kind = "receipt", !.input = r]
  <3>2. Set(x, j) /\ j.pc = "open" /\ j.input = r /\ j.tries = 0
    BY <3>1 DEF Take, Idle
  <3>3. JobStored(j, receipts', recorded') /\ JobFits(x, j)
    BY <3>2, ProjectionAssumption DEF JobStored, JobFits, Early, Receipts
  <3>. HIDE DEF j
  <3>. QED BY <2>1, <3>2, <3>3, StoredJob
 <2>3. CASE \E p \in Polls : StartPoll(x, p)
  <3>1. PICK p \in Polls : StartPoll(x, p)
    BY <2>3
  <3>. DEFINE j == [Idle EXCEPT !.pc = "record", !.kind = "poll", !.input = p]
  <3>2. Set(x, j) /\ j.pc = "record" /\ j.input = p /\ j.tries = 0 /\ x \in Pollers
    BY <3>1 DEF StartPoll, Idle
  <3>3. JobStored(j, receipts', recorded') /\ JobFits(x, j)
    BY <3>2, ProjectionAssumption DEF JobStored, JobFits, Receipts
  <3>. HIDE DEF j
  <3>. QED BY <2>1, <3>2, <3>3, StoredJob
 <2>4. CASE StartBackfill(x)
  <3>. DEFINE j == [Idle EXCEPT !.pc = "group", !.kind = "backfill"]
  <3>2. Set(x, j) /\ j.pc = "group" /\ j.input = NoInput
    BY <2>4 DEF StartBackfill, Idle
  <3>3. JobStored(j, receipts', recorded') /\ JobFits(x, j)
    BY <1>2, <3>2 DEF JobStored, JobFits, Early
  <3>. HIDE DEF j
  <3>. QED BY <2>1, <3>2, <3>3, StoredJob
 <2>. QED BY <1>4, <2>2, <2>3, <2>4
<1>5. ASSUME NEW x \in Workers, NEW pc \in {"merge", "record", "group"}, Goto(x, pc),
             recorded \subseteq recorded', UNCHANGED todo,
             JobStored([job[x] EXCEPT !.pc = pc], receipts', recorded'),
             job[x].tries = 0
      PROVE  StoredOK'
 <2>. DEFINE j == [job[x] EXCEPT !.pc = pc]
 <2>1. Set(x, j) /\ j.input = job[x].input /\ j.tries = 0
   BY <1>3, <1>5 DEF Goto, Locals
 <2>2. JobFits(x, j)
   BY <1>3, <2>1 DEF JobFits
 <2>. HIDE DEF j
 <2>3. JobStored(j, receipts', recorded')
   BY <1>5 DEF j
 <2>. QED BY <1>5, <2>1, <2>2, <2>3, StoredJob
<1>6. ASSUME NEW x \in Workers, Open(x) \/ Merge(x) \/ Record(x) PROVE StoredOK'
 <2>0. job[x].tries = 0 /\ job[x] \in Locals /\ job[x].pc \in Early \union {"record"}
   BY <1>3, <1>6 DEF Open, Merge, Record, JobFits, Early
 <2>1. CASE Open(x)
  <3>1. JobStored([job[x] EXCEPT !.pc = "merge"], receipts', recorded')
    BY <2>0 DEF JobStored, Early, Locals
  <3>. QED BY <1>5, <2>0, <2>1, <3>1 DEF Open
 <2>2. CASE Merge(x)
  <3>1. JobStored([job[x] EXCEPT !.pc = "record"], receipts', recorded')
    BY <2>0, <2>2 DEF JobStored, Early, Locals, Merge
  <3>. QED BY <1>5, <2>0, <2>2, <3>1 DEF Merge
 <2>3. CASE Record(x)
  <3>1. JobStored([job[x] EXCEPT !.pc = "group"], receipts', recorded')
    BY <1>3, <2>0, <2>3 DEF JobStored, Early, Locals, Record, group
  <3>. QED BY <1>5, <2>0, <2>3, <3>1 DEF Record
 <2>. QED BY <1>6, <2>1, <2>2, <2>3
<1>7. ASSUME NEW x \in Workers, NEW j, Set(x, j), job[x].pc \notin Early \union {"record"},
             j.pc \notin Early \union {"record"}, j.input \in {job[x].input, NoInput},
             UNCHANGED recorded, UNCHANGED todo \/ todo' = todo \ {job[x].input}
      PROVE  StoredOK'
 <2>1. receipts \subseteq receipts'
   BY NextGrows DEF CInv
 <2>2. JobStored(j, receipts', recorded') /\ JobFits(x, j)
   BY <1>2, <1>3, <1>7, <2>1 DEF JobStored, JobFits
 <2>. QED BY <1>7, <2>2, StoredJob
<1>8. ASSUME NEW x \in Workers, Rebuild(x) PROVE StoredOK'
 <2>1. CASE ReadGroup(x) \/ ReadVersions(x) \/ ReadSessions(x)
  <3>1. PICK j : /\ Set(x, j) /\ j.pc \in Reads /\ j.input = job[x].input
   <4>1. CASE ReadGroup(x)
    <5>. DEFINE j == [job[x] EXCEPT !.pc = "versions", !.revision = revision,
                                    !.receipts = receipts]
    <5>1. Set(x, j) /\ j.pc = "versions" /\ j.input = job[x].input
      BY <1>3, <4>1 DEF ReadGroup, Locals
    <5>. QED BY <5>1 DEF Reads
   <4>2. CASE ReadVersions(x)
    <5>. DEFINE j == [job[x] EXCEPT !.pc = "sessions", !.seen = recorded \intersect Audits]
    <5>1. Set(x, j) /\ j.pc = "sessions" /\ j.input = job[x].input
      BY <1>3, <4>2 DEF ReadVersions, Locals
    <5>. QED BY <5>1 DEF Reads
   <4>3. CASE ReadSessions(x)
    <5>. DEFINE j == [job[x] EXCEPT !.pc = "write", !.seen = @ \union (recorded \ Audits)]
    <5>1. Set(x, j) /\ j.pc = "write" /\ j.input = job[x].input
      BY <1>3, <4>3 DEF ReadSessions, Locals
    <5>. QED BY <5>1 DEF Reads
   <4>. QED BY <2>1, <4>1, <4>2, <4>3
  <3>2. UNCHANGED <<recorded, todo>> /\ job[x].pc \notin Early \union {"record"}
    BY <2>1 DEF ReadGroup, ReadVersions, ReadSessions, Early
  <3>. QED BY <1>7, <3>1, <3>2 DEF Reads, Early
 <2>2. ASSUME NEW pc \in {"group", "announce"}, NEW seen, NEW tries, Restart(x, pc, seen, tries),
              UNCHANGED <<recorded, todo>>, job[x].pc = "write"
       PROVE  StoredOK'
  <3>1. PICK j : Set(x, j) /\ j.pc = pc /\ j.input = job[x].input
   <4>. DEFINE j == [Idle EXCEPT !.pc = pc, !.kind = job[x].kind, !.input = job[x].input,
                                 !.seen = seen, !.tries = tries]
   <4>1. Set(x, j) /\ j.pc = pc /\ j.input = job[x].input
     BY <2>2 DEF Restart, Idle
   <4>. QED BY <4>1
  <3>. QED BY <1>7, <2>2, <3>1 DEF Early
 <2>3. CASE Store(x)
   BY <2>2, <2>3 DEF Store
 <2>4. ASSUME Finish(x), UNCHANGED recorded, job[x].pc \in {"write", "announce"}
       PROVE  StoredOK'
   BY <1>2, <1>7, <2>4 DEF Finish, Early
 <2>5. CASE Contend(x)
   BY <2>2, <2>4, <2>5 DEF Contend
 <2>6. CASE Announce(x)
   BY <2>4, <2>6 DEF Announce
 <2>. QED BY <1>8, <2>1, <2>3, <2>5, <2>6 DEF Rebuild
<1>9. ASSUME NEW x \in Workers, Crash(x) PROVE StoredOK'
 <2>1. JobStored(Idle, receipts', recorded') /\ JobFits(x, Idle)
   BY <1>2 DEF JobStored, JobFits, Early
 <2>. QED BY <1>9, <2>1, StoredJob DEF Crash
<1>. QED BY <1>1, <1>4, <1>6, <1>8, <1>9 DEF Next

\* The invariant holds of no group, and no step breaks it.
LEMMA CompleteInit == Init => CInv
<1>. SUFFICES ASSUME Init PROVE StoredOK /\ MissingOK
  BY InvInit DEF CInv
<1>1. Idle.input \notin Receipts /\ Idle.input \notin Polls /\ Idle.pc = "idle"
      /\ Idle.tries = 0
  BY ProjectionAssumption DEF Idle, Facts
<1>2. StoredOK
  BY <1>1 DEF Init, StoredOK
<1>3. MissingOK
  BY DEF Init, MissingOK, Missing
<1>. QED BY <1>2, <1>3

LEMMA CompleteStep == Bounds => (CInv /\ [Next]_vars => CInv')
  BY InvStep, StoredStep, MissingStep DEF CInv

\* If no poll is lost and no more than one webhook worker, then whatever rebuilds
\* contend and give up, the picture is complete when nothing is left to do:
\* _PROJECTION_ATTEMPTS, which is three, is enough (ChangeGroupProjector.rebuild).
THEOREM PictureIsWhole ==
    ASSUME Attempts > 2, MaxDeaths <= 1, Mortal \subseteq Receivers
    PROVE  Spec => []PictureIsComplete
<1>1. CInv /\ [Next]_vars => CInv'
  BY CompleteStep DEF Bounds
<1>2. CInv => PictureIsComplete
 <2>. SUFFICES ASSUME CInv, Settled PROVE picture = recorded /\ receipts = Receipts
   BY DEF PictureIsComplete
 <2>1. receipts = Receipts
   BY DEF CInv, StoredOK, Settled, Inv, TypeInv, TypeOK
 <2>2. ASSUME NEW f \in Missing PROVE FALSE
  <3>1. \A w \in Workers : \A k : ~Live(w, f, k)
    BY IdleType DEF Settled, Live, Shows, Reads
  <3>2. \A k : ~Kept(f, k)
    BY <3>1 DEF Kept, Pending, Settled
  <3>. QED BY <3>1, <3>2 DEF CInv, MissingOK, Safe
 <2>. QED BY <2>1, <2>2 DEF CInv, Inv, Missing
<1>. QED BY CompleteInit, <1>1, <1>2, PTL DEF Spec

-----------------------------------------------------------------------------
\* What is announced.  A rebuild that stores harm announces it, unless it is
\* the backfill's; one that gives up leaves it to whoever outran it.  Only
\* two writes of the group outrun a rebuild and say nothing: one whose reads
\* are from before the harm was on record, and one of the backfill.

\* The reads of a rebuild show critical harm, if it is on record.
SeesHarm(j) ==
    CASE j.pc = "versions" -> TRUE
      [] j.pc = "sessions" -> j.seen \intersect Audits # {}
      [] j.pc = "write" -> Critical(j.seen)

\* A write is still to come that does not see it, or that is the backfill's.
BlindWrite == \E w \in Workers :
    job[w].pc \in Reads /\ job[w].revision = revision /\ ~SeesHarm(job[w])
MuteWrite == ~projected \/ \E w \in Workers :
    job[w].kind = "backfill" /\ job[w].pc \in Reads \union {"group"}
SilentWrites == (IF BlindWrite THEN 1 ELSE 0) + (IF MuteWrite THEN 1 ELSE 0)

\* Job j, at revision rev, will tell of the harm although k silent writes outrun it.
Tells(j, k, rev) ==
    /\ j.kind \in {"receipt", "poll"}
    /\ \/ j.pc \in Early \union {"record", "group"} /\ j.tries + k < Attempts
       \/ j.pc \in Reads /\ j.revision = rev /\ SeesHarm(j) /\ j.tries + k < Attempts
       \/ j.pc \in Reads /\ j.revision # rev /\ j.tries + 1 + k < Attempts
       \/ j.pc = "announce" /\ Critical(j.seen)

\* A receipt waits for a webhook worker, which will start it from the beginning.
Requeued == todo # {} /\ \A w \in Receivers : job[w] = Idle

ToldOK ==
    Critical(recorded) /\ ~alerted =>
        Requeued \/ \E w \in Workers : Tells(job[w], SilentWrites, revision)

\* What worker w's job may be.
RoleOK(w, j) ==
    /\ j.pc # "idle" => j.kind # "none"
    /\ j.pc \in Early => j.kind = "receipt"
    /\ j.pc = "record" => j.kind \in {"receipt", "poll"}
    /\ j.pc \in Early \union {"record"} => j.tries = 0
    /\ j.kind = "backfill" => w \in Pollers
    /\ w \in Pollers => j.input \notin Receipts
RolesOK == \A w \in Workers : RoleOK(w, job[w])

OneReceiver == \A v, w \in Receivers : v = w
\* A webhook worker that is alone has a receipt that is not processed.
QueueOK == OneReceiver => \A w \in Receivers : job[w] = Idle \/ job[w].input \in todo

HInv == Inv /\ RolesOK /\ QueueOK /\ ToldOK

\* Polls and the backfill take turns and are not lost; of the webhook workers
\* there is one, or none is lost.
Reporting ==
    /\ Attempts > 2
    /\ Mortal \subseteq Receivers /\ (MaxDeaths = 0 \/ OneReceiver)
    /\ \A v, w \in Pollers : v = w

LEMMA SilentType == SilentWrites \in 0 .. 2
  BY DEF SilentWrites

LEMMA SilentLess ==
    ASSUME BlindWrite' => BlindWrite, MuteWrite' => MuteWrite
    PROVE  SilentWrites' <= SilentWrites
  BY DEF SilentWrites

LEMMA SilentDrop ==
    ASSUME ~BlindWrite', MuteWrite' => MuteWrite, BlindWrite \/ (MuteWrite /\ ~MuteWrite')
    PROVE  SilentWrites' + 1 <= SilentWrites
  BY DEF SilentWrites

\* The others still tell, if the group was not written or a silent write was spent.
LEMMA OthersTell ==
    ASSUME Inv, NEW w \in Workers, job'[w] = job[w],
           Tells(job[w], SilentWrites, revision),
           \/ revision' = revision /\ SilentWrites' <= SilentWrites
           \/ revision' = revision + 1 /\ SilentWrites' + 1 <= SilentWrites
    PROVE  Tells(job'[w], SilentWrites', revision')
<1>. DEFINE k == SilentWrites  l == SilentWrites'
<1>1. k \in Nat /\ l \in Nat
 <2>1. SilentWrites \in 0 .. 2
   BY SilentType
 <2>2. SilentWrites' \in 0 .. 2
   BY DEF SilentWrites
 <2>. QED BY <2>1, <2>2
<1>2. job[w].tries \in Nat /\ Attempts \in Nat /\ job[w].revision \in Nat /\ revision \in Nat
  BY ProjectionAssumption DEF Inv, TypeInv, TypeOK, Locals
<1>3. job[w].pc \in Reads => job[w].revision <= revision
  BY DEF Inv, JobsOK, JobOK, Reads
<1>4. \/ revision' = revision /\ l <= k
      \/ revision' = revision + 1 /\ l + 1 <= k
  OBVIOUS
<1>5. Tells(job[w], k, revision)
  OBVIOUS
<1>. HIDE DEF k, l
<1>6. Tells(job[w], l, revision')
  BY <1>1, <1>2, <1>3, <1>4, <1>5 DEF Tells
<1>. QED BY <1>6 DEF l

\* A job that has not read anything tells, whatever is still written.
LEMMA FreshTells ==
    ASSUME Reporting, NEW x \in Workers,
           job'[x].kind \in {"receipt", "poll"}, job'[x].tries = 0,
           job'[x].pc \in Early \union {"record", "group"}
    PROVE  ToldOK'
<1>1. SilentWrites' \in 0 .. 2
  BY DEF SilentWrites
<1>2. Tells(job'[x], SilentWrites', revision')
  BY <1>1, ProjectionAssumption DEF Reporting, Tells
<1>3. \E w \in Workers : Tells(job'[w], SilentWrites', revision')
  BY <1>2
<1>. QED BY <1>3 DEF ToldOK

\* A waiting receipt keeps waiting while no webhook worker takes it.
LEMMA RequeuedKept ==
    ASSUME RolesOK, NEW x \in Workers, NEW j, Set(x, j), job \in [Workers -> Locals],
           x \in Receivers => job[x] # Idle,
           UNCHANGED todo \/ todo' = todo \ {job[x].input},
           todo \subseteq Receipts, Requeued
    PROVE  Requeued'
<1>1. x \notin Receivers /\ x \in Pollers
  BY DEF Requeued, Workers
<1>2. job[x].input \notin Receipts
  BY <1>1 DEF RolesOK, RoleOK
<1>3. todo' = todo
  BY <1>2
<1>4. \A w \in Receivers : job'[w] = job[w]
  BY <1>1 DEF Set, Workers
<1>. QED BY <1>3, <1>4 DEF Requeued

\* Told as before, if the step of worker x does not spoil what it had to tell.
LEMMA ToldKept ==
    ASSUME HInv, NEW x \in Workers, NEW j, Set(x, j), UNCHANGED <<recorded, alerted>>,
           x \in Receivers => job[x] # Idle,
           UNCHANGED todo \/ todo' = todo \ {job[x].input},
           \/ revision' = revision /\ SilentWrites' <= SilentWrites
           \/ revision' = revision + 1 /\ SilentWrites' + 1 <= SilentWrites,
           Tells(job[x], SilentWrites, revision) /\ Critical(recorded) =>
               Tells(j, SilentWrites', revision')
    PROVE  ToldOK'
<1>. SUFFICES ASSUME Critical(recorded), ~alerted
              PROVE  Requeued' \/ \E w \in Workers : Tells(job'[w], SilentWrites', revision')
  BY DEF ToldOK
<1>0. job \in [Workers -> Locals] /\ todo \subseteq Receipts
  BY DEF HInv, Inv, TypeInv, TypeOK
<1>1. job'[x] = j /\ \A w \in Workers \ {x} : job'[w] = job[w]
  BY <1>0 DEF Set
<1>2. CASE Requeued
  BY <1>0, <1>2, RequeuedKept DEF HInv
<1>3. ASSUME NEW w \in Workers, Tells(job[w], SilentWrites, revision)
      PROVE  Tells(job'[w], SilentWrites', revision')
 <2>1. CASE w = x
   BY <1>1, <1>3, <2>1
 <2>2. CASE w # x
   BY <1>1, <1>3, <2>2, OthersTell DEF HInv
 <2>. QED BY <2>1, <2>2
<1>4. Requeued \/ \E w \in Workers : Tells(job[w], SilentWrites, revision)
  BY DEF HInv, ToldOK
<1>. QED BY <1>2, <1>3, <1>4

\* A step that writes nothing and adds no silent write: x did not become blind,
\* and the backfill is only started for a group without a projection.
LEMMA NoNewSilence ==
    ASSUME HInv, NEW x \in Workers, NEW j, Set(x, j), UNCHANGED <<revision, projected>>,
           j.pc \in Reads /\ j.revision = revision /\ ~SeesHarm(j) =>
               job[x].pc \in Reads /\ job[x].revision = revision /\ ~SeesHarm(job[x]),
           j.kind = "backfill" /\ j.pc \in Reads \union {"group"} =>
               ~projected \/ (job[x].kind = "backfill" /\ job[x].pc \in Reads \union {"group"})
    PROVE  SilentWrites' <= SilentWrites
<1>1. job \in [Workers -> Locals]
  BY DEF HInv, Inv, TypeInv, TypeOK
<1>2. job'[x] = j /\ \A w \in Workers \ {x} : job'[w] = job[w]
  BY <1>1 DEF Set
<1>3. ASSUME BlindWrite' PROVE BlindWrite
 <2>1. PICK w \in Workers :
          job'[w].pc \in Reads /\ job'[w].revision = revision /\ ~SeesHarm(job'[w])
   BY <1>3 DEF BlindWrite
 <2>. QED BY <1>2, <2>1 DEF BlindWrite
<1>4. ASSUME MuteWrite' PROVE MuteWrite
  BY <1>2, <1>4 DEF MuteWrite
<1>. QED BY <1>3, <1>4, SilentLess

\* A read of the sources finds the harm that is on record.
LEMMA ReadTold ==
    ASSUME HInv, NEW x \in Workers, ReadGroup(x) \/ ReadVersions(x) \/ ReadSessions(x)
    PROVE  ToldOK'
<1>0. job[x] \in Locals
  BY DEF HInv, Inv, TypeInv, TypeOK
<1>1. PICK j : /\ Set(x, j) /\ j.pc \in Reads
               /\ j.kind = job[x].kind /\ j.tries = job[x].tries
               /\ job[x].pc \in Reads \union {"group"}
               /\ IF job[x].pc = "group" THEN j.revision = revision /\ SeesHarm(j)
                  ELSE /\ j.revision = job[x].revision
                       /\ Critical(recorded) /\ SeesHarm(job[x]) => SeesHarm(j)
 <2>1. CASE ReadGroup(x)
  <3>. DEFINE j == [job[x] EXCEPT !.pc = "versions", !.revision = revision, !.receipts = receipts]
  <3>1. Set(x, j) /\ j.pc = "versions" /\ j.kind = job[x].kind /\ j.tries = job[x].tries
        /\ j.revision = revision /\ job[x].pc = "group"
    BY <1>0, <2>1 DEF ReadGroup, Locals
  <3>2. SeesHarm(j)
    BY <3>1 DEF SeesHarm
  <3>. HIDE DEF j
  <3>. QED BY <3>1, <3>2 DEF Reads
 <2>2. CASE ReadVersions(x)
  <3>. DEFINE j == [job[x] EXCEPT !.pc = "sessions", !.seen = recorded \intersect Audits]
  <3>1. Set(x, j) /\ j.pc = "sessions" /\ j.kind = job[x].kind /\ j.tries = job[x].tries
        /\ j.revision = job[x].revision /\ job[x].pc = "versions"
        /\ j.seen = recorded \intersect Audits
    BY <1>0, <2>2 DEF ReadVersions, Locals
  <3>2. Critical(recorded) => SeesHarm(j)
    BY <3>1 DEF SeesHarm, Critical
  <3>. HIDE DEF j
  <3>. QED BY <3>1, <3>2 DEF Reads
 <2>3. CASE ReadSessions(x)
  <3>. DEFINE j == [job[x] EXCEPT !.pc = "write", !.seen = @ \union (recorded \ Audits)]
  <3>1. Set(x, j) /\ j.pc = "write" /\ j.kind = job[x].kind /\ j.tries = job[x].tries
        /\ j.revision = job[x].revision /\ job[x].pc = "sessions"
        /\ j.seen = job[x].seen \union (recorded \ Audits)
    BY <1>0, <2>3 DEF ReadSessions, Locals
  <3>2. Critical(recorded) /\ SeesHarm(job[x]) => SeesHarm(j)
    BY <3>1, ProjectionAssumption DEF SeesHarm, Critical
  <3>. HIDE DEF j
  <3>. QED BY <3>1, <3>2 DEF Reads
 <2>. QED BY <2>1, <2>2, <2>3
<1>2. /\ UNCHANGED <<todo, recorded, alerted, revision, projected>>
      /\ job[x] # Idle
  BY IdleType DEF ReadGroup, ReadVersions, ReadSessions, group
<1>. SUFFICES ASSUME Critical(recorded) PROVE ToldOK'
  BY <1>2 DEF ToldOK
<1>3. SilentWrites' <= SilentWrites
 <2>1. j.pc \in Reads /\ j.revision = revision /\ ~SeesHarm(j) =>
          job[x].pc \in Reads /\ job[x].revision = revision /\ ~SeesHarm(job[x])
   BY <1>1
 <2>. QED BY <1>1, <1>2, <2>1, NoNewSilence
<1>4. ASSUME Tells(job[x], SilentWrites, revision) PROVE Tells(j, SilentWrites', revision')
 <2>. DEFINE k == SilentWrites  l == SilentWrites'
 <2>1. k \in Nat /\ l \in Nat /\ l <= k
  <3>1. SilentWrites \in 0 .. 2 /\ SilentWrites' \in 0 .. 2
    BY SilentType DEF SilentWrites
  <3>. QED BY <1>3, <3>1
 <2>2. job[x].tries \in Nat /\ Attempts \in Nat
   BY <1>0, ProjectionAssumption DEF Locals
 <2>3. Tells(job[x], k, revision)
   BY <1>4
 <2>. HIDE DEF k, l
 <2>4. Tells(j, l, revision)
   BY <1>1, <2>1, <2>2, <2>3 DEF Tells, Reads, Early
 <2>. QED BY <1>2, <2>4 DEF l
<1>. QED BY <1>1, <1>2, <1>3, <1>4, ToldKept

\* A delivery or a poll has everything before it; the backfill spoils nothing.
LEMMA StartTold ==
    ASSUME HInv, Reporting, NEW x \in Workers,
           \/ \E r \in Receipts : Take(x, r)
           \/ \E p \in Polls : StartPoll(x, p)
           \/ StartBackfill(x)
    PROVE  ToldOK'
<1>0. job \in [Workers -> Locals] /\ Idle.kind = "none"
  BY DEF HInv, Inv, TypeInv, TypeOK, Idle
<1>1. CASE \E r \in Receipts : Take(x, r)
 <2>1. PICK r \in Receipts : Take(x, r)
   BY <1>1
 <2>. DEFINE j == [Idle EXCEPT !.pc = "open", !.kind = "receipt", !.input = r]
 <2>2. Set(x, j) /\ j.pc = "open" /\ j.kind = "receipt" /\ j.tries = 0
   BY <2>1 DEF Take, Idle
 <2>. HIDE DEF j
 <2>3. job'[x] = j
   BY <1>0, <2>2 DEF Set
 <2>. QED BY <2>2, <2>3, FreshTells DEF Early
<1>2. CASE \E p \in Polls : StartPoll(x, p)
 <2>1. PICK p \in Polls : StartPoll(x, p)
   BY <1>2
 <2>. DEFINE j == [Idle EXCEPT !.pc = "record", !.kind = "poll", !.input = p]
 <2>2. Set(x, j) /\ j.pc = "record" /\ j.kind = "poll" /\ j.tries = 0
   BY <2>1 DEF StartPoll, Idle
 <2>. HIDE DEF j
 <2>3. job'[x] = j
   BY <1>0, <2>2 DEF Set
 <2>. QED BY <2>2, <2>3, FreshTells
<1>3. CASE StartBackfill(x)
 <2>. DEFINE j == [Idle EXCEPT !.pc = "group", !.kind = "backfill"]
 <2>1. Set(x, j) /\ j.pc = "group" /\ job[x].kind = "none"
   BY <1>0, <1>3 DEF StartBackfill, Idle
 <2>2. /\ UNCHANGED <<todo, recorded, alerted, revision, projected>>
       /\ ~projected /\ x \notin Receivers
   BY <1>3, ProjectionAssumption DEF StartBackfill, group
 <2>. HIDE DEF j
 <2>3. SilentWrites' <= SilentWrites
   BY <2>1, <2>2, NoNewSilence DEF Reads
 <2>4. ~Tells(job[x], SilentWrites, revision)
   BY <2>1 DEF Tells
 <2>. QED BY <2>1, <2>2, <2>3, <2>4, ToldKept
<1>. QED BY <1>1, <1>2, <1>3

\* So has a job that opens, merges or records.
LEMMA PrepareTold ==
    ASSUME HInv, Reporting, NEW x \in Workers, Open(x) \/ Merge(x) \/ Record(x)
    PROVE  ToldOK'
<1>0. job \in [Workers -> Locals] /\ RoleOK(x, job[x])
  BY DEF HInv, Inv, TypeInv, TypeOK, RolesOK
<1>1. PICK pc \in {"merge", "record", "group"} : Goto(x, pc)
  BY DEF Open, Merge, Record
<1>. DEFINE j == [job[x] EXCEPT !.pc = pc]
<1>2. Set(x, j) /\ j.pc = pc /\ j.kind = job[x].kind /\ j.tries = job[x].tries
  BY <1>0, <1>1 DEF Goto, Locals
<1>. HIDE DEF j
<1>3. job'[x] = j
  BY <1>0, <1>2 DEF Set
<1>4. job[x].kind \in {"receipt", "poll"} /\ job[x].tries = 0
  BY <1>0 DEF RoleOK, Open, Merge, Record, Early
<1>. QED BY <1>1, <1>2, <1>3, <1>4, FreshTells DEF Early

\* A rebuild that stores harm will announce it; one that does not is a silent
\* write, and there is one less of them.
LEMMA StoreTold ==
    ASSUME HInv, Reporting, NEW x \in Workers, Store(x)
    PROVE  ToldOK'
<1>0. job \in [Workers -> Locals] /\ RoleOK(x, job[x]) /\ revision \in Nat
  BY DEF HInv, Inv, TypeInv, TypeOK, RolesOK
<1>. DEFINE j == [Idle EXCEPT !.pc = "announce", !.kind = job[x].kind, !.input = job[x].input,
                              !.seen = job[x].seen, !.tries = 0]
<1>1. /\ Set(x, j) /\ j.pc = "announce" /\ j.kind = job[x].kind /\ j.seen = job[x].seen
  BY DEF Store, Restart, Idle
<1>2. /\ job[x].pc = "write" /\ job[x].revision = revision /\ revision' = revision + 1
      /\ UNCHANGED <<todo, recorded, alerted>> /\ projected' = TRUE
      /\ job[x] # Idle
  BY IdleType DEF Store, Current
<1>. HIDE DEF j
<1>3. job'[x] = j /\ \A w \in Workers \ {x} : job'[w] = job[w]
  BY <1>0, <1>1 DEF Set
<1>4. CASE SeesHarm(job[x]) /\ job[x].kind # "backfill"
 <2>1. job[x].kind \in {"receipt", "poll"}
   BY <1>0, <1>2, <1>4 DEF RoleOK, Locals
 <2>2. Critical(job[x].seen)
   BY <1>2, <1>4 DEF SeesHarm
 <2>3. Tells(job'[x], SilentWrites', revision')
   BY <1>1, <1>3, <2>1, <2>2 DEF Tells
 <2>4. \E w \in Workers : Tells(job'[w], SilentWrites', revision')
   BY <2>3
 <2>. QED BY <2>4 DEF ToldOK
<1>5. CASE ~SeesHarm(job[x]) \/ job[x].kind = "backfill"
 <2>1. ~BlindWrite'
  <3>1. ASSUME NEW w \in Workers, job'[w].pc \in Reads, job'[w].revision = revision'
        PROVE  FALSE
   <4>1. w # x
     BY <1>1, <1>3, <3>1 DEF Reads
   <4>2. job[w].revision <= revision /\ job[w].revision = revision + 1
     BY <1>2, <1>3, <3>1, <4>1 DEF HInv, Inv, JobsOK, JobOK, Reads
   <4>. QED BY <1>0, <4>2
  <3>. QED BY <3>1 DEF BlindWrite
 <2>2. ASSUME MuteWrite' PROVE MuteWrite /\ job[x].kind # "backfill"
  <3>1. PICK w \in Workers : job'[w].kind = "backfill" /\ job'[w].pc \in Reads \union {"group"}
    BY <1>2, <2>2 DEF MuteWrite
  <3>2. w # x /\ job'[w] = job[w]
    BY <1>1, <1>3, <3>1 DEF Reads
  <3>3. w \in Pollers
    BY <3>1, <3>2 DEF HInv, RolesOK, RoleOK
  <3>4. job[x].kind # "backfill"
    BY <1>0, <3>2, <3>3 DEF RoleOK, Reporting
  <3>. QED BY <3>1, <3>2, <3>4 DEF MuteWrite
 <2>3. BlindWrite \/ (MuteWrite /\ ~MuteWrite')
  <3>1. CASE ~SeesHarm(job[x])
    BY <1>2, <3>1 DEF BlindWrite, Reads
  <3>2. CASE job[x].kind = "backfill"
    BY <1>2, <2>2, <3>2 DEF MuteWrite, Reads
  <3>. QED BY <1>5, <3>1, <3>2
 <2>4. SilentWrites' + 1 <= SilentWrites
   BY <2>1, <2>2, <2>3, SilentDrop
 <2>5. ~Tells(job[x], SilentWrites, revision)
   BY <1>2, <1>5 DEF Tells, Early
 <2>. QED BY <1>1, <1>2, <2>4, <2>5, ToldKept
<1>. QED BY <1>4, <1>5

\* A rebuild that is outrun has a try left for each silent write to come.
LEMMA ContendTold ==
    ASSUME HInv, NEW x \in Workers, Contend(x)
    PROVE  ToldOK'
<1>0. job[x] \in Locals /\ Attempts \in Nat
  BY ProjectionAssumption DEF HInv, Inv, TypeInv, TypeOK
<1>1. /\ job[x].pc = "write" /\ job[x].revision # revision
      /\ UNCHANGED <<recorded, alerted, revision, projected>>
      /\ UNCHANGED todo \/ todo' = todo \ {job[x].input}
      /\ job[x] # Idle
  BY IdleType DEF Contend, Current, Finish, group
<1>2. PICK j : /\ Set(x, j) /\ j.pc \in {"idle", "group"}
               /\ j.pc = "group" => j.kind = job[x].kind /\ j.tries = job[x].tries + 1
               /\ job[x].tries + 1 # Attempts => j.pc = "group"
 <2>1. CASE job[x].tries + 1 = Attempts
  <3>1. Set(x, Idle) /\ Idle.pc = "idle"
    BY <2>1, IdleType DEF Contend, Finish
  <3>. QED BY <2>1, <3>1
 <2>2. CASE job[x].tries + 1 # Attempts
  <3>. DEFINE j == [Idle EXCEPT !.pc = "group", !.kind = job[x].kind, !.input = job[x].input,
                                !.seen = {}, !.tries = job[x].tries + 1]
  <3>1. Set(x, j) /\ j.pc = "group" /\ j.kind = job[x].kind /\ j.tries = job[x].tries + 1
    BY <2>2 DEF Contend, Restart, Idle
  <3>. QED BY <3>1
 <2>. QED BY <2>1, <2>2
<1>3. SilentWrites' <= SilentWrites
  BY <1>1, <1>2, NoNewSilence DEF Reads
<1>4. ASSUME Tells(job[x], SilentWrites, revision) PROVE Tells(j, SilentWrites', revision')
 <2>. DEFINE k == SilentWrites  l == SilentWrites'
 <2>1. k \in Nat /\ l \in Nat /\ l <= k
  <3>1. SilentWrites \in 0 .. 2 /\ SilentWrites' \in 0 .. 2
    BY SilentType DEF SilentWrites
  <3>. QED BY <1>3, <3>1
 <2>2. job[x].tries \in Nat
   BY <1>0, ProjectionAssumption DEF Locals
 <2>3. Tells(job[x], k, revision)
   BY <1>4
 <2>. HIDE DEF k, l
 <2>4. job[x].kind \in {"receipt", "poll"} /\ job[x].tries + 1 + k < Attempts
   BY <1>1, <2>3 DEF Tells, Reads, Early
 <2>5. Tells(j, l, revision)
   BY <1>0, <1>2, <2>1, <2>2, <2>4 DEF Tells
 <2>. QED BY <1>1, <2>5 DEF l
<1>. QED BY <1>1, <1>2, <1>3, <1>4, ToldKept

LEMMA EndTold ==
    ASSUME HInv, Reporting, NEW x \in Workers, Announce(x) \/ Crash(x)
    PROVE  ToldOK'
<1>0. job \in [Workers -> Locals] /\ todo \subseteq Receipts
  BY DEF HInv, Inv, TypeInv, TypeOK
<1>1. /\ Idle.pc = "idle" /\ Idle.kind = "none"
      /\ Set(x, Idle) /\ job[x] # Idle
      /\ UNCHANGED <<recorded, revision, projected>>
  BY IdleType DEF Announce, Crash, Finish, group, Idle
<1>2. job'[x] = Idle /\ \A w \in Workers \ {x} : job'[w] = job[w]
  BY <1>0, <1>1 DEF Set
<1>3. CASE Announce(x)
 <2>1. CASE alerted'
   BY <2>1 DEF ToldOK
 <2>2. CASE ~alerted'
  <3>1. /\ ~(job[x].kind # "backfill" /\ Critical(job[x].seen))
        /\ todo' = todo \ {job[x].input} /\ job[x].pc = "announce"
        /\ alerted' = alerted
    BY <1>3, <2>2 DEF Announce, Finish, HInv, Inv, TypeInv, TypeOK
  <3>2. SilentWrites' <= SilentWrites
    BY <1>1, NoNewSilence DEF Reads
  <3>3. ~Tells(job[x], SilentWrites, revision)
    BY <3>1 DEF Tells, Early, Reads
  <3>. QED BY <1>1, <3>1, <3>2, <3>3, ToldKept
 <2>. QED BY <2>1, <2>2
<1>4. CASE Crash(x)
 <2>1. x \in Receivers /\ OneReceiver /\ todo' = todo
   BY <1>4, ProjectionAssumption DEF Crash, Reporting, HInv, Inv, TypeInv, TypeOK
 <2>2. job[x].input \in todo
   BY <1>1, <2>1 DEF HInv, QueueOK
 <2>3. Requeued'
   BY <1>2, <2>1, <2>2 DEF Requeued, OneReceiver
 <2>. QED BY <2>3 DEF ToldOK
<1>. QED BY <1>3, <1>4

LEMMA ToldStep ==
    ASSUME HInv, Reporting, [Next]_vars
    PROVE  ToldOK'
<1>1. CASE UNCHANGED vars
  BY <1>1 DEF vars, group, HInv, ToldOK, Requeued, SilentWrites, BlindWrite, MuteWrite
<1>2. CASE Next
  BY <1>2, StartTold, PrepareTold, ReadTold, StoreTold, ContendTold, EndTold DEF Next, Rebuild
<1>. QED BY <1>1, <1>2

\* One worker takes a role that is its to take, and todo loses its receipt at most.
LEMMA RolesSet ==
    ASSUME HInv, NEW x \in Workers, NEW j, Set(x, j), RoleOK(x, j),
           UNCHANGED todo \/ (todo' = todo \ {job[x].input} /\ j = Idle),
           OneReceiver /\ x \in Receivers => j = Idle \/ j.input \in todo
    PROVE  RolesOK' /\ QueueOK'
<1>0. job \in [Workers -> Locals] /\ todo \subseteq Receipts
  BY DEF HInv, Inv, TypeInv, TypeOK
<1>1. job'[x] = j /\ \A w \in Workers \ {x} : job'[w] = job[w]
  BY <1>0 DEF Set
<1>2. RolesOK'
  BY <1>1 DEF HInv, RolesOK, RoleOK
<1>3. QueueOK'
 <2>. SUFFICES ASSUME OneReceiver, NEW w \in Receivers
               PROVE  job'[w] = Idle \/ job'[w].input \in todo'
   BY DEF QueueOK
 <2>1. CASE w = x
   BY <1>1, <2>1
 <2>2. CASE w # x
  <3>1. x \notin Receivers /\ x \in Pollers
    BY <2>2 DEF OneReceiver, Workers
  <3>2. job[x].input \notin Receipts
    BY <3>1 DEF HInv, RolesOK, RoleOK
  <3>3. todo' = todo
    BY <1>0, <3>2
  <3>. QED BY <1>1, <2>2, <3>3 DEF HInv, QueueOK, Workers
 <2>. QED BY <2>1, <2>2
<1>. QED BY <1>2, <1>3

LEMMA RolesStep ==
    ASSUME HInv, Reporting, [Next]_vars
    PROVE  RolesOK' /\ QueueOK'
<1>1. CASE UNCHANGED vars
  BY <1>1 DEF vars, HInv, RolesOK, QueueOK
<1>2. /\ Idle.pc = "idle" /\ Idle.kind = "none" /\ Idle.input \notin Receipts
      /\ Idle.tries = 0
  BY ProjectionAssumption DEF Idle, Facts
<1>3. \A w \in Workers : RoleOK(w, Idle)
  BY <1>2 DEF RoleOK, Early
<1>4. ASSUME NEW x \in Workers
      PROVE  job[x] \in Locals /\ RoleOK(x, job[x])
             /\ (OneReceiver /\ x \in Receivers => job[x] = Idle \/ job[x].input \in todo)
  BY DEF HInv, Inv, TypeInv, TypeOK, RolesOK, QueueOK
<1>5. ASSUME NEW x \in Workers, Set(x, Idle), UNCHANGED todo \/ todo' = todo \ {job[x].input}
      PROVE  RolesOK' /\ QueueOK'
 <2>1. PICK j : j = Idle
   OBVIOUS
 <2>2. Set(x, j) /\ RoleOK(x, j)
   BY <1>3, <1>5, <2>1
 <2>. QED BY <1>5, <2>1, <2>2, RolesSet
\* Before a job ends its worker keeps its input and what it is for.
<1>6. ASSUME NEW x \in Workers, NEW j, Set(x, j), UNCHANGED todo,
             j.kind = job[x].kind, j.input = job[x].input, job[x].pc # "idle",
             j.pc \in Early \union {"record"} =>
                /\ job[x].pc \in Early /\ j.tries = job[x].tries
                /\ j.pc = "record" \/ job[x].kind = "receipt"
      PROVE  RolesOK' /\ QueueOK'
 <2>1. RoleOK(x, j)
   BY <1>4, <1>6 DEF RoleOK, Early
 <2>2. OneReceiver /\ x \in Receivers => j.input \in todo
   BY <1>2, <1>4, <1>6
 <2>. QED BY <1>6, <2>1, <2>2, RolesSet
<1>7. ASSUME NEW x \in Workers, NEW pc \in {"merge", "record", "group"}, Goto(x, pc), UNCHANGED todo,
             job[x].pc \in {"open", "merge", "record"},
             pc # "group" => job[x].pc \in Early
      PROVE  RolesOK' /\ QueueOK'
 <2>. DEFINE j == [job[x] EXCEPT !.pc = pc]
 <2>1. /\ Set(x, j) /\ j.pc = pc /\ j.kind = job[x].kind /\ j.input = job[x].input
       /\ j.tries = job[x].tries
   BY <1>4, <1>7 DEF Goto, Locals
 <2>. HIDE DEF j
 <2>2. pc # "group" => job[x].kind = "receipt"
   BY <1>4, <1>7 DEF RoleOK
 <2>. QED BY <1>6, <1>7, <2>1, <2>2 DEF Early
<1>8. ASSUME NEW x \in Workers, NEW pc \in {"group", "announce"}, NEW seen, NEW tries,
             Restart(x, pc, seen, tries), UNCHANGED todo, job[x].pc = "write"
      PROVE  RolesOK' /\ QueueOK'
 <2>. DEFINE j == [Idle EXCEPT !.pc = pc, !.kind = job[x].kind, !.input = job[x].input,
                               !.seen = seen, !.tries = tries]
 <2>1. Set(x, j) /\ j.pc = pc /\ j.kind = job[x].kind /\ j.input = job[x].input
   BY <1>8 DEF Restart, Idle
 <2>. HIDE DEF j
 <2>. QED BY <1>6, <1>8, <2>1 DEF Early
<1>9. ASSUME NEW x \in Workers, Open(x) \/ Merge(x) \/ Record(x) PROVE RolesOK' /\ QueueOK'
  BY <1>7, <1>9 DEF Open, Merge, Record, Early
<1>10. ASSUME NEW x \in Workers, Rebuild(x) PROVE RolesOK' /\ QueueOK'
 <2>1. CASE ReadGroup(x)
  <3>. DEFINE j == [job[x] EXCEPT !.pc = "versions", !.revision = revision, !.receipts = receipts]
  <3>1. Set(x, j) /\ j.pc = "versions" /\ j.kind = job[x].kind /\ j.input = job[x].input
        /\ job[x].pc = "group" /\ todo' = todo
    BY <1>4, <2>1 DEF ReadGroup, Locals
  <3>. HIDE DEF j
  <3>. QED BY <1>6, <3>1 DEF Early
 <2>2. CASE ReadVersions(x)
  <3>. DEFINE j == [job[x] EXCEPT !.pc = "sessions", !.seen = recorded \intersect Audits]
  <3>1. Set(x, j) /\ j.pc = "sessions" /\ j.kind = job[x].kind /\ j.input = job[x].input
        /\ job[x].pc = "versions" /\ todo' = todo
    BY <1>4, <2>2 DEF ReadVersions, Locals
  <3>. HIDE DEF j
  <3>. QED BY <1>6, <3>1 DEF Early
 <2>3. CASE ReadSessions(x)
  <3>. DEFINE j == [job[x] EXCEPT !.pc = "write", !.seen = @ \union (recorded \ Audits)]
  <3>1. Set(x, j) /\ j.pc = "write" /\ j.kind = job[x].kind /\ j.input = job[x].input
        /\ job[x].pc = "sessions" /\ todo' = todo
    BY <1>4, <2>3 DEF ReadSessions, Locals
  <3>. HIDE DEF j
  <3>. QED BY <1>6, <3>1 DEF Early
 <2>4. CASE Store(x)
   BY <1>8, <2>4 DEF Store
 <2>5. CASE Contend(x)
   BY <1>5, <1>8, <2>5 DEF Contend, Finish
 <2>6. CASE Announce(x)
   BY <1>5, <2>6 DEF Announce, Finish
 <2>. QED BY <1>10, <2>1, <2>2, <2>3, <2>4, <2>5, <2>6 DEF Rebuild
<1>11. ASSUME NEW x \in Workers, Crash(x) PROVE RolesOK' /\ QueueOK'
  BY <1>5, <1>11 DEF Crash
<1>12. ASSUME NEW x \in Workers, NEW r \in Receipts, Take(x, r) PROVE RolesOK' /\ QueueOK'
 <2>. DEFINE j == [Idle EXCEPT !.pc = "open", !.kind = "receipt", !.input = r]
 <2>1. Set(x, j) /\ j.pc = "open" /\ j.kind = "receipt" /\ j.input = r /\ j.tries = 0
       /\ x \in Receivers /\ r \in todo /\ todo' = todo
   BY <1>12 DEF Take, Idle
 <2>. HIDE DEF j
 <2>2. RoleOK(x, j)
   BY <2>1, ProjectionAssumption DEF RoleOK
 <2>. QED BY <2>1, <2>2, RolesSet
<1>13. ASSUME NEW x \in Workers, NEW p \in Polls, StartPoll(x, p) PROVE RolesOK' /\ QueueOK'
 <2>. DEFINE j == [Idle EXCEPT !.pc = "record", !.kind = "poll", !.input = p]
 <2>1. Set(x, j) /\ j.pc = "record" /\ j.kind = "poll" /\ j.input = p /\ j.tries = 0
       /\ x \notin Receivers /\ todo' = todo
   BY <1>13, ProjectionAssumption DEF StartPoll, Idle
 <2>. HIDE DEF j
 <2>2. RoleOK(x, j)
   BY <2>1, ProjectionAssumption DEF RoleOK, Early, Receipts
 <2>. QED BY <2>1, <2>2, RolesSet
<1>14. ASSUME NEW x \in Workers, StartBackfill(x) PROVE RolesOK' /\ QueueOK'
 <2>. DEFINE j == [Idle EXCEPT !.pc = "group", !.kind = "backfill"]
 <2>1. Set(x, j) /\ j.pc = "group" /\ j.kind = "backfill" /\ j.input = Idle.input
       /\ x \in Pollers /\ x \notin Receivers /\ todo' = todo
   BY <1>14, ProjectionAssumption DEF StartBackfill, Idle
 <2>. HIDE DEF j
 <2>2. RoleOK(x, j)
   BY <1>2, <2>1 DEF RoleOK, Early
 <2>. QED BY <2>1, <2>2, RolesSet
<1>. QED BY <1>1, <1>9, <1>10, <1>11, <1>12, <1>13, <1>14 DEF Next

LEMMA HarmInit == Init => HInv
<1>. SUFFICES ASSUME Init PROVE RolesOK /\ QueueOK /\ ToldOK
  BY InvInit DEF HInv
<1>1. \A w \in Workers : RoleOK(w, Idle)
  BY ProjectionAssumption DEF RoleOK, Early, Idle, Facts
<1>. QED BY <1>1 DEF Init, RolesOK, QueueOK, ToldOK, Critical, Workers

\* If polls and the backfill take turns and are not lost, then critical harm is
\* announced when nothing is left to do: with any number of webhook workers of
\* which none is lost, or with one that may be lost however often.  Three is
\* enough for _PROJECTION_ATTEMPTS, although the backfill announces nothing
\* (ChangeGroupProjector.rebuild).
THEOREM HarmIsTold ==
    ASSUME Attempts > 2, Mortal \subseteq Receivers,
           MaxDeaths = 0 \/ \A v, w \in Receivers : v = w,
           \A v, w \in Pollers : v = w
    PROVE  Spec => []HarmIsAnnounced
<1>1. Reporting
  BY DEF Reporting, OneReceiver
<1>2. HInv /\ [Next]_vars => HInv'
  BY <1>1, InvStep, RolesStep, ToldStep DEF HInv
<1>3. HInv => HarmIsAnnounced
 <2>. SUFFICES ASSUME HInv, Settled, Critical(recorded), ~alerted PROVE FALSE
   BY DEF HarmIsAnnounced
 <2>1. ~Requeued
   BY DEF Settled, Requeued
 <2>2. \A w \in Workers : \A k, rev : ~Tells(job[w], k, rev)
   BY IdleType DEF Settled, Tells, Early, Reads
 <2>. QED BY <2>1, <2>2 DEF HInv, ToldOK
<1>. QED BY HarmInit, <1>2, <1>3, PTL DEF Spec
=============================================================================
