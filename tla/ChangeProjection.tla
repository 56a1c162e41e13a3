-------------------------- MODULE ChangeProjection --------------------------
\* The stored picture of one administrator action.
\*
\* An AuditChangeGroup merges what every delivery of one audit says and
\* carries a projection computed from two other collections: the versions
\* the audit produced and the monitoring sessions it opened.  Webhook
\* workers, monitoring polls and a backfill rebuild it concurrently; a
\* rebuild reads the group, then each collection, and writes the whole
\* document back if its projection_revision has not moved.
\*
\* A worker's steps are its database calls.  Versions and evidence are
\* facts that are only added, recorded under unique keys, so recording one
\* twice changes nothing; VersionHistory models how a version is recorded.
EXTENDS Integers, FiniteSets

\* The definitions named ...Slip are not part of the specification: each is a
\* wrong version of the definition after it, which the runs must find out.

CONSTANTS
    Audits,     \* audit receipts; each records a version
    Events,     \* device-event receipts of the audit; each records evidence
    Polls,      \* the polls of the monitoring session; each adds evidence
    NoInput,    \* the input of a job that has none
    Harmful,    \* evidence of critical impact
    Receivers,  \* webhook workers
    Pollers,    \* beat tasks: monitoring polls and the backfill
    Mortal,     \* workers that may be lost between two steps
    MaxDeaths,  \* bound on the workers lost
    Attempts    \* _PROJECTION_ATTEMPTS

Receipts == Audits \union Events
Facts == Receipts \union Polls
Workers == Receivers \union Pollers

ASSUME ProjectionAssumption ==
    /\ Audits \intersect (Events \union Polls) = {}
    /\ Events \intersect Polls = {}
    /\ NoInput \notin Facts
    /\ Harmful \subseteq Events \union Polls
    /\ Receivers \intersect Pollers = {}
    /\ Mortal \subseteq Workers
    /\ MaxDeaths \in Nat
    /\ Attempts \in Nat \ {0}

VARIABLES
    todo,       \* receipts that are not processed
    recorded,   \* versions and evidence on record
    opened,     \* the group exists
    receipts,   \* its receipt_ids: what deliveries merged into it
    revision,   \* its projection_revision
    picture,    \* the facts its projection was computed from
    projected,  \* projection_updated_at is set
    alerted,    \* the impact notification, unique by its dedupe_key
    job,        \* each worker's locals
    deaths

group == <<opened, receipts, revision, picture, projected>>
vars == <<todo, recorded, group, alerted, job, deaths>>

Idle == [pc |-> "idle", kind |-> "none", input |-> NoInput, revision |-> 0,
         receipts |-> {}, seen |-> {}, tries |-> 0]

Set(w, j) == job' = [job EXCEPT ![w] = j]
Goto(w, pc) == Set(w, [job[w] EXCEPT !.pc = pc])
\* What was read is not used again.
Restart(w, pc, seen, tries) ==
    Set(w, [Idle EXCEPT !.pc = pc, !.kind = job[w].kind, !.input = job[w].input, !.seen = seen, !.tries = tries])

------------------------
\* What starts a rebuild.
\* Deliveries come in any order and more than once.
Take(w, r) ==
    /\ w \in Receivers /\ job[w] = Idle /\ r \in todo
    /\ Set(w, [Idle EXCEPT !.pc = "open", !.kind = "receipt", !.input = r])
    /\ UNCHANGED <<todo, recorded, group, alerted, deaths>>

\* A session the audit opened is polled until its window ends.
StartPoll(w, p) ==
    /\ w \in Pollers /\ job[w] = Idle
    /\ p \in Polls \ recorded
    /\ recorded \intersect Events # {}
    /\ Set(w, [Idle EXCEPT !.pc = "record", !.kind = "poll", !.input = p])
    /\ UNCHANGED <<todo, recorded, group, alerted, deaths>>

\* The backfill looks for groups without a projection.
StartBackfill(w) ==
    /\ w \in Pollers /\ job[w] = Idle
    /\ opened /\ ~projected
    /\ Set(w, [Idle EXCEPT !.pc = "group", !.kind = "backfill"])
    /\ UNCHANGED <<todo, recorded, group, alerted, deaths>>

------------------------
\* Before the rebuild: the group, the merge, the fact itself.
Open(w) ==
    /\ job[w].pc = "open"
    /\ opened' = TRUE
    /\ Goto(w, "merge")
    /\ UNCHANGED <<todo, recorded, receipts, revision, picture, projected, alerted, deaths>>

\* Merged in place, and the revision moves with it.
MergeSlip(w) ==
    /\ job[w].pc = "merge"
    /\ receipts' = receipts \union {job[w].input}
    /\ Goto(w, "record")
    /\ UNCHANGED <<todo, recorded, opened, revision, picture, projected, alerted, deaths>>
Merge(w) ==
    /\ job[w].pc = "merge"
    /\ receipts' = receipts \union {job[w].input}
    /\ revision' = revision + 1
    /\ Goto(w, "record")
    /\ UNCHANGED <<todo, recorded, opened, picture, projected, alerted, deaths>>

Record(w) ==
    /\ job[w].pc = "record"
    /\ recorded' = recorded \union {job[w].input}
    /\ Goto(w, "group")
    /\ UNCHANGED <<todo, group, alerted, deaths>>

------------------------
\* ChangeGroupProjector.rebuild.
ReadGroup(w) ==
    /\ job[w].pc = "group"
    /\ Set(w, [job[w] EXCEPT !.pc = "versions", !.revision = revision,
                             !.receipts = receipts])
    /\ UNCHANGED <<todo, recorded, group, alerted, deaths>>

ReadVersions(w) ==
    /\ job[w].pc = "versions"
    /\ Set(w, [job[w] EXCEPT !.pc = "sessions", !.seen = recorded \intersect Audits])
    /\ UNCHANGED <<todo, recorded, group, alerted, deaths>>

ReadSessions(w) ==
    /\ job[w].pc = "sessions"
    /\ Set(w, [job[w] EXCEPT !.pc = "write", !.seen = @ \union (recorded \ Audits)])
    /\ UNCHANGED <<todo, recorded, group, alerted, deaths>>

\* A receipt reads processed once its job is through; nothing else is kept.
Finish(w) ==
    /\ todo' = todo \ {job[w].input}
    /\ Set(w, Idle)

Current(w) == job[w].revision = revision

StoreSlip(w) ==
    /\ job[w].pc = "write"
    /\ receipts' = job[w].receipts
    /\ picture' = job[w].seen
    /\ revision' = job[w].revision + 1
    /\ projected' = TRUE
    /\ Goto(w, "announce")
    /\ UNCHANGED <<todo, recorded, opened, alerted, deaths>>
StoreDoneSlip(w) ==
    /\ job[w].pc = "write" /\ Current(w)
    /\ receipts' = job[w].receipts
    /\ picture' = job[w].seen
    /\ revision' = revision + 1
    /\ projected' = TRUE
    /\ todo' = todo \ {job[w].input}
    /\ Goto(w, "announce")
    /\ UNCHANGED <<recorded, opened, alerted, deaths>>
\* The whole document the rebuild read, with the picture it computed.
Store(w) ==
    /\ job[w].pc = "write" /\ Current(w)
    /\ receipts' = job[w].receipts
    /\ picture' = job[w].seen
    /\ revision' = revision + 1
    /\ projected' = TRUE
    /\ Restart(w, "announce", job[w].seen, 0)
    /\ UNCHANGED <<todo, recorded, opened, alerted, deaths>>

ContendSlip(w) ==
    /\ job[w].pc = "write" /\ ~Current(w)
    /\ Finish(w)
    /\ UNCHANGED <<recorded, group, alerted, deaths>>
ContendForeverSlip(w) ==
    /\ job[w].pc = "write" /\ ~Current(w)
    /\ Set(w, [job[w] EXCEPT !.pc = "group", !.tries = @ + 1])
    /\ UNCHANGED <<todo, recorded, group, alerted, deaths>>
\* The revision moved: again from the sources, a bounded number of times, then
\* the rebuild gives up and its caller carries on.
Contend(w) ==
    /\ job[w].pc = "write" /\ ~Current(w)
    /\ IF job[w].tries + 1 = Attempts
       THEN Finish(w)
       ELSE /\ Restart(w, "group", {}, job[w].tries + 1)
            /\ UNCHANGED todo
    /\ UNCHANGED <<recorded, group, alerted, deaths>>

Critical(facts) == facts \intersect Audits # {} /\ facts \intersect Harmful # {}

\* The backfill's projector was given no notification service.
Announce(w) ==
    /\ job[w].pc = "announce"
    /\ alerted' = (alerted \/ (job[w].kind # "backfill" /\ Critical(job[w].seen)))
    /\ Finish(w)
    /\ UNCHANGED <<recorded, group, deaths>>

\* A receipt whose worker is lost is queued again; a poll or a backfill is not.
Crash(w) ==
    /\ w \in Mortal /\ job[w] # Idle /\ deaths < MaxDeaths
    /\ Set(w, Idle)
    /\ deaths' = deaths + 1
    /\ UNCHANGED <<todo, recorded, group, alerted>>

------------------------
\* The specification.
Init ==
    /\ todo = Receipts
    /\ recorded = {}
    /\ opened = FALSE
    /\ receipts = {}
    /\ revision = 0
    /\ picture = {}
    /\ projected = FALSE
    /\ alerted = FALSE
    /\ job = [w \in Workers |-> Idle]
    /\ deaths = 0

Rebuild(w) ==
    \/ ReadGroup(w) \/ ReadVersions(w) \/ ReadSessions(w)
    \/ Store(w) \/ Contend(w) \/ Announce(w)

Next ==
    \/ \E w \in Workers, r \in Receipts : Take(w, r)
    \/ \E w \in Workers, p \in Polls : StartPoll(w, p)
    \/ \E w \in Workers : StartBackfill(w)
    \/ \E w \in Workers : Open(w) \/ Merge(w) \/ Record(w)
    \/ \E w \in Workers : Rebuild(w)
    \/ \E w \in Workers : Crash(w)

Spec == Init /\ [][Next]_vars

-----------------------------------------------------------------------------
Locals ==
    [pc : {"idle", "open", "merge", "record", "group", "versions", "sessions",
           "write", "announce"},
     kind : {"none", "receipt", "poll", "backfill"},
     input : Facts \union {NoInput}, revision : Nat,
     receipts : SUBSET Receipts, seen : SUBSET Facts, tries : 0 .. Attempts - 1]

TypeOK ==
    /\ todo \subseteq Receipts
    /\ recorded \subseteq Facts
    /\ opened \in BOOLEAN /\ projected \in BOOLEAN /\ alerted \in BOOLEAN
    /\ receipts \subseteq Receipts
    /\ revision \in Nat
    /\ picture \subseteq Facts
    /\ job \in [Workers -> Locals]
    /\ deaths \in 0 .. MaxDeaths

\* models/webhook.py, projection_revision: "two workers rebuilding the same
\* group cannot have the slower one's older picture land last".  A stored
\* picture is only ever replaced by one that has all it had.
PictureAdvances == [][picture \subseteq picture']_vars

\* webhook_processing.py, `_add_to_change_group`: a rebuild in flight does not
\* replace the merged fields "with the copy it read before they arrived".
MergesAreKept == [][receipts \subseteq receipts']_vars

\* Nothing is left to do: no receipt to process, no poll due, no worker busy,
\* no group the backfill would find.
Settled ==
    /\ todo = {}
    /\ \A w \in Workers : job[w] = Idle
    /\ recorded \intersect Events = {} \/ Polls \subseteq recorded
    /\ opened => projected

\* worker.py: change groups "whose rebuild was lost to a worker restart, are
\* filled in here".  When nothing is left to do, the picture shows every
\* version and all the evidence, although a rebuild gives up in the end.
PictureIsComplete == Settled => picture = recorded /\ receipts = Receipts

\* A change that did critical harm has been announced when nothing is left to do.
HarmIsAnnounced == Settled /\ Critical(recorded) => alerted
=============================================================================
