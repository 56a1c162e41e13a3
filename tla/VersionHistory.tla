--------------------------- MODULE VersionHistory ---------------------------
\* The recorded history of one Mist object.
\*
\* Webhook workers, backup crawls, the backup a restore plan is prepared
\* from and the restore executor all extend the same history: each reads
\* the object from Mist, reads the newest version, and inserts the next
\* number under a unique index.  The LogicalObject document summarizes the
\* history and is saved afterwards, whole, from the copy the writer loaded.
\*
\* A worker's steps are its database and Mist calls; anything may happen
\* between two of them.  Mist itself is external: administrators change the
\* object, each change is announced by an audit webhook, and an id that was
\* deleted never comes back.  Receipts are durable; how often a failed one
\* is retried is not bounded here.
EXTENDS Integers, SequencesExt

\* The definitions named ...Slip are not part of the specification: each is a
\* wrong version of the definition after it, which the runs must find out.

CONSTANTS
    Configs,        \* configurations Mist can hold for the object
    Absent,         \* no such object in Mist
    Workers,        \* processes: webhook workers, crawls, requests, restores
    Crawlers,       \* those that may crawl for a backup
    Mortal,         \* those that may die between two steps
    MaxChanges,     \* bound on the changes made in Mist
    RecordAttempts  \* _RECORD_ATTEMPTS, _TOMBSTONE_ATTEMPTS

VARIABLES
    mist,           \* what Mist holds
    audits,         \* the kind of every audit Mist announced, in order
    todo,           \* receipts of audits that are not processed yet
    versions,       \* ObjectVersion, by number
    logical,        \* LogicalObject: its current_version and is_deleted
    incarnation,    \* ObjectIncarnation: none, open, or with ended_at set
    job             \* each worker's locals

vars == <<mist, audits, todo, versions, logical, incarnation, job>>
stored == <<todo, versions, logical, incarnation>>

Unknown == [known |-> FALSE, version |-> 0, deleted |-> FALSE]
Idle == [pc |-> "idle", kind |-> "none", audit |-> 0, seen |-> Absent,
         copy |-> Unknown, latest |-> 0, tries |-> 0]

Set(w, j) == job' = [job EXCEPT ![w] = j]
Local(w, j) == Set(w, j) /\ UNCHANGED <<mist, audits, stored>>
At(w, pc, kinds) == job[w].pc = pc /\ job[w].kind \in kinds

\* The receipt behind a finished job reads processed; a failed one is retried.
Done(w) == todo' = todo \ {job[w].audit} /\ Set(w, Idle)
Fail(w) == UNCHANGED todo /\ Set(w, Idle)

------------------------
\* Mist.
Announce(kind) ==
    /\ Len(audits) < MaxChanges
    /\ audits' = Append(audits, kind)
    /\ todo' = todo \union {Len(audits) + 1}

Change(c) ==
    /\ mist \notin {Absent, c}
    /\ mist' = c
    /\ Announce(IF c = Absent THEN "delete" ELSE "update")
    /\ UNCHANGED <<versions, logical, incarnation, job>>

------------------------
\* A job begins.  Deliveries come in any order and more than once.
FetchSlip(w, a) ==
    /\ job[w] = Idle
    /\ (a = 0 /\ w \in Crawlers) \/ (a \in todo /\ audits[a] = "update")
    /\ todo' = todo \ {a}
    /\ IF mist = Absent
       THEN UNCHANGED job
       ELSE Set(w, [Idle EXCEPT !.pc = "load", !.kind = "capture",
                                !.audit = a, !.seen = mist])
    /\ UNCHANGED <<mist, audits, versions, logical, incarnation>>

\* AuditVersioningService.apply for a created or updated object, and the
\* crawl of SnapshotService: both fetch first, and an absent object is no match.
Fetch(w, a) ==
    /\ job[w] = Idle
    /\ (a = 0 /\ w \in Crawlers) \/ (a \in todo /\ audits[a] = "update")
    /\ IF mist = Absent
       THEN todo' = todo \ {a} /\ UNCHANGED job
       ELSE UNCHANGED todo /\ Set(w, [Idle EXCEPT !.pc = "load", !.kind = "capture",
                                                  !.audit = a, !.seen = mist])
    /\ UNCHANGED <<mist, audits, versions, logical, incarnation>>

\* `_tombstone` looks for the live object of that id.
FindDeleted(w, a) ==
    /\ job[w] = Idle
    /\ a \in todo /\ audits[a] = "delete"
    /\ IF logical.known /\ ~logical.deleted
       THEN UNCHANGED todo /\ Set(w, [Idle EXCEPT !.pc = "read", !.kind = "tombstone",
                                                  !.audit = a, !.copy = logical])
       ELSE todo' = todo \ {a} /\ UNCHANGED job
    /\ UNCHANGED <<mist, audits, versions, logical, incarnation>>

\* A restore rewrites or deletes the object, then reads it back.
RestoreWrite(w, c) ==
    /\ job[w] = Idle
    /\ versions # <<>>
    /\ mist \notin {Absent, c}
    /\ mist' = c
    /\ Announce(IF c = Absent THEN "delete" ELSE "update")
    /\ Set(w, [Idle EXCEPT !.pc = "readback",
                           !.kind = IF c = Absent THEN "restore delete" ELSE "restore"])
    /\ UNCHANGED <<versions, logical, incarnation>>

\* An update whose object is gone, or a deletion that did not take, fails.
ReadBack(w) ==
    /\ At(w, "readback", {"restore", "restore delete"})
    /\ IF (mist = Absent) = (job[w].kind = "restore delete")
       THEN Local(w, [job[w] EXCEPT !.pc = "load", !.seen = mist])
       ELSE Local(w, Idle)

\* RestoreBaselineService: the planner's copy, the newest version, then Mist.
BeginBaseline(w) ==
    /\ job[w] = Idle
    /\ logical.known /\ versions # <<>>
    /\ Local(w, [Idle EXCEPT !.pc = "fetch", !.kind = "baseline", !.copy = logical,
                             !.latest = Len(versions)])

FetchBaseline(w) ==
    LET previous == versions[job[w].latest] IN
    /\ At(w, "fetch", {"baseline"})
    /\ IF \/ (mist = Absent) # job[w].copy.deleted
          \/ mist = Absent
          \/ ~previous.deleted /\ previous.config = mist
       THEN Local(w, Idle)
       ELSE Local(w, [job[w] EXCEPT !.pc = "insert", !.seen = mist])

------------------------
\* The next version.
\* `_find_or_insert` of the identity and its incarnation; both are idempotent.
Load(w) ==
    /\ At(w, "load", {"capture", "restore", "restore delete"})
    /\ logical' = [logical EXCEPT !.known = TRUE]
    /\ incarnation' = IF incarnation = "none" THEN "open" ELSE incarnation
    /\ Set(w, [job[w] EXCEPT !.pc = "read", !.copy = logical'])
    /\ UNCHANGED <<mist, audits, todo, versions>>

\* A deletion is never "unchanged": an object seen again is live again.
Unchanged(w) ==
    /\ versions # <<>>
    /\ ~Last(versions).deleted
    /\ Last(versions).config = job[w].seen

ReadLatestSlip(w) ==
    LET found == [job[w] EXCEPT !.latest = Len(versions)] IN
    /\ \/ /\ At(w, "read", {"capture"})
          /\ IF Unchanged(w) THEN Done(w) ELSE UNCHANGED todo /\ Set(w, [found EXCEPT !.pc = "insert"])
       \/ /\ At(w, "read", {"tombstone"})
          /\ IF versions = <<>> \/ Last(versions).deleted
             THEN Done(w)
             ELSE UNCHANGED todo /\ Set(w, [found EXCEPT !.pc = "insert"])
       \/ /\ At(w, "read", {"restore", "restore delete"})
          /\ UNCHANGED todo
          /\ Set(w, [found EXCEPT !.pc = "insert"])
    /\ UNCHANGED <<mist, audits, versions, logical, incarnation>>

ReadLatest(w) ==
    LET found == [job[w] EXCEPT !.latest = Len(versions)] IN
    /\ \/ /\ At(w, "read", {"capture"})
          /\ IF Unchanged(w) THEN Done(w) ELSE UNCHANGED todo /\ Set(w, [found EXCEPT !.pc = "insert"])
       \/ /\ At(w, "read", {"tombstone"})
          /\ \/ versions = <<>> /\ Done(w)
             \/ /\ versions # <<>>
                /\ UNCHANGED todo
                /\ Set(w, [found EXCEPT !.pc = IF Last(versions).deleted THEN "end" ELSE "insert"])
       \/ /\ At(w, "read", {"restore", "restore delete"})
          /\ UNCHANGED todo
          /\ Set(w, [found EXCEPT !.pc = "insert"])
    /\ UNCHANGED <<mist, audits, versions, logical, incarnation>>

\* A webhook's first sight of an object is its creation; a crawl's is initial.
Event(w) ==
    CASE job[w].kind \in {"restore", "restore delete"} -> "restored"
      [] job[w].kind = "tombstone" -> "deleted"
      [] job[w].kind = "baseline" -> "updated"
      [] OTHER -> IF job[w].latest = 0 THEN IF job[w].audit = 0 THEN "initial" ELSE "created"
                  ELSE IF versions[job[w].latest].deleted THEN "created" ELSE "updated"

\* A deletion keeps the configuration it deleted.
NextVersion(w) ==
    LET deleted == job[w].kind \in {"tombstone", "restore delete"} IN
    [config |-> IF deleted THEN versions[job[w].latest].config ELSE job[w].seen,
     deleted |-> deleted,
     event |-> Event(w)]

\* The number is free, or another writer took it first: read again, a bounded
\* number of times; the baseline does not try again.
TakenSlip(w) == FALSE
Taken(w) == Len(versions) > job[w].latest

InsertSlip(w) ==
    /\ job[w].pc = "insert"
    /\ \/ /\ ~Taken(w)
          /\ versions' = Append(versions, NextVersion(w))
          /\ UNCHANGED todo
          /\ Set(w, [job[w] EXCEPT !.latest = @ + 1,
                                   !.pc = IF job[w].kind = "tombstone" THEN "end" ELSE "save"])
       \/ /\ Taken(w)
          /\ UNCHANGED versions
          /\ IF job[w].kind = "baseline"
             THEN Fail(w)
             ELSE UNCHANGED todo /\ Set(w, [job[w] EXCEPT !.pc = "read", !.tries = @ + 1])
    /\ UNCHANGED <<mist, audits, logical, incarnation>>
Insert(w) ==
    /\ job[w].pc = "insert"
    /\ \/ /\ ~Taken(w)
          /\ versions' = Append(versions, NextVersion(w))
          /\ UNCHANGED todo
          /\ Set(w, [job[w] EXCEPT !.latest = @ + 1,
                                   !.pc = IF job[w].kind = "tombstone" THEN "end" ELSE "save"])
       \/ /\ Taken(w)
          /\ UNCHANGED versions
          /\ IF job[w].kind = "baseline" \/ job[w].tries + 1 = RecordAttempts
             THEN Fail(w)
             ELSE UNCHANGED todo /\ Set(w, [job[w] EXCEPT !.pc = "read", !.tries = @ + 1])
    /\ UNCHANGED <<mist, audits, logical, incarnation>>

\* The incarnation the deletion closes.
EndIncarnation(w) ==
    /\ job[w].pc = "end"
    /\ incarnation' = IF incarnation = "open" THEN "ended" ELSE incarnation
    /\ Set(w, [job[w] EXCEPT !.pc = "save"])
    /\ UNCHANGED <<mist, audits, todo, versions, logical>>

------------------------
\* The summary.  A capture and a deletion save the document they loaded
\* with the number they recorded; a restore never lowers the number its
\* copy holds; the baseline's update is an atomic $max.
Larger(m, n) == IF m > n THEN m ELSE n

Summary(w) ==
    LET n == job[w].latest IN
    CASE job[w].kind = "capture"   -> [known |-> TRUE, version |-> n, deleted |-> FALSE]
      [] job[w].kind = "tombstone" -> [known |-> TRUE, version |-> n, deleted |-> TRUE]
      [] job[w].kind = "baseline"  -> [logical EXCEPT !.version = Larger(@, n)]
      [] OTHER -> [known |-> TRUE, version |-> Larger(job[w].copy.version, n),
                   deleted |-> job[w].kind = "restore delete"]

Save(w) ==
    /\ job[w].pc = "save"
    /\ logical' = Summary(w)
    /\ Done(w)
    /\ UNCHANGED <<mist, audits, versions, incarnation>>

Crash(w) ==
    /\ w \in Mortal
    /\ job[w] # Idle
    /\ Local(w, Idle)

------------------------
\* The specification.
Init ==
    /\ mist \in Configs
    /\ audits = <<>>
    /\ todo = {}
    /\ versions = <<>>
    /\ logical = Unknown
    /\ incarnation = "none"
    /\ job = [w \in Workers |-> Idle]

Step(w) ==
    \/ ReadBack(w) \/ FetchBaseline(w) \/ Load(w) \/ ReadLatest(w) \/ Insert(w)
    \/ EndIncarnation(w) \/ Save(w)

Next ==
    \/ \E c \in Configs \union {Absent} : Change(c)
    \/ \E w \in Workers, a \in 0 .. MaxChanges : Fetch(w, a) \/ FindDeleted(w, a)
    \/ \E w \in Workers, c \in Configs \union {Absent} : RestoreWrite(w, c)
    \/ \E w \in Workers : BeginBaseline(w)
    \/ \E w \in Workers : Step(w)
    \/ \E w \in Workers : Crash(w)

Spec == Init /\ [][Next]_vars

-----------------------------------------------------------------------------
Kinds == {"none", "capture", "tombstone", "restore", "restore delete", "baseline"}
Version == [config : Configs, deleted : BOOLEAN,
            event : {"initial", "created", "updated", "deleted", "restored"}]
LogicalObject == [known : BOOLEAN, version : Nat, deleted : BOOLEAN]

TypeOK ==
    /\ mist \in Configs \union {Absent}
    /\ audits \in Seq({"update", "delete"})
    /\ todo \subseteq 1 .. Len(audits)
    /\ versions \in Seq(Version)
    /\ logical \in LogicalObject
    /\ incarnation \in {"none", "open", "ended"}
    /\ job \in [Workers ->
          [pc : {"idle", "readback", "fetch", "load", "read", "insert", "end", "save"},
           kind : Kinds, audit : Nat, seen : Configs \union {Absent},
           copy : LogicalObject, latest : Nat, tries : 0 .. RecordAttempts - 1]]

\* What the history promises its readers, whoever writes it.
Journal == INSTANCE VersionJournal WITH journal <- versions
JournalStep == Journal!Next \/ UNCHANGED versions
JournalSpec == Journal!Spec

Settled == todo = {} /\ \A w \in Workers : job[w] = Idle

\* docs/product-specification.md, 7.2: processing is "safe under duplicate,
\* delayed, and out-of-order delivery".  Once every audit is processed, the
\* newest version is what Mist holds.
SettledIsCurrent ==
    Settled /\ versions # <<>> =>
        IF mist = Absent THEN Last(versions).deleted
        ELSE ~Last(versions).deleted /\ Last(versions).config = mist

\* docs/product-specification.md, 7.2: "Processing is idempotent".  Once every
\* audit is processed, however many attempts it took, the summary names the
\* newest version and whether the object is deleted.
SettledIsSummarized ==
    Settled /\ versions # <<>> =>
        logical.version = Len(versions) /\ logical.deleted = Last(versions).deleted

\* A deletion reaches the summary even when the worker that recorded it, or the
\* restore that made it, died before it saved the summary.
DeletionIsSummarized ==
    Settled /\ versions # <<>> /\ Last(versions).deleted =>
        logical.deleted /\ logical.version = Len(versions)
=============================================================================
