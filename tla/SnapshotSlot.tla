----------------------------- MODULE SnapshotSlot -----------------------------
\* The one snapshot an organization may have in progress.
\*
\* A unique index lets one manifest be active.  The API inserts it and hands
\* it to the queue; a worker marks it running, crawls Mist and finishes it,
\* saving its whole copy; a restore's fresh backup takes the slot as well.
\* Whoever lost its process leaves a manifest active: the next one to open
\* releases it once it is stale.
EXTENDS Integers, FiniteSets

CONSTANTS
    Manifests,  \* snapshots requested
    Workers,    \* snapshot workers
    MaxLosses   \* bound on the workers and requests lost

VARIABLES
    manifest,   \* the stored manifests
    sending,    \* manifests the API has inserted and not yet queued
    messages,   \* tasks in the queue
    crawl,      \* each worker's locals
    initial,    \* initial_snapshot_completed_at is set
    losses

vars == <<manifest, sending, messages, crawl, initial, losses>>

\* old: started_at, or created_at before it started, is STALE_MANIFEST_AFTER ago.
None == [status |-> "none", active |-> FALSE, old |-> FALSE]
Pending == [status |-> "pending", active |-> TRUE, old |-> FALSE]
Idle == [pc |-> "idle", of |-> "none", active |-> FALSE]
Active == {m \in Manifests : manifest[m].active}

Init ==
    /\ manifest = [m \in Manifests |-> None]
    /\ sending = {}
    /\ messages = {}
    /\ crawl = [w \in Workers |-> Idle]
    /\ initial = FALSE
    /\ losses = 0

Set(w, l) == crawl' = [crawl EXCEPT ![w] = l]

\* _release_stale_manifest, and the insert it makes room for.
Release(m) == [manifest[m] EXCEPT !.status = "failed", !.active = FALSE]
Opened(m, new) ==
    [x \in Manifests |-> IF x = m THEN new
                         ELSE IF manifest[x].active THEN Release(x) ELSE manifest[x]]
MayOpenSlip == Active = {}
MayOpen == \A x \in Active : manifest[x].old

\* trigger_snapshot: refused while another snapshot is in progress.
Trigger(m) ==
    /\ manifest[m] = None /\ MayOpen
    /\ manifest' = Opened(m, Pending)
    /\ sending' = sending \union {m}
    /\ UNCHANGED <<messages, crawl, initial, losses>>

Sent(m) ==
    /\ m \in sending
    /\ sending' = sending \ {m} /\ messages' = messages \union {m}
    /\ UNCHANGED <<manifest, crawl, initial, losses>>

Unsent(m) ==
    /\ m \in sending
    /\ sending' = sending \ {m}
    /\ manifest' = [manifest EXCEPT ![m] = [@ EXCEPT !.status = "failed", !.active = FALSE]]
    /\ UNCHANGED <<messages, crawl, initial, losses>>

\* RestoreBaselineService.prepare holds the slot for the length of a request,
\* as a worker does, and is refused where no stale manifest needs releasing.
Backup(w, m) ==
    /\ crawl[w] = Idle /\ manifest[m] = None /\ Active = {}
    /\ manifest' = [manifest EXCEPT ![m] = [Pending EXCEPT !.status = "running"]]
    /\ Set(w, [pc |-> "backup", of |-> m, active |-> TRUE])
    /\ UNCHANGED <<sending, messages, initial, losses>>

RequestLost(m) ==
    /\ m \in sending /\ losses < MaxLosses
    /\ sending' = sending \ {m} /\ losses' = losses + 1
    /\ UNCHANGED <<manifest, messages, crawl, initial>>

\* run: the manifest is read, whatever became of it, then marked running.
Take(w, m) ==
    /\ crawl[w] = Idle /\ m \in messages
    /\ messages' = messages \ {m}
    /\ Set(w, [pc |-> "start", of |-> m, active |-> manifest[m].active])
    /\ UNCHANGED <<manifest, sending, initial, losses>>

\* A manifest released meanwhile cannot become active beside another: the save
\* raises, and the snapshot finishes as failed.
Start(w) ==
    LET l == crawl[w] IN
    /\ l.pc = "start"
    /\ IF l.active /\ Active \ {l.of} # {}
       THEN Set(w, [l EXCEPT !.pc = "failing"]) /\ UNCHANGED manifest
       ELSE /\ manifest' = [manifest EXCEPT ![l.of] =
                               [status |-> "running", active |-> l.active, old |-> FALSE]]
            /\ Set(w, [l EXCEPT !.pc = "crawl"])
    /\ UNCHANGED <<sending, messages, initial, losses>>

FinishSlip(w, status) ==
    /\ manifest' = [manifest EXCEPT ![crawl[w].of].status = status, ![crawl[w].of].active = FALSE]
    /\ Set(w, IF status # "failed" /\ crawl[w].pc = "crawl" THEN [crawl[w] EXCEPT !.pc = "mark"] ELSE Idle)
    /\ UNCHANGED <<sending, messages, initial, losses>>
\* _finish_manifest; a crawl with read errors ends partial, one that raised failed.
Finish(w, status) ==
    /\ manifest' = [manifest EXCEPT ![crawl[w].of].status = status, ![crawl[w].of].active = FALSE]
    /\ Set(w, IF status = "completed" /\ crawl[w].pc = "crawl"
              THEN [crawl[w] EXCEPT !.pc = "mark"] ELSE Idle)
    /\ UNCHANGED <<sending, messages, initial, losses>>
End(w) ==
    \/ crawl[w].pc = "crawl" /\ \E s \in {"completed", "partial", "failed"} : Finish(w, s)
    \/ crawl[w].pc = "backup" /\ \E s \in {"completed", "failed"} : Finish(w, s)
    \/ crawl[w].pc = "failing" /\ Finish(w, "failed")

\* _mark_initial_snapshot
Mark(w) ==
    /\ crawl[w].pc = "mark"
    /\ initial' = TRUE
    /\ Set(w, Idle)
    /\ UNCHANGED <<manifest, sending, messages, losses>>

\* A worker's task is delivered again; a request is not.
WorkerLost(w) ==
    /\ crawl[w] # Idle /\ losses < MaxLosses
    /\ messages' = IF crawl[w].pc = "backup" THEN messages ELSE messages \union {crawl[w].of}
    /\ Set(w, Idle) /\ losses' = losses + 1
    /\ UNCHANGED <<manifest, sending, initial>>

GrowOld(m) ==
    /\ manifest[m].active /\ ~manifest[m].old
    /\ manifest' = [manifest EXCEPT ![m].old = TRUE]
    /\ UNCHANGED <<sending, messages, crawl, initial, losses>>

Next ==
    \/ \E m \in Manifests : Trigger(m) \/ Sent(m) \/ Unsent(m) \/ RequestLost(m) \/ GrowOld(m)
    \/ \E w \in Workers, m \in Manifests : Take(w, m) \/ Backup(w, m)
    \/ \E w \in Workers : Start(w) \/ End(w) \/ Mark(w) \/ WorkerLost(w)

\* A task that started ends, what was sent is taken, time passes.
Fairness ==
    /\ \A w \in Workers : WF_vars(Start(w) \/ End(w) \/ Mark(w))
    /\ \A w \in Workers : WF_vars(\E m \in Manifests : Take(w, m))
    /\ \A m \in Manifests : WF_vars(Sent(m) \/ Unsent(m)) /\ WF_vars(GrowOld(m))

Spec == Init /\ [][Next]_vars /\ Fairness

------------------------
\* Properties.
TypeOK ==
    /\ \A m \in Manifests : manifest[m].status \in
           {"none", "pending", "running", "completed", "partial", "failed"}
    /\ Cardinality(Active) <= 1
    /\ sending \subseteq Manifests /\ messages \subseteq Manifests

\* No lost request or worker holds the slot for good: from some point on, a
\* new snapshot may always be opened (open_manifest, STALE_MANIFEST_AFTER).
SlotComesFree == []<>MayOpen

\* What says that history holds a first complete snapshot says so after one
\* (_mark_initial_snapshot).
MarkedWhenComplete == initial' # initial => \E m \in Manifests : manifest[m].status = "completed"
InitialIsComplete == [][MarkedWhenComplete]_vars
=============================================================================
