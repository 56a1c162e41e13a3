--------------------------- MODULE WebhookReceipts ---------------------------
\* The life of a webhook receipt.
\*
\* The API stores each event of a delivery once, marked queued, and then
\* hands its id to the Celery queue.  Workers process it, at least once; a
\* sweep run by beat marks the receipts that failed, never reached the queue
\* or lost their worker as queued, and hands them over again.
\*
\* A worker keeps its own copy of the receipt and saves it whole.
EXTENDS Integers, FiniteSets

CONSTANTS
    Receipts,     \* events of Mist, by their deduplication key
    Workers,      \* Celery workers
    MaxAttempts,  \* MAX_PROCESSING_ATTEMPTS
    MaxMessages,  \* bound on the messages naming one receipt
    MaxLosses     \* bound on the workers and senders lost

VARIABLES
    receipt,   \* the stored receipts
    handing,   \* <<sender, receipt>>: marked queued, not yet sent
    queue,     \* how many messages name each receipt
    work,      \* each worker's locals
    recorded,  \* receipts whose effects are stored
    losses

vars == <<receipt, handing, queue, work, recorded, losses>>

Senders == {"api", "sweep"}
Stored == {"received", "queued", "processing", "processed", "failed"}

\* rested: updated_at is far enough back for the sweep to take it.
\* old: created_at is further back than RETRY_WINDOW.
NoReceipt == [status |-> "none", attempts |-> 0, rested |-> FALSE, old |-> FALSE]
Idle == [pc |-> "idle", of |-> "none", attempts |-> 0]

Save(r, status, attempts) ==
    receipt' = [receipt EXCEPT ![r].status = status, ![r].attempts = attempts,
                               ![r].rested = FALSE]

Init ==
    /\ receipt = [r \in Receipts |-> NoReceipt]
    /\ handing = {}
    /\ queue = [r \in Receipts |-> 0]
    /\ work = [w \in Workers |-> Idle]
    /\ recorded = {}
    /\ losses = 0

------------------------
\* Senders.
\* The unique key turns a repeated event away: it is counted a duplicate and
\* not queued, which changes nothing here.
Ingest(r) ==
    /\ receipt[r].status = "none"
    /\ Save(r, "queued", 0)
    /\ handing' = handing \union {<<"api", r>>}
    /\ UNCHANGED <<queue, work, recorded, losses>>

Sent(s, r) ==
    /\ <<s, r>> \in handing /\ queue[r] < MaxMessages
    /\ handing' = handing \ {<<s, r>>}
    /\ queue' = [queue EXCEPT ![r] = @ + 1]
    /\ UNCHANGED <<receipt, work, recorded, losses>>

\* The queue is unavailable: only a receipt still queued is marked, and its
\* updated_at stays.
Refused(s, r) ==
    /\ <<s, r>> \in handing
    /\ handing' = handing \ {<<s, r>>}
    /\ receipt' = IF receipt[r].status = "queued"
                  THEN [receipt EXCEPT ![r].status = "received"] ELSE receipt
    /\ UNCHANGED <<queue, work, recorded, losses>>

SenderLost(s, r) ==
    /\ <<s, r>> \in handing /\ losses < MaxLosses
    /\ handing' = handing \ {<<s, r>>}
    /\ losses' = losses + 1
    /\ UNCHANGED <<receipt, queue, work, recorded>>

DueSlip(r) ==
    /\ ~receipt[r].old /\ receipt[r].attempts < MaxAttempts
    /\ \/ receipt[r].status = "received"
       \/ receipt[r].rested /\ receipt[r].status \in {"failed", "processing"}

Due(r) ==
    /\ ~receipt[r].old /\ receipt[r].attempts < MaxAttempts
    /\ \/ receipt[r].status = "received"
       \/ receipt[r].rested /\ receipt[r].status \in {"failed", "queued", "processing"}

\* The claim is conditional on the status and updated_at the sweep read, so
\* reading and claiming are one step.  A sweep hands over what it claimed
\* before the next one takes the same receipt again.
Sweep(r) ==
    /\ Due(r) /\ <<"sweep", r>> \notin handing
    /\ Save(r, "queued", receipt[r].attempts)
    /\ handing' = handing \union {<<"sweep", r>>}
    /\ UNCHANGED <<queue, work, recorded, losses>>

------------------------
\* Workers.
\* A delivered message is acknowledged when its task ends.
Read(w, r) ==
    /\ work[w] = Idle /\ queue[r] > 0
    /\ queue' = [queue EXCEPT ![r] = @ - 1]
    /\ work' = [work EXCEPT ![w] =
                   IF receipt[r].status = "processed" THEN Idle
                   ELSE [pc |-> "start", of |-> r, attempts |-> receipt[r].attempts]]
    /\ UNCHANGED <<receipt, handing, recorded, losses>>

Start(w) ==
    /\ work[w].pc = "start"
    /\ Save(work[w].of, "processing", work[w].attempts + 1)
    /\ work' = [work EXCEPT ![w].pc = "process", ![w].attempts = @ + 1]
    /\ UNCHANGED <<handing, queue, recorded, losses>>

\* The change group is merged, the versions recorded, the monitoring session
\* updated, the projection rebuilt and Guardian's root ensured, each of them
\* idempotent: ChangeProjection, VersionHistory and MonitoringSession.
Process(w) ==
    /\ work[w].pc = "process"
    /\ recorded' = recorded \union {work[w].of}
    /\ work' = [work EXCEPT ![w].pc = "done"]
    /\ UNCHANGED <<receipt, handing, queue, losses>>

End(w, status) ==
    /\ Save(work[w].of, status, work[w].attempts)
    /\ work' = [work EXCEPT ![w] = Idle]
    /\ UNCHANGED <<handing, queue, recorded, losses>>

Fail(w) == work[w].pc \in {"process", "done"} /\ End(w, "failed")
FinishSlip(w) == work[w].pc \in {"process", "done"} /\ End(w, "processed")
Finish(w) == work[w].pc = "done" /\ End(w, "processed")

\* task_reject_on_worker_lost: the broker delivers the message again.
WorkerLost(w) ==
    /\ work[w] # Idle /\ losses < MaxLosses
    /\ queue' = [queue EXCEPT ![work[w].of] = @ + 1]
    /\ work' = [work EXCEPT ![w] = Idle]
    /\ losses' = losses + 1
    /\ UNCHANGED <<receipt, handing, recorded>>

------------------------
\* Time.
\* retry_delay after a failure, STALE_AFTER for one queued or in progress.
Rest(r) ==
    /\ receipt[r].status \in {"failed", "queued", "processing"} /\ ~receipt[r].rested
    /\ receipt' = [receipt EXCEPT ![r].rested = TRUE]
    /\ UNCHANGED <<handing, queue, work, recorded, losses>>

GrowOld(r) ==
    /\ receipt[r].status # "none" /\ ~receipt[r].old
    /\ receipt' = [receipt EXCEPT ![r].old = TRUE]
    /\ UNCHANGED <<handing, queue, work, recorded, losses>>

Next ==
    \/ \E r \in Receipts : Ingest(r) \/ Sweep(r) \/ Rest(r) \/ GrowOld(r)
    \/ \E s \in Senders, r \in Receipts : Sent(s, r) \/ Refused(s, r) \/ SenderLost(s, r)
    \/ \E w \in Workers, r \in Receipts : Read(w, r)
    \/ \E w \in Workers : Start(w) \/ Process(w) \/ Fail(w) \/ Finish(w) \/ WorkerLost(w)

\* Beat runs the sweep every minute, workers take what is queued, a task that
\* started ends and time passes.  Nothing makes processing succeed.
Progress(w) == Start(w) \/ Process(w) \/ Fail(w) \/ Finish(w)
HandOver(s, r) == Sent(s, r) \/ Refused(s, r)
Fairness ==
    /\ \A r \in Receipts : WF_vars(Sweep(r)) /\ WF_vars(Rest(r))
    /\ \A s \in Senders, r \in Receipts : WF_vars(HandOver(s, r)) /\ SF_vars(Sent(s, r))
    /\ \A w \in Workers : WF_vars(\E r \in Receipts : Read(w, r)) /\ WF_vars(Progress(w))

Spec == Init /\ [][Next]_vars /\ Fairness

------------------------
\* Properties.
TypeOK ==
    /\ receipt \in [Receipts -> [status : Stored \union {"none"}, attempts : Nat,
                                 rested : BOOLEAN, old : BOOLEAN]]
    /\ handing \subseteq Senders \X Receipts
    /\ queue \in [Receipts -> Nat]
    /\ work \in [Workers -> [pc : {"idle", "start", "process", "done"},
                             of : Receipts \union {"none"}, attempts : Nat]]
    /\ recorded \subseteq Receipts
    /\ losses \in 0 .. MaxLosses

\* A receipt marked processed has had its effects stored, whichever of the
\* workers that held it at once saved its own copy last (process).
ProcessedIsRecorded ==
    \A r \in Receipts : receipt[r].status = "processed" => r \in recorded

\* A stored event is not forgotten: in the end it stays processed, unless its
\* attempts are used up or it is older than the retry window, whatever queue
\* message, sender or worker was lost on the way (claim_retryable_receipts).
Settled(r) ==
    \/ receipt[r].status \in {"none", "processed"}
    \/ receipt[r].attempts >= MaxAttempts
    \/ receipt[r].old
ReceiptsSettle == \A r \in Receipts : <>[]Settled(r)
=============================================================================
