------------------------------ MODULE MCLiveness ------------------------------
\* Instances for TLC of the parts of the service that must get somewhere:
\* restores, receipts, monitoring sessions and the snapshot slot.
EXTENDS MCParts, Sequences, TLC

Plans == {"r1", "c1"}

\* A restore and the compensation that reverses it, one worker.
Restoring == INSTANCE RestoreRun WITH
    status <- v1, acts <- v2, cred <- v3, started <- v4, silence <- v5, snap <- v6, lease <- v7,
    checked <- v8, call <- v9, sent <- v10, judged <- v11, freeing <- v12, run <- v13, writes <- v14,
    Restores <- {"r1"}, Compensations <- {"c1"}, Reverses <- [c1 |-> "r1"], Workers <- {"w1"},
    N <- 1, Deferred <- {1}, SendErrors <- {"c1"}, TTL <- 2, MaxStall <- 1, NoOp <- "NoOp"

\* One receipt and one worker, which may be lost.
Receiving == INSTANCE WebhookReceipts WITH
    receipt <- v1, handing <- v2, queue <- v3, work <- v4, recorded <- v5, losses <- v6,
    Receipts <- {"audit"}, Workers <- {"w1"}, MaxAttempts <- 2, MaxMessages <- 1, MaxLosses <- 1

\* One device, a handler and a poll, either of which may be lost.
Monitoring == INSTANCE MonitoringSession WITH
    sessions <- v1, todo <- v2, work <- v3, poll <- v4, passed <- v5, losses <- v6,
    Events <- {"done", "reverted"}, Kind <- [done |-> "configured", reverted |-> "reverted"],
    At <- [done |-> 2, reverted |-> 3], Handlers <- {"h1"}, Pollers <- {"p1"},
    Attempts <- 3, MaxSessions <- 2, MaxLosses <- 1

Snapshots == INSTANCE SnapshotSlot WITH
    manifest <- v1, sending <- v2, messages <- v3, crawl <- v4, initial <- v5, losses <- v6,
    Manifests <- {"m1", "m2"}, Workers <- {"w1", "w2"}, MaxLosses <- 1

Init ==
    \/ Start("restoring", 14) /\ Restoring!Init
    \/ Start("receiving", 6) /\ Receiving!Init
    \/ Start("monitoring", 6) /\ Monitoring!Init
    \/ Start("snapshots", 6) /\ Snapshots!Init

Next ==
    \/ Move("restoring", 14) /\ Restoring!Next
    \/ Move("receiving", 6) /\ Receiving!Next
    \/ Move("monitoring", 6) /\ Monitoring!Next
    \/ Move("snapshots", 6) /\ Snapshots!Next

------------------------
\* The fairness of each module, of the part that has it.
RestoresAreFair ==
    /\ WF_vars(Move("restoring", 14) /\ Restoring!Tick)
    /\ SF_vars(Move("restoring", 14) /\ Restoring!MainStep("w1"))
    /\ SF_vars(Move("restoring", 14) /\ Restoring!RenewLease("w1", "main"))
    /\ WF_vars(Move("restoring", 14) /\ Restoring!TouchRun("w1"))
    /\ \A op \in Plans :
           /\ WF_vars(Move("restoring", 14) /\ Restoring!FindSilent(op))
           /\ WF_vars(Move("restoring", 14) /\ Restoring!Interrupt(op))
           /\ WF_vars(Move("restoring", 14) /\ Restoring!ExpireCredential(op))

ReceiptsAreFair ==
    /\ WF_vars(Move("receiving", 6) /\ Receiving!Sweep("audit"))
    /\ WF_vars(Move("receiving", 6) /\ Receiving!Rest("audit"))
    /\ \A s \in Receiving!Senders :
           /\ WF_vars(Move("receiving", 6) /\ Receiving!HandOver(s, "audit"))
           /\ SF_vars(Move("receiving", 6) /\ Receiving!Sent(s, "audit"))
    /\ WF_vars(Move("receiving", 6) /\ Receiving!Read("w1", "audit"))
    /\ WF_vars(Move("receiving", 6) /\ Receiving!Progress("w1"))

SessionsAreFair ==
    /\ WF_vars(Move("monitoring", 6) /\ Monitoring!Works("h1"))
    /\ WF_vars(Move("monitoring", 6) /\ Monitoring!Finishes("p1"))
    /\ \A i \in 1 .. 2 :
           /\ WF_vars(Move("monitoring", 6) /\ i \in DOMAIN v1 /\ Monitoring!TimeOut(i))
           /\ WF_vars(Move("monitoring", 6) /\ i \in DOMAIN v1 /\ Monitoring!ComeDue(i))
           /\ WF_vars(Move("monitoring", 6) /\ i \in DOMAIN v1 /\ Monitoring!WindowPasses(i))

SnapshotsAreFair ==
    /\ \A w \in {"w1", "w2"} :
           /\ WF_vars(Move("snapshots", 6) /\ (Snapshots!Start(w) \/ Snapshots!End(w) \/ Snapshots!Mark(w)))
           /\ WF_vars(Move("snapshots", 6) /\ \E m \in {"m1", "m2"} : Snapshots!Take(w, m))
    /\ \A m \in {"m1", "m2"} :
           /\ WF_vars(Move("snapshots", 6) /\ (Snapshots!Sent(m) \/ Snapshots!Unsent(m)))
           /\ WF_vars(Move("snapshots", 6) /\ Snapshots!GrowOld(m))

Spec ==
    /\ Init /\ [][Next]_vars
    /\ RestoresAreFair /\ ReceiptsAreFair /\ SessionsAreFair /\ SnapshotsAreFair

------------------------
\* Properties: each is its module's, of the part that has it.
\* A running restore ends, whatever happens to its worker.
RunningEnds ==
    \A op \in Plans :
        (part = "restoring" /\ v1[op] = "running") ~> (part = "restoring" => v1[op] \in Restoring!Terminal)

\* A queued restore does not wait for ever, whatever happens to its task.
QueuedEnds ==
    \A op \in Plans :
        (part = "restoring" /\ v1[op] = "queued") ~> (part = "restoring" => v1[op] # "queued")

\* A stored event is processed, or its attempts are used up.
ReceiptsSettle == <>[](part = "receiving" => Receiving!Settled("audit"))

\* Every monitoring session ends.
SessionsEnd == <>[](part = "monitoring" => Monitoring!ActiveOnes = {})

\* A snapshot can be opened again, whoever was lost.
SlotComesFree == []<>(part = "snapshots" => Snapshots!MayOpen)

------------------------
\* What the run checks: the properties above, by theme.
\* A restore leaves the queue and ends, whatever happens to its tasks and worker.
RestoresEnd ==
    /\ RunningEnds
    /\ QueuedEnds

\* Events are settled, sessions end and a snapshot can be opened again, whatever
\* messages and workers are lost.
EventsSettle ==
    /\ ReceiptsSettle
    /\ SessionsEnd
    /\ SlotComesFree
=============================================================================
