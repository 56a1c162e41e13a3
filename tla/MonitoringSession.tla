-------------------------- MODULE MonitoringSession --------------------------
\* The monitoring sessions of one device.
\*
\* A device event opens a session or writes the one that is active: its
\* handler reads the session, may capture the device's state from Mist, and
\* saves its whole copy.  A poll claims a due session, reads Mist for seconds
\* and writes its copy only if change_token has not moved, else applies what
\* it collected to the session as it is now.  A poll also times out sessions
\* still awaiting their configured event, as earlier releases opened them.
\*
\* Telemetry, severities and narration are left out: what is kept is who may
\* write a session, over what, and when its window ends.
EXTENDS Integers, Sequences, FiniteSets

CONSTANTS
    Events,       \* receipts of device events of this device
    Kind,         \* what each of them reports
    At,           \* event_time: when it happened
    Handlers,     \* webhook workers
    Pollers,      \* runs of monitoring.poll_active
    Attempts,     \* _WRITE_ATTEMPTS
    MaxSessions,  \* bound on the sessions of the device
    MaxLosses     \* bound on the workers and polls lost

Of(kinds) == {e \in Events : Kind[e] \in kinds}
Incidents == Of({"failed", "incident", "reverted"})

VARIABLES
    sessions,  \* the device's sessions, oldest first
    todo,      \* events whose receipt is not processed
    work,      \* each handler's locals
    poll,      \* each poll's locals
    passed,    \* windows that have ended
    losses

vars == <<sessions, todo, work, poll, passed, losses>>

\* due: next_poll_at has passed.  window: the event that set monitoring_ends_at.
NewSession == [status |-> "monitoring", active |-> TRUE, receipts |-> {},
               incidents |-> {}, resolved |-> {}, due |-> FALSE, window |-> "none"]
Awaiting == [NewSession EXCEPT !.status = "awaiting"]
Quiet == [pc |-> "idle", event |-> "none", at |-> 0, copy |-> NewSession]
NoPoll == [pc |-> "idle", at |-> 0, copy |-> NewSession, late |-> {},
           current |-> TRUE, tries |-> 0]

ActiveOnes == {i \in DOMAIN sessions : sessions[i].active}
Linked(e) == \E i \in DOMAIN sessions : e \in sessions[i].receipts

Init ==
    /\ sessions = <<Awaiting>>
    /\ todo = Events
    /\ work = [h \in Handlers |-> Quiet]
    /\ poll = [p \in Pollers |-> NoPoll]
    /\ passed = {}
    /\ losses = 0

\* A write replaces change_token: a poll with an older copy will notice.
Touch(i) == [p \in Pollers |-> [poll[p] EXCEPT !.current = @ /\ poll[p].at # i]]

------------------------
\* Device events.
\* A failure that has a later success in the timeline is resolved by it.
Recovered(s) ==
    [s EXCEPT !.resolved = @ \union
        {i \in s.incidents : /\ Kind[i] = "failed"
                             /\ \E c \in s.receipts : Kind[c] = "configured" /\ At[c] > At[i]}]

ResolvedSlip(s, e) ==
    [s EXCEPT !.resolved = @ \union {i \in s.incidents : Kind[i] = "incident"}]
Resolved(s, e) ==
    [s EXCEPT !.resolved = @ \union
        {i \in s.incidents : Kind[i] = "incident" /\ At[i] <= At[e]}]

Ended(s) == [s EXCEPT !.status = "failed", !.active = FALSE]
Restarted(s, e) == [s EXCEPT !.status = "monitoring", !.window = e]

\* The copy the handler saves for event e.
WithEvent(s, e) ==
    LET linked == [s EXCEPT !.receipts = @ \union {e}]
        struck == Recovered([linked EXCEPT !.incidents = @ \union {e}])
    IN  CASE Kind[e] = "pre" -> Restarted(linked, e)
          [] Kind[e] = "configured" -> Recovered([Restarted(linked, e) EXCEPT !.due = FALSE])
          [] Kind[e] = "failed" -> IF s.status = "awaiting" THEN Ended(struck) ELSE struck
          [] Kind[e] = "incident" -> struck
          [] Kind[e] = "reverted" -> [Ended(struck) EXCEPT !.due = FALSE]
          [] Kind[e] = "resolution" -> Resolved(linked, e)
          [] OTHER -> linked

Set(h, w) == work' = [work EXCEPT ![h] = w]
Handled(h, e) == Set(h, Quiet) /\ todo' = todo \ {e}

\* handle: an event already linked to a session is not applied again, and one
\* that needs an active session is dropped where there is none.
Handle(h, e) ==
    /\ work[h] = Quiet /\ e \in todo
    /\ IF Linked(e) \/ (ActiveOnes = {} /\ Kind[e] \notin {"pre", "configured"})
       THEN Handled(h, e)
       ELSE /\ IF ActiveOnes = {}
               THEN Set(h, [Quiet EXCEPT !.pc = "open", !.event = e])
               ELSE \E i \in ActiveOnes :
                        Set(h, [pc |-> "save", event |-> e, at |-> i, copy |-> sessions[i]])
            /\ UNCHANGED todo
    /\ UNCHANGED <<sessions, poll, passed, losses>>

\* _start_or_merge: the baseline is captured, then the session is inserted; the
\* unique index lets one active session stand, and the other event joins it.
Open(h) ==
    /\ work[h].pc = "open"
    /\ LET fresh == [NewSession EXCEPT !.receipts = {work[h].event}, !.window = work[h].event] IN
       IF ActiveOnes = {}
       THEN /\ Len(sessions) < MaxSessions
            /\ sessions' = Append(sessions, fresh)
            /\ Set(h, [work[h] EXCEPT !.pc = "first", !.at = Len(sessions) + 1, !.copy = fresh])
       ELSE /\ \E i \in ActiveOnes :
                   Set(h, [work[h] EXCEPT !.pc = "first", !.at = i, !.copy = Restarted(sessions[i], work[h].event)])
            /\ UNCHANGED sessions
    /\ UNCHANGED <<todo, poll, passed, losses>>

\* The whole copy replaces the session, unless that would make a second active
\* session of the device: then the save raises and the receipt is retried.
Save(h, s, next) ==
    LET w == work[h] IN
    IF s.active /\ ActiveOnes \ {w.at} # {}
    THEN Set(h, Quiet) /\ UNCHANGED <<sessions, todo, poll>>
    ELSE /\ sessions' = [sessions EXCEPT ![w.at] = s]
         /\ poll' = Touch(w.at)
         /\ next

\* The save that ends _start_or_merge; a configured event that opened the
\* session then marks it configured.
SaveFirst(h) ==
    /\ work[h].pc = "first"
    /\ LET w == work[h]
           s == [w.copy EXCEPT !.receipts = @ \union {w.event}]
       IN  Save(h, s, IF Kind[w.event] = "configured"
                      THEN Set(h, [w EXCEPT !.pc = "save", !.copy = s]) /\ UNCHANGED todo
                      ELSE Handled(h, w.event))
    /\ UNCHANGED <<passed, losses>>

SaveEvent(h) ==
    /\ work[h].pc = "save"
    /\ Save(h, WithEvent(work[h].copy, work[h].event), Handled(h, work[h].event))
    /\ UNCHANGED <<passed, losses>>

HandlerLost(h) ==
    /\ work[h] # Quiet /\ losses < MaxLosses
    /\ Set(h, Quiet) /\ losses' = losses + 1
    /\ UNCHANGED <<sessions, todo, poll, passed>>

------------------------
\* Polls.
\* Any session still active when the list was read.
TimeOutSlip(i) ==
    /\ sessions[i].active /\ sessions[i].receipts \intersect Incidents = {}
    /\ sessions' = [sessions EXCEPT ![i] = [Ended(@) EXCEPT !.due = FALSE]]
    /\ poll' = Touch(i)
    /\ UNCHANGED <<todo, work, passed, losses>>
\* The status predicate spares a session configured since the list was read.
TimeOut(i) ==
    /\ sessions[i].status = "awaiting"
    /\ sessions' = [sessions EXCEPT ![i] = [Ended(@) EXCEPT !.due = FALSE]]
    /\ poll' = Touch(i)
    /\ UNCHANGED <<todo, work, passed, losses>>

\* Moving next_poll_at on is the claim; it does not replace the token.
Claim(p, i) ==
    /\ poll[p] = NoPoll /\ sessions[i].status = "monitoring" /\ sessions[i].due
    /\ sessions' = [sessions EXCEPT ![i].due = FALSE]
    /\ poll' = [poll EXCEPT ![p] = [NoPoll EXCEPT !.pc = "write", !.at = i, !.late = passed,
                                                  !.copy = [sessions[i] EXCEPT !.due = FALSE]]]
    /\ UNCHANGED <<todo, work, passed, losses>>

ScheduledSlip(p) ==
    IF poll[p].copy.window \in poll[p].late
    THEN [poll[p].copy EXCEPT !.status = "completed", !.due = FALSE]
    ELSE [poll[p].copy EXCEPT !.due = FALSE]
\* _record and _schedule_next on the poll's copy.
Scheduled(p) ==
    IF poll[p].copy.window \in poll[p].late
    THEN [poll[p].copy EXCEPT !.status = "completed", !.active = FALSE, !.due = FALSE]
    ELSE [poll[p].copy EXCEPT !.due = FALSE]

\* Another poll's copy is older than this write.
Wrote(p, i) == [Touch(i) EXCEPT ![p] = NoPoll]

WriteSlip(p) ==
    /\ poll[p].pc = "write"
    /\ sessions' = [sessions EXCEPT ![poll[p].at] = Scheduled(p)]
    /\ poll' = Wrote(p, poll[p].at)
    /\ UNCHANGED <<todo, work, passed, losses>>
\* save_unless_changed
Write(p) ==
    /\ poll[p].pc = "write" /\ poll[p].current
    /\ sessions' = [sessions EXCEPT ![poll[p].at] = Scheduled(p)]
    /\ poll' = Wrote(p, poll[p].at)
    /\ UNCHANGED <<todo, work, passed, losses>>

\* The session was written meanwhile: one that ended stays so, otherwise the
\* poll tries again on top of it.
Reread(p) ==
    LET now == sessions[poll[p].at] IN
    /\ poll[p].pc = "write" /\ ~poll[p].current
    /\ poll' = [poll EXCEPT ![p] =
                   IF now.status # "monitoring" \/ poll[p].tries + 1 = Attempts THEN NoPoll
                   ELSE [poll[p] EXCEPT !.copy = now, !.current = TRUE, !.tries = @ + 1]]
    /\ UNCHANGED <<sessions, todo, work, passed, losses>>

\* Mist could not be read: a warning is written to the session as it is now.
PollFails(p) ==
    /\ poll[p].pc = "write" /\ poll[p].tries = 0 /\ losses < MaxLosses
    /\ losses' = losses + 1
    /\ poll' = IF sessions[poll[p].at].status = "monitoring"
               THEN Wrote(p, poll[p].at) ELSE [poll EXCEPT ![p] = NoPoll]
    /\ UNCHANGED <<sessions, todo, work, passed>>

PollLost(p) ==
    /\ poll[p] # NoPoll /\ losses < MaxLosses
    /\ poll' = [poll EXCEPT ![p] = NoPoll]
    /\ losses' = losses + 1
    /\ UNCHANGED <<sessions, todo, work, passed>>

------------------------
\* Time.
ComeDue(i) ==
    /\ sessions[i].status = "monitoring" /\ ~sessions[i].due
    /\ sessions' = [sessions EXCEPT ![i].due = TRUE]
    /\ UNCHANGED <<todo, work, poll, passed, losses>>

WindowPasses(i) ==
    /\ sessions[i].status = "monitoring"
    /\ passed' = passed \union {sessions[i].window}
    /\ UNCHANGED <<sessions, todo, work, poll, losses>>

HandlerStep(h) ==
    (\E e \in Events : Handle(h, e)) \/ Open(h) \/ SaveFirst(h) \/ SaveEvent(h) \/ HandlerLost(h)
PollStep(p) ==
    (\E i \in DOMAIN sessions : Claim(p, i)) \/ Write(p) \/ Reread(p) \/ PollFails(p) \/ PollLost(p)

Next ==
    \/ \E h \in Handlers : HandlerStep(h)
    \/ \E p \in Pollers : PollStep(p)
    \/ \E i \in DOMAIN sessions : TimeOut(i) \/ ComeDue(i) \/ WindowPasses(i)

\* Beat polls every minute, receipts are processed or retried, time passes.
Finishes(p) == (\E i \in DOMAIN sessions : Claim(p, i)) \/ Write(p) \/ Reread(p)
Works(h) == (\E e \in Events : Handle(h, e)) \/ Open(h) \/ SaveFirst(h) \/ SaveEvent(h)
Fairness ==
    /\ \A h \in Handlers : WF_vars(Works(h))
    /\ \A p \in Pollers : WF_vars(Finishes(p))
    /\ \A i \in 1 .. MaxSessions :
           /\ WF_vars(i \in DOMAIN sessions /\ TimeOut(i))
           /\ WF_vars(i \in DOMAIN sessions /\ ComeDue(i))
           /\ WF_vars(i \in DOMAIN sessions /\ WindowPasses(i))

Spec == Init /\ [][Next]_vars /\ Fairness

------------------------
\* Properties.
TypeOK ==
    /\ \A i \in DOMAIN sessions :
           sessions[i] \in [status : {"awaiting", "monitoring", "completed", "failed"},
                            active : BOOLEAN, receipts : SUBSET Events, incidents : SUBSET Events,
                            resolved : SUBSET Events, due : BOOLEAN, window : Events \union {"none"}]
    /\ todo \subseteq Events
    /\ Cardinality(ActiveOnes) <= 1

\* A poll writes on top of what device events wrote while it read Mist: it
\* takes no event from a session, and moves none whose monitoring an event
\* ended (save_unless_changed, _poll_session).
ErasesNothing ==
    \A i \in DOMAIN sessions :
        (\E p \in Pollers : PollStep(p)) =>
            /\ sessions[i].receipts \subseteq sessions'[i].receipts
            /\ sessions[i].status = "failed" => sessions'[i] = sessions[i]
PollsEraseNothing == [][ErasesNothing]_vars

\* A session that failed either never got its configured event or has the
\* failure or revert that ended it: the timeout never takes a session that
\* was configured while the poll listed it (poll_active).
FailedForAReason ==
    \A i \in DOMAIN sessions : sessions[i].status = "failed" =>
        \/ sessions[i].receipts \intersect Of({"pre", "configured"}) = {}
        \/ sessions[i].receipts \intersect Of({"failed", "reverted"}) # {}

\* An incident is closed only by an event recorded in the same session that
\* happened after it, in whatever order the events arrived, were retried or
\* raced (_resolve_incidents, recovered_incidents).
ResolvedByALaterEvent ==
    \A i \in DOMAIN sessions : \A x \in sessions[i].resolved :
        \E e \in sessions[i].receipts : Kind[e] \in {"resolution", "configured"} /\ At[e] >= At[x]

\* Every session ends, whatever polls failed, were lost or gave up, and though
\* an event saved over its end revives it (poll_active).
SessionsEnd == <>[](ActiveOnes = {})
=============================================================================
