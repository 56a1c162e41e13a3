-------------------------- MODULE RestoreVerification --------------------------
\* The check that ends a restore.
\*
\* Each object the run wrote is read back and compared; the recorded history
\* is searched for objects that still name a replaced id; a snapshot is queued
\* and the closed monitoring sessions of the restored sites are reopened.  None
\* of it is done at once: Mist is edited, versions are recorded, snapshots and
\* sessions begin and end meanwhile.
EXTENDS Integers, Sequences, FiniteSets

CONSTANTS
    Plans,       \* the plans that may have run, each a sequence of actions
    Archives,    \* the histories recorded before: an object's versions, each what it names
    Recordable,  \* what a version recorded meanwhile may name
    Watched,     \* the sequences of sessions there may be
    Edited,      \* what an edit may leave in Mist
    Sensitive, Ignored,  \* fields Mist may mask, fields the collector leaves out
    MAX_REOPENED,        \* _MAX_REOPENED_SESSIONS
    MaxElse      \* bound on what others do meanwhile

VARIABLES
    live,      \* what Mist holds at each place
    versions,  \* the recorded history of each object
    slot,      \* the active manifest: "free", "other", "unsent" or "ours"
    sessions,  \* monitoring sessions, oldest first
    run,       \* verify's locals, and its result
    others     \* what others did meanwhile

vars == <<live, versions, slot, sessions, run, others>>

Gone == [is |-> "gone"]
Newest(r) == versions[r][Len(versions[r])]
DoneActions == {i \in DOMAIN run.plan : run.plan[i].done}

\* Where an action's write landed: recreated objects and sites have new ids.
Or(new, old) == IF new = "none" THEN old ELSE new
Place(a) == <<Or(a.new_site, a.site), Or(a.new_id, a.id)>>
Places(plan) == UNION {{<<plan[i].site, plan[i].id>>, Place(plan[i])} : i \in DOMAIN plan}

\* Mist shows what was written with a field of its own, and may mask a secret
\* or keep another value.
Shows(a) ==
    IF a.kind = "delete" THEN {Gone}
    ELSE {[f \in DOMAIN a.wrote \union Ignored \union {"echo"} |->
              CASE f \in Sensitive /\ hidden -> "*"
                [] f \in DOMAIN a.wrote /\ kept -> a.wrote[f]
                [] OTHER -> "own"] :
              hidden, kept \in BOOLEAN}

Start(plan) ==
    [pc |-> "reading", plan |-> plan, at |-> 1, bad |-> {}, unread |-> FALSE, since |-> {},
     known |-> <<>>, found |-> {}, stale |-> {}, verified |-> FALSE, copies |-> <<>>, closed |-> {}]

Init ==
    \E plan \in Plans :
        /\ run = Start(plan)
        /\ live \in [Places(plan) -> UNION ({Shows(plan[i]) : i \in DOMAIN plan} \union {{Gone}})]
        /\ \A p \in Places(plan) :
               LET here == {i \in DOMAIN plan : plan[i].done /\ Place(plan[i]) = p} IN
               IF here = {} THEN live[p] = Gone ELSE \E i \in here : live[p] \in Shows(plan[i])
        /\ versions \in Archives
        /\ slot \in {"free", "other"}
        /\ sessions \in Watched
        /\ others = 0

Goto(pc, r) == run' = [r EXCEPT !.pc = pc]

------------------------
\* Read-after-write.
\* differing_fields: a location masked on either side says nothing.
Masked(c) == {f \in Sensitive \intersect DOMAIN c : c[f] = "*"}
differing_fields(wrote, now, fields) ==
    LET hidden == Masked(wrote) \union Masked(now)
        Read(c, f) == IF f \in DOMAIN c \ hidden THEN c[f] ELSE "MISSING"
    IN  {f \in fields \ Ignored : Read(wrote, f) # Read(now, f)}

\* _compare, for the fields that were written: every update and creation that is
\* done recorded them, so none is skipped.
_compareSlip(a, now) ==
    IF a.kind = "delete" THEN now = Gone
    ELSE now # Gone /\ differing_fields(a.wrote, now, DOMAIN a.wrote \union DOMAIN now) = {}
_compare(a, now) ==
    IF a.kind = "delete" THEN now = Gone
    ELSE now # Gone /\ differing_fields(a.wrote, now, DOMAIN a.wrote) = {}

\* _read_after_write, of one action.
_read_after_writeSlip(i) ==
    LET a == run.plan[i] IN
    /\ run.pc = "reading" /\ i = run.at
    /\ \/ run' = [run EXCEPT !.at = i + 1]
       \/ run' = [run EXCEPT !.at = i + 1, !.since = @ \ {Place(a)},
                             !.bad = IF ~a.done \/ _compare(a, live[Place(a)]) THEN @ ELSE @ \union {i}]
    /\ UNCHANGED <<live, versions, slot, sessions, others>>
_read_after_write(i) ==
    LET a == run.plan[i] IN
    /\ run.pc = "reading" /\ i = run.at
    /\ IF ~a.done THEN run' = [run EXCEPT !.at = i + 1]
       ELSE \/ run' = [run EXCEPT !.at = i + 1, !.unread = TRUE, !.bad = @ \union {i}]
            \/ run' = [run EXCEPT !.at = i + 1, !.since = @ \ {Place(a)},
                                  !.bad = IF _compare(a, live[Place(a)]) THEN @ ELSE @ \union {i}]
    /\ UNCHANGED <<live, versions, slot, sessions, others>>

------------------------
\* Replaced ids.
\* The ids this run recreated and those the plan remapped.
Replaced ==
    UNION {(IF run.plan[i].new_id = "none" THEN {} ELSE {run.plan[i].id}) \union run.plan[i].remap :
              i \in DoneActions}

\* find_stale_references reads every version that names one of them...
Search ==
    /\ run.pc = "reading" /\ run.at > Len(run.plan)
    /\ Goto("searching",
            [run EXCEPT !.known = [r \in DOMAIN versions |-> Len(versions[r])],
                        !.found = UNION {{<<r, n>> : n \in {n \in DOMAIN versions[r] :
                                                               versions[r][n].names \intersect Replaced # {}}} :
                                         r \in DOMAIN versions}])
    /\ UNCHANGED <<live, versions, slot, sessions, others>>

\* ... and keeps an object whose newest version that is by now.
StillSoSlip(r, n) == TRUE
StillSo(r, n) == n = Len(versions[r]) /\ ~Newest(r).deleted
Keep(r, n) ==
    /\ run.pc = "searching" /\ <<r, n>> \in run.found
    /\ run' = [run EXCEPT !.found = @ \ {<<r, n>>}, !.stale = IF StillSo(r, n) THEN @ \union {r} ELSE @]
    /\ UNCHANGED <<live, versions, slot, sessions, others>>

Conclude ==
    /\ run.pc = "searching" /\ run.found = {}
    /\ Goto("queueing", [run EXCEPT !.verified = run.bad = {} /\ run.stale = {}])
    /\ UNCHANGED <<live, versions, slot, sessions, others>>

------------------------
\* The snapshot and the sessions.
\* queue_post_restore_snapshot: refused while another is in progress, and a
\* manifest whose task the queue refused is closed.
Open ==
    /\ run.pc = "queueing"
    /\ IF slot = "free" THEN slot' = "unsent" /\ Goto("sending", run)
       ELSE UNCHANGED slot /\ Goto("listing", run)
    /\ UNCHANGED <<live, versions, sessions, others>>
Send ==
    /\ run.pc = "sending"
    /\ slot' \in {"ours", "free"}
    /\ Goto("listing", run)
    /\ UNCHANGED <<live, versions, sessions, others>>

\* reopen_monitoring_sessions: the newest closed sessions of the sites written...
Sites == {Or(run.plan[i].new_site, run.plan[i].site) : i \in DoneActions}
Closed == {i \in DOMAIN sessions : ~sessions[i].active /\ sessions[i].site \in Sites}
NewestFirst(S) == CHOOSE s \in [1 .. Cardinality(S) -> S] : \A i, j \in DOMAIN s : i < j => s[i] > s[j]
ListSlip ==
    /\ run.pc = "listing"
    /\ Goto("reopening", [run EXCEPT !.closed = Closed,
                !.copies = [i \in 1 .. Cardinality(Closed) |-> NewestFirst(Closed)[Cardinality(Closed) + 1 - i]]])
    /\ UNCHANGED <<live, versions, slot, sessions, others>>
List ==
    /\ run.pc = "listing"
    /\ LET first == IF Cardinality(Closed) < MAX_REOPENED THEN Cardinality(Closed) ELSE MAX_REOPENED IN
       Goto("reopening", [run EXCEPT !.closed = Closed, !.copies = SubSeq(NewestFirst(Closed), 1, first)])
    /\ UNCHANGED <<live, versions, slot, sessions, others>>

\* ... are saved active, except where the device has an active session.
Taken(d) == \E i \in DOMAIN sessions : sessions[i].active /\ sessions[i].device = d
Reopen ==
    /\ run.pc = "reopening" /\ run.copies # <<>>
    /\ LET i == Head(run.copies) IN
       sessions' = IF Taken(sessions[i].device) THEN sessions ELSE [sessions EXCEPT ![i].active = TRUE]
    /\ run' = [run EXCEPT !.copies = Tail(@)]
    /\ UNCHANGED <<live, versions, slot, others>>

\* persist: the result is stored with the plan.
persist ==
    /\ run.pc = "reopening" /\ run.copies = <<>>
    /\ Goto("done", run)
    /\ UNCHANGED <<live, versions, slot, sessions, others>>

------------------------
\* What others do meanwhile.
Edit(p, c) ==
    /\ c # live[p]
    /\ live' = [live EXCEPT ![p] = c] /\ run' = [run EXCEPT !.since = @ \union {p}]
    /\ UNCHANGED <<versions, slot, sessions>>
Record(r, names, deleted) ==
    /\ ~Newest(r).deleted
    /\ versions' = [versions EXCEPT ![r] = Append(@, [names |-> names, deleted |-> deleted])]
    /\ UNCHANGED <<live, slot, sessions, run>>
TurnOver ==
    /\ slot' = CASE slot = "free" -> "other" [] slot \in {"other", "ours"} -> "free" [] OTHER -> slot
    /\ slot' # slot
    /\ UNCHANGED <<live, versions, sessions, run>>
Event(d) ==
    /\ ~Taken(d)
    /\ \E i \in DOMAIN sessions :
           sessions[i].device = d /\ sessions' = Append(sessions, [sessions[i] EXCEPT !.active = TRUE])
    /\ UNCHANGED <<live, versions, slot, run>>
\* Taken to last longer than the listed ones take to save, which the code leaves to
\* time: one completed between would be saved active again.
Complete(i) ==
    /\ sessions[i].active /\ run.pc # "reopening"
    /\ sessions' = [sessions EXCEPT ![i].active = FALSE]
    /\ UNCHANGED <<live, versions, slot, run>>

Meanwhile ==
    /\ run.pc # "done" /\ others < MaxElse /\ others' = others + 1
    /\ \/ \E p \in DOMAIN live, c \in Edited \union {Gone} : Edit(p, c)
       \/ \E r \in DOMAIN versions, names \in Recordable, deleted \in BOOLEAN : Record(r, names, deleted)
       \/ TurnOver
       \/ \E i \in DOMAIN sessions : Event(sessions[i].device)
       \/ \E i \in DOMAIN sessions : Complete(i)

Next ==
    \/ \E i \in DOMAIN run.plan : _read_after_write(i)
    \/ Search
    \/ \E r \in DOMAIN versions : \E n \in DOMAIN versions[r] : Keep(r, n)
    \/ Conclude \/ Open \/ Send \/ List \/ Reopen \/ persist
    \/ Meanwhile

Spec == Init /\ [][Next]_vars

------------------------
\* Properties.
Holds(a) ==
    LET now == live[Place(a)] IN
    IF a.kind = "delete" THEN now = Gone
    ELSE now # Gone /\ \A f \in DOMAIN a.wrote \ Ignored :
                           f \in DOMAIN now /\ (now[f] = a.wrote[f] \/ (f \in Sensitive /\ "*" \in {now[f], a.wrote[f]}))
Names(r) == ~Newest(r).deleted /\ Newest(r).names \intersect Replaced # {}

\* A restore is called verified only when Mist holds all it wrote, where it
\* wrote it, unless edited since it was read, and no object names an id it
\* replaced, unless recorded since the search began (verify).
VerifiedIsTrue ==
    run.pc = "done" /\ run.verified =>
        /\ \A i \in DoneActions : Holds(run.plan[i]) \/ Place(run.plan[i]) \in run.since
        /\ \A r \in DOMAIN versions : Names(r) => Len(versions[r]) > run.known[r]

\* A restore nobody disturbed fails its verification only for something that
\* is wrong: masks, fields Mist adds and superseded history are not
\* (differing_fields, find_stale_references).
FailureIsReal ==
    run.pc = "done" /\ others = 0 /\ ~run.verified =>
        \/ run.unread
        \/ \E i \in DoneActions : ~Holds(run.plan[i])
        \/ \E r \in DOMAIN versions : Names(r)

\* No session is reopened in place of a newer one of its device, whatever
\* events open meanwhile (reopen_monitoring_sessions).
ReopensTheNewest ==
    \A i \in DOMAIN sessions, j \in run.closed :
        sessions[i].active /\ j > i => sessions[j].device # sessions[i].device
=============================================================================
