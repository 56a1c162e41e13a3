----------------------------- MODULE Notifications -----------------------------
\* The notifications of an organization and who has read them.
\*
\* One document is shown to every member, or to the one it is addressed to,
\* and keeps a receipt for each member who read it.  Emitters race, and a key
\* keeps the second of two equal alerts out of the feed.  Marking everything
\* read updates one document after another while more arrive.
EXTENDS Integers, Sequences, FiniteSets

CONSTANTS
    Members,    \* users of the organization
    Alerts,     \* what emitters raise: a key or "none", and a member or "all"
    Requests,   \* API requests in progress
    MaxFeed     \* bound on the notifications stored

VARIABLES
    feed,     \* the stored notifications, oldest first
    request,  \* each request's locals
    acked     \* <<member, notification>>: told the member it is read

vars == <<feed, request, acked>>

\* read_by: the receipts pushed, of which there should be one for a member.
Idle == [pc |-> "idle", of |-> "none", left |-> {}, shown |-> {}]

Init ==
    /\ feed = <<>>
    /\ request = [r \in Requests |-> Idle]
    /\ acked = {}

\* visibility_criteria
Visible(m, n) == feed[n].to \in {"all", m}
Receipts(m, n) == {i \in DOMAIN feed[n].read_by : feed[n].read_by[i] = m}
visibility_criteriaSlip(m, n) == Visible(m, n)
visibility_criteria(m, n) == Visible(m, n) /\ Receipts(m, n) = {}
unread_count(m) == Cardinality({n \in DOMAIN feed : visibility_criteria(m, n)})

\* emit: the unique index refuses a key that is in the feed.
Emit(a) ==
    /\ Len(feed) < MaxFeed
    /\ a.key = "none" \/ \A n \in DOMAIN feed : feed[n].key # a.key
    /\ feed' = Append(feed, [key |-> a.key, to |-> a.to, read_by |-> <<>>])
    /\ UNCHANGED <<request, acked>>

Set(r, l) == request' = [request EXCEPT ![r] = l]

\* mark_read of one notification, or of every one that is unread as the update
\* starts; each document is checked again as it is written.
Ask(r, m, asked) ==
    /\ request[r] = Idle /\ asked # {}
    /\ Set(r, [pc |-> "mark", of |-> m, left |-> asked, shown |-> asked])
    /\ UNCHANGED <<feed, acked>>
MarkOne(r, m, n) == Ask(r, m, {n})
MarkAll(r, m) == Ask(r, m, {n \in DOMAIN feed : visibility_criteria(m, n)})

PushedSlip(m, n) == [feed EXCEPT ![n].read_by = <<m>>]
Pushed(m, n) == [feed EXCEPT ![n].read_by = Append(@, m)]
Mark(r, n) ==
    LET l == request[r] IN
    /\ l.pc = "mark" /\ n \in l.left
    /\ feed' = IF visibility_criteria(l.of, n) THEN Pushed(l.of, n) ELSE feed
    /\ Set(r, [l EXCEPT !.left = @ \ {n}])
    /\ UNCHANGED acked

\* The answer: read, or not found where the member cannot see it.
Answer(r) ==
    LET l == request[r] IN
    /\ l.pc = "mark" /\ l.left = {}
    /\ acked' = acked \union {<<l.of, n>> : n \in {n \in l.shown : Visible(l.of, n)}}
    /\ Set(r, Idle)
    /\ UNCHANGED feed

Next ==
    \/ \E a \in Alerts : Emit(a)
    \/ \E r \in Requests :
           \/ \E m \in Members : MarkAll(r, m) \/ \E n \in DOMAIN feed : MarkOne(r, m, n)
           \/ \E n \in DOMAIN feed : Mark(r, n)
           \/ Answer(r)

Spec == Init /\ [][Next]_vars

------------------------
\* Properties.
\* A member's unread count is the notifications the member can see and was not
\* told are read, once nothing of theirs is in progress, whoever else read them
\* and however marking one and marking all overlap; nobody is pushed twice, and
\* nobody is marked as reader of another's (visibility_criteria, mark_read).
UnreadIsExact ==
    /\ \A n \in DOMAIN feed, m \in Members :
           /\ Cardinality(Receipts(m, n)) <= 1
           /\ Receipts(m, n) # {} => Visible(m, n)
    /\ \A m \in Members :
           (\A r \in Requests : request[r].of # m) =>
               unread_count(m) = Cardinality({n \in DOMAIN feed : Visible(m, n) /\ <<m, n>> \notin acked})
=============================================================================
