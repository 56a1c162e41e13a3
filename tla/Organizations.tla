----------------------------- MODULE Organizations -----------------------------
\* The stored service token of an organization and what Mist said of it.
\*
\* A verification reads the token, asks Mist for up to thirty seconds and then
\* records the verdict; reading a token encrypted the old way stores it again
\* encrypted the new way.  A replacement may be saved during either.
EXTENDS Integers

CONSTANTS
    Requests,   \* API requests and tasks in progress
    Home,       \* tokens that belong to the organization
    MaxTokens   \* the tokens there are

Tokens == 1..MaxTokens

VARIABLES
    org,      \* the stored document
    mist,     \* the tokens Mist accepts
    saved,    \* the token the last successful request saved
    request   \* each request's locals

vars == <<org, mist, saved, request>>

\* An encryption of a token is told from another by the request that made it;
\* the first is in the old format.
Stored(token, by) == [token |-> token, by |-> by]
NoToken == Stored(0, "legacy")
Idle == [pc |-> "idle", token |-> 0, read |-> NoToken, ok |-> FALSE]

\* create: only a token Mist accepts, in the old encryption.
Init ==
    /\ org = [cipher |-> Stored(1, "legacy"), status |-> "verified", verdictOn |-> 1]
    /\ mist = Tokens
    /\ saved = 1
    /\ request = [r \in Requests |-> Idle]

Set(r, l) == request' = [request EXCEPT ![r] = l]
Done(r) == Set(r, Idle)

\* Mist: a token is withdrawn.
Withdraw(t) == t \in mist /\ mist' = mist \ {t} /\ UNCHANGED <<org, saved, request>>

\* replace_service_token: verified by Mist and of the same organization, or
\* nothing is written.
Submit(r, t) ==
    /\ request[r] = Idle /\ t \in mist \cap Home
    /\ Set(r, [Idle EXCEPT !.pc = "replace", !.token = t])
    /\ UNCHANGED <<org, mist, saved>>
Replace(r) ==
    LET t == request[r].token IN
    /\ request[r].pc = "replace"
    /\ org' = [cipher |-> Stored(t, r), status |-> "verified", verdictOn |-> t]
    /\ saved' = t
    /\ Done(r)
    /\ UNCHANGED mist

\* verify_stored_token
Read(r) ==
    /\ request[r] = Idle
    /\ Set(r, [Idle EXCEPT !.pc = "upgrade", !.token = org.cipher.token, !.read = org.cipher])
    /\ UNCHANGED <<org, mist, saved>>

UpgradeSlip(r) ==
    LET c == request[r].read IN
    /\ request[r].pc = "upgrade"
    /\ IF c.by = "legacy"
       THEN /\ org' = [org EXCEPT !.cipher = Stored(c.token, r)]
            /\ Set(r, [request[r] EXCEPT !.pc = "ask", !.read = Stored(c.token, r)])
       ELSE UNCHANGED org /\ Set(r, [request[r] EXCEPT !.pc = "ask"])
    /\ UNCHANGED <<mist, saved>>
\* service_token: stored again only where the stored one is still the one read,
\* and the request goes on with its own encryption either way.
Upgrade(r) ==
    LET c == request[r].read IN
    /\ request[r].pc = "upgrade"
    /\ IF c.by = "legacy"
       THEN /\ org' = IF org.cipher = c THEN [org EXCEPT !.cipher = Stored(c.token, r)] ELSE org
            /\ Set(r, [request[r] EXCEPT !.pc = "ask", !.read = Stored(c.token, r)])
       ELSE UNCHANGED org /\ Set(r, [request[r] EXCEPT !.pc = "ask"])
    /\ UNCHANGED <<mist, saved>>

\* The call may fail whatever the token is worth.
Ask(r, answered) ==
    LET l == request[r] IN
    /\ l.pc = "ask"
    /\ Set(r, [l EXCEPT !.pc = "record", !.ok = answered /\ l.token \in mist \cap Home])
    /\ UNCHANGED <<org, mist, saved>>

\* _record_health: only while the stored token is still the one verified.
Verdict(l) == [org EXCEPT !.status = IF l.ok THEN "verified" ELSE "error", !.verdictOn = l.token]
RecordSlip(r) ==
    LET l == request[r] IN
    /\ l.pc = "record"
    /\ org' = Verdict(l)
    /\ Done(r)
    /\ UNCHANGED <<mist, saved>>
Record(r) ==
    LET l == request[r] IN
    /\ l.pc = "record"
    /\ org' = IF org.cipher = l.read THEN Verdict(l) ELSE org
    /\ Done(r)
    /\ UNCHANGED <<mist, saved>>

Next ==
    \/ \E t \in Tokens : Withdraw(t)
    \/ \E r \in Requests :
           \/ \E t \in Tokens : Submit(r, t)
           \/ Replace(r) \/ Read(r) \/ Upgrade(r) \/ Record(r)
           \/ \E answered \in BOOLEAN : Ask(r, answered)

Spec == Init /\ [][Next]_vars

------------------------
\* Properties.
\* The status shown is a verdict on the token in use: a verification of the one
\* before it says nothing once a replacement was saved (_record_health).
StatusIsOfTheStoredToken == org.verdictOn = org.cipher.token

\* The stored token is the one saved last: reading and storing an old one again
\* in another encryption never brings it back (service_token).
ReplacementSurvives == org.cipher.token = saved
=============================================================================
