-------------------------------- MODULE SignIn --------------------------------
\* Second factors and browser sessions of one account.
\*
\* Requests race on records any of them may change: a login challenge, the
\* recovery codes and the last time step used, the enrolment, the sessions.
\* Each works on the account as it read it and writes named fields, some of
\* them only where the stored value is still the one it read.  The counting of
\* attempts, which may refuse any of these requests, is Throttle.
EXTENDS Integers, FiniteSets

CONSTANTS
    Requests,    \* API requests in progress
    Challenges,  \* login challenges
    Sessions,    \* browser sessions
    MaxAttempts, \* mfa_challenge_max_attempts
    MaxStep,     \* bound on the time steps of an authenticator
    MaxSecrets   \* bound on the secrets and the sets of recovery codes issued

VARIABLES
    user,       \* the account: its secret, its recovery codes, the last step used
    pending,    \* the secret of an unconfirmed enrolment
    issued,     \* secrets and sets of codes issued so far
    challenge,  \* the login challenges
    session,    \* the sessions
    request,    \* each request's locals
    accepted,   \* the codes accepted
    completed   \* the sign-ins each challenge completed

vars == <<user, pending, issued, challenge, session, request, accepted, completed>>
account == <<user, pending, issued>>

Steps == 1..MaxStep
\* A recovery code is named by the set it was issued in.
Codes == {<<"step", s>> : s \in Steps} \cup {<<"recovery", g>> : g \in 1..MaxSecrets}
NoUser == [secret |-> 0, codes |-> {}, step |-> 0]
Idle == [pc |-> "idle", of |-> "none", code |-> <<"step", 0>>, copy |-> NoUser]

Init ==
    /\ user = [secret |-> 1, codes |-> {<<"recovery", 1>>}, step |-> 0]
    /\ pending = 0 /\ issued = 1
    /\ challenge = [c \in Challenges |-> [status |-> "none", attempts |-> 0]]
    /\ session = [s \in Sessions |-> [status |-> "none", fresh |-> FALSE]]
    /\ request = [r \in Requests |-> Idle]
    /\ accepted = [k \in Codes |-> 0]
    /\ completed = [c \in Challenges |-> 0]

Set(r, l) == request' = [request EXCEPT ![r] = l]
Goto(r, pc) == Set(r, [request[r] EXCEPT !.pc = pc])
Done(r) == Set(r, Idle)

------------------------
\* Signing in.
\* login and verify_passkey_authentication: the first factor was accepted.
Authenticate(r) ==
    /\ request[r] = Idle
    /\ Set(r, [Idle EXCEPT !.pc = "first", !.copy = user])
    /\ UNCHANGED <<account, challenge, session, accepted, completed>>

NewSession(s, fresh) ==
    /\ session[s].status = "none"
    /\ session' = [session EXCEPT ![s] = [status |-> "live", fresh |-> fresh]]

Answer(r) ==
    /\ request[r].pc = "first"
    /\ IF request[r].copy.secret # 0
       THEN \E c \in Challenges :
                /\ challenge[c].status = "none"
                /\ challenge' = [challenge EXCEPT ![c].status = "open"]
                /\ UNCHANGED session
       ELSE (\E s \in Sessions : NewSession(s, FALSE)) /\ UNCHANGED challenge
    /\ Done(r)
    /\ UNCHANGED <<account, accepted, completed>>

\* record_login_attempt: a challenge tried too often is discarded.
Attempt(r, c, k) ==
    LET n == challenge[c].attempts + 1 IN
    /\ request[r] = Idle /\ challenge[c].status = "open"
    /\ challenge' = [challenge EXCEPT ![c].attempts = n,
                                      ![c].status = IF n > MaxAttempts THEN "gone" ELSE "open"]
    /\ IF n > MaxAttempts THEN UNCHANGED request
       ELSE Set(r, [Idle EXCEPT !.pc = "load", !.of = c, !.code = k])
    /\ UNCHANGED <<account, session, accepted, completed>>

Load(r) ==
    /\ request[r].pc = "load"
    /\ Set(r, [request[r] EXCEPT !.pc = "verify", !.copy = user])
    /\ UNCHANGED <<account, challenge, session, accepted, completed>>

\* step_up_mfa: the request resolves its own live session and reads the account.
StepUp(r, s, k) ==
    /\ request[r] = Idle /\ session[s].status = "live" /\ user.secret # 0
    /\ Set(r, [pc |-> "verify", of |-> s, code |-> k, copy |-> user])
    /\ UNCHANGED <<account, challenge, session, accepted, completed>>

ClaimsStepSlip(l) == l.code[1] = "step" /\ l.code[2] > l.copy.step
\* claim_totp_step: only from the step that was read.
ClaimsStep(l) == l.code[1] = "step" /\ l.code[2] > l.copy.step /\ user.step = l.copy.step
\* consume_user_recovery_code: edited in the database, not in the copy.
TakesCode(l) == l.code \in user.codes

\* verify_second_factor
Verify(r) ==
    LET l == request[r] IN
    /\ l.pc = "verify"
    /\ IF l.copy.secret # 0 /\ (ClaimsStep(l) \/ TakesCode(l))
       THEN /\ user' = IF ClaimsStep(l) THEN [user EXCEPT !.step = l.code[2]]
                       ELSE [user EXCEPT !.codes = @ \ {l.code}]
            /\ accepted' = [accepted EXCEPT ![l.code] = @ + 1]
            /\ Goto(r, IF l.of \in Challenges THEN "consume" ELSE "mark")
       ELSE UNCHANGED <<user, accepted>> /\ Done(r)
    /\ UNCHANGED <<pending, issued, challenge, session, completed>>

ConsumeSlip(r) ==
    LET c == request[r].of IN
    /\ request[r].pc = "consume"
    /\ challenge' = [challenge EXCEPT ![c].status = "gone"]
    /\ Goto(r, "start")
    /\ UNCHANGED <<account, session, accepted, completed>>
\* consume_login_challenge: one request retires it.
Consume(r) ==
    LET c == request[r].of IN
    /\ request[r].pc = "consume"
    /\ challenge' = [challenge EXCEPT ![c].status = "gone"]
    /\ IF challenge[c].status = "open" THEN Goto(r, "start") ELSE Done(r)
    /\ UNCHANGED <<account, session, accepted, completed>>

Start(r) ==
    /\ request[r].pc = "start"
    /\ \E s \in Sessions : NewSession(s, TRUE)
    /\ completed' = [completed EXCEPT ![request[r].of] = @ + 1]
    /\ Done(r)
    /\ UNCHANGED <<account, challenge, accepted>>

------------------------
\* Sessions.
\* The whole session is saved as it was read.
MarkVerifiedSlip(r) ==
    LET s == request[r].of IN
    /\ request[r].pc = "mark"
    /\ session' = [session EXCEPT ![s] = [status |-> "live", fresh |-> TRUE]]
    /\ Done(r)
    /\ UNCHANGED <<account, challenge, accepted, completed>>
\* mark_mfa_verified: only while the session is not revoked.
MarkVerified(r) ==
    LET s == request[r].of IN
    /\ request[r].pc = "mark"
    /\ session' = IF session[s].status = "live" THEN [session EXCEPT ![s].fresh = TRUE] ELSE session
    /\ Done(r)
    /\ UNCHANGED <<account, challenge, accepted, completed>>

\* revoke, revoke_all (of the others, or of every one) and the end of the
\* step-up window.
Revoke(gone) ==
    /\ gone # {} /\ \A s \in gone : session[s].status = "live"
    /\ session' = [s \in Sessions |-> IF s \in gone THEN [session[s] EXCEPT !.status = "revoked"] ELSE session[s]]
    /\ UNCHANGED <<account, challenge, request, accepted, completed>>
WindowEnds(s) ==
    /\ session[s].fresh
    /\ session' = [session EXCEPT ![s].fresh = FALSE]
    /\ UNCHANGED <<account, challenge, request, accepted, completed>>

------------------------
\* The enrolment.
\* begin_totp_enrollment, confirm_totp_enrollment, disable_totp and
\* regenerate_recovery_codes read the account as the request starts.
Begin(r) ==
    /\ request[r] = Idle /\ user.secret = 0 /\ issued < MaxSecrets
    /\ pending' = issued + 1 /\ issued' = issued + 1
    /\ UNCHANGED <<user, challenge, session, request, accepted, completed>>

Read(r, op) ==
    /\ request[r] = Idle
    /\ CASE op = "confirm" -> user.secret = 0
         [] OTHER -> user.secret # 0 /\ \E s \in Sessions : session[s].status = "live" /\ session[s].fresh
    /\ Set(r, [Idle EXCEPT !.pc = op, !.copy = user])
    /\ UNCHANGED <<account, challenge, session, accepted, completed>>

ConfirmSlip(r) ==
    /\ request[r].pc = "confirm"
    /\ IF pending = 0 THEN Done(r)
       ELSE Set(r, [request[r] EXCEPT !.pc = "code", !.copy.secret = pending])
    /\ UNCHANGED <<account, challenge, session, accepted, completed>>
\* take: one confirmation receives the pending secret.  The new codes are the
\* set numbered like the secret.
Confirm(r) ==
    /\ request[r].pc = "confirm"
    /\ IF pending = 0 THEN UNCHANGED pending /\ Done(r)
       ELSE /\ pending' = 0
            /\ Set(r, [request[r] EXCEPT !.pc = "code", !.copy.secret = pending])
    /\ UNCHANGED <<user, issued, challenge, session, accepted, completed>>
\* A wrong code puts the secret back; the right one enrols it.  The code that
\* confirms claims no step (mfa.py:390), so `accepted` does not count it: at a
\* sign-in within its window it is accepted again.
CheckCode(r, right) ==
    LET n == request[r].copy.secret IN
    /\ request[r].pc = "code"
    /\ IF right THEN /\ user' = [user EXCEPT !.secret = n, !.codes = {<<"recovery", n>>}]
                     /\ UNCHANGED pending
       ELSE pending' = n /\ UNCHANGED user
    /\ Done(r)
    /\ UNCHANGED <<issued, challenge, session, accepted, completed>>

Disable(r) ==
    /\ request[r].pc = "disable"
    /\ user' = [user EXCEPT !.secret = 0, !.codes = {}]
    /\ pending' = 0
    /\ Done(r)
    /\ UNCHANGED <<issued, challenge, session, accepted, completed>>

\* The enrolment that was read is written back with a new set of codes.
Regenerate(r) ==
    /\ request[r].pc = "regenerate" /\ issued < MaxSecrets
    /\ issued' = issued + 1
    /\ user' = [user EXCEPT !.secret = request[r].copy.secret, !.codes = {<<"recovery", issued + 1>>}]
    /\ Done(r)
    /\ UNCHANGED <<pending, challenge, session, accepted, completed>>

Next ==
    \/ \E r \in Requests :
           \/ Authenticate(r) \/ Answer(r) \/ Load(r) \/ Verify(r) \/ Consume(r) \/ Start(r) \/ MarkVerified(r)
           \/ \E c \in Challenges, k \in Codes : Attempt(r, c, k)
           \/ \E s \in Sessions, k \in Codes : StepUp(r, s, k)
           \/ Begin(r) \/ Confirm(r) \/ Disable(r) \/ Regenerate(r)
           \/ \E op \in {"confirm", "disable", "regenerate"} : Read(r, op)
           \/ \E right \in BOOLEAN : CheckCode(r, right)
    \/ \E s \in Sessions : Revoke({s}) \/ WindowEnds(s)
    \/ \E gone \in SUBSET Sessions : Revoke(gone)

Spec == Init /\ [][Next]_vars

------------------------
\* Properties.
\* Submissions that race on one challenge complete one sign-in
\* (complete_mfa_login), and no code is accepted twice by sign-ins and step-ups,
\* though each request verifies it on its own copy of the account (claim_totp_step,
\* consume_user_recovery_code).
OneSignInPerChallenge == \A c \in Challenges : completed[c] <= 1
CodesWorkOnce == \A k \in Codes : accepted[k] <= 1

\* A revoked session stays revoked and gains no step-up, whatever a request
\* that resolved it before the revocation writes (_touch, mark_mfa_verified).
KeepsRevocations ==
    \A s \in Sessions : session[s].status = "revoked" =>
        session'[s].status = "revoked" /\ (session'[s].fresh => session[s].fresh)
RevokedStaysRevoked == [][KeepsRevocations]_vars

\* Each secret is enrolled by one confirmation: two that race for the same
\* unconfirmed enrolment do not both show their owner recovery codes
\* (PendingEnrollmentStore.take).
OneConfirmationAtATime ==
    \A q, r \in Requests :
        request[q].pc = "code" /\ request[r].pc = "code" /\ q # r => request[q].copy.secret # request[r].copy.secret

\* A disabled authenticator comes back only through a new enrolment.  It does not
\* hold: a regeneration of the recovery codes that read the enrolment before it
\* was disabled writes it back after (regenerate_recovery_codes).
DisabledStaysDisabled ==
    [][user.secret = 0 /\ user'.secret # 0 => \E r \in Requests : request[r].pc = "code"]_vars
=============================================================================
