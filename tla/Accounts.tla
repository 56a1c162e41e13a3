------------------------------- MODULE Accounts -------------------------------
\* Local accounts and the administrators among them.
\*
\* Each request reads an account, checks what it read and writes only the
\* fields it changes, some of them on a condition.  Removing an administrator
\* counts the others before the write and counts again after it, and puts the
\* removal back where it left nobody.
EXTENDS Integers, FiniteSets

CONSTANTS
    Users,      \* accounts
    Founders,   \* those that are administrators to begin with
    Granted,    \* the roles invitations and role changes give
    Operations, \* of "role", "deactivate", "activate" and "resend"
    Requests,   \* API requests in progress
    MaxTokens   \* bound on the invitation tokens issued to one account

Roles == {"administrator", "operator"}

VARIABLES
    user,     \* the stored accounts
    request   \* each request's locals

vars == <<user, request>>

\* chosen: the account's owner has chosen a password.  token: 0 for none.
Account(role) == [role |-> role, status |-> "active", active |-> TRUE, token |-> 0,
                  issued |-> 0, revoked |-> FALSE, chosen |-> TRUE]
NoAccount == [Account("operator") EXCEPT !.status = "none", !.active = FALSE, !.chosen = FALSE]
Idle == [pc |-> "idle", op |-> "none", of |-> "none", actor |-> "none",
         role |-> "operator", token |-> 0, copy |-> NoAccount]

Administrators == {u \in Users : user[u].role = "administrator" /\ user[u].active}

Init ==
    /\ user = [u \in Users |-> IF u \in Founders THEN Account("administrator") ELSE NoAccount]
    /\ request = [r \in Requests |-> Idle]

Set(r, l) == request' = [request EXCEPT ![r] = l]
Goto(r, pc) == Set(r, [request[r] EXCEPT !.pc = pc])
Done(r) == Set(r, Idle)

\* invite: the unique email keeps one account.
Invite(u, role) ==
    /\ Administrators # {} /\ user[u].status = "none"
    /\ user' = [user EXCEPT ![u] = [NoAccount EXCEPT !.role = role, !.status = "invited",
                                                     !.token = 1, !.issued = 1]]
    /\ UNCHANGED request

\* An administrator's request reads the account it is about.
Read(r, actor, op, u, role) ==
    /\ request[r] = Idle /\ user[u].status # "none" /\ actor \in Administrators
    /\ Set(r, [pc |-> op, op |-> op, of |-> u, actor |-> actor, role |-> role, token |-> 0, copy |-> user[u]])
    /\ UNCHANGED user

\* accept_invitation reads the account by the token presented.
Present(r, u) ==
    /\ request[r] = Idle /\ user[u].status = "invited" /\ user[u].token # 0
    /\ Set(r, [Idle EXCEPT !.pc = "accept", !.of = u, !.token = user[u].token])
    /\ UNCHANGED user

\* Only while the invitation is still the one presented.
Accept(r) ==
    LET l == request[r] IN
    /\ l.pc = "accept"
    /\ user' = IF user[l.of].token = l.token
               THEN [user EXCEPT ![l.of] = [@ EXCEPT !.token = 0, !.status = "active",
                                                     !.active = TRUE, !.chosen = TRUE]]
               ELSE user
    /\ Done(r)

\* resend_invitation: a pending invitation gets a new token; a revoked one is
\* reopened, only while it is still the revocation that was read.
Resend(r) ==
    LET l == request[r]
        u == user[l.of] IN
    /\ l.pc = "resend"
    /\ IF l.copy.status # "invited" /\ ~l.copy.revoked THEN UNCHANGED user
       ELSE /\ u.issued < MaxTokens
            /\ user' = IF l.copy.status = "invited"
                       THEN [user EXCEPT ![l.of] = [u EXCEPT !.token = u.issued + 1, !.issued = @ + 1]]
                       ELSE IF u.revoked
                       THEN [user EXCEPT ![l.of] = [u EXCEPT !.token = u.issued + 1, !.issued = @ + 1, !.revoked = FALSE,
                                                             !.status = "invited", !.active = FALSE]]
                       ELSE user
    /\ Done(r)

ActivateSlip(r) ==
    LET l == request[r] IN
    /\ l.pc = "activate"
    /\ user' = IF l.copy.status = "invited" THEN user
               ELSE [user EXCEPT ![l.of].active = TRUE, ![l.of].status = "active"]
    /\ Done(r)
Activate(r) ==
    LET l == request[r] IN
    /\ l.pc = "activate"
    /\ user' = IF l.copy.status = "invited" \/ l.copy.revoked THEN user
               ELSE [user EXCEPT ![l.of].active = TRUE, ![l.of].status = "active"]
    /\ Done(r)

------------------------
\* Removing an administrator.
\* _guard_administrator_removal: nobody removes themselves, and another
\* administrator must remain.  An account read as an operator is not guarded.
Removal(l) == l.copy.role = "administrator"
Refused(l) == Removal(l) /\ (l.actor = l.of \/ Administrators \ {l.of} = {})

Role(r) ==
    LET l == request[r] IN
    /\ l.pc = "role"
    /\ IF l.role = l.copy.role \/ Refused(l) THEN Done(r) ELSE Goto(r, "write")
    /\ UNCHANGED user

\* deactivate: an account still invited has its invitation revoked instead.
Deactivate(r) ==
    LET l == request[r] IN
    /\ l.pc = "deactivate"
    /\ IF l.copy.status = "invited"
       THEN /\ user' = [user EXCEPT ![l.of] = [@ EXCEPT !.active = FALSE, !.status = "deactivated",
                                                        !.token = 0, !.revoked = TRUE]]
            /\ Done(r)
       ELSE /\ UNCHANGED user
            /\ IF ~l.copy.active \/ Refused(l) THEN Done(r) ELSE Goto(r, "write")

Write(r) ==
    LET l == request[r] IN
    /\ l.pc = "write"
    /\ user' = IF l.op = "role" THEN [user EXCEPT ![l.of].role = l.role]
               ELSE [user EXCEPT ![l.of].active = FALSE, ![l.of].status = "deactivated"]
    /\ IF Removal(l) THEN Goto(r, "recount") ELSE Done(r)

RecountSlip(r) ==
    /\ request[r].pc = "recount"
    /\ Done(r)
    /\ UNCHANGED user
\* _keep_an_administrator
Recount(r) ==
    /\ request[r].pc = "recount"
    /\ IF Administrators # {} THEN Done(r) ELSE Goto(r, "undo")
    /\ UNCHANGED user

Undo(r) ==
    LET l == request[r]
        u == user[l.of] IN
    /\ l.pc = "undo"
    /\ user' = CASE l.op = "role" /\ u.role = l.role -> [user EXCEPT ![l.of].role = l.copy.role]
                 [] l.op = "deactivate" /\ ~u.active /\ u.status = "deactivated" ->
                        [user EXCEPT ![l.of].active = TRUE, ![l.of].status = l.copy.status]
                 [] OTHER -> user
    /\ Done(r)

Next ==
    \/ \E u \in Users, role \in Granted : Invite(u, role)
    \/ \E r \in Requests :
           \/ \E u \in Users : Present(r, u)
           \/ \E a, u \in Users, op \in Operations, role \in Granted : Read(r, a, op, u, role)
           \/ Accept(r) \/ Resend(r) \/ Activate(r) \/ Role(r) \/ Deactivate(r)
           \/ Write(r) \/ Recount(r) \/ Undo(r)

Spec == Init /\ [][Next]_vars

------------------------
\* Properties.
\* Removals that race leave an administrator once they are answered, though
\* each counted the other's before either wrote (_keep_an_administrator).
AnAdministratorRemains ==
    (\A r \in Requests : request[r].pc \notin {"recount", "undo"}) => Administrators # {}

\* An account that can sign in has an owner who chose its password: no order
\* of inviting, revoking, reopening and accepting activates another one
\* (accept_invitation, activate).
ActiveChosePassword == \A u \in Users : user[u].active => user[u].chosen
=============================================================================
