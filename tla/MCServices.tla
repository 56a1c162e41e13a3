------------------------------ MODULE MCServices ------------------------------
\* Instances for TLC of the parts of the service that race on what they
\* store: receipts, sessions, snapshots, histories, approvals, compensations,
\* accounts and credentials; and of what a restore would do with the histories.
EXTENDS MCParts

Two == {"r1", "r2"}
Three == {"r1", "r2", "r3"}

------------------------
\* Events and what they record.
\* One receipt, two workers that may hold it at once.
Receipts == INSTANCE WebhookReceipts WITH
    receipt <- v1, handing <- v2, queue <- v3, work <- v4, recorded <- v5, losses <- v6,
    Receipts <- {"audit"}, Workers <- {"w1", "w2"}, MaxAttempts <- 2, MaxMessages <- 1, MaxLosses <- 1

Reports == [pre |-> "pre", done |-> "configured", down |-> "incident", up |-> "resolution",
            failed |-> "failed", reverted |-> "reverted"]
Times == [pre |-> 1, done |-> 2, down |-> 3, up |-> 2, failed |-> 1, reverted |-> 3]

\* One device: two handlers race a poll, a handler or a poll may be lost.
Racing == INSTANCE MonitoringSession WITH
    sessions <- v1, todo <- v2, work <- v3, poll <- v4, passed <- v5, losses <- v6,
    Events <- {"done", "reverted"}, Kind <- Reports, At <- Times,
    Handlers <- {"h1", "h2"}, Pollers <- {"p1"}, Attempts <- 3, MaxSessions <- 2, MaxLosses <- 1

\* One device: one handler takes events of five kinds, in any order.
Reporting == INSTANCE MonitoringSession WITH
    sessions <- v1, todo <- v2, work <- v3, poll <- v4, passed <- v5, losses <- v6,
    Events <- DOMAIN Reports \ {"reverted"}, Kind <- Reports, At <- Times,
    Handlers <- {"h1"}, Pollers <- {"p1"}, Attempts <- 3, MaxSessions <- 2, MaxLosses <- 0

Snapshots == INSTANCE SnapshotSlot WITH
    manifest <- v1, sending <- v2, messages <- v3, crawl <- v4, initial <- v5, losses <- v6,
    Manifests <- {"m1", "m2"}, Workers <- {"w1", "w2"}, MaxLosses <- 1

\* One writer at a time, which may die between any two steps.
History == INSTANCE VersionHistory WITH
    mist <- v1, audits <- v2, todo <- v3, versions <- v4, logical <- v5, incarnation <- v6, job <- v7,
    Absent <- "Absent", Configs <- {"a", "b"}, Workers <- {"w1"}, Mortal <- {"w1"}, Crawlers <- {"w1"},
    MaxChanges <- 3, RecordAttempts <- 2

\* Two writers at once: one may crawl for a backup, the other may die.
Writers == INSTANCE VersionHistory WITH
    mist <- v1, audits <- v2, todo <- v3, versions <- v4, logical <- v5, incarnation <- v6, job <- v7,
    Absent <- "Absent", Configs <- {"a", "b"}, Workers <- {"w1", "w2"}, Mortal <- {"w2"}, Crawlers <- {"w1"},
    MaxChanges <- 2, RecordAttempts <- 2

\* One webhook worker that may be lost twice, a device event and a poll.
Retries == INSTANCE ChangeProjection WITH
    todo <- v1, recorded <- v2, opened <- v3, receipts <- v4, revision <- v5, picture <- v6,
    projected <- v7, alerted <- v8, job <- v9, deaths <- v10,
    NoInput <- "NoInput", Audits <- {"audit"}, Events <- {"event"}, Polls <- {"poll"},
    Harmful <- {"event", "poll"}, Receivers <- {"w1"}, Pollers <- {"w3"}, Mortal <- {"w1"},
    MaxDeaths <- 2, Attempts <- 3

------------------------
\* Restores.
\* Two requests on the draft alone.
Deciding == INSTANCE RestoreApproval WITH
    plan <- v1, doc <- v2, lapsed <- v3, request <- v4, queued <- v5,
    Users <- {"u1", "u2"}, Prepared <- {}, Changed <- {}, Requests <- Two, MaxDocs <- 1, MaxTerms <- 2
\* Two requests, of which one may prepare other changes than were reviewed.
Preparing == INSTANCE RestoreApproval WITH
    plan <- v1, doc <- v2, lapsed <- v3, request <- v4, queued <- v5,
    Users <- {"u1", "u2"}, Prepared <- {"p1"}, Changed <- {"p1"}, Requests <- Two,
    MaxDocs <- 1, MaxTerms <- 1
\* One request at a time, two preparations, one of them of the same changes.
Carrying == INSTANCE RestoreApproval WITH
    plan <- v1, doc <- v2, lapsed <- v3, request <- v4, queued <- v5,
    Users <- {"u1", "u2"}, Prepared <- {"p1", "p2"}, Changed <- {"p1"}, Requests <- {"r1"},
    MaxDocs <- 1, MaxTerms <- 2

Action(kind, did, secret) == [kind |-> kind, did |-> did, secret |-> secret, named |-> TRUE]
Failed ==
    {<<Action("create", "read", "none"), Action("update", "unread", "sourced")>>,
     <<Action("delete", "read", "none"), Action("update", "unconfirmed", "none")>>,
     <<Action("update", "read", "none"), Action("delete", "unconfirmed", "sourced")>>,
     <<Action("create", "unconfirmed", "none"), Action("create", "none", "none")>>,
     <<Action("update", "read", "unsourced"), Action("create", "read", "none")>>}
Compensating == INSTANCE CompensationPlanning WITH
    writes <- v1, live <- v2, again <- v3, byHand <- v4, marked <- v5, plans <- v6, linked <- v7,
    planner <- v8, run <- v9, edits <- v10, stops <- v11, formulas <- v12,
    Restores <- Failed, Planners <- {"p"}, MaxPlans <- 3, MaxEdits <- 1, MaxStops <- 2, MaxFormulas <- 1

Writing == INSTANCE MistWrites WITH
    method <- v1, there <- v2, applied <- v3, attempt <- v4, ambiguous <- v5, outcome <- v6,
    MAX_ATTEMPTS <- 4

Wrote(kind, id, new_id, site, new_site, remap, done) ==
    [kind |-> kind, id |-> id, new_id |-> new_id, site |-> site, new_site |-> new_site, remap |-> remap,
     done |-> done, wrote |-> [x |-> "1", psk |-> "2"]]
\* An update and a deletion; a site recreated with its WLAN, or only the site.
Ran ==
    {<<Wrote("update", "a", "none", "s2", "none", {"a0"}, TRUE),
       Wrote("delete", "b", "none", "org", "none", {}, TRUE)>>}
    \union
    {<<Wrote("create", "s", "s2", "org", "none", {}, TRUE),
       Wrote("create", "w", "w2", "s", "s2", {}, done)>> : done \in BOOLEAN}
Made(names, deleted) == [names |-> names, deleted |-> deleted]
Recorded ==
    {[r |-> h] : h \in {<<Made({"a0"}, FALSE)>>, <<Made({"w"}, FALSE), Made({}, FALSE)>>,
                        <<Made({"w", "a0"}, FALSE), Made({}, TRUE)>>}}
On(device, active) == [device |-> device, site |-> "s2", active |-> active]
Verifying == INSTANCE RestoreVerification WITH
    live <- v1, versions <- v2, slot <- v3, sessions <- v4, run <- v5, others <- v6,
    Plans <- Ran, Archives <- Recorded, Recordable <- {{}, {"a0"}},
    Watched <- {<<On("d", FALSE), On("d", FALSE)>>, <<On("d", FALSE), On("e", FALSE), On("d", TRUE)>>},
    Edited <- {[x |-> "1", psk |-> "3"]}, Sensitive <- {"psk"}, Ignored <- {"ts"},
    MAX_REOPENED <- 2, MaxElse <- 1

\* Two members, an alert for both that is raised once, and one for each time.
Notified == INSTANCE Notifications WITH
    feed <- v1, request <- v2, acked <- v3, Members <- {"m", "n"},
    Alerts <- {[key |-> "k", to |-> "all"], [key |-> "none", to |-> "m"]},
    Requests <- Two, MaxFeed <- 3

------------------------
\* Accounts and credentials.
\* Three requests change the roles of two administrators.
Roles == INSTANCE Accounts WITH
    user <- v1, request <- v2, Users <- {"a", "b"}, Founders <- {"a", "b"},
    Granted <- {"administrator", "operator"}, Operations <- {"role"}, Requests <- Three, MaxTokens <- 2
\* One administrator invites, disables and enables an operator.
Invited == INSTANCE Accounts WITH
    user <- v1, request <- v2, Users <- {"a", "b"}, Founders <- {"a"}, Granted <- {"operator"},
    Operations <- {"deactivate", "activate", "resend"}, Requests <- Two, MaxTokens <- 2

Attempts == INSTANCE Throttle WITH
    count <- v1, failed <- v2, attempt <- v3, Requests <- Three, Scopes <- <<"account", "address">>,
    Cleared <- "account", Limit <- [account |-> 1, address |-> 2], MaxFailures <- 2

Factors == INSTANCE SignIn WITH
    user <- v1, pending <- v2, issued <- v3, challenge <- v4, session <- v5, request <- v6,
    accepted <- v7, completed <- v8, Requests <- Two, Challenges <- {"c"}, Sessions <- {"s"},
    MaxAttempts <- 2, MaxStep <- 1, MaxSecrets <- 2

\* Two requests answer one challenge, each for a session of its own.
Signing == INSTANCE SignIn WITH
    user <- v1, pending <- v2, issued <- v3, challenge <- v4, session <- v5, request <- v6,
    accepted <- v7, completed <- v8, Requests <- Two, Challenges <- {"c"}, Sessions <- {"s", "t"},
    MaxAttempts <- 2, MaxStep <- 1, MaxSecrets <- 1

\* One endpoint honours strict schemas, the other JSON objects only.
Honours(endpoint, model) ==
    IF endpoint = "strict" THEN {"json_schema", "json_object"} ELSE {"json_object"}
Provider == INSTANCE ProviderSettings WITH
    conf <- v1, keys <- v2, kept <- v3, request <- v4, Requests <- Two,
    Endpoints <- {"strict", "plain"}, Models <- {"m"}, Supports <- Honours, MaxKeys <- 1

Tokens == INSTANCE Organizations WITH
    org <- v1, mist <- v2, saved <- v3, request <- v4, Requests <- Two, Home <- {1, 2}, MaxTokens <- 3

------------------------
\* Restore plans.
\* Data that may name an object of a list, either of which may be restored.
Restored == INSTANCE RestorePlanner WITH
    mist <- v1, versions <- v2, snapshot <- v3, events <- v4,
    pc <- v5, request <- v6, sel <- v7, force <- v8, rewrites <- v9, instants <- v10, pending <- v11,
    actions <- v12, rank <- v13, after <- v14,
    Objects <- {"a", "d"}, Type <- [a |-> "list", d |-> "data"], Site <- [a |-> "none", d |-> "none"],
    Name <- [a |-> "a", d |-> "d"], MayRefer <- {<<"d", "a">>}, Instants <- 1, MaxEvents <- 3
\* An object whose type is applied before that of the object it names.
Ordered == INSTANCE RestorePlanner WITH
    mist <- v1, versions <- v2, snapshot <- v3, events <- v4,
    pc <- v5, request <- v6, sel <- v7, force <- v8, rewrites <- v9, instants <- v10, pending <- v11,
    actions <- v12, rank <- v13, after <- v14,
    Objects <- {"a", "b"}, Type <- [a |-> "list", b |-> "list"], Site <- [a |-> "none", b |-> "none"],
    Name <- [a |-> "a", b |-> "b"], MayRefer <- {<<"a", "b">>}, Instants <- 1, MaxEvents <- 2
\* Two objects of one name.
Renamed == INSTANCE RestorePlanner WITH
    mist <- v1, versions <- v2, snapshot <- v3, events <- v4,
    pc <- v5, request <- v6, sel <- v7, force <- v8, rewrites <- v9, instants <- v10, pending <- v11,
    actions <- v12, rank <- v13, after <- v14,
    Objects <- {"a", "c", "d"}, Type <- [a |-> "list", c |-> "list", d |-> "data"],
    Site <- [a |-> "none", c |-> "none", d |-> "none"], Name <- [a |-> "a", c |-> "a", d |-> "d"],
    MayRefer <- {<<"d", "a">>, <<"d", "c">>}, Instants <- 1, MaxEvents <- 2
\* A site and an object in it, which may be restored to a site that came back since.
Sited == INSTANCE RestorePlanner WITH
    mist <- v1, versions <- v2, snapshot <- v3, events <- v4,
    pc <- v5, request <- v6, sel <- v7, force <- v8, rewrites <- v9, instants <- v10, pending <- v11,
    actions <- v12, rank <- v13, after <- v14,
    Objects <- {"s", "w"}, Type <- [s |-> "sites", w |-> "list"], Site <- [s |-> "none", w |-> "s"],
    Name <- [s |-> "s", w |-> "w"], MayRefer <- {<<"w", "s">>}, Instants <- 1, MaxEvents <- 3

\* A point in time, searched and read twice.
Words == <<"Lab", "east", "lab", "m1", "m2", "m3", "m4", "sites", "wlans">>
Written == [w \in {Words[i] : i \in DOMAIN Words} |-> CHOOSE i \in DOMAIN Words : Words[i] = w]
Points == INSTANCE RestorePoint WITH
    now <- v1, logical <- v2, history <- v3,
    Objects <- {[id |-> 1, type |-> "sites", scope |-> "org"], [id |-> 2, type |-> "wlans", scope |-> "site"],
                [id |-> 3, type |-> "wlans", scope |-> "site"]},
    Names <- {"Lab", "lab"}, MistIds <- {"m1", "m2", "m3"}, Order <- Written,
    Fold <- [Written EXCEPT !["Lab"] = Written["lab"]], Needles <- [la |-> {"Lab", "lab", "wlans"}],
    SCOPE_LIMIT <- 10, Limit <- 2, MaxTime <- 1, MaxVersions <- 3

\* The objects qualify for the theorems about RestorePlanner, and the points for
\* those about RestorePoint.
ASSUME ObjectsQualify ==
    Restored!ObjectsAssumption /\ Ordered!ObjectsAssumption /\ Renamed!ObjectsAssumption /\ Sited!ObjectsAssumption
ASSUME PointsQualify == Points!RanksAssumption

Init ==
    \/ Start("receipts", 6) /\ Receipts!Init
    \/ Start("racing", 6) /\ Racing!Init
    \/ Start("reporting", 6) /\ Reporting!Init
    \/ Start("snapshots", 6) /\ Snapshots!Init
    \/ Start("history", 7) /\ History!Init
    \/ Start("writers", 7) /\ Writers!Init
    \/ Start("retries", 10) /\ Retries!Init
    \/ Start("deciding", 5) /\ Deciding!Init
    \/ Start("preparing", 5) /\ Preparing!Init
    \/ Start("carrying", 5) /\ Carrying!Init
    \/ Start("compensating", 12) /\ Compensating!Init
    \/ Start("writing", 6) /\ Writing!Init
    \/ Start("verifying", 6) /\ Verifying!Init
    \/ Start("notified", 3) /\ Notified!Init
    \/ Start("roles", 2) /\ Roles!Init
    \/ Start("invited", 2) /\ Invited!Init
    \/ Start("attempts", 3) /\ Attempts!Init
    \/ Start("factors", 8) /\ Factors!Init
    \/ Start("signing", 8) /\ Signing!Init
    \/ Start("provider", 4) /\ Provider!Init
    \/ Start("tokens", 4) /\ Tokens!Init
    \/ Start("restored", 14) /\ Restored!Init
    \/ Start("ordered", 14) /\ Ordered!Init
    \/ Start("renamed", 14) /\ Renamed!Init
    \/ Start("sited", 14) /\ Sited!Init
    \/ Start("points", 3) /\ Points!Init

Next ==
    \/ Move("receipts", 6) /\ Receipts!Next
    \/ Move("racing", 6) /\ Racing!Next
    \/ Move("reporting", 6) /\ Reporting!Next
    \/ Move("snapshots", 6) /\ Snapshots!Next
    \/ Move("history", 7) /\ History!Next
    \/ Move("writers", 7) /\ Writers!Next
    \/ Move("retries", 10) /\ Retries!Next
    \/ Move("deciding", 5) /\ Deciding!Next
    \/ Move("preparing", 5) /\ Preparing!Next
    \/ Move("carrying", 5) /\ Carrying!Next
    \/ Move("compensating", 12) /\ Compensating!Next
    \/ Move("writing", 6) /\ Writing!Next
    \/ Move("verifying", 6) /\ Verifying!Next
    \/ Move("notified", 3) /\ Notified!Next
    \/ Move("roles", 2) /\ Roles!Next
    \/ Move("invited", 2) /\ Invited!Next
    \/ Move("attempts", 3) /\ Attempts!Next
    \/ Move("factors", 8) /\ Factors!Next
    \/ Move("signing", 8) /\ Signing!Next
    \/ Move("provider", 4) /\ Provider!Next
    \/ Move("tokens", 4) /\ Tokens!Next
    \/ Move("restored", 14) /\ Restored!Next
    \/ Move("ordered", 14) /\ Ordered!Next
    \/ Move("renamed", 14) /\ Renamed!Next
    \/ Move("sited", 14) /\ Sited!Next
    \/ Move("points", 3) /\ Points!Next

Spec == Init /\ [][Next]_vars

------------------------
\* Properties: each is its module's, of the parts that have it.
TypeOK ==
    CASE part = "receipts" -> Receipts!TypeOK
      [] part = "racing" -> Racing!TypeOK
      [] part = "reporting" -> Reporting!TypeOK
      [] part = "snapshots" -> Snapshots!TypeOK
      [] part = "history" -> History!TypeOK
      [] part = "writers" -> Writers!TypeOK
      [] part = "deciding" -> Deciding!TypeOK
      [] part = "preparing" -> Preparing!TypeOK
      [] part = "carrying" -> Carrying!TypeOK
      [] part = "compensating" -> Compensating!TypeOK
      [] part = "writing" -> Writing!TypeOK
      [] part = "attempts" -> Attempts!TypeOK
      [] OTHER -> TRUE

\* A processed receipt has had its effects stored.
ProcessedIsRecorded == part = "receipts" => Receipts!ProcessedIsRecorded

\* A poll takes nothing from a session that events wrote meanwhile.
PollsEraseNothing ==
    /\ part = "racing" => Racing!ErasesNothing
    /\ part = "reporting" => Reporting!ErasesNothing

\* A session fails only without a configured event, or by a failure it records.
FailedForAReason ==
    /\ part = "racing" => Racing!FailedForAReason
    /\ part = "reporting" => Reporting!FailedForAReason

\* An incident is resolved only by an event that happened after it.
ResolvedByALaterEvent ==
    /\ part = "racing" => Racing!ResolvedByALaterEvent
    /\ part = "reporting" => Reporting!ResolvedByALaterEvent

\* History is declared complete only after a complete snapshot.
InitialIsComplete == part = "snapshots" => Snapshots!MarkedWhenComplete

\* With one writer at a time, settled history is what Mist holds.
SettledIsCurrent == part = "history" => History!SettledIsCurrent

\* A deletion reaches the summary whoever died on the way.
DeletionIsSummarized == part = "history" => History!DeletionIsSummarized

\* Two writers together extend the history as VersionJournal specifies.
JournalSpec ==
    /\ part = "writers" => Writers!Journal!Init
    /\ [][part = "writers" => Writers!JournalStep]_vars

\* A critical change is announced though its worker was lost on the way.
HarmIsAnnounced == part = "retries" => Retries!HarmIsAnnounced

\* What is approved, or queued, was decided by a second administrator.
TwoPersons ==
    /\ part = "deciding" => Deciding!TwoPersons
    /\ part = "preparing" => Preparing!TwoPersons
    /\ part = "carrying" => Carrying!TwoPersons

\* A compensation overwrites no fix made by hand.
HandEditsSurvive == part = "compensating" => Compensating!KeepsHandEdits

\* Compensations recreate a named object at most once.
RecreatedOnce == part = "compensating" => Compensating!RecreatedOnce

\* A restore recorded as compensated has nothing left to reverse.
NothingIsLeft == part = "compensating" => Compensating!NothingIsLeft

\* A mask is never written back as a secret.
NoMaskIsWritten == part = "compensating" => Compensating!NoMaskIsWritten

\* Requests that follow each other leave one compensation to review or run.
OneCompensationAtATime == part = "compensating" => Compensating!OneCompensationAtATime

\* One create makes one object, however its attempts end.
CreatedOnce == part = "writing" => Writing!CreatedOnce

\* What a write is reported to have done is what Mist did.
TheAnswerIsTrue == part = "writing" => Writing!TheAnswerIsTrue

\* A restore is called verified only when what it wrote is there, and what it
\* replaced is named nowhere.
VerifiedIsTrue == part = "verifying" => Verifying!VerifiedIsTrue

\* A restore nobody disturbed fails its verification only for a reason.
FailureIsReal == part = "verifying" => Verifying!FailureIsReal

\* A session is not reopened in place of a newer one of its device.
ReopensTheNewest == part = "verifying" => Verifying!ReopensTheNewest

\* A member's unread count is what the member was not told is read.
UnreadIsExact == part = "notified" => Notified!UnreadIsExact

\* Racing role changes leave an active administrator.
AnAdministratorRemains ==
    /\ part = "roles" => Roles!AnAdministratorRemains
    /\ part = "invited" => Invited!AnAdministratorRemains

\* An active account's owner chose its password.
ActiveChosePassword ==
    /\ part = "roles" => Roles!ActiveChosePassword
    /\ part = "invited" => Invited!ActiveChosePassword

\* A shared scope counts failures and attempts in progress, and nothing else.
SharedCountIsExact == part = "attempts" => Attempts!SharedCountIsExact

\* A login challenge completes one sign-in.
OneSignInPerChallenge ==
    /\ part = "factors" => Factors!OneSignInPerChallenge
    /\ part = "signing" => Signing!OneSignInPerChallenge

\* A one-time code is accepted once.
CodesWorkOnce ==
    /\ part = "factors" => Factors!CodesWorkOnce
    /\ part = "signing" => Signing!CodesWorkOnce

\* A revoked session stays revoked, whoever resolved it before.
RevokedStaysRevoked ==
    /\ part = "factors" => Factors!KeepsRevocations
    /\ part = "signing" => Signing!KeepsRevocations

\* One confirmation enrols a pending secret.
OneConfirmationAtATime ==
    /\ part = "factors" => Factors!OneConfirmationAtATime
    /\ part = "signing" => Signing!OneConfirmationAtATime

\* The mode stored is one the stored endpoint and model honour.
ProvedModeIsHonored == part = "provider" => Provider!ProvedModeIsHonored

\* The last key saved is not undone by a request that read the one before.
RotationSurvives == part = "provider" => Provider!RotationSurvives

\* The status stored is the one Mist gave for the stored token.
StatusIsOfTheStoredToken == part = "tokens" => Tokens!StatusIsOfTheStoredToken

\* A replaced token is not put back by a task that re-encrypts what it read.
ReplacementSurvives == part = "tokens" => Tokens!ReplacementSurvives

\* After a restore no live object it wrote names an object that is gone.
NoDanglingReference ==
    /\ part = "restored" => Restored!NoDanglingReference
    /\ part = "ordered" => Ordered!NoDanglingReference
    /\ part = "renamed" => Renamed!NoDanglingReference
    /\ part = "sited" => Sited!NoDanglingReference

\* A restore that keeps what came since deletes nothing that did.
NonDestructive ==
    /\ part = "restored" => Restored!NonDestructive
    /\ part = "ordered" => Ordered!NonDestructive
    /\ part = "renamed" => Renamed!NonDestructive
    /\ part = "sited" => Sited!NonDestructive

\* An exact restore leaves what Mist held at the instant chosen.
ExactIsTheInstant ==
    /\ part = "restored" => Restored!ExactIsTheInstant
    /\ part = "ordered" => Ordered!ExactIsTheInstant
    /\ part = "renamed" => Renamed!ExactIsTheInstant
    /\ part = "sited" => Sited!ExactIsTheInstant

\* No write of a plan meets a name still taken.
NothingInTheWay == part = "renamed" => Renamed!NothingInTheWay

\* The database's search and the one in memory find the same objects.
SearchesAgree == part = "points" => Points!SearchesAgree

\* The restore points listed and the state read at one agree.
EndpointsAgree == part = "points" => Points!EndpointsAgree

\* What is read of a past instant does not change later.
PastIsSettled == [][part = "points" => Points!KeepsThePast]_vars

------------------------
\* What the run checks: the properties above, by theme.  Where one of them is
\* about a step, the theme says of each step what it may do and what holds
\* after it.
\* What an event reports is stored, judged in the order it happened, not erased
\* by a poll or a reopened session, and announced to each member until it is
\* read, though workers race and are lost.
EventsTakeEffect ==
    [][/\ PollsEraseNothing
       /\ ProcessedIsRecorded'
       /\ FailedForAReason'
       /\ ResolvedByALaterEvent'
       /\ HarmIsAnnounced'
       /\ ReopensTheNewest'
       /\ UnreadIsExact']_vars

\* The history of an object tells what Mist holds, through crashes of its writers.
HistoryIsTrue ==
    [][/\ InitialIsComplete
       /\ SettledIsCurrent'
       /\ DeletionIsSummarized']_vars

\* Compensations put back what the restore changed, once, and nothing else.
CompensationsAreFaithful ==
    [][/\ HandEditsSurvive
       /\ RecreatedOnce'
       /\ NothingIsLeft'
       /\ NoMaskIsWritten'
       /\ OneCompensationAtATime']_vars

\* A write happens once, and what is said of it, and of the restore it belongs
\* to, is true, through retries and while others write.
WritesAreKnown ==
    /\ CreatedOnce
    /\ TheAnswerIsTrue
    /\ VerifiedIsTrue
    /\ FailureIsReal

\* Racing requests leave an administrator, and no account whose owner never came.
AccountsAreHeld ==
    /\ AnAdministratorRemains
    /\ ActiveChosePassword

\* A challenge, a code, a secret and a revocation each count once, and attempts
\* are counted, however requests overlap.
SignInsHappenOnce ==
    [][/\ RevokedStaysRevoked
       /\ SharedCountIsExact'
       /\ OneSignInPerChallenge'
       /\ CodesWorkOnce'
       /\ OneConfirmationAtATime']_vars

\* What is stored of a provider and of a service token is of the key and token
\* stored with it, however saves, tests and background tasks overlap.
SettingsAreTrue ==
    /\ ProvedModeIsHonored
    /\ RotationSurvives
    /\ StatusIsOfTheStoredToken
    /\ ReplacementSurvives

\* Each way of reading a point in time gives the same answer, and a plan run to
\* its end leaves the state it promised, with every reference whole.
PlansAreSafe ==
    /\ SearchesAgree
    /\ EndpointsAgree
    /\ NoDanglingReference
    /\ NonDestructive
    /\ ExactIsTheInstant
    /\ NothingInTheWay
=============================================================================
