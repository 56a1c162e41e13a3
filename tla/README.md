# Mist Config Guardian, in TLA+

A model of the backend of Mist Config Guardian, where several processes share
MongoDB documents without transactions and decide from recorded evidence what a
change did and how to take it back. TLC checks each part on small instances;
TLAPS proves what matters most for every instance. Paths below are relative to
`backend/src/mist_config_guardian_backend/`.

## 1. The system

API processes (FastAPI), Celery workers and Celery beat share MongoDB. Redis is
the broker. Mist is an external service, read and written over HTTP. There are
no transactions: a process reads documents, calls Mist, and writes single
documents, whole (`document.save()`) or by a conditional update. Any process can
die between two calls, and Celery may deliver a task twice or lose it.

| Component | State it keeps | Operations | Talks to |
|---|---|---|---|
| Restore execution (`services/restore_executor.py`, `restore_outcome.py`) | `RestoreOperation`: status, actions, `updated_at`, delegated credential; `RestoreOperationState`: safety snapshot | execute: claim, lease, snapshot, per action check, mark, write, record, read back, append version; verify; finish, fail, clean up | Mist, lease, history, notifications |
| Lease (`restore_lease.py`) | `RestoreLease`, unique per organization | acquire, renew, release, held_by_another; TTL removal | executor, janitor, authorization |
| Recovery (`restore_recovery.py`) | none of its own | close silent runs, release lease, log out, notify | operations, lease |
| Authorization (`restore_authorization.py`, `api/routes/restores.py`, `tasks/restores.py`) | operation status and credential | prepare, authorize (reserve), publish, release, supersede, expire | Mist, broker, approvals |
| Planning and points in time (`restore_planner.py`, `point_in_time.py`, `restore_targets.py`) | the plan | pure, over history and Mist reads | executor |
| Mist writes (`integrations/mist_mutation.py`) | none | send, retry, answer done / refused / possibly applied | executor |
| Verification (`restore_verification.py`) | `verification` of the operation | read back, search for replaced ids, queue a snapshot, reopen sessions | Mist, history, monitoring |
| Compensation (`restore_compensation.py`) | plans that reverse a restore | plan the reversal, reuse, supersede stale, close the restore | executor |
| Approvals (`approvals.py`) | `RestoreApproval` | request, decide, reopen, invalidate, expire, carry over, gate | plans |
| Version history (`snapshots.py`, `audit_versioning.py`, `restore_baseline.py`, `restore_identity.py`) | `ObjectVersion` (unique number per object), `LogicalObject` summary, `ObjectIncarnation` | capture, tombstone, baseline, restored version | Mist, webhook workers, crawls, executor |
| Backups (`SnapshotService.run`, `open_manifest`) | `SnapshotManifest`, unique while active | start, crawl, finish, release stale, mark history complete | Mist, history |
| Webhooks (`webhooks.py`, `webhook_processing.py`, `tasks/webhooks.py`) | `WebhookReceipt`: status, attempts | receive, queue, process, retry sweep | change groups, history, monitoring, Guardian |
| Change groups (`change_groups.py`, `network_impact_policy.py`, `tasks/change_groups.py`) | `AuditChangeGroup`: merged fields, projection, revision | merge, rebuild, announce, backfill, list, show | history, monitoring sessions |
| Monitoring (`monitoring.py`, `monitoring_recovery.py`, `device_impact.py`, `impact_analysis.py`) | `MonitoringSession` | start/merge, configured, incidents, poll, time out, compare, assess | Mist, change groups |
| Guardian store (`guardian/repository.py`, `services/guardian.py`) | investigation root with claim and attempts; runs | ensure, lease, commit, run, finalize, publish, recover, exhaust | attempts |
| Guardian attempt (`services/guardian.py`, `guardian/ledger.py`, `composition.py`, `deployment.py`, `monitoring.py`, `change.py`; `plugins/`; `agent.py`, `reader.py`, `evidence.py`) | a verdict and its evidence | load the change, plan, pair, replay, evaluate, ask the agent, compose | Mist MCP, model provider |
| Accounts and sign-in (`users.py`, `sessions.py`, `mfa.py`, `throttling.py`, `reauthentication.py`) | users, sessions, factors, challenges, attempt counters | invite, update, deactivate, sign in, enrol, revoke, throttle | every route |
| Service tokens and provider settings (`organizations.py`, `service_credentials.py`, `application_configuration.py`) | `Organization`, settings document | replace, verify, re-encrypt; save, test | Mist, provider |
| Notifications (`notifications.py`) | `Notification` with receipts | emit once per key, list, mark one or all read | members |
| Configuration model (`snapshots/diffing.py`, `fingerprint.py`, `references.py` ...) | none | diff, patch, fingerprint, find references | all |
| Mail, read models, retention, integrations, security | settings, secrets | queries, HTTP, cryptography | all |
| Frontend, Helm chart, scripts | none the backend relies on | | API |

What is hard in each, and what makes it correct:

- **Restores.** Several workers, a janitor and requests write one operation;
  the lease is renewed and the operation touched in two writes; a Mist write can
  have an unknown outcome; a storage error can come before or after the write
  took effect. Correct: restores of an organization do not interleave, no action
  reaches Mist twice, every applied write is on the closed record and stays
  compensable, no credential outlives its run, every run ends; a plan runs in an
  order that leaves no reference dangling; its compensations put back what it
  changed, once, and nothing else; what it is said to have done is true.
- **Approvals.** Requests fold expiry and staleness into a copy and save it
  whole. Correct: what runs was decided by a second administrator for these
  changes.
- **Histories.** Five kinds of writer fetch from Mist, read the newest version,
  and insert the next number under a unique index; the summary is saved whole
  from an older copy. Correct: the history only grows, each capture is a
  difference, a deletion is recorded once, and in the end the newest version is
  what Mist holds and the summary names it.
- **Change groups.** Rebuilds from webhook workers, polls and the backfill write
  the whole document over a revision; readers correct what is stored from newer
  sessions, and the filter of the list does so again in the database. Correct:
  no picture goes back, no merge is lost, the last picture is complete, harm is
  announced, and what is stored, listed and shown agree.
- **Webhooks.** Duplicate, delayed, lost deliveries; the receipt is saved whole.
  Correct: a processed receipt had its effect, every receipt settles.
- **Monitoring.** Events save the session whole while a poll saves it only if
  unchanged; evidence is missing in parts. Correct: no event and no observation
  is lost; sessions end; harm is laid to a change for evidence of its own and
  stands until it was seen to end.
- **Guardian.** A worker's lease, committed attempt, run and publication are
  separate fenced writes, and recovery races each. Correct: at most the allowed
  attempts per kind, one published run, no finished run abandoned, each root
  ends; an attempt reads within its authority and its verdict rests on what it
  read and covers what it was asked.
- **Accounts.** Guards count before they write. Correct: an active
  administrator remains; a revoked session stays revoked; a factor is used once;
  a limit bounds the attempts admitted.
- **Settings.** A verdict on a token or a provider takes as long as the answer.
  Correct: what is stored of it is of the token or endpoint stored beside it.

## 2. The modules

Each action is one database write, one Mist call, or the local computation
between two of them. Where a read and the write after it are separate calls they
are separate actions, with what was read held in the worker's locals.
Definitions named `...Slip` are wrong versions kept to show that a property can
tell them from the right one; the specification does not use them.

| Module | Models | Lines to read beside it |
|---|---|---|
| `RestoreRun` | restores of one organization, from a reviewed plan to a terminal status | `restore_executor.py`, `restore_lease.py`, `restore_recovery.py`, `restore_authorization.py`, `restore_outcome.py`, `api/routes/restores.py` |
| `SerialRestores` | what the lease promises, abstractly | |
| `RestorePlanner` | a plan, from a history to what running it leaves | `restore_planner.py` |
| `RestorePoint` | the configuration at an instant, and the picker of restorable objects in both its forms | `point_in_time.py`, `restore_targets.py` |
| `RestoreApproval` | two-person approval of a plan and of the plan prepared from it | `approvals.py` |
| `MistWrites` | one write with its retries | `integrations/mist_mutation.py` |
| `RestoreVerification` | the check that ends a restore | `restore_verification.py`, `snapshots/fingerprint.py` |
| `CompensationPlanning` | the compensations of one failed restore, run and edited by hand between | `restore_compensation.py` |
| `VersionHistory` | one object's history under all its writers | `snapshots.py`, `audit_versioning.py`, `restore_baseline.py`, `restore_executor.py` (`_record_result`) |
| `VersionJournal` | what a history promises its readers, abstractly | |
| `SnapshotSlot` | the one active snapshot of an organization | `snapshots.py`, `tasks/snapshots.py` |
| `WebhookReceipts` | a receipt, from its insert to its last attempt | `webhooks.py`, `webhook_processing.py`, `tasks/webhooks.py` |
| `ChangeProjection` | one change group: merges, rebuilds, polls, backfill, announcement | `change_groups.py`, `webhook_processing.py`, `tasks/change_groups.py`, `monitoring.py` |
| `ChangePicture` | what a rebuild computes and what readers correct | `change_groups.py`, `network_impact_policy.py` |
| `MonitoringSession` | the sessions of one device, under events, polls and timeouts | `monitoring.py`, `monitoring_recovery.py` |
| `DeviceFollowups` | the findings of a device's captures | `device_impact.py`, `monitoring.py` |
| `MonitoringReplay` | the assessment of a session, and Guardian's replay of it | `monitoring.py`, `impact_analysis.py`, `impact_evidence.py`, `guardian/monitoring.py` |
| `GuardianInvestigation` | Guardian's investigation of one audit, under overlapping ticks | `guardian/repository.py`, `services/guardian.py`, `models/guardian.py` |
| `InvestigationRecord` | what an investigation promises its readers, abstractly | |
| `AuditChanges` | the net changes of an audit and its gaps | `services/guardian.py` |
| `ConfigurationDiff` | the diff, its patch, and the atoms made of it | `snapshots/diffing.py`, `guardian/change.py` |
| `DeploymentPairing` | whether a device applied the audit's change | `guardian/deployment.py` |
| `GuardianVerdict` | an attempt, from its plans to its verdict | `services/guardian.py`, `guardian/ledger.py`, `guardian/composition.py` |
| `RulePlans` | what Guardian's rules take on of a change | `guardian/plugins/*.py` |
| `SwitchPort` | what the port rule concludes of a link and of PoE | `guardian/plugins/switch_port.py` |
| `WlanRules` | what the two WLAN rules conclude of clients | `guardian/plugins/wlan_removal.py`, `guardian/plugins/wlan_auth.py` |
| `GuardianAgent` | what an attempt reads, and the agent's conversation | `guardian/agent.py`, `guardian/reader.py`, `guardian/evidence.py`, `guardian/payloads.py` |
| `Accounts` | accounts and the last administrator | `users.py` |
| `SignIn` | second factors and browser sessions of one account | `mfa.py`, `sessions.py`, `reauthentication.py`, `account.py` |
| `Throttle` | counted attempts in several scopes | `throttling.py` |
| `Organizations` | the stored service token and what Mist said of it | `organizations.py`, `service_credentials.py` |
| `ProviderSettings` | the AI provider and what a test of it proved | `application_configuration.py` |
| `Notifications` | the feed and who has read it | `notifications.py` |
| `MCParts`, `MCServices`, `MCDecisions`, `MCLiveness`, other `MC...` | instances for TLC | |
| `RestoreSafetyProofs`, `RestorePlannerProofs`, `RestoreServiceProofs`, `VersionHistoryProofs`, `ChangeProjectionProofs`, `GuardianInvestigationProofs`, `ServiceProofs`, `DecisionProofs` | theorems (section 4) | |

**Parts in turn.** Most modules share no state with each other in a way their
properties see, so three runs check them side by side. `MCParts` declares a
variable `part` and fourteen more; `MCServices`, `MCDecisions` and `MCLiveness`
instantiate each module with the first few of those, the initial state chooses
a part, and only that part moves. The reachable states are the disjoint union of
what the parts reach alone, and a property of a part is its module's, under
`part = "..."`.

**RestoreRun.** `status`, `acts`, `cred`, `started` are fields of the operation;
`silence` is the time since its `updated_at`; `judged` is the janitor's read of
it, which any later write of `updated_at` invalidates; `snap` is the stored
safety snapshot; `lease` is the organization's lease; `checked`, `call`, `sent`
are requests between their check, their reservation and their publication;
`run[w]` holds a worker's place in `execute`, its copy of the actions, the status
it last wrote (`_persist` compares with it), and its heartbeat; `writes` is
history, how often Mist applied each action. `Persist` stands for `_persist` and
has its three ends: written, refused because the operation moved, and a storage
error, which may have taken effect. `MistWrite` has the four ends a Mist call
can have. `Tick` moves time: it ages silent operations and the lease, and is
held back only while a worker inside its action loop is at `MaxStall`.

**RestorePlanner.** `mist` is what the organization holds, `versions` its history
in the order recorded, `snapshot` the first backup's `completed_at`. A history is
grown by a backup, edits, deletions, creations (audited at once or late) and
restores under a new id. `Request` then fixes versions and a mode, and the rest
is the walk of `create_plan` over its `PlanningContext` (`sel`, `force`,
`rewrites`, `instants`, and `pending`, its queue): `_expand_dependencies` takes
one object of the queue at a time, `_spare_referenced_objects` one round,
`_mark_selected_reference_rewrites` and `Build` are one step each,
`order_restore_actions` one layer, and `Write` applies the action that is `Due`,
with the ids the run has made so far. What is in a site is matched to it by ids,
as the code does: a version keeps the id its site had (`home`, `site_mist_id`), which
is written with the object alone, so a site that comes back under a new id leaves
behind what was deleted before. Such an action finds no dependency on its site and
is `Refused` where the site is not (`Homed`, `remap_target`). `pc` is the place in
that walk. The
properties compare `after`, what Mist holds as the plan runs, with `mist` and the
instant chosen. **RestorePoint** keeps the same documents as
the search reads them and has the search twice, as the code has. **RestoreApproval**
has `plan`, the approval documents `doc`, and each request's copy; decisions are
conditional, other writes whole. **MistWrites** is one request, its attempts and
what Mist did. **RestoreVerification** walks the run's steps, object by object,
while others edit Mist, record versions, take the snapshot slot and open and end
sessions (`Meanwhile`).
**CompensationPlanning** has the restore's `writes`, the `live` objects, the
`plans` made to reverse it and one `run` at a time, which may stop anywhere.

**VersionHistory.** `mist` and `audits` are external. `versions`, `logical` and
`incarnation` are the three documents; `todo` the receipts not yet processed.
A capture goes Fetch, Load, ReadLatest, Insert, Save; a tombstone FindDeleted,
ReadLatest, Insert, EndIncarnation, Save; a restore RestoreWrite, ReadBack and
then a capture's steps; a baseline BeginBaseline, FetchBaseline, Insert, Save.
`Insert` fails when the number is taken, as the unique index does.
**SnapshotSlot** has the `manifest`s, the tasks in `messages` and each worker's
`crawl`; a manifest that grew old is released by the next one to open.

**WebhookReceipts.** `receipt` is the stored document, `handing` what the API and
the sweep are about to send, `queue` the broker, `work` each worker's whole copy.
**ChangeProjection.** A rebuild reads the group, the versions, the sessions,
each in its own step, and `Store` is the conditional write over
`projection_revision`; `Contend` is its failure. `Take` starts a delivery,
`StartPoll` a poll, `StartBackfill` the backfill; `Crash` loses a worker of
`Mortal`. **ChangePicture** takes a rebuild as one step and keeps what it
computes: `group` is the stored picture, and the list's filter, the row and the
page are operators over `group` and `session`. **MonitoringSession** has the
stored `sessions`, each handler's copy in `work` and the poll's in `poll`;
**DeviceFollowups** and **MonitoringReplay** have one session's evidence, and the
operators that judge it.

**GuardianInvestigation.** `root` is the investigation document without its
times; `lease` and `check` are what is left until `claim.lease_until` and
`next_check_at`, `clock` the time since `changed_at`, all in units of
`RECHECK_DELAY`; `runs` holds the run documents by token. `job[w]` is what a
tick carries from one database call to the next: the fence it holds, the kind it
chose, what its last read found. `Poll` is the query of `poll_due` and the choice
`tick` makes from the copy it returned; the attempt goes TakeLease, Revalidate,
CommitApplies (or CommitMatchesNothing, CommitUnanswered and Resolve), InsertRun,
Finalize, Publish; recovery goes FindExpired, ReadRun, Abandon, ReadRun, Publish.
A commit without an answer may sit in `late` and be applied at any later time.
Every guard on `clock`, `lease` or `check` in a write is the server's; a worker's
own clock is off by up to `Skew` and appears in `Poll` and `Evaluate` alone. What
an attempt does between its commit and its finalization is **GuardianVerdict**
(phases in order, each of which may raise, over plans and outcomes chosen
freely, whose `ledger` is a set of plug-ins' obligations), **AuditChanges** and **ConfigurationDiff** (what it starts from),
**DeploymentPairing** and **MonitoringReplay** (its evidence) and
**GuardianAgent** (the conversation, with its `items` of evidence and `cache`).
What a plug-in does between is in three more: **RulePlans** has its plan, a
function of what was `changed` and which `devices` are known; **SwitchPort** and
**WlanRules** have its reads and its judgement, operators over what happened
(`history`, by the half second) as Mist would show it (by the second, a page at a
time, around `change`), so that a property can compare the two.

**Accounts, SignIn, Throttle, Organizations, ProviderSettings, Notifications**
keep the stored documents and, in `request`, what each request read; each write
names the fields the code's update names and has its condition.

## 3. What the runs check

| Run | Question | Bounds |
|---|---|---|
| `serial` | Can two restores of one organization interleave, can an action reach Mist twice, does a credential stay on a closed operation? Refines `SerialRestores`. | two restores, two workers, one deferred action, TTL 2, stall 1 |
| `reversal` | Is every applied write recorded and compensable, is success complete, is a restore compensated only by a finished plan, does a closed one stay closed? | a restore of two actions, one under a recreated site; its compensation; broker errors |
| `stalled` | Violated: a closed operation is written to Mist when a worker stalls for the lease's length. | stall 2 = TTL |
| `projection_rebuild` | No picture goes back, no merge is lost, the last picture is complete although rebuilds give up. | two webhook workers, one of which may be lost, a poll and the backfill, three attempts |
| `projection_lost_poll` | Violated: a poll's worker lost before its rebuild leaves the picture incomplete. | one death |
| `guardian_claims` | Do overlapping ticks keep attempts numbered and one at a time, is a run that succeeded ever lost, does the result stay the latest, does every root end? Refines `InvestigationRecord`. | two workers, one of them lost or one commit unanswered, clocks off by one, two attempts per kind |
| `history_overlap` | Violated: with two workers a stale capture follows a deletion. | two workers, no deaths |
| `history_half_recorded` | Violated: a death between insert and save leaves the summary behind for good. | one worker |
| `services` | The parts that race on what they store, and the restore plans and points read from it (below). | below |
| `decisions` | The parts that decide from evidence (below). | below |
| `liveness` | Do restores, receipts, sessions and snapshots get somewhere, whoever is lost? | a restore and its compensation on one worker; one receipt; one device; two snapshots |
| `accounts_mixed` | Violated: an invitation to an administrator, revoked while it is accepted, leaves none. | three accounts, two requests |

The properties of the last three passing runs are grouped by theme; each conjunct
is a property of one module and is stated there.

| Property of `services` | Conjuncts | Parts |
|---|---|---|
| `TypeOK` | the type invariant of each part | all that have one |
| `EventsTakeEffect` | `ProcessedIsRecorded`; `PollsEraseNothing`, `FailedForAReason`, `ResolvedByALaterEvent`; `HarmIsAnnounced`; `ReopensTheNewest`; `UnreadIsExact` | receipts (one receipt, two workers, two attempts, one loss); racing, reporting (one device: two handlers and a poll over two events, or one handler over five kinds of event in any order); retries (a webhook worker lost twice); verifying; notified (two members, three notifications) |
| `HistoryIsTrue` | `InitialIsComplete`; `SettledIsCurrent`, `DeletionIsSummarized` | snapshots (two snapshots, two workers, one loss); history (one writer that may die, three changes) |
| `JournalSpec` | the refinement of `VersionJournal` | writers (two writers of any kind, two changes) |
| `TwoPersons` | | deciding, preparing, carrying (two administrators, two requests, at most two preparations) |
| `CompensationsAreFaithful` | `HandEditsSurvive`, `RecreatedOnce`, `NothingIsLeft`, `NoMaskIsWritten`, `OneCompensationAtATime` | compensating (five failed restores of two writes, three plans, one edit, two stops) |
| `WritesAreKnown` | `CreatedOnce`, `TheAnswerIsTrue`; `VerifiedIsTrue`, `FailureIsReal` | writing (four attempts, the code's own number); verifying (three restores, one edit or record meanwhile) |
| `AccountsAreHeld` | `AnAdministratorRemains`, `ActiveChosePassword` | roles (three requests, two administrators); invited (an administrator invites an operator) |
| `SignInsHappenOnce` | `SharedCountIsExact`; `OneSignInPerChallenge`, `CodesWorkOnce`, `OneConfirmationAtATime`, `RevokedStaysRevoked` | attempts (three attempts, two scopes); factors, signing (two requests, one challenge, one or two sessions) |
| `SettingsAreTrue` | `ProvedModeIsHonored`, `RotationSurvives`; `StatusIsOfTheStoredToken`, `ReplacementSurvives` | provider (two endpoints, two requests); tokens (three tokens, two requests) |
| `PlansAreSafe` | `SearchesAgree`, `EndpointsAgree`; `NoDanglingReference`, `NonDestructive`, `ExactIsTheInstant`, `NothingInTheWay` | points (three objects, three versions, names that differ by case, a page of two); restored, ordered, renamed, sited (two or three objects, two or three events: one refers to another, with either applied first; two of one name; a site and what is in it) |
| `PastIsSettled` | | points |

| Property of `decisions` | Conjuncts | Parts |
|---|---|---|
| `ChangesAreTold` | `NothingUnsaid`, `EveryChangeIsAnAtom`, `PatchReproduces`; `NetIsWhole`, `NothingElided` | diff (nineteen shapes of a value: leaves, maps, lists with and without identity, secrets with and without fingerprints); audited (two audits, two objects, four versions, a cap of three) |
| `ImpactIsEarned` | `SettledIsTrue`, `WarnedForItsOwn`; `HarmOutlivesSilence`, `WellIsCleared`; `Parity`, `ReplayIsRecorded`, `ZeroRaisesNoAlarm`; `LossIsTrue`, `RecoveryIsTrue`, `PowerLossIsTrue`, `NeighbourIsTrue`; `DeparturesAreTrue`, `AffectedAreTrue`, `QuietIsTrue` | pairing (four half seconds, one receipt without a time); followed (three captures, each of which may lack a source, a row or a field); replayed (seven samples, one observation, incident and follow-up); ported (six half seconds of one port, a page of four rows, three access points listed two at a time); joined, tried (two clients for five half seconds, one for eight, pages of two and three rows) |
| `PicturesAgree` | `DisplayedIsRebuilt`, `FilterIsTheRow`, `RecoveredIsUp` | filtered (rows an audit may leave out, old sessions); shared (two devices that show their site's levels); competing (two audits in time) |
| `InvestigationsAreGrounded` | `EvidenceStaysInside`, `ReadOnce`, `NewestIsShown`, `ReportRestsOnHealth`; `NeverRefused`, `CompleteIsCovered`, `HarmIsCounted`; `DnsIsWhole`, `RulesTellTheRest` | reading (five turns, three calls); judging (two plug-ins, five audits, of three devices in the first, a list with room for three short rows where one is long); ruled (a switch, three WLANs and a site's settings, ten paths, four devices) |

Why the bounds are enough. A conflict over the lease needs two operations and
two workers; a third adds no new pair. `TTL = 2` with `MaxStall = 1` is the
smallest clock in which a beat can be late but not too late, and `MaxStall = TTL`
the smallest in which it is too late. Two actions distinguish the first, the
last, and an action deferred behind another; with one action a plan's order
cannot matter, which is why `serial` uses one and `reversal` two. A history needs
three changes for delete after update after create, and two writers for a number
to be taken; `RecordAttempts = 2` (3 in the code) is the smallest that retries
and gives up. A rebuild gives up after three lost writes, the code's own number,
and two webhook workers, a poll and the backfill are enough other writers to
make it lose three. An investigation needs two workers, for a recovery to race
the worker it recovers from, and `Lease = 1` with steps of any length, for that
worker to outlive its lease; the cut-off, the minimum and the forced time are two,
two and three rechecks, which leaves one recheck in each phase and lets a final
attempt fail and be retried. An early attempt is tried once: the retry of both
kinds is the same code. `MaxFaults = 1` allows one lost worker or one unanswered
commit; a stalled worker costs no fault.

In `services`, a race is between two copies of one document, so two requests or
workers are enough, and three where an undo races the guard of a third (roles)
or a refusal gives back what two others share (attempts). A receipt needs two
attempts for the last one to differ from another. An approval needs two terms to
be reopened, and a preparation that changes what was reviewed besides one that
does not. A compensation is planned three times: at first, after a stop, after a
second stop. For plans and points, and in `decisions`, each part enumerates evidence up to where another
item adds a case the operators do not tell apart: an order of three objects, a
list cap and a version cap below what is produced, a page shorter than what it
pages, and half seconds where receipts have seconds.

`MaxChanges`, `MaxDeaths`, `MaxLosses`, `MaxFaults`, `Attempts` and
`RecordAttempts`, and the constants named `Max...` of each module, are the named
bounds; `writes` counts to two ("again") and `silence` to `TTL`, which is all any
guard tells apart.

Deadlock is not checked: every component may come to rest (all plans closed,
all receipts processed, a verdict given).

**Fairness** is stated in `guardian_claims` and, part by part, in `liveness`.

- *Restores*: time passes; the janitor and the expiry job run every 60 seconds
  (`worker.py`); every HTTP and database call of a run has a timeout, so a worker
  that does not die takes its next step, and the asyncio lock that `_persist` and
  the heartbeat share is first come, first served, hence strong fairness for a
  worker's main line. Nothing makes a request, the broker, a background beat or
  any single write succeed. `FindSilent` and `Interrupt` are weakly fair: a worker
  that keeps beating keeps them disabled, so `RunningEnds` also says that no run
  can beat for ever.
- *Receipts*: the sweep runs from beat, a receipt's retry falls due (`Rest`), a
  worker that is not lost takes its steps, a message in the queue is read, and a
  sender that tries again and again sends at last (strong fairness of `Sent`; the
  broker may refuse it any number of times before).
- *Sessions*: a handler finishes its event, a poll what it claimed, and time
  passes, so sessions come due, time out and reach the end of their window. A
  lost poll is followed by another, since beat starts them.
- *Snapshots*: a worker takes a message, starts and ends its crawl, a request
  sends or fails to, and an abandoned manifest grows old. Nothing makes a new
  snapshot start: the property is that one may.
- *Guardian*: time passes; a tick runs every minute, so some worker takes steps,
  though any one of them may hang for ever; and now and then one gets from its
  lease over the revalidation to its commit within the five minutes of the lease.
  Without that last assumption leases could lapse unused for ever.

## 4. What is proved

Eight modules hold the theorems, beside the components they are about. A theorem
holds for any sets of operations, workers, requests, receipts, objects, captures or
configurations, any plan, timeout and number of attempts. It assumes the named
assumptions of its module (`OpsAssumption`, `PlanAssumption`, `TimeAssumption`,
`ProjectionAssumption`, `InvestigationAssumption`) and what its own ASSUME or
antecedent says. Where that is a named definition (`ObjectsAssumption`,
`BandsAssumption`, ...) it stands in the module the theorem is about, and
`MCServices` and `MCDecisions` assume it of each of their instances, so TLC finds
the instances it checks to be among those the theorem speaks of.

| Module | Theorem (property) | Assumes besides |
|---|---|---|
| `RestoreSafetyProofs` | `TypeCorrect` (`TypeOK`), `ActionsReachMistOnce` (`WrittenOnce`), `ClosedKeepsNoCredential` (`NoCredentialAtRest`), `ClosedNeverReopens` (`ClosedStaysClosed`) | |
| | `WritesAreRecorded` (`AppliedIsRecorded`), `WritesAreReversible` (`AppliedIsReversible`), `SuccessMeansDone` (`SuccessIsComplete`), `CompensationsAreFinished` (`CompensatedByAPlan`) | |
| | `WritersAreExclusive` (`ExclusiveWriter`), `WritesAreGuarded` (`GuardedWrites`), `ClosedStaysOffMist`, `RestoresAreSerial` (`SerialSpec`) | `MaxStall < TTL` |
| `RestorePlannerProofs` | `TheWayIsClear` (`NothingInTheWay`), `OnlyTheAskedIsDeleted` (`NonDestructive`), `NothingDangles` (`NoDanglingReference`), `TheInstantIsBack` (`ExactIsTheInstant`) | finitely many objects; only a site contains others, and no site a site |
| `RestoreServiceProofs` | `ApprovalsAreBound` (`TypeOK`), `TwoPersonsDecide` (`TwoPersons`) | `"none"` is no administrator |
| | `CompensationsAreSafe` (`TypeOK`, `NoMaskIsWritten`, `RecreatedOnce`, `NothingIsLeft`), `HandEditsSurviveReversals` (`HandEditsSurvive`) | a restore is a sequence of writes |
| | `OneCompensationAwaits` (`OneCompensationAtATime`) | the same; one planner |
| | `VerdictsAreTrue` (`VerifiedIsTrue`, `FailureIsReal`, `ReopensTheNewest`) | one action of an object and no mask written; an active session is its device's newest |
| `VersionHistoryProofs` | `HistoryTypeCorrect` (`TypeOK`), `HistoryIsAJournal` (`JournalSpec`) | at least one attempt |
| | `HistoryFollowsMist` (`SettledIsCurrent`), `DeletionsReachTheSummary` (`DeletionIsSummarized`) | one writer at a time; `Absent` is no configuration |
| `ChangeProjectionProofs` | `TypeCorrect` (`TypeOK`), `PictureNeverGoesBack` (`PictureAdvances`), `MergesAreNeverLost` (`MergesAreKept`) | |
| | `PictureIsWhole` (`PictureIsComplete`) | three attempts or more; only a webhook worker is lost, and one at most |
| | `HarmIsTold` (`HarmIsAnnounced`) | three attempts or more; one poller, not lost; one webhook worker, or none is lost |
| `GuardianInvestigationProofs` | `TypeCorrect` (`TypeOK`), `SuccessIsNotLost` (`SucceededIsPublished`), `ResultPublished` (`ResultIsLatest`), `ExhaustionIsEarned` (`ExhaustedAfterLast`), `TerminalRunsAreFinal` (`TerminalRunsStay`), `RecordIsKept` (`RecordSpec`) | |
| `ServiceProofs` | `SessionsEndForAReason` (`TypeOK`, `FailedForAReason`, `ResolvedByALaterEvent`), `PollsEraseNothing` | times of events are integers |
| | `ProcessedReceiptsTookEffect` (`TypeOK`, `ProcessedIsRecorded`) | the bound on losses is a number |
| | `AnswersAreTrue` (`TypeOK`, `CreatedOnce`, `TheAnswerIsTrue`) | at least one attempt |
| | `TokenIsTheOneSaved` (`StatusIsOfTheStoredToken`, `ReplacementSurvives`), `SettingsSurviveTests` (`ProvedModeIsHonored`, `RotationSurvives`) | |
| | `OneSnapshotAtATime` (`TypeOK`, `InitialIsComplete`) | |
| | `FactorsWorkOnce` (`OneSignInPerChallenge`, `CodesWorkOnce`, `OneConfirmationAtATime`, `RevokedStaysRevoked`) | the bounds on steps and secrets are numbers |
| | `SharedCountsAreExact` (`TypeOK`, `SharedCountIsExact`) | two scopes, finitely many requests |
| | `UnreadCountsAreExact` (`UnreadIsExact`) | |
| | `ActiveAccountsAreOwned` (`ActiveChosePassword`) | |
| | `AdministratorsRemain` (`AnAdministratorRemains`) | a founder; and no deactivations, or no role changes and no invited administrators |
| `DecisionProofs` | `HarmStaysReported` (`HarmOutlivesSilence`), `RecoveryClears` (`WellIsCleared`) | for the second: a capture has one row of a thing |
| | `SettledStatesAreTrue` (`SettledIsTrue`), `WarningsAreOwn` (`WarnedForItsOwn`) | the audit is one of the audits; the kinds of outcome are not the words for no outcome |
| | `LossesAreTrue`, `RecoveriesAreTrue`, `PowerLossesAreTrue`, `NeighboursAreTrue` (`LossIsTrue`, ...) | caps, windows and ticks are numbers |
| | `DeparturesAreTrue`, `AffectedAreTrue`, `QuietIsTrue` | finitely many clients |
| | `DnsIsWhole`; `RulesTellTheRest` | for the second: finitely many objects |
| | `EvidenceStaysInside`, `ReadOnce`, `ReportRestsOnHealth`; `NewestIsShown` | calls and reports have their fields; for the last: the plug-ins' reads leave room in the prompt (`RoomAssumption`) |
| | `Parity`, `ReplayIsRecorded`, `ZeroRaisesNoAlarm` | severities are four, values and deltas integers |
| | `NeverRefused`, `HarmIsCounted`; `CompleteIsCovered` | what a phase answers satisfies its own contract; for the second: devices are told apart, each is at one site, and counts alone fit the list; for the last: the core owns no plan |
| | `DisplayedIsRebuilt`, `FilterIsTheRow`, `RecoveredIsUp` | old sessions and readings are such as monitoring stores |
| | `ChangesAreWhole` (`NetIsWhole`), `ElisionsAreTold` (`NothingElided`) | finitely many objects |
| | `ViewsOfThePastAgree` (`EndpointsAgree`), `ThePastIsSettled` (`PastIsSettled`), `TheSearchesAgree` (`SearchesAgree`) | finitely many objects; ids and names have ranks; no Mist id is "none" |

Every safety property that a run checks of a module is thereby proved under the
hypotheses of the table, but for the three of `ConfigurationDiff` (section 5).
A run of parts (`services`, `decisions`) states it of its module's instance under
`part = "..."`; the theorem states it of the module itself.
Each proof has one lemma per action
or group of actions, under it one step per part of the invariant the action can
disturb, and a last step that puts them together.

*The restore argument.* `WrittenOnce` is not inductive: nothing in it says that
a second worker has not claimed the same operation, or that a worker about to
write has not written already. The invariant is
`Inv == TypeInv /\ LocalsOK /\ ClaimsOK /\ PlansOK /\ NoCredentialAtRest /\ WritesOK`.
`LocalsOK` ties a worker's place in `execute` to its locals, above all to the
status it last wrote. `ClaimsOK` says a claimed operation has left the statuses
it could be claimed from and has one claimer: a claim is a conditional write
from `queued`, and nothing turns `running` back into `queued`. `WritesOK` says
that an operation nobody started has no writes and that the actions ahead of a
claimed run (`Ahead`) have none: the run's index only grows. `PlansOK` carries
that a compensation exists only for a compensable restore, which `Announce`
needs to change the status of an operation it does not own. `MovesOK`, proved of
each action, bounds what a step may do to the statuses; `ClosedStaysClosed`
follows from it. No timing is used: these three hold however long a worker
stalls, the schedule of run `stalled` included.

*The record argument.* What a closed operation says was done is compared with
what Mist was made to do, by writers that each save a whole copy.
The proof adds to `Inv` what the stored outcomes say of the writes,
what a worker's copy says that is not stored yet, and what each way to close a
run concludes from them: an action that was applied reads applied, or its
outcome is ambiguous, before the next one starts, and the janitor takes the
snapshot's outcomes as they are. Success needs the
whole plan behind the run, and a restore reads compensated only by the
announcement of a finished reversal. Again no timing is used.

*The lease argument.* That one worker at a time writes is false without timing:
a worker that stalls longer than the lease's term writes beside its successor,
and run `stalled` shows it. With `MaxStall < TTL` (a worker with writes ahead
beats at least once within the term) `LeaseInv` says of a worker in its loop that
since its last beat nobody could take its run or its lease (`Secure`): its run is
open and not judged silent, the run's silence and what has run of the lease's term
are bounded by the age of that beat. `Kept` is what every step owes an operation
whose worker does not take it. A beat is two writes, the run's and the lease's,
so `WritingOK` carries the bound across the half-beat. `RestoresAreSerial`
maps the tenure of `SerialRestores` to the worker inside its loop.
The code beats every minute of a term of fifteen (`_HEARTBEAT_INTERVAL_SECONDS`,
`_LEASE_TTL`); the hypothesis is that a worker that still writes is never held up
for the whole term.

*The approval argument.* Every request works on a copy it read earlier and most
save it whole, so the invariant must hold of copies as well as of documents:
`Sound` says of an approval, stored or in hand, that a second person decided it
and that while it is open it is bound to the changes of its plan. `Save` may put
back any sound copy; `Decide` and `Expire` write in place; a decision stays
sound because its condition names the requester stored at that moment and not
the one read. A
request that executes holds an approval of that very plan.

*The history argument.* `JobsOK` says what a writer knows when it is about to
insert: a capture differs from the version it read, a deletion was not recorded
there. The unique index makes the version it read the newest one if its insert
succeeds, so the step is one of `VersionJournal`. That holds for any number of
writers. That the history also follows Mist holds of one writer at a time only:
`HistoryOK` says that a history behind Mist, or a summary that misses a deletion,
is `Owed` a receipt that will tell, and `LookOK` that what the writer
saw is what Mist holds or another receipt than its own is owed. A second
writer breaks `LookOK`, since the receipt that is owed may be processed by another
before the first inserts what it saw: run `history_overlap`.

*The projection argument.* A worker that read the group holds a receipts set, and
from its reads of the collections a set of facts. As long as the revision is the
one it read, the stored picture and receipts are those it read, because every
write of either raises the revision; what it then read of the collections
contains the picture, because facts are only added. So its conditional write
replaces a picture by a superset and keeps every merge.

*Why the last picture is whole.* A rebuild that finds the revision moved gives up
after `Attempts` tries, so the argument must name, for each fact not shown, who
will show it. A fact that is `Missing` from the picture has a worker that will
show it and cannot run out of tries (`Safe`), or one that still has to record it:
whoever moved the revision under a rebuild did so with a merge, after which it
reads everything itself, or with a store of what it read later. A store
under another's rebuild costs it one try; a second store in its way comes from a
rebuild that began after the fact was on record, and shows it. A worker lost
between its merge and its store costs a try and shows nothing: one such loss is
affordable with three attempts, two are not: with a bound of two on the workers
lost TLC finds `PictureIsComplete` violated, by a receipt whose merge is lost twice
under one rebuild. A lost poll is never repeated (run `projection_lost_poll`), hence
`Mortal \subseteq Receivers`.

*Why harm is announced.* A rebuild announces what it stored; so once a version and
harm are on record and nothing has been announced, some job must still be bound
to see both and store them (`Tells`), or a receipt waits for the only webhook
worker to start over (`Requeued`). Such a job loses a try to every write of the
group under it. A write that saw the harm will announce it itself, and a merge is
by a job that has everything before it, so only two writes are `SilentWrites`: one
whose reads are from before the harm was on record, and one of the backfill, whose
projector has no notification service. There is one of the first at most, since
it moves the revision past all the others, and one of the second, since the
backfill is not started again once a projection is stored: with three attempts
one is left. Every action keeps the tries that are left above the silent writes
that are. The hypotheses are needed: two webhook workers of which one is lost, or
two pollers that both run the backfill beside two webhook workers, leave harm
unannounced (section 5).

*The Guardian's argument.* Here even type correctness needs the whole invariant:
that a tick quotes a real attempt depends on every final attempt having failed.
`Inv` has, besides the types and `ResultIsLatest`: `ClaimOK`, when a root may
hold a claim and how it may have ended; `RunsOK`, that a run still going, or
succeeded and not published, is the one the root's committed claim holds
(`Open`); `AttemptsOK`, that each number consumed is the claimed one or has a
run that ended; and `JobsOK`, what each place in a tick says of the token, kind
and attempt the worker carries: a worker about to insert a run either holds the
committed claim or will find the token resolved already, and one about to
publish carries what the run records. The claim's phase (`attempt` 0 before the
commit) carries the argument: an uncommitted claim excludes any run in flight,
so it may be dropped, and a committed one is dropped only with its run's end on
record, so no number is lost. `RootKept` is what a step that writes the root
must keep, `RunStep` is the case of a step that writes one run. Nothing about
time is used but that a fenced write compares token and phase. The refinement of
`InvestigationRecord` needs two facts more, that a number is the run of one token
and a committed claim has the last number of its kind (`NumbersOK`), and that a
tick that recovers an attempt finds it open until its run has ended (`ReadersOK`);
each step is then one of the record's or changes nothing a reader sees (`Change`).

*The services' arguments.* `ServiceProofs` has a section for each module, with the
module's instance and an invariant of the same kind: every request works on a
copy it read, so what must hold of a document must hold of every copy that may be
saved over it, or the save must be shown to be conditional on what it reads.
For a session (`SessionsInv`) any copy accounts for its own state, and a poll's
copy whose token is still stored differs from the session in its next poll alone;
the token is why a poll erases nothing. A worker
saves a receipt as processed only after its effects are stored, and nothing
unstores them. A write may have been applied only if an attempt was made and its end was
in doubt. A verdict on a token, and a proof of a provider, are of the token and
provider in the request's hands, and are stored only if these are the ones in
the document. A crawl
writes its own manifest only, which no other worker and no message is for, so one
that outlives the release of its manifest disturbs no other. A code that may still
be accepted has not been: accepting one is a conditional write on the stored
account, and secrets are numbered, so that no new set brings a code back. A
count shared by attempts is the number of places that hold it, plus the failures:
this one is a statement about cardinalities, over a finite set of requests. For
the accounts, a removal that left nobody is still to be put back by its own
request (`PutsBackRole`, `PutsBackActive`), and it can be put back: the last of
the racing requests to land finds nobody and undoes. The hypothesis of
`AdministratorsRemain` excludes what the code gets wrong: revoking an invitation
deactivates without guard or recount, and when the invitee was made administrator
and accepts first, run `accounts_mixed` finds nobody left.

*The compensations.* `NothingIsLeft` speaks of the end, so `ReversingInv` carries
it from the start: every plan, and every list a request is about to insert, names
each write once and every write not yet undone (`Complete`), and what was undone
stays so (`UndoneStays`). That a request's list is complete rests on the order of
`_reverse`, a falling enumeration of a finite set: one exists (`FallingOrder`, by a
smallest set without one, as no induction over sets can be cited) and names every
member (`FallingIsOnto`). `RunOK` is the run's place in its plan: what is behind is
completed or skipped, what is ahead pending, and an object ahead that was absent
when the run began has not been recreated, because `capture_safety_snapshot`
refused the name for all of them before the first write; this is `RecreatedOnce`. A plan whose
payload holds a mask is never queued, hence `NoMaskIsWritten`. For one compensation
at a time, `OneActivePlan` adds that a request on its way to record a plan found no
active one; with two planners that is false, and so is the property (section 8).

*The verdict.* What `verify` read was true when it read it, so `ReadsOK` says of each
action behind the walk that Mist holds what it wrote, that it is reported, or that
its place was edited since; and `SearchOK` of each object that names a replaced id,
that it was found, or recorded after the search began. `ComparisonIsTrue` is what
both need: the comparison, which passes over masks, added fields and ignored ones,
says just whether Mist holds what was written. It needs that no mask was written
(the preflight refuses one), and the verdict that a plan has one action of an object
(`restore_planner.py:850` builds one for each): a second would make the first read as
lost. While sessions are reopened from a list read before, `SessionsOK` says that of
the closed ones any newer than what is still to be saved has been saved, or its
device has an active session; the falling order of the list keeps that true.

*The plan's argument.* `PlannerInv` has four parts. `History`: the newest version of
an object is what Mist holds (`Reflected`), a reference is to a recorded incarnation
or to what is not audited yet (`Referring`), and the first backup comes first with
one version of an object (`BackedUp`). `PlanInv`: each selected object is at a
version of its own, requested, repointed, or that of its instant (`Selected`);
whatever a selected object names is selected, came since its instant, or was absent
at one (`Expanded`, the closure the queue leaves when it is empty); nothing kept
names what is deleted for being absent (`Sparing`); and the actions are those of the
selection (`Built`). `OrderInv`: a delete is among what its successor waits for
(`Needed`, of the site ids recorded), and an action has a lower rank than what waits
for it, in the layers and as they are written (`Placement`). `TheWayIsClear` is about
where things are, so it also needs `Housed`: what is live was last recorded at the id
its site has (`SiteIs`), and no version at a later one. A stale site id is then never
that of what stands in the way, and what has one is not written: the run's map knows
current ids alone (`HomedIs`). `OnlyTheAskedIsDeleted`
needs only that a non-destructive walk forces nothing and reaches no deletion of
something live (`Gentle`). For `NothingDangles`, `Run` says that what is written has
the references of its version with each id `Resolved`: `payload_id_map` composes the
plan's remapping with the ids made so far, and what it needs of the order is that a
recreated object is written before all that names it. `Good` then says of each
reference which clause of the property it meets, by what became of the object named.
For `TheInstantIsBack`, `WholeInv` follows one exact request for the organization's
data: when the requested version has been taken off the queue every known object is
selected at its version of the instant (`Brought`), which no later step of the
expansion changes, and one spared was named by what stays (`MustStay`). That the
history had the same versions by the version requested as at its instant is
`HadIs`: a snapshot's versions come before all others.

*The decisions' arguments.* `DecisionProofs` has a section for each module, with its
instance. Most of these properties relate the result of a computation to the
evidence, so the invariant is little (what the evidence looks like) and the proof is
in lemmas about the operators. A computation over a sequence is argued by the
position of an element and not by induction: a least or greatest index
(`LeastOf`, `GreatestOf`), a cardinality, or a set of the sequence's entries.
*Follow-ups*: a finding stands for a thing harmed, each
round keeps what its source did not answer, and what the last capture shows well is
dropped, so harm stands until that very thing is well. *Pairing*: the invariant says
what the events in sight are and who triggered them; whole seconds are `div`, and the
anchor's second separates what `surely_between` may tell apart. *Ports, WLANs*: a page
is complete or says that it is not; over a complete one the last row before the
second of the change and the last of the window are states of the port or client at
those ends, since histories alternate and rows of one second settle nothing.
*Rules*: sets of claims and gaps partition what is handled. *Agent*: what is kept is
of the site asked for, the cache holds what succeeded, and what the plug-ins may read
is less than the room, so what is read last is among what is shown. *Replay*: the
severity of a metric is monotone in its delta, and the replayed peak is at most what
was recorded at each sample. *Verdict*: bands are ordered and `compose` takes the worst
of consistent ones (`VerdictInv`); a row left out finds no room beside the rows kept
before it (`Packed`), all of them no less harmed, and the rows left out number the
devices left out; `LedgerInv` ties every obligation to the plug-in
and change it was asked for. *Picture*: of a settled group, the stored picture is the
rebuild of the present sessions. *Audits*: versions of one object are numbered
without gaps (`Precedes`, `Place`), so what was left by one is what the next began
from, and a change that no row carries lies between two that do. *Points*: `_version_at`
of an instant is over versions that later ones do not touch; the aggregation and the
search in memory give the same set of rows, whose order is by keys that tell rows
apart.

## 5. Only model-checked

- Liveness (`RunningEnds`, `QueuedEnds`, `RootEnds` and the properties of run
  `liveness`): fairness and ENABLED are not in the prover's reach.
- `HarmIsAnnounced` beyond the hypotheses of `HarmIsTold`, where it fails. With two
  webhook workers and a death: two workers process one receipt, one gives up its
  rebuild and marks the receipt processed (`webhook_processing.py:164`), the other
  stores the critical picture and dies before it announces it. With two webhook
  workers and two pollers, none lost: a stale write and two backfills use up the
  three attempts of the one job that would have told. TLC finds these after eleven
  and twenty million states, which is too many to keep as runs; no comment or
  document promises the contrary.
- `ConfigurationDiff`: `NothingUnsaid`, `EveryChangeIsAnAtom` and `PatchReproduces`
  are about functions that recurse over a value's structure and fold over its items;
  that they hold for every value is an induction over data, which the installed
  provers cannot cite. The module declares RECURSIVE operators for it.
- The type invariants of `MCServices` and `MCDecisions` as such: the modules that have
  one prove their own where a theorem above names `TypeOK`.

## 6. Abstractions, and what is not modelled

- RestoreRun: time is relative ticks; a credential's deadline, the plan's
  contents, ids created on the way, the confirmation of a plan by hash, Mist
  login and logout, and notifications are left out. The expiry job may therefore
  fail any planned or queued operation that holds a credential. An interrupted
  run's snapshot is all its non-deferred actions.
- RestorePlanner: an object is brought back by a restore and not recorded anew under
  its new site (`source_key`); preflight messages, secrets and payloads are left out (with them
  `_records_again`, which passes over masks), and names are compared as they are. RestorePoint has Python's and
  the server's folding of case as one rank: they agree on ASCII, and differ beyond
  it (`$toLower` folds ASCII alone).
- RestoreApproval: which plans need an approval is given; the hash of a plan is
  what it changes.
- CompensationPlanning: a configuration is one of a few values (`old`, `new`,
  `masked`, an edit); ids and the remapping of references are left out.
- RestoreVerification: what an object names is a set; of a configuration the
  fields the comparison treats apart are kept. No session reopened is completed while
  others of its list are still being saved; in the code only time keeps it from being.
- VersionHistory: one object, no site children, no references, one incarnation
  (an id that was deleted never comes back). Normalization is equality of
  configurations. How often a failed receipt is retried is not bounded.
- SnapshotSlot: a crawl is one step with its result chosen.
- WebhookReceipts: what a receipt does is one step, `ChangeProjection` has it.
- ChangeProjection: versions and evidence are facts that are only added; that
  severity can recover is not modelled, nor the sessions an excluded change
  drops, nor receipts without an audit id. A worker that is lost begins again
  with the next delivery of its receipt. ChangePicture has recovery and exclusion,
  one rebuild at a time and one metric; a session's failure stands for its device
  findings and its incidents alike.
- MonitoringSession: what was measured is left out. DeviceFollowups has one
  device with one port, peer, WLAN and radio; a restart within a gap of the
  captures shows in neither the code nor the module. MonitoringReplay takes a
  baseline's statistics as given.
- DeploymentPairing: instants are half seconds. AuditChanges and
  ConfigurationDiff: two objects and two attributes, one of them with the values
  named in `MCDecisions`.
- GuardianInvestigation: one root; its creation is the initial state, with the
  webhook that creates it up to `FINAL_FORCED` late. Whether a linked session is
  active may come out either way at any read; a degradation once seen stays. The
  executed attempt is its outcome. An `ObjectId` nothing refers to may be taken
  again. Documents are not deleted by their retention. The batch of twenty roots
  a tick looks at is not modelled.
- GuardianVerdict and GuardianAgent: what the model, the tools and the plug-ins
  answer is chosen from small sets; the wording of a report and the schemas of
  tools are left out. What a list of impacted devices takes is a function of the
  devices listed (not of their bands), and the counts of those left out take the
  same however many bands they are of; `bounded` measures the built list again, and
  drops nothing since its estimate was exact. A device no replay identifies is in
  no row (the code counts it in a gap).
- RulePlans: gaps are the set of their reasons, not cut at eight; which of several
  ports or WLANs is read is any one. SwitchPort and WlanRules: rows carry whole
  seconds and both ends of a window belong to it; a client's row always names the
  client, and a session's row is in every window it was open in. Which serving
  access points a finding lists is left out. What the properties promise, they
  promise to the second: within the second of the change, before and after cannot
  be told apart.
- Accounts, SignIn, Throttle, Organizations, ProviderSettings, Notifications:
  passwords, keys and tokens are numbers, a counting window does not end, and
  paging is left out. `SignIn!CodesWorkOnce` is of sign-ins and step-ups: the code that
  confirms an enrolment claims no step (`mfa.py:390`), and is accepted once more within
  its window (`backend/tests/test_mfa.py:223`).

Not modelled, with reasons in `PROJECT.json`: Guardian's report,
its retention, mail, read models, the HTTP clients,
cryptography, process entry points, passkeys, the frontend and the charts. None
of them keeps state that another part reads and that can be reached in more than
one order, or they are data, wording and wiring.

## 7. Plan

1. `ConfigurationDiff` over values of bounded depth, where a proof by cases replaces the
   induction.
2. Models: several investigation roots and the batch of `poll_due`; the last save
   of a prepared plan; passkeys beside the other factors; the plug-ins
   inside one attempt, where `GuardianVerdict` takes any plan.

## 8. Disagreements found

Each of these is a run that TLC must find violated, and quotes the line it
contradicts (`PROJECT.json`, `findings`): the write of a stalled worker after its
operation was closed; a capture recorded after the deletion it predates; the
summary a half-recorded version leaves behind; the change-group picture a lost
poll leaves incomplete; and the revoked invitation that takes the last
administrator.

Others met while modelling have no run. Where a module states the property the
code does not have, it is named; nothing checks it.

- `services/restore_executor.py:996`: a delete "ends the current incarnation";
  neither the executor nor the audit that follows sets `ended_at`.
- `services/change_groups.py:727`: the assessment of a change whose monitoring
  ended without a lasting drop says it "is still being monitored", where the row
  (`:705`) says "Monitoring completed" (`ChangePicture!AssessmentIsTheRow`).
- `services/change_groups.py:1282`: the competing changes of a past detail are
  "those the viewer could have known about", but one is also found through the
  reach it gained from sessions that began after the instant viewed
  (`ChangePicture!PastIsKnown`).
- `services/restore_compensation.py:617`: "none is planned while one is queued or
  running", and one awaiting review "is returned rather than planned twice", hold
  of requests that follow each other; two at once each plan one. A restore may
  also stay linked to a plan that was retired (`:688`,
  `CompensationPlanning!LinkedIsNotRetired`).
- `services/restore_verification.py:68`: "Name every current object still
  referencing a replaced Mist UUID" misses an object recorded again between the
  query and the read of its newest version. The limit on reopened sessions counts
  sessions, not devices.
- `snapshots/diffing.py:501`: secrets are compared by position, so items without
  an identity that exchanged their secrets as they moved read as only reordered
  (`ConfigurationDiff!ReorderKeepsItems`).
- `services/guardian.py:280`: "an attribute the audit changed and then put back"
  is not told as unseen when the audit did so by deleting the object and creating
  it again (`AuditChanges!RecreationIsSeen`). When an audit created, changed and
  deleted an object, only the attributes recorded in between are named.
- `services/restore_planner.py:589`: "an object several selections reach is judged by
  the latest of them that reaches it", but the queue is breadth-first, so an earlier
  instant that reaches it in fewer steps judges it.
- `services/restore_planner.py:641`: `_spare_referenced_objects` keeps what a version
  in the plan still references; an object outside the plan that references, now, what
  was absent at the instant is not looked at and is left dangling. The last clause of
  `RestorePlanner!NoDanglingReference` excuses it.
- `guardian/plugins/switch_port.py:349`: "contradictory events in one second" are
  any two kinds, so a PoE disable and the loss of link it causes, in one second,
  make the history unusable; and a PoE event after the link came back hides that it
  did (`:276`). Both err on the side of saying less.
- `guardian/plugins/wlan_auth.py:205`: "Every client that authenticated ... before
  the change kept authenticating after it" is also said when none tried after, and
  when a client was refused in the very second of the change, which both windows
  name.
- `services/mfa.py`: a regeneration of recovery codes that read an enrolment
  before it was disabled writes it back after (`SignIn!DisabledStaysDisabled`).
- `notify_snapshot_failed`, `notify_webhook_gap` and `notify_credential_invalid`
  have no caller, though `services/notifications.py:33` lists them among what must
  always reach the operator.
- `worker.py:61`, on hashes of two generations: "Comparison already tolerates
  both"; `services/restore_baseline.py:143`, `restore_planner.py:847` and
  `restore_compensation.py:335` compare raw hashes.
