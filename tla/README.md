# Patrol 360: specifications

TLA+ modules, TLC configurations and TLAPS proofs for Patrol 360: an ASP.NET / EF Core /
PostgreSQL server, a React web client for dispatchers, and an Expo (React Native) phone
application that works offline and sends its work later through an *outbox*. Paths below
are relative to `src/`; `Мобильное приложение/src` is written `mobile/`, and
`libs/infrastructure/Persistence` is written `persistence/`.

## 1. Inventory

| Component | State it keeps | Operations | What is hard | What makes it correct |
|---|---|---|---|---|
| **Mobile outbox and sync engine** `mobile/sync/{syncEngine,outboxProcessor}.ts`, `mobile/db/repositories/outboxRepository.ts` | SQLite `outbox_commands` (status, attempts, last error), `sync_conflicts`; in memory the promise of the one run under way | enqueue, list a batch, mark sending, apply answers, return to retryLater, release stale `sending`, reconcile reports by GET, wait for sign-in | every step is an `await` others run between; the app is killed; answers are lost or late | an answer on the phone is the server's; nothing answered is reopened; everything is answered in the end |
| **Mobile HTTP client** `mobile/api/{httpClient,networkTimeout}.ts` | tokens in secure storage, last good address | request with 10 s time-out, failover over addresses, token refresh on 401 | the server goes on with a request the phone has given up; the same POST at two addresses | no effect twice |
| **Mobile sign-in / sign-out** `mobile/auth/authService.ts`, `mobile/db/repositories/bootstrapRepository.ts` | tokens, all local tables | sign in, check for unsent work, clear everything | check and clearing are separated by a round trip | sign-out deletes no unsent work |
| **Server outbox handler** `persistence/MobileApp/EfMobileAppService.Outbox.Patrol.cs` | `mobile_outbox_operations` (account, clientOperationId, status, payload) | SaveOutbox (a batch), GetOutboxOperation | concurrent copies of a batch, failed SaveChanges, commands that save by themselves | exactly-once effects, the same verdict for ever |
| **Patrol lifecycle** `persistence/MobileApp/EfMobileAppService.Outbox.Patrol.{RequestLifecycle,Completion,PointResults,Validation}.cs`, `persistence/Patrol/EfPatrolStore.{Requests,Assignments,Results}.cs` | `patrol_requests`, `assignments` (LockVersion is a concurrency token), `patrol_results` | phone: take, accept, release, start, pause, resume, hand off, complete, scan and mark points; web: create request, assign, start, cancel, complete | optimistic transactions of phones and dispatchers; a batch shares one change tracker; checks by query before the save | request and assignment agree, closed stays closed, a report is stored once, one patrol in progress per employee |
| **Mobile patrol repository** `mobile/db/repositories/patrolRepository.ts` | `patrol_assignments`, `patrol_request_board`, `point_results`, local files | the same operations done locally first, each queueing a command | base revision of the report read before earlier commands are answered; late answers overwrite the local status | an offline patrol can be delivered; terminal states stay |
| **Sync triggers** `mobile/sync/{syncTriggers,backgroundSyncTask}.ts`, `mobile/services/mobileDataRefreshService.ts` | three timers, two promises, a back-off counter | network, foreground, push, timer, screen and background triggers | a trigger finds the engine or a refresh busy; timers cancelled before the outcome is known; joining a promise that has read already | no lost wake-up |
| **Mobile sessions** `persistence/MobileApp/EfMobileAppService.Auth.cs` | `mobile_account_sessions` | login, refresh (rotates), logout | the answer to a refresh is lost | a phone is not thrown out by a lost answer |
| **Mobile files** `persistence/MobileApp/EfMobileAppService.Files.cs`, `mobile/services/mediaAttachmentService.ts` | `mobile_uploaded_files`, `local_files` | chunked upload, attach, dedupe by client file id | repeated uploads, report before its files | a report has its files |
| **EMU work accounting** `persistence/Emu/*` | shifts, work sessions, participants, participation intervals, plans, decisions | start, pause, resume, complete, carry over at midnight, administration | several commits per operation without a transaction; RowVersion compared in memory only | nobody works in two sessions, nobody's time counts twice, a completed session is completed for all |
| **Mobile push** `libs/infrastructure/MobilePush/FirebaseMobilePushDeliveryService.cs` | `mobile_notifications.push_*` | claim (SKIP LOCKED), send, release stale claims | death between claim, send and save; several workers | every notification is settled, sends are bounded by attempts |
| **Worker** `apps/worker/Worker.cs` | none | loop over maintenance, PERCo, push | restarts | |
| **Inventory** `persistence/Inventory/*`, `EfInventory*Service.cs` | stock, custody, PPE issues | issue, return, write off, import, export | stock is checked before the save, without a token | stock never negative |
| **PERCo** `persistence/Perco/EfPercoIntegrationService.*.cs` | `perco_access_events`, `perco_sync_states`, `employee_presence_intervals` | automatic and manual synchronisation, closing an interval by hand | the worker and a user synchronise at once; a page fails; passes become known late | no pass is left behind the window; intervals come right; what was closed by hand stays |
| **Site users, sessions, permissions**; **routes, employees, accounts**; **dashboards, notifications**; **conflict administration** | reference data | CRUD by single requests | little | |
| **Web client** `apps/web` | in memory: the rows shown, the time of the last poll, the dialogue open | full loads, polls, forms | answers in any order, failed polls, rows that change under a form | the board comes to show what the server has |
| **Legacy**, **infra**, **migrations, seeding** | none that lasts | | | |

How they interact. A user action on the phone changes local tables and inserts a command
in one SQLite transaction. A trigger starts the sync engine; the engine posts batches to
`POST /api/v1/mobile/outbox`; `SaveOutbox` looks each `clientOperationId` up in
`mobile_outbox_operations`, hands new ones to their handler, and saves everything with one
`SaveChanges` at the end. The handlers of work commands call the EMU service, which shares
the `DbContext` and saves by itself. Dispatchers change the same assignments and sessions
through the web API; the phone learns of it from the next bootstrap and from answers to
its commands. The worker carries sessions over, copies passes from PERCo, and sends pushes, which trigger the
phone. Browsers poll for what others have changed.

The hazards of this code, each at its line, with the properties that cover them or the
reason none does yet, are the `hazards` list of `PROJECT.json`.

## 2. Plan

| # | Module | Composes or extends | Abstract specification | Runs | Theorems | State |
|---|---|---|---|---|---|---|
| 1 | `OutboxSync` | phone, network, server | `ExactlyOnce` | 3 | section 11: every invariant, it implements `ExactlyOnce` | done |
| 2 | `PatrolLifecycle`: phone and web handlers as optimistic transactions, a batch sharing one change tracker | | `PatrolLedger` | 2 | section 11: every invariant, it implements `PatrolLedger` | done |
| 3 | `MobilePatrol`: a patrol on the phone, its report's base revision, refreshes against answers | phone, server, dispatcher | | 2 | section 11: every invariant | done |
| 4 | `SyncTriggers` and `SyncRun`: what starts a run, and a run with its photos | `SyncRun` extends `SyncTriggers` | | 1 | section 11: every invariant | done |
| 5 | `EmuWorkSession`: sessions, participants, pauses, intervals, several commits | | | 1 | section 11: every invariant | done |
| 6 | `MobilePush`: claim, load, send, save, release | | | 1 | section 11: every invariant | done |
| 7 | `PercoSync`: the window, the copy of passes, the intervals | worker, user, PERCo | | 1 | section 11: every invariant, `ByHandStays` | done |
| 8 | `EmuBoard`: the boards of the browser | browser, server | | 1 | section 11: every invariant | done |
| 9 | `MobileSession`, `InventoryStock` | | | | | not begun, section 13 |

A component's theorems are in the module `<component>Proofs`.
The set of runs is kept at a dozen: runs that share an instance are
merged, and a statement of the documentation the code does not keep is stated in its module
and described in section 12, with a run of its own only for two of them.

## 3. The model of the outbox

`OutboxSync.tla` is one module because phone, network and server share the requests in
flight. A command is its `clientOperationId`. Its payload and the domain decision about it
are abstracted to a verdict the server chooses freely: `accepted`, `refused` (conflict or
rejected, which the transport treats alike) or, for a report only, a first `duplicate`
(`ProcessCompletePatrolAssignment` answers so when another command has already reported the
assignment).

| Variable | Code |
|---|---|
| `status`, `aged` | `outbox_commands.status`; rows `sending` with `updated_at_local` over five minutes old |
| `token` | the access token in secure storage |
| `pc`, `batch`, `batchesLeft`, `cur` | where `runForegroundSyncInternal` stands, its locals, the POST it awaits |
| `signingOut` | `signOut` between `assertNoPendingLocalChanges` and `clearAuthenticatedUserData` |
| `post` | requests under way, each with the commands the handler has still to look at (`todo`), the operation rows it has added to its change tracker (`added`) and the answers so far |
| `op` | `mobile_outbox_operations` |
| `effects`, `undone` | how often a command's effect was committed; pauses and resumes a dispatcher has reverted since |
| `faults` | bookkeeping: number of faults so far |

Actions follow the code between two awaits on the phone, and between two database round
trips on the server: reading the batch (`ListBatch`) and marking it (`MarkSending`) are
separate, because `listPendingOutboxCommands` and `markOutboxCommandsSending` are two
awaits; the handler takes one command at a time (`AnswerKnown`, `HandlePatrol`,
`RefuseWork`, `ApplyWork`) and commits at the end (`Commit`, `CommitClashes`), so copies of
a request interleave. `ApplyWork` commits on the spot, as the EMU service does, and with it
the rows the batch has added before. `PostFails` and `Failover` may leave the server at
work on a request nobody waits for. `Crash` forgets the phone's memory, not its tables.

Faults (`MaxFaults` of them in a run): connection lost at the start of a run, upload
failure, time-out, failover, expired session, request lost, server failure, the app killed,
and a dispatcher undoing a work command. Constants bound the rest: the set of commands, the
slots for simultaneous requests, the batch size and the batches per run (25 and 4 in the
code, 2 and 2 here, so that batches split). `MaySignOut` says whether the user ever signs out.

`ExactlyOnce.tla` is what the pair promises for patrol commands: a command is created, has
its verdict decided once, together with its effect, and is then answered with that verdict.
`OutboxRefinement.tla` gives the mapping: created is "not `none`", decided is `op`, answered
is the phone's status.

`MCOutboxSync.tla` defines the constants of all runs; each cfg picks its own.

## 4. The model of the patrol lifecycle

`PatrolLifecycle.tla` has the tables and every HTTP request under way that touches them.

| Variable | Code |
|---|---|
| `asg` | the table `assignments`: `Status`, `LockVersion`, whether `StartedAt` is set; `unused` before the insert, `removed` after the delete |
| `req` | `patrol_requests.Status`, `none` before the insert; there is no concurrency token |
| `reports` | how many rows `patrol_results` holds of an assignment |
| `tx` | the transactions under way: `base` and `mine` are the original and the current values in the EF change tracker, `baseReq` and `mineReq` the same of requests, `reported` the reports to be inserted, `known` the ids the phone knew when it composed its batch |

*Transactions.* A web request is one step up to its `SaveChanges` and one for it; a batch of
the phone is a step for each command, and one `Save` at the end, because `SaveOutbox`
saves once. Other transactions commit in between. `Save` fails as a whole when a row's
`lock_version` has moved on (`MovedOn`) or a unique key is taken (`KeyTaken`).

*The change tracker* is what makes batches hard, and `Fetched`, `RowSeen` and `Navigation`
follow EF Core: a query asks the tables, so it misses what the batch has only added (`Found`,
`Busy`), but gives back the tracked entity with the values the batch has changed; an
`Include` does not replace an entity the navigation already holds, a deleted one included.
Only changed properties are written, so a status set to the value it was read with stays
unwritten, whatever the table has by then.

*Actions.* `Take`, `AcceptNew`, `AcceptExisting`, `AfterReturn`, `Release`, `Start`, `Pause`,
`Resume`, `Handoff`, `Complete`, `CompleteLate` are the phone's commands, `LookAt` and
`LookAtRequest` those that leave both tables as they are (scans, marks, refusals, which
still load rows), `CreateRequest`, `Assign`, `WebStart`, `WebCancel`, `WebComplete` the
dispatcher's. A batch names ids the phone has been told of (`known`): copies of the same
batch are the subject of `OutboxSync`, where the key of `mobile_outbox_operations` stops the
second. For the same reason a batch holds one report per assignment.

`PatrolLedger.tla` is the book a dispatcher could keep by hand: taken, under way, done,
cancelled, late, and which may follow which. `PatrolRefinement.tla` reads the tables as
such a book; rows that contradict each other have no entry in it.

`AfterReturn` is a legal but unusual batch: a return, and then another command of the
assignment it has returned. `FindMobileAssignment` and the request's navigation give the tracked
entity, *Deleted* as it is and with its old status, so the command passes its checks and is
answered *accepted*, but only the request's status is written. The documentation allows the
return and the new acceptance, the code mishandles them (section 12), and
after them a request may stay `accepted` with nobody in charge, so that later statuses of the
request are compared with a wrong original and may stay unwritten. The history variable `again`
remembers such requests: `RequestMirrors` and `ReleasedIsAvailable` say nothing of them, every
other property does.

`MCPatrolLifecycle.tla` has the instances: one request with two or three assignment ids (so that a
returned patrol is taken again under a new id, by two batches at once), and, for section 12,
two requests of one employee. Bounds: two transactions, two commands a batch (`BatchLimit`), two
ids and three lock versions (`MaxLock`) in `patrol_returns`, three ids and two versions in
`patrol_ledger`. Two transactions give every conflict `MovedOn` and `KeyTaken`
decide, which are pairwise; two commands give every effect of a tracked entity on a later
command; three versions let an assignment be created, changed twice and closed
(`patrol_returns`), and two are enough where the theorems of section 11 cover every value.
Transactions are interchangeable, and so are the ids of a request: their permutations are a
symmetry (no liveness is checked here).

Left out: the contents of reports and points, the route's version, PPE checks of a work
command in the same batch (which would save early), and the repair of old completed
assignments without a result.

## 5. The model of a patrol on the phone

`MobilePatrol.tla` takes one request on one phone and puts what the other two modules keep
apart side by side: what the phone believes of a patrol, what it has queued, and what the
server has.

| Variable | Code |
|---|---|
| `row` | `patrol_assignments` on the phone: `status`, the revision it knows, whether the patrol has been started |
| `offered` | whether `patrol_request_board` offers the request |
| `outbox` | `outbox_commands` in the order of `created_at_local`, each with the base revision it was queued with |
| `submitting` | the assignments whose `SubmitReportScreen` is open; it stays open whatever becomes of the patrol |
| `run` | the sync run: ready, its batch posted, its answers come |
| `boot` | the bootstrap a refresh has fetched and not saved yet |
| `asg`, `reported`, `known` | the server: assignments with `LockVersion`, those with a result, the stored answer to each command |
| `moves` | bookkeeping: what the dispatcher has done |

*Actions.* The employee's (`Accept` to `Complete`) change the row and append a command, which
the code does in one SQLite transaction; their guards are those of `patrolRepository.ts` and
of the screens. `StartRun` closes what a good answer has left behind (`Finalized`), `Recover`
is `resetStaleSendingOutboxCommands`, `Reconcile` and `Fail` ask the server for stored
answers, `Receive` applies those of a POST; `Kill` may come anywhere. `SessionEnds` is
`markPendingOutboxCommandsAuthRequired`: the run finds no session or is answered 401, everything
is to be sent again, and a patrol with anything unsent becomes `authRequired`, until an
answer to one of its commands changes it. A second press of the button starts a patrol in progress
once more, which queues a second start. `FetchBootstrap` and
`SaveBootstrap` are two steps, because nothing keeps a refresh and a run apart; saving one cancels
the other open patrols of a request the board has as cancelled (`CancelledToo`). `Handle` runs
a batch through the handlers as one transaction: the interleaving of transactions is
`PatrolLifecycle`'s, lost and doubled requests are `OutboxSync`'s, and here *pending* stands
for *retryLater* too. `Dispatch` is the web.

Bounds: two ids, so that a returned patrol can be taken again under another, two commands,
and one move of the dispatcher. Two commands are a command and a report on top of it, or a
return and a new acceptance. The report's refusal needs no dispatcher at all
(`mobile_offline_report`).

Left out: points, their results and photos (a report is of a patrol whose points are
filled; an unsent point is any set given to `SessionEnds`), several requests, the board's own
status beyond `offered` (whether it still says *cancelled* is left open where it matters), and
the local tables that have no part in a decision.

## 6. The model of the sync triggers

`SyncTriggers.tla` has what makes the phone exchange data, `SyncRun.tla` extends it with the
steps of a run and joins them into one `Next`.

| Variable | Code |
|---|---|
| `app`, `online`, `serverUp` | the process (active, background, closed), `hasUsableNetwork`, the server |
| `command` | `outbox_commands.status` |
| `run`, `waiting`, `retry` | `foregroundSyncPromise` and who waits for it, a trigger that waits for the active refresh, `retryTimeout` |
| `fetch` | `refreshPromise` of `mobileDataRefreshService.ts`, with what it has read |
| `active`, `scheduled`, `cool` | `activeRefreshPromise`, `scheduledRefreshTimeout`, whether the cooldown still runs |
| `orders`, `seen` | the board on the server and on the phone |
| `owed`, `swallowed` | bookkeeping: orders whose push was handled and which neither a read nor a failed attempt has followed; those of them whose push joined a fetch that had read without them |
| `batch`, `batches`, `file`, `stored`, `withdrawn` | the batch in hand, how many were posted, `local_files`, `mobile_uploaded_files`, photos whose point the server no longer grants |

*Actions.* A stretch between two `await`s each: every subscription of `app/_layout.tsx` and
`syncTriggers.ts`, a push, a screen's pull and button, the timers, the background task, the
two ends of a promise, the steps of a run up to the POST. Durations are only their order: the
cooldown is over or it is not. Timers stand still in the background.

`Enqueue` triggers a run only for the commands in `Prompt`: a report (`SubmitReportScreen.tsx:63`) and
the commands of the work accounting. To accept, return, start, pause, resume or hand over a patrol,
to scan and to mark a point writes the command and triggers nothing, and the five-minute
fallback only reads. Such a command waits for the next report, work command, button, return of
the network or of the application, or background task. So `CommandsAreSent` says that a *prompt* command
takes along whatever is queued beside it, and what a document says of every command is
`EveryCommandIsSent`, which fails (section 12).

`PushIsFollowedUp` is about every push: it counts those in `owed`, and excepts by name those in
`swallowed`. A push that joins a fetch a screen has started, and which has read the board before
the order was in it, asks for nothing more; its order comes with a later trigger
(`OrdersAreSeen`). A push whose fetch fails is not repeated either: the property promises the
attempt.

`SyncRun.cfg` has a report with a photo (`Prompt`) and another command (not), one order, two batches a run
(the code has four) and one break of network, server or process. One break in the middle of
everything is what tells a lost wake-up from a delayed one: after it the phone has to come
back by itself. With a single batch a run (`MaxBatches = 1`) `CommandsAreSent` fails: a command
turned away as *busy* is then left until the next trigger, because *busy* schedules
nothing; with two, the run itself lists it.

## 7. The model of EMU work sessions

`EmuWorkSession.tla`: `sess` is `emu_work_sessions` (state, whether it is shown as waiting,
`RowVersion`), `rows` is `emu_work_session_employees`, `pauses` is `emu_work_pauses` with its
employees, `timed` counts the open intervals of each participant in
`emu_participation_intervals`, and `req` is the request of each slot.

Every operation of the service reads, decides and then commits several times without a
transaction: `SaveChanges`, one bulk update that closes intervals, one INSERT for each new
one. So an operation is a guard and a record of what is to be written (`Write`), and `Save`,
`Close`, `Insert` and `Die` carry it out.

The run has two sessions, two employees and *two* requests at once, with a death between any
two commits. Three versions (`MaxVersion`), three changes in all (`MaxChanges`: how many there may
be when a request begins) and three participants are enough for an employee to be taken off one
session and put on another while an interval of his was never closed, and for two requests to
overlap on both.

Nothing in the code stops two requests at the same moment: the conflict is looked for by a query,
and `RowVersion` is compared in memory. What they break is stated without any exception as
`NobodyWorksTwice`, and `EmuTwoAtOnce.cfg` shows the counterexample (section 12). The properties of the run say
what the code does keep. When a request commits, every other one that is under way and has
to do with it (`Overlap`: the same session, or an employee both set to work, to wait or to be done)
has been overtaken, for it has decided on what it read before (`late`). If it commits all the same,
its session has been *raced* for. `OneWorkAtATime`, `CompletedIsClosed` and `OneOpenInterval` hold of
every session that was not, whatever else runs at once and whatever died half way. They are
stated of participants as the database has them: an employee who has left a session and come back has
two rows, and `OneOpenInterval` speaks of each.

Left out: dates and minutes, reasons, plan tasks, the audit, shifts. Being *on another work*
is a kind of waiting.

## 8. The models of the worker's jobs

### Push

`MobilePush.tla`: `row` is `mobile_notifications` (`push_status`, `push_attempt_count`, the age
of `push_claimed_at`), `step`, `batch` and `loaded` are the locals of `SendQueuedAsync` in each
worker, `pushed` counts what Firebase has taken. Release, claim (one statement with
`SKIP LOCKED`), load, send, save are an action each; a worker dies between any two. `SaveOutcome`
writes only the columns that differ from the row as loaded, as EF does without a token.

A notification without a push token is `waitingSync`; `RegisterPushToken` queues those of its
account. Two registrations of one account at the same moment are left out.

Two notifications of two accounts, two workers with batches of one, two attempts (the code has
three), two deaths. A death costs one attempt, so a death and a refusal, or two deaths, exhaust them.
`Age` may come at any time: a batch of the code is fifty sends, one after the other, and nothing
bounds what Firebase takes for each, so it may outlast the five minutes after which its claims count
as abandoned. Another worker then releases them under the one that is still at them, and the late
save writes its outcome over the row, the count of attempts being the other's. `outlived`
remembers those notifications. `PushesAreCounted` holds of them too; `NothingInLimbo` and
`QueuedIsSettled` do not, and except them.

### PERCo

`PercoSync.tla`: `recorded` is what PERCo has, `events`, `success` and `intervals` are
`perco_access_events`, the day of `last_success_at` and `employee_presence_intervals`; `at` and
`mem` are where each synchronisation stands and what it has read. The pages, the insert, the
reading of the events, that of the intervals closed by hand, the delete and the insert of
intervals are an action each, since each
commits or queries by itself. `Rebuilt` is the computation of the intervals: a fold over the
passes in order, with the rules for a second entry, a long stay and an entry closed by hand.

Three passes of one employee over three days: a stay longer than `Reliable`, and an exit in the
middle of it that PERCo hears of last, and late. Pages of one row, two of which are
read (fifty of a hundred in the code), so that a new pass moves the others on by a page and a
window of three is cut off. The worker and a user, one failure, one click, one interval closed by hand. A
controller may be cut off for as long as it likes, and a synchronisation may last over midnight.

The day of overlap pays for either of these, not for both, and fifty pages are the end of a window. The
history variable `missed` takes up the passes lost in these ways, at the moment they are lost and
for that reason only: heard of when a success has already passed them by (`Passed`), heard of while
the synchronisation ran whose success passes them by (`HeardMeanwhile`), beyond the last page
(`CutOff`). `BehindWindowStored` and `PassesAreStored` say that there is no fourth kind: not by a page that
fails, a death, the rows moving from page to page, or two synchronisations at once.

## 9. The model of the boards

`EmuBoard.tla` is the EMU screen of the browser against a database others change.

| Variable | Code |
|---|---|
| `table`, `underway`, `now` | rows of `emu_work_sessions` or of the plan with their `UpdatedAt`, the stamps of changes not yet committed, the clock |
| `shown` | the rows of `useEmuWorkspace`'s state, each known by its stamp |
| `since` | `lastWorkSyncAtRef`, `lastPlanSyncAtRef` |
| `load` | the full load whose answer is still wanted: a newer one sets `mounted` to false for an older |
| `polls` | the polls in flight, which nothing cancels |
| `modal` | the dialogue that is open, and the version its form was filled from |
| `fails` | bookkeeping: requests that have failed |
| `overtaken`, `missed` | history: changes a reading has passed by; cards shown wrong for a reason the code allows |

A request of the browser is three steps: asked, read by the server, applied. The server
stamps a change when its handler starts (`Begin`) and commits it later (`Commit`), and answers
a poll with the time it started reading. A save from a form is one step on the server
(`Save`) and one when its answer comes (`Saved`, `SaveFails`).

A full load of work sessions is one request for every five hundred rows. `ReadLoad` is a load of
one page; `ReadPage` and `ReadRest` are one of two, the cards of the second being any of those there
are. Rows are counted off in the order of `CompletedAt ?? UpdatedAt`, so that a change in between may
move others, or itself, from the second page to the first, which is not read again: `torn`.

`NothingMissed` has four exceptions, and TLC refutes the property without any one of them:
a change that commits after a reading with a stamp before it; an answer applied after a newer
one; a change between the reading of an empty board and its display, when the browser's own
clock is taken; a change between the pages of a load. `missed` forgets a card when an answer brings
it again. So the property says that in this model there is no fifth way to lose a card, and
`ShownAtLast` that nothing but those four stays on the screen.

The run has two cards on one board, four ticks of the clock (every stamp and every commit is
one), one poll in flight and one failure. Two cards, because the maximum of their stamps
decides what is asked for; four ticks let two changes overlap. A second board and a second
poll were checked for the safety properties with loads of one page (up to 2.9 million states) and show nothing new:
boards meet in the full load only, which a failed poll of either asks for.

Left out: a dialogue closed, or another opened, while its save is under way, the local
demonstration mode, settings, decisions and the dashboard, the sections a
user may see, more than two pages, a row that comes on both pages (the browser then shows it
twice), and two changes of one card by others at once.

## 10. What the runs check

| Run | Instance | Shows |
|---|---|---|
| `outbox_patrol` | a start and a report of one assignment, two slots, three faults, fair | `AnswerIsRecorded`, `PatrolEffectExactlyOnce`, `AnswersAreFinal`, the refinement `ImplementsExactlyOnce`, and `EveryCommandAnswered` |
| `outbox_work` | the same and a work command, batches of two, one fault, sign-out | with effects committed early: `AcceptedWorkIsDone`, and `Inductive`, the invariant of the proofs, which contains `AnswerIsRecorded` and `PatrolEffectExactlyOnce` |
| `outbox_refused_work` | violation | a work command that was carried out is answered as refused |
| `patrol_returns` | one request, two ids, rows of three versions, two transactions | `RequestMirrors`: the request's status follows its assignment's, unless a batch names an assignment it has returned |
| `patrol_ledger` | three ids, rows of two versions | `EveryChangeMovesLock`, the refinement `KeepsTheLedger`: nothing begun disappears, nothing closed is reopened or reported twice, a request is in one pair of hands; and `Inductive`, the invariant of the proofs |
| `mobile_patrol` | section 5, fair | `RevisionNeverAhead`, `OneReportUnderWay`, `ReportKeepsItsPatrol`, `CompletedAsPlanned`: whatever is killed, lost or overtaken, the phone's picture of a patrol is never ahead of the server's, and a report exists once and changes only what it was based on. `LocalReportEnds`: no patrol waits as *completed here* for ever |
| `mobile_offline_report` | violation, no dispatcher | a patrol started and reported offline is refused |
| `sync_run` | section 6, fair | `PushIsFollowedUp`, `WaitingIsWokenUp`, `CommandsAreSent`, `OrdersAreSeen`: among promises and timers no trigger is lost but a push that joins a fetch which has read; a report is sent, and takes along what is queued. `PhotosComeFirst`: no report reaches the server before its photos |
| `emu_work` | section 7, two requests at once | `OneWorkAtATime`, `CompletedIsClosed`, `OneOpenInterval`, of every session nobody has committed to from a stale reading |
| `mobile_push` | section 8, fair | `PushesAreCounted`: however many workers die or are slow. `NothingInLimbo`, `QueuedIsSettled`: no notification is left behind, but for those released under a worker still at it |
| `perco_sync` | section 8, fair | `BehindWindowStored`, `PassesAreStored`: no pass is lost, but for three kinds. `ByHandStays`, `IntervalsSettle`: intervals come right, and stay closed that were closed by hand |
| `emu_board` | section 9, fair | `NothingMissed`: a card that is shown wrong comes with a later poll, but for four exceptions. `ShownAtLast`: whatever fails, once the dialogues are closed the board comes to show what the server has |

Why the outbox bounds are enough. The interesting cases are two copies of one request (needs two
slots), a command answered by one copy while another is being handled, a stale release in
the middle of a run, a repeated command beside a new one in one batch (needs two commands),
and a batch that splits (three commands, limit two). Three faults allow a time-out, a crash
and a failed commit in one behaviour. The proofs lift the safety properties to any number
of each.

Deadlock is not checked (`CHECK_DEADLOCK FALSE`) where the system really may stop: when every
command is answered and no fault is left, when every patrol is closed, when the employee has
nothing left to do, when every session has had all its changes. The other runs check it.

Fairness, module by module.

- `OutboxSync`. The engine is started again whenever it is idle: the background
  task does so at least every 15 minutes (`mobile/sync/backgroundSyncTask.ts`), and so do the
  network listener, the five-minute fallback, application start and every submit. Its awaits
  return (fetch has a time-out, uploads too). The server finishes requests it has begun.
  Clocks advance, so a row that stays `sending` becomes stale. A signed-out user with queued
  commands signs in again. No fault is ever required to happen, nor sign-out. Faults are
  bounded: a network that fails for ever delivers nothing.
- `MobilePatrol`. Runs start again and again, by the same triggers, and a step of a run that is
  tried again and again succeeds once (strong fairness: kills and losses are not bounded
  here). Nothing is promised of the employee, the dispatcher, refreshes or screens.
- `SyncRun`. Promises settle and timers fire. Nothing is promised of the employee, the network, a
  push or the background task: `CommandsAreSent` (of what is queued with a prompt command) and `OrdersAreSeen` speak of an application
  that stays open and reaches the server from some time on.
- `MobilePush`. The worker's loop comes round every five seconds, a dead worker is started
  again by its container, time passes. Deaths are bounded.
- `PercoSync`. The worker comes round, and a synchronisation once begun goes on. Failures are
  bounded.
- `EmuBoard`. Handlers finish and answers come. Timers run while no dialogue is open: ten
  seconds for the work board, thirty for the plan, up to three more at random, again after each poll has ended
  (`EmuWorkAccountingScreen.tsx:238-294`). Strong fairness for full loads, because a poll that
  has no time to ask from starts a new load and gives up the one under way: a load that
  takes less than ten seconds gets through. Nothing is promised of people.

## 11. What is proved

### The outbox

`OutboxSyncProofs.tla` proves, for every set of commands, any number of slots, every batch
limit and every bound on faults, from `ConstantsAssumption` only:

- `TypeCorrect`, `InductiveCorrect`: `Spec => []TypeOK`, `Spec => []Inductive`;
- `AnswersAreRecorded`, `PatrolExactlyOnce`, `AcceptedWorkDone`: the safety properties;
- `FinalAnswers`: the action property `AnswersAreFinal`;
- `KeepsThePromise`: `Spec => ImplementsExactlyOnce`, the refinement of `ExactlyOnce`.

The argument. `AnswerIsRecorded` alone is not inductive: an answer that is on its way could
contradict the table. `RequestsOK` says it cannot: in a request, a command the handler has
passed is either `Settled` (its verdict is the stored one up to accepted/duplicate) or its
row is in `added` and will be stored with that verdict by the next commit; in an answered
request everything is settled. A commit of one request cannot unsettle another, because a
stored verdict never changes and a clash of keys fails the later commit. The proof goes
action by action, most phone actions by the lemma that a status copied from a settled
answer or from `op` keeps `AnswerIsRecorded`, the server's by lemmas on `Saved` and
`EffectsSaved`.

For the refinement every step is given the step of `ExactlyOnce` it is: a commit decides the
patrol commands whose rows it inserts (`DecideStep`), `Enqueue` submits, clearing the
outbox at the sign-out forgets, and every other step tells the phone what has been decided, if
anything (`TellStep`, from `AnswersAreFinal` and `AnswerIsRecorded`). What it needs
beyond `Inductive` is `Created`: no batch and no request has a command the user has not
created.

### The patrol lifecycle

`PatrolLifecycleProofs.tla` proves, for any sets of
assignments, requests, employees and accounts, any number of transactions, every batch
length, from `ConstantsAssumption` only:

- `InductiveCorrect`, `TypeCorrect`, `OneAssignment`: the inductive invariant, the types,
  and that a request never has two assignments;
- `ChangesMoveLock`: the action property `EveryChangeMovesLock`;
- `ImplementsLedger`: `Spec => KeepsTheLedger`, the refinement of `PatrolLedger`;
- `RequestsMirror` and `ReleasedAgain`: `RequestMirrors` and `ReleasedIsAvailable`, of every request
  but those in `again` (section 4).

The argument. That the tables are consistent (`OneAssignmentPerRequest`, `ReportsMatch`,
`CancelledRequests`) is not inductive without what the trackers hold: a transaction could
be about to complete a row that is closed by now. `TrackedRowOK` says what may differ: of a
row that was read, `Since` (the table has it still, or has deleted it, or has a higher
`lock_version` and, if it was closed, the same status), and `Intended` (what the handlers
of this batch have made of it, reports included). The step of each handler keeps its own
tracker in order: `OpenSeen` and `ClosedSeen` go from the row a handler sees to the row it
read, and `ChangeStep`, `AdvanceStep`, `ReportStep`, `WebChangeStep` do the bookkeeping. A
commit is the other half: where `MovedOn` and `KeyTaken` are false the row is still the one
that was read, so `SavedRows` can say what a commit does to each row in terms of the table
alone (`RowSaved`), and everything else follows from `RowSaved`: the tables stay consistent,
the trackers of others stay in order (`SaveKeepsOthers`), versions go up, and each row makes
a step the book allows (`SaveIsEdge`). Only a row that a dispatcher cancels makes a request
`cancelled`; that is what a late report relies on (`CancelledIn`).

That a request mirrors its assignment is harder, as `patrol_requests` has no concurrency token.
`Mirrors` (checked by TLC before it was proved) rests it on the assignment's. `KnownOnce`: a batch
tracks one assignment of a request, and the one its phone knows is that one while it is in the
table. `RowMirrored`: the original of a request in a tracker fits the original of the
assignment, so that if `SaveChanges` leaves the request out because it has not changed in the
tracker, the table has that value already. There is one exception, which the code has too: the
request was read while it had no assignment and the row later, but then the batch does not
know that row and can only accept it, which changes the request in any case. `ReqMirrored`: a
request is never changed without its assignment, which is what a command after a return breaks;
of the rows of a request in `again` only `KnownOnce` is kept.

### Push delivery

`MobilePushProofs.tla`, for any notifications, any finite set of workers (`WorkersAssumption`:
the processes that run are finitely many), any batch size, attempts and deaths:

- `TypeCorrect`, and `PushesCounted`: the invariant `PushesAreCounted`, however slow a worker is.
  It is not inductive, as it says nothing of what is still to be sent: `ClaimsAreCounted` adds
  to the pushes of a notification the workers that have claimed it and not sent it yet, and
  bounds the sum by its attempts. A claim raises both sides by one; a send moves one worker
  from the second summand to the first; a death or a save only lowers it.
- `NoLimbo`: `NothingInLimbo`, without any assumption on how long a batch takes. What a worker has
  claimed, if it is not in `outlived`, is its own until it is saved, and the row its
  `DbContext` holds is the row in the table (`ClaimsHold`), so that saving it loses nobody's
  attempt. `NoneBefore` says that a row `RegisterPushToken` queues has no claim behind it.

### A patrol on the phone

`MobilePatrolProofs.tla`, for any assignments, commands and moves of the dispatcher
(`ConstantsAssumption`: the ids are finitely many), proves `TypesHold`, `RevisionsHold`,
`OneReportHolds`, `ReportsKeepTheirPatrols` and `CompletionsHold`: every invariant of the run.
None of the five is inductive. `Inductive` adds, and TLC checked with three commands before it
was proved:

- `AnswersBehind`, `BootBehind`, `AnswersMatch`: what the phone is yet to be told, by stored
  answers, answers under way and a bootstrap in hand, is behind the server too. This is why
  refreshes and runs need no lock for `RevisionNeverAhead`, though they do for more than that
  (section 12).
- `OneAccept`, `UnbornHasNoRevision`, `UnusedIsNew`: an id is drawn once, and until its acceptance
  is answered it has no revision anywhere. Without them an assignment could come into being
  below a revision the phone has kept from an earlier one.
- `BegunIsStarted`: a patrol that is begun is marked started for good, on the phone and on the
  server. The phone returns only what is not started, hence `ReportKeepsItsPatrol`.
- `BatchKept`, `OneReport`: what is in a batch stays *sending* or answered, so that a second
  report finds the first; and a report travels with no other command of its patrol. The
  latter, `getPendingOutboxBatch`'s filter, is what keeps a return out of the
  transaction that accepts a report.
- `CompletedForGood`: an assignment completed by a report in time keeps lock and report.
- `Counted`: locks and revisions are bounded by the answers given and the dispatcher's moves.
  It is what bounds the revisions in `TypeOK`, and it holds because a handled command is not
  handled again.

The end of a session (`SessionEndsStep`) puts commands back and changes statuses only, never a
revision, so all of this survives it.

A step of the phone that queues no command is `Tame`: it loses no row, unstarts none, and
brings none ahead of the server (`PhoneStep`). A transaction is followed command by command:
`Sound` relates what it has so far to the tables it began with, `Answers` is what a single
handler may do, and each handler does that (`HandledAnswers`). `Applied` and
`Transaction` are recursive functions over the commands of a batch; that they are defined and that each of their steps keeps
`Tame` or `Sound` is proved by `StepsExist` and `Climb`, with a least counterexample in place of
induction.

### Triggers and the run

`SyncRunProofs.tla`, for any orders, commands, photos and breaks, proves `TypeCorrect`,
`PushFollowedUp`, `PhotosFirst` and `WaitingWokenUp`. The invariant says what each promise of
the triggers stands for: `active` is set only while a fetch goes on (`PromisesHold`), who waits
waits for it (`WaitersHold`), a push that is owed a read has it scheduled, or is being
served by a fetch that still asks, or was swallowed by the fetch of a screen (`OwedIsComing`: while
anything is owed that was not swallowed, a fetch that saves is one the triggers know of, so that a
further push is scheduled), and a closed process takes all of it with it. `PhotosComeFirst` needs `UploadedIsStored`: the phone believes only in uploads the
server has stored.

### The boards of the browser

`EmuBoardProofs.tla`, for any cards, boards and polls, any number of failures and any stamps,
proves `TypeCorrect` and `NothingIsMissed`. `NothingMissed` speaks of the time a board
remembers; the questions and the answers under way have to keep the same promise. `SinceKnown`,
`AskedKnown` and `SilenceKnown` say that what a remembered time, a question or the silence of
an answer passes over is `Known`: shown as it is, with no answer under way that would undo
it, or counted as missed. `AnswersRight` and `LaterRight` say which of two answers about a card is
right, `ReadNow` that nothing has happened since an answer read at this moment; of a load of two
pages all this is said of the cards that are not `torn`;
and `OvertakenKnown` and `Unseen` treat a change that has its stamp and is not committed yet. TLC checked
the conjunction on two instances before it was proved.

### Copying passes

`PercoSyncProofs.tla`, for any passes, any number of synchronisations, faults and clicks
(`PassAssumption`: the passes are numbered in the order PERCo hears of them, and finite):

- `TypeCorrect`: among it, that every interval, also one a rebuild computes from what it read
  earlier, begins and ends with a stored pass;
- `BehindWindow`: `BehindWindowStored`, however late PERCo hears of a pass, however long a
  synchronisation lasts and however many pages its window has: what is lost in these ways is in
  `missed` (section 8). The invariant follows each synchronisation: what it asked for reaches
  back to the last success (`Asked`), and a pass of its window that was known when it began, is not
  missed and that it has not got lies on a page still to come (`Paged`). New passes push older ones to later pages, never to earlier ones (`RankGrows`): that
  is why reading page after page loses none, though the list moves meanwhile;
- `ByHandIsKept`: the action property `ByHandStays`, from the steps alone.

`Rebuilt` is a recursive function over the passes in order. No induction theorem can be used, so
what needs induction (its intervals are made of stored passes) is proved by the
least counterexample: a set of numbers has a least one, which follows from the fact of
`FiniteSetTheorems` that strict inclusion of finite sets is well-founded. What the fold returns for every input, and that the
intervals come to be those of all passes, stays with TLC (`IntervalsSettle`).

### Work sessions

`EmuWorkSessionProofs.tla`, for any sessions, employees, rows, versions and any number of requests at
once: `TypeCorrect`, `WorksOnce`, `CompletedStaysClosed` and `TimeCountedOnce`. Each request may die between
any two of its commits, with everything it has left half done found by the next. The three say nothing of
sessions in `raced` (section 7): with two requests at once the code breaks the unrestricted
statements (section 12).

The invariant `Safe` relates what a request has decided to what it will still find when it
saves, as long as nobody has overtaken it (`Stays`): most of the proof is that a commit of one
request which does not overlap with another leaves standing what the other has read
(`OtherStaysOnSave`, `OtherStaysOnTimed`). `Decided` has the conclusion of each check a handler makes (nobody it sets to work works
elsewhere, a completion sets all active rows, who is finished leaves no open pause behind), and
`Renewed` that each interval to be inserted is for a row that has none or whose open one is
closed first. `PausedAreActive` was found on the way: `CompletedIsClosed` is not inductive. A
completion sets the active rows and ends the pauses of those; that it leaves no open pause of
anybody not removed needs that whoever is in an open pause has an active row, also somebody who
was finished before and has been added again.

### Only model-checked

- Liveness and everything about fairness and ENABLED: out of this prover's reach.
- The order of a batch and of the answers asked for (`Batch`, `InOrder`): the proofs hold for any
  order.
- What `Rebuilt` and `SetToSeq` compute, beyond what is said above.
- The violations.

## 12. Disagreements found

Two have a run that shows the counterexample:

1. `outbox_refused_work`. A work command's operation row is saved after its effect. Lost in
   between, the retry is decided afresh and refused although the work is done.
   `docs/mobile-app-technical-requirements.md:681` promises the same result for a repeated
   `clientOperationId`.
2. `mobile_offline_report`. The report's base revision is read when it is queued; the answer to
   the start queued before it moves the row on, but not the report, which the server then
   finds in conflict. `docs/mobile-app-technical-requirements.md:3223` promises that a patrol
   walked offline can be delivered.

The following are stated as properties in their modules, and no run lists them. Two have a
configuration of their own, `EmuTwoAtOnce.cfg` (`MCEmuWorkSession`) and `SyncQuiet.cfg` (`MCSyncRun`); adding one of the others
to the configuration of its module shows the counterexample.

| Property | Module | What happens | What it contradicts |
|---|---|---|---|
| `WorkEffectAtMostOnce` | `OutboxSync` | a pause whose row was lost is done again after a dispatcher has undone it | `docs/mobile-app-technical-requirements.md:681` |
| `SignOutKeepsQueue` | `OutboxSync` (`MaySignOut = TRUE`) | `signOut` counts the queue before a round trip and clears it after: a command queued meanwhile is deleted | `docs/mobile-offline-recovery.md:61` |
| `OneInProgressPerEmployee` | `PatrolLifecycle` (two requests) | asked by the phone's start and resume only, and of the tables only | `docs/patrol-status-lifecycle.md:109` |
| `AcceptedIsNotStarted` | `PatrolLifecycle` | `acceptPatrolRequest` makes any open assignment `accepted`, one in progress too, and leaves `StartedAt` | `docs/patrol-status-lifecycle.md:21` |
| `EveryReleasedIsAvailable` | `PatrolLifecycle` | a return and an acceptance in one batch: the acceptance is written into the entity about to be deleted, and the request stays `accepted` with nobody in charge | `docs/patrol-status-lifecycle.md:83-89` |
| `EveryCommandIsSent` | `SyncRun` (`SyncQuiet.cfg`) | only reports and work commands trigger a run, and the five-minute fallback only reads (`syncTriggers.ts:20-22`): an acceptance, start, pause or scan alone stays in the queue of an open phone with a network | `docs/mobile-app-technical-requirements.md:916` and `:1262` |
| `ReturnedIsGone` | `MobilePatrol` | a bootstrap fetched before the return is saved after its answer, and brings the patrol back | `docs/patrol-status-lifecycle.md` |
| `ClosedStaysClosed` | `MobilePatrol` | a late answer to a start or a pause writes its status over a closed patrol's | `docs/patrol-status-lifecycle.md` |
| `OthersAreSent` | `SyncRun` | a photo whose point was withdrawn is answered 401 (`MobileController.cs:197`), which the phone takes for an invalid session: every run meets it first, and no other command is ever sent | `docs/mobile-app-technical-requirements.md:526-527` |
| `WaitingCanResume` | `EmuWorkSession` | a resumption of some ends the pause of all who share it; the others wait without a pause and cannot be resumed | `docs/emu-work-accounting-spec.md:297` |
| `NobodyWorksTwice` | `EmuWorkSession` (`EmuTwoAtOnce.cfg`) | two requests look for the employee's work elsewhere (`FindWorkingConflicts`) before either has saved; both find him free | `docs/emu-work-accounting-spec.md:1983` |
| `NothingOverwritten` | `EmuWorkSession` | two requests that read one version both succeed | `docs/emu-work-accounting-spec.md:1178` |
| `NothingOverwritten` | `EmuBoard` | a form keeps the values it was opened with, and sends the version of the row as it is by then (`CreateEditWorkModals.tsx:176-193`): a load that lands while it is open lets it overwrite another's change | `docs/emu-work-accounting-spec.md:1178` |

Met on the way, without a line of the documentation against them:

- A command a killed run left *sending* waits five minutes, or for a run that finds the server
  dead. A background task that fails after a trigger was turned away as busy leaves nothing
  scheduled. A push that joins a screen's fetch which has read already is swallowed, until the
  fallback comes round.
- Rows of `sync_conflicts` keep the user from signing out, and nothing on the phone ever
  resolves them (`bootstrapRepository.ts:61`). A report repeated after its patrol was cancelled is
  answered *duplicate* without the message that says so.
- A point scanned again on the phone is written over as *scanned*, its comment and photos gone
  (`patrolRepository.ts:630`). `getReportReadiness` minds only *pending* and *deferred* points
  (`:1003`), `buildCompletedPointResults` sends only *ok*, *issue* and *skipped* ones, and the server
  refuses a report that lacks a required point (`Outbox.Patrol.Completion.cs:70`): for a point that
  wants no photo the report is ready
  on the phone and refused at the server. Points are not modelled, so no run shows this.
- `MarkWorkSessionEmployeeMistaken` takes the first row of the employee, finished ones included.
- A pass PERCo hears of more than a day late, or a day late while a synchronisation lasts over midnight, is
  never asked for again; two synchronisations that
  insert the same pass end the worker's process; when somebody enters twice and the
  interval is closed by hand, the next rebuild opens another for the second entry, which it had
  ignored before; a window of more than
  fifty pages loses its end.
- A batch of pushes that outlasts five minutes is sent again by another worker, and its late saves may
  leave a notification queued with its attempts used up, which no claim and no release ever takes.
- A full load of more than five hundred work sessions may lose a row that a change between two pages
  pushes over their border, until it is changed again or the page reloaded.
- A dialogue whose card has gone is not rendered, but `modal` stays set, and with it polling
  stays off until another dialogue has been opened and closed
  (`EmuWorkAccountingScreen.tsx:239`). `ShownAtLast` therefore speaks of closed dialogues.

## 13. Not modelled

The `components` list of `PROJECT.json` gives the reason for every part. In short:

- *Inventory* keeps custody and protective equipment by single requests with one `SaveChanges`
  each. Its hazards are checks by query before a save (`ReturnWriteOff.cs:174`, `Issue.cs:218`,
  `EfInventoryWorkflowService.cs:157-201`), of the kind `EmuWorkSession` and `PatrolLifecycle` have.
- *Mobile sessions*: the rotation of the refresh token is one request and one commit; that its
  answer may be lost (`Auth.cs:61`) is `OutboxSync`'s expired session.
- *EMU plans, decisions, catalogue, reports; users, routes, employees, accounts, dashboards*: forms
  and queries, one request each.
- *The web client* beyond the EMU boards fetches lists and sends forms; its mock repositories
  are a demonstration without a server.
- *PERCo*: endpoints with a cursor, the copy of employees, natural-key duplicates.
- *Patrols*: points and their results, issue types, photos beyond their upload.

Within the outbox: payloads (a repeated id with another payload is answered
from the stored row, as the code does), attempt counters and error texts, several phones
(operations are keyed by account, and nothing in `SaveOutbox` relates two accounts).
Time is only "more than five minutes have passed".
