# OrbitPlay API: a verification project

OrbitPlay lets a studio publish a play-test of its game and players play it for a
reward. The API is a NestJS process (any number of replicas) and a worker process
that share a Postgres database (Drizzle, READ COMMITTED), Redis, a BullMQ queue and
an S3 store. This directory holds TLA+ models of the parts whose correctness rests
on how those processes interleave, the TLC runs that check them, and theorems that
TLAPS proves about them for any number of players, requests, workers and rows.

Paths below are relative to the repository's implementation, `src/src/`.

## 1. What the system is made of

| Component | State it keeps | Operations | What is hard | What makes it correct |
|---|---|---|---|---|
| participations and sessions (`modules/participations`) | `tests.slots_taken`, `participations`, `sessions`, consents, the Redis heartbeat key | join, consents, start, heartbeat, finish, event batches, answers | several requests of one player at once, each made of separately committed statements; a heartbeat that overtakes a finish | slots are counted, never exceeded; one open participation per player and test; a closed session stays closed |
| session validation (`workers/session.processor.ts`) | `session_validations`, `xp_events`, statuses | one job per session | redelivery after a stall, a crash between steps, recordings failing before or after | one verdict, XP once per player and test, statuses that agree with the verdict |
| reconcile sweep (`workers/reconcile.processor.ts`) | none of its own | closes silent sessions, re-ensures lost jobs, settles exhausted ones | reads and writes apart, concurrent with everything | nothing stays open or unprocessed for ever |
| job queue (`infra/queue`, BullMQ) | jobs by deterministic id, attemptsMade, locks | `ensureJobEnqueued` | timeouts whose promise goes on, stalled jobs run twice, completed jobs that stay | a resource that needs a job gets one, once |
| tests and publication (`modules/tests`) | `tests`, the form, the audience | wizard steps, publish, pause, resume, finish | an edit or a second publish racing a publish; the row lock and the connection pool | what is published is complete and frozen |
| builds (`modules/builds`, `workers/build.processor.ts`) | `builds`, objects in storage | signed upload, confirm, delete, `build.validate` | confirm's enqueue error path racing the job; the same upload confirmed twice | a build settles; a published build stays playable |
| authentication (`modules/auth`) | `users`, `refresh_tokens`, `password_reset_tokens` | signup, login, refresh, logout, forgot, reset | refreshes racing each other, a logout or a reset | one working token per sign-in, sign-ins stay ended, a link works once |
| organisations (`modules/orgs`) | `memberships` | invite, change role or status, remove | two changes that each believe another owner is left | an organisation keeps an active owner |
| media (`modules/media`, `workers/media.processor.ts`) | `session_recordings`, upload sessions in Redis, objects | multipart upload, complete, transcode, extract audio | concurrent completes, enqueue timeouts, storage errors read as absence | an object has its row and a row its object; a recording settles, and fails for a cause |
| idempotency (`shared/interceptors/idempotency.interceptor.ts`) | `idem:*` keys in Redis | claim, store, replay, release | a handler slower than its claim; a failed store after a successful handler | a key executes once |
| what players are shown (`player-cta.ts`, `player-catalog.service.ts`, `modules/gamification`) | none of its own | views of tests, participations, results, Home, progress | the same rule written four times, in SQL and in TypeScript | every screen tells the same story, and offers what a request would do |
| games (`modules/games`) | `games`, `game_assets`, objects | CRUD, confirm and remove assets | two confirms of the same kind retire each other; a retried confirm | a card shows the image last confirmed; a listed image has its object |
| player feed (`modules/player`) | a snapshot of the ranking per seed | first page, next pages, expiry | games created, archived and removed while a player scrolls | one scroll shows a game once |
| access (`modules/access`) | groups, their members, the permissions of a game | create, replace, remove | lists replaced by DELETE and INSERT under READ COMMITTED | a list is one request's list |
| chat (`modules/chat`) | `chat_channels`, `chat_messages`, socket rooms, rate counters | send, moderate, archive, join and leave rooms | archive against send; the order of broadcasts from several replicas | rooms end up showing what the rows say |
| community (`modules/community`) | posts, reviews, reports | post, review, report, moderate | flood limit by INCR and TTL; eligibility read before the insert | one review per player (unique index); a limit runs out |
| reports (`modules/reports`, `workers/report-export.processor.ts`) | `test_report_snapshots`, `session_ratings`, exports | compute blocks, list sessions, rate, export | blocks cached after their invalidation; a rating against the verdict's job; an export whose enqueue is late | what is served is recent; blocks add up; an export settles once |
| dashboard (`modules/dashboard`) | KPIs cached in Redis for 60 s | read | the same cache-aside race | stale for one TTL at most; the Home agrees with cards and reports |
| lists read page by page (`shared/pagination`, notifications, audit and ten modules more) | none: the cursor is the client's | the next page | rows come late, leave and change between two pages | a walk shows each row once, and misses none that stays |
| migrations (`infra/database/migrate.ts`) | an advisory lock, Drizzle's journal, `__manual_migrations` | run by every replica as it boots | replicas boot at once with different images; the lock goes with its connection | each migration is applied once; who comes up has its own |
| test models, health, configuration | none, or rows written by one statement | reads | little: no state is carried over an await | - |
| shared HTTP layer, other adapters | none across requests | guards, filters, mail, telemetry | - | - |

How they interact. An HTTP handler is a sequence of awaited calls to Postgres,
Redis and the queue; other requests, the worker and the sweep run between any two of
them. The handler that closes a session commits and *then* enqueues
`session.validate`; the sweep is the backstop for an enqueue that was lost. A build
and a recording work alike. The worker writes rows that handlers also write
(`sessions.status`, `participations.status`, `builds.status`), with no lock in
common; a studio's rating writes the verdict the worker wrote. `auth` and `orgs` share
`memberships`. Most writers drop a cached block or KPI after their commit, in a call that
may fail. `PROJECT.json` lists the hazards of
this code line by line with the properties that cover each.

## 2. Modules

| Module | Models | Lines |
|---|---|---|
| `PlaytestLedger` | abstract specification: seats, outcomes, rewards | 42 |
| `SessionLifecycle` | join, consents, start, heartbeat, finish; `session.validate`; the session passes of the sweep; the job queue | 665 |
| `PlayerScreens` | what players are shown of those rows: what a test offers, a participation and its result, Home, progress | 208 |
| `TestPublishing` | wizard, publish, status, confirm and delete of a build; `build.validate`; the build pass of the sweep; the row lock and the pool | 489 |
| `MediaPipeline` | upload and complete of a recording, `media.transcode`, `media.extract-audio`, the recording pass of the sweep; object store, Redis, queue | 510 |
| `ReportCaches` | the snapshots of report blocks and the cached KPIs, their writers and readers over time; ratings against the validation job | 326 |
| `ReportMetrics` | the queries behind report blocks, lists, game cards, benchmark and Home, over rows that change as play, forms and reviews change them | 385 |
| `ReportExports` | an export: request, enqueue, job, redelivery | 212 |
| `Credentials` | signup, login, refresh, logout, forgot, reset | 303 |
| `OrgMembers` | invite, accept, role change, status change, remove, with the lock on the owners | 167 |
| `Idempotency` | claim, replay, store, release and expiry of one Idempotency-Key | 157 |
| `GameAssets` | upload, confirmation, retirement and removal of a game's images | 222 |
| `GroupAccess` | groups and permissions replaced as whole lists | 192 |
| `PlayerFeed` | snapshots of the ranking, pages, expiry, under changing games | 142 |
| `Chat` | one channel: messages, moderation, archiving, presence; the room on several replicas | 237 |
| `RateLimit` | the INCR and EXPIRE counter of chat, community and auth | 92 |
| `Pages`, `ListPages` | `shared/pagination`, and a client that reads one of fourteen lists with it while rows come and go | 30, 175 |
| `Migrations` | replicas that boot at once and migrate the database | 181 |
| `RequestRaces`, `LateWork`, `Studio`, `Reporting` | several of these modules side by side, with the constants and variables they are instantiated with and their assumptions | 20 to 30 each |
| `*Parameters` | constants of a module with their assumptions, so that an MC module can extend them and TLC evaluates them while the module itself is instantiated | |
| `MC*` | small instances, symmetry sets and action constraints for TLC | |
| `*Proofs` | theorems and proofs; each extends the module it is about | |

`SessionLifecycle` composes requests, worker, sweep, Redis and queue in one state,
because that is where they conflict; it implements `PlaytestLedger` (`ImplementsLedger`),
and `PlayerScreens` reads its rows. The other modules share no variable with it: a test is
already published in `SessionLifecycle` (its `SetTestStatus` is `SetStatus` of
`TestPublishing`), a recording fails at any moment (`RecordingFails`, whatever
`MediaPipeline` says of when), the rows of `ReportMetrics` change by the outcomes of its
operations only (`Join`, `Start`, `Ends`, `Judge`), `Rate` of `ReportMetrics` is
`RateCommits` of `ReportCaches`, and `AcceptInvite` of `OrgMembers` is the part of
`ResetCommits` of `Credentials` that an organisation can see.

Modules that share nothing and are small are put side by side, in a module that gives each its
variables: `RequestRaces` (`Credentials`, `Chat`, `RateLimit`), `LateWork` (`Idempotency`,
`ReportExports`, `Migrations`), `Reporting` (`ReportCaches`, `ReportMetrics`, `ListPages`) and
`Studio` (`GameAssets`, `OrgMembers`, `GroupAccess`, `PlayerFeed`). The runs and the proofs
extend the same module, so that `RoomAgrees` of the run `requests` and of `RoomShowsStored` are one
definition of one instance. A theorem is about the specification of a module alone
(`C!Spec`, `M!Spec`, `R!Spec`, ...); in a run (`MCRequests`, `MCRetries`, `MCReports`, `MCStudio`)
a module moves only while the others are in their initial state (one of it, `MCNoRows`
and `MCBare`, for the two that have many), so that the state spaces add up instead of multiplying,
and every behaviour of each module alone is there.

### How the models are made

* One action per step another process can observe: a statement that commits alone, a
  Redis or queue command, or the deciding statement of a transaction together with
  its commit. Reads that a later write relies on are steps of their own, and what was
  read is kept in the local state of the request (`req`), run (`run`) or sweep
  (`sweep`), as the code keeps it in a local variable across the `await`.
* READ COMMITTED. Each statement sees what is committed when it starts. An `UPDATE`
  over one row re-checks its `WHERE` after waiting for a lock, so compare-and-set
  updates are atomic steps. An `UPDATE` or `SELECT ... FOR UPDATE` over several rows
  takes the rows of its snapshot one by one, waiting for each: that is modelled in
  full where it matters (`left` in `Credentials`, `LockOwner` in `OrgMembers`).
* A request that answers 4xx before it wrote anything is the step that is not taken.
  An exception or the death of the API process is `RequestDies` / `RequestEnds` /
  `RolledBack`: committed writes stay, an open transaction is undone.
* BullMQ is external, modelled by what `ensure-enqueued.ts` relies on: a job per id,
  `waiting`, `active`, `completed` (kept for ever: the adapter sets no
  `removeOnComplete`) or `failed` with its `attemptsMade`; a job whose lock lapses is
  put back while its run may go on (`JobStalls`), and then ends without moving the job.
* Row ids are constants with their foreign keys pre-assigned (`UserOf`, `PartOf`,
  `FamilyOf`, ...): inserting takes an unused id with the wanted keys, so the models
  need no counters and the theorems hold for any number of rows.

### Abstractions

Dates, durations and money are reduced to what a guard tells apart (`played` is
"the duration is positive"; `reach` is none, zero or some). Expired tokens and links
are refused, which is a request not made. Role checks from the token, audit records and
notifications are left out: no modelled guard reads them; cache invalidations are in
`ReportCaches` only, and limits in `RateLimit` only, for the same reason. In `TestPublishing`, left out are `current_step`, `gamepad_supported`,
the audience filters, publish keys (they clash between tests only) and the
validation steps shown to the studio. In `SessionLifecycle`, `over` stands both for a
finished test and one past `ends_at`; the build and age checks of start are left out,
which only lets more starts through. The sweep's 15 minutes of grace are left out:
any row may be old enough. In `MediaPipeline`, all recordings are of one kind, a client
sends the upload id with its parts or neither, and thumbnails and signed URLs are left
out. The calls of `ensureJobEnqueued` (`getJob`, `getState`, then `add` or `retry`) are one
step in every module: a job that fails its last run exactly between the first two is
retried on the count read before, so the code can run it once more than
`MaxJobRuns` for each such race; and a `retry` that another one overtook throws, which
is `EnqueueThrows` or `SweepFails`. Statuses that no code writes (participation `tutorial`,
`abandoned`, ..., session `paused`, `finishing`, test `expired`) are not in the sets.

A screen of `PlayerScreens` and a block of `ReportMetrics` is taken at one moment: the code
runs several queries side by side, and what commits between two of them shows at the next
call. Averages are the rows they are taken over, rewards are counted and not added up, and
durations are left out. In `ReportCaches` a payload is what it was true of (`true`: still,
or until a moment), a fill takes at most `FillTime`, and time is a counter up to `MaxClock`.
`GameAssets` leaves out names, sizes and MIME checks beyond good or bad; `GroupAccess` leaves out
group names, which permission a row gives and who is eligible, which only decide what is
refused; `PlayerFeed` leaves out slugs, search and the page of one game; `Chat` leaves out
typing notices and the creation of channels (history is a list of `ListPages`); in `ListPages` a row
is an id and a status, and filters by text, role, actor or date are taken to choose rows as one by
status does; in `Migrations` the SQL of a file is a name, its checksum the text itself, and a
folder that is missing, which production refuses, is an image without files; in `RateLimit` a count stops at
`MaxCount`, which stands for "over the limit".

### State and actions against the code

| Code | Model |
|---|---|
| `participations.service.ts` `join`, `participations.repository.ts` `reserveParticipation` | `JoinCheck`, `JoinReserve` |
| `consents` | `Consent` |
| `sessions.service.ts` `start`, repository `startSession` | `StartCheck`, `StartClaim`, `StartBeat` |
| `heartbeat` | `BeatCheck`, `BeatTouch`, `MarkRecording` |
| `finish` | `Finish`, `FinishDelBeat`, `FinishEnqueue` |
| `processSessionValidate`, `creditSessionXp` | `RunTakes`, `RunJudges`, `RunReadsReward`, `RunCommits`, `RunEnds`, `RunFails` |
| `reconcileTimedOutSessions`, `reconcileUnvalidatedSessions` | `SweepSelectsOpen` ... `SweepEnds`, `SweepFails` |
| `ensureJobEnqueued` | `EnsuredJob` |
| `tests.repository.ts` `withRowLock` | `Begin`, `LockRow`, `Unlock`, `Commits` |
| `setModel`, `putForm`, `setAudience`, `publish`, `setStatus` | `SetModel`, `PutForm`, `SetAudience`, `PublishReads`/`PublishCommits`, `SetStatus`, `Refused` |
| `confirmBuild`, `deleteBuild`, `markBuildFailed` | `ConfirmReads` ... `MarkBuildFailed`, `DeleteBuild`/`RemoveObject` |
| `processBuildValidate`, builds of the sweep | `RunInspects`, `RunSettles`, ..., `SweepSelects`, `SweepEnsures`, `SweepSettles` |
| `auth.service.ts` and `auth.repository.ts` | `SignUp`, `Login...`, `Refresh...`, `Rotate...`, `Revoke...`, `ForgotPassword`/`InvalidateUnused`/`InsertLink`, `Reset...` |
| `orgs.service.ts` and `orgs.repository.ts` (`lockActiveOwners`, `findMembershipForUpdate`) | `Begin`, `LockOwner`, `Decide`, `Write`, `Invite` |
| `idempotency.interceptor.ts` `intercept` | `Look`, `Claim`, `Handle`, `HandlerThrows`, `Store`, `StoreFails`, `Release`, `Dies`, `Expire` |
| `media.service.ts` `createUploadUrl` | `StartUpload`, `TicketExpires` |
| `completeUpload` | `Complete`, `CompleteAgain`, `CheckConsent`, `Discard`, `LoadTicket`, `CompleteMultipart`, `Abort`, `Stat`, `Drop`, `Insert`, `DelTicket`, `Enqueue`, `EnqueueThrows`, `LateEnqueue`, `MarkFailed` |
| `processMediaTranscode` | `TranscodeInspects`, `TranscodeThrows`, `TranscodeSettles` |
| `processMediaExtractAudio` | `AudioReads`, `AudioExtracts`, `AudioThrows` |
| recordings of the sweep | `SweepSelects`, `SweepEnsures`, `SweepSettles`, `SweepEnsuresAudio` |
| `player-cta.ts`, `player-catalog.service.ts`, `participations.service.ts` (views), `gamification` | `TestCta`, `TestUnavailableReason`, `View`, `Listed`, `Result`, `Home`, `Progress` |
| `report-snapshot-cache.ts`, `dashboard-kpi-cache.ts` and their callers | `Join`, `SessionWrite`, `StudioWrite`, `SilentWrite`, `Drop`, `DropFails`, `Miss`, `Compute`, `Store`, `FillFails`, `ReaderLeaves` |
| `reports.repository.ts` `rateSession` | `RateUpserts`, `RateChecks`, `RateCommits` |
| `reports.repository.ts` blocks, `report-weeks.ts`, `dashboard.repository.ts` | `Overview`, `Evolution`, `RatingDistribution`, `TesterProfile`, `Evaluations`, `ListSessions`, `MetricsByGameId`, `GameBenchmark`, `KpiCounts`, `ValidSessionsPerDay` |
| `checkFormAnswers`, `submitFormResponse` | `CheckFormAnswers`, `Submit` |
| `reports.service.ts` exports, `report-export.processor.ts` | the actions of `ReportExports` |
| `games.service.ts` `createAssetUploadUrl`, `confirmAsset`, `removeAsset`, `remove` | `UploadUrl`, `Confirm`, `Stat`, `Reject`, `Insert`, `Retire`, `Clean`, `RemoveAsset`, `SoftDelete`, `RemoveGame` |
| `access.repository.ts`, `feed.service.ts` and `feed.repository.ts`, `chat.service.ts` and `chat.gateway.ts` | the actions of `GroupAccess`, `PlayerFeed`, `Chat` |
| `pagination.ts`, and every repository method that calls `buildPage` | `PageOf`, `TurnPage` over `Lists` |
| `migrate.ts` | `Acquire`, `TimesOut`, `ReadJournal`/`Migrate` (Drizzle), `Look`, `Apply`, `Finish`, `Release` |
| the limiters of `chat.service.ts`, `community.service.ts`, `auth.service.ts` | `RateLimit` |

The exact lines of every definition are in `PROJECT.json` under `map`.

## 3. What TLC checks

All constants are the smallest with which the races at stake can happen. `MaxFaults`
bounds failed, stalled or killed runs per behaviour; nothing else is bounded by a
counter, the row ids being finite.

| Run | Instance | Question |
|---|---|---|
| `session_lifecycle` | 1 player, 1 session, 2 requests, 2 job runs, 1 sweep, 1 fault | do the rows that requests, runs and sweep write apart agree (`StatusesAgree`), do closed and settled stay so (`OutcomesStay`), and does a participation read alike on every screen (`ParticipationReadsAlike`)? Two runs are needed for a redelivered job to race its first run, two requests for a heartbeat to race a finish. |
| `slot_reservation` | 2 players, 2 slots, one player with 2 participations that play, 2 session rows each | do slots, participations and XP follow `PlaytestLedger`; has a participation one session; do offers, Home and progress agree with what requests would do (`PlayerScreensAgree`)? Two participations of one player are what a second reward needs. |
| `session_liveness` | 1 player, 1 session, 1 request, 1 run, 1 sweep, 3 faults, 2 runs per job | does a closed session get its verdict, a silent one close? More faults than runs per job: exhaustion happens. |
| `test_publishing` | 2 requests, 1 build, 1 run, sweep, 1 fault | is what is published complete (`PublishedIsComplete`) and final (`PublishedIsFinal`); does a build settle? |
| `requests` | 1 user, 1 sign-in of 3 tokens, 2 links, 3 requests; 2 sockets, 1 message, 2 handlers; a counter up to 3, 2 requests | one working token per sign-in, sign-ins stay ended, a link works once, the invited stay out; rooms and presence end as the rows say; a count never outlives its window unless its request died, and then until the next attempt. |
| `retries` | 4 requests with one key; 2 exports, 2 runs, 3 faults; 2 replicas with any of 4 images, 2 generated and 2 manual migrations | how often is a key executed, and who gets which answer; does an export settle, once, with the outcome its file has; is a migration applied once (`MigratedOnce`), whether the database is empty, or has one whose checksum is of any text or was not kept? Four requests let a third and a fourth meet the leftovers of two that outlived their claims. |
| `media_races` | 1 upload, 2 rows, 2 requests, 1 run, files good or too large, no faults | when two completes of one upload race each other, a withdrawn consent, lost answers and deaths: does an object keep its row and a row its object (`ObjectsMatchRows`)? |
| `media_settles` | 1 upload, 1 row, 1 request and its retries, 2 runs, 2 runs per job, 2 faults, files good or junk | does a recording settle, and is a playable one never failed while its job has runs left (`FailsForCause`)? Two faults exhaust a job, or make a redelivered run overlap its first; one leaves it a run that the sweep must grant. |
| `reports` | 2 writers, 1 reader, 1 session, TTL 1, fill time 1, clock up to 3; 3 participations of 2 players in 2 of 3 tests, 2 games, a form of 3 questions and 7 ways to fill it in; 3 rows of any of 14 lists, pages of 1 or 2 | how old is what is served and why is it behind (`StalenessBounded`, `StaleForCause`); do ratings and verdicts agree and rejections stay; do blocks, lists, cards and the Home add up (`BlocksAddUp`, `HomeAgrees`); does a walk over a list see each row once (`WalkSeesEachOnce`)? The clock runs past TTL and fill time together; three rows leave one before, on and after the cursor. |
| `studio` | 3 members, 2 transactions; 2 covers, 1 screenshot, 3 rows; 1 group, 1 member, 1 game; 3 games, pages of 2 | does whoever counted owners leave one; has a listed image its object, and is the card the last confirmed; is a list one request's list; does a scroll show each game once? |

Some systems really stop: in `SessionLifecycle` every id may be used up, in `TestPublishing`
every request be over, in `ReportCaches` the clock be at its bound, in `MCStudio` every row
be taken. `slot_reservation`, the `TestPublishing` runs, `reports` and `studio` turn the
deadlock check off for that; `retries` names where its three modules stop (`MCAnswered`,
`MCExported`, `MCBooted`) and keeps it, as do the others.

Action constraints and symmetry (`MC*.tla`). `MCIdsInOrder` makes ids of the same
owner be taken in order: they are interchangeable, so no behaviour is lost up to
renaming. `MCNoNoise` keeps of the recording failures those that come while a run is
about to judge the session, the only reader, and of the consents those given before the
play. `MCRoles` gives one of two requests every operation of the studio and the other those
that decide the test (publish, status, delete), and `MCFewContents` gives a build only to a
test that needs one and whose audience has reach; two racing wizard edits, which touch
disjoint columns under the same lock, are left to the theorems, which have no such
restriction. `MCFewMembers` lets one member at a time be invited, removed or be given
something; `MCFewUploads` keeps covers and screenshots apart, orders the covers and lets only
the first be a bad object or be held by two requests at once; `MCGamesInOrder` numbers the
games. `MCFewRounds` writes a message or a channel but not both, and lets rounds of presence
overlap only while neither is. `MCFewFills` fills one of the two caches at a time; `MCFewRows`
gives one play either of two days, plays the test without a form only while there are no
answers, and reviews or removes games only while the second player is away; `MCJudgedAtFirst` lets
sessions be judged and rated only while the clock is at 0, as neither reads it (the run has 55 075
states and takes under a minute).
`MCRaces` keeps of the jobs only the transcode of the first row and leaves out late enqueues
and the sweep; `MCSettles` leaves out what happens before the INSERT (consent changes, expired
tickets, completes cut short), which `MCRaces` has, keeps of the late enqueues those of
the transcode, and never runs an audio job beside another run: the audio job writes
nothing that anything else reads, and none of these prunes a fair step for ever. The
theorems have none of these restrictions. `cut`, `refused`, `unqueued` and `misread` of
`MediaPipeline` are history variables: no guard reads them, and each is set only by the step it is
named for, so that a property can say "unless such a step happened to this upload". So are
`raced` and `clash` of `GameAssets`, `excused` of `ReportCaches`, `mixed` of `Chat`, `orphaned` of
`RateLimit`, `dropped` of `ReportExports`, `clean` of `GroupAccess`, `steady` of `PlayerFeed`, and
`lapsed` and `unchecked` of `Migrations`: each property says what holds unless two requests really
overlapped, or one died, on the same thing. `due` of `ListPages` and `ran`, `ranGen` of `Migrations`
are what their properties count.
Symmetry is over requests, workers and members that no definition
singles out, and only in runs without liveness properties.

Fairness. `FairSpec` assumes that the worker keeps consuming its queue
(`WF` on a run's own steps) and that the scheduler of `main.worker.ts` keeps firing the sweep
(`WF` on its steps), which is what that process does for as long as it is up; failures are
bounded by `MaxFaults`. Nothing is assumed of players, studios, clients or API
requests: a request may stop after any step for ever. `AwaitsReturn`, used only to
show the pool deadlock, grants requests more than that (`SF`: pool connections and row
locks are handed out in the order they are asked for) so that the counterexample
is not one of an unlucky request.

### What the code does otherwise

These runs check a statement that a comment or a document of the repository makes,
and TLC finds it violated. Each is listed under `findings` with the lines.

| Run | Statement | What happens |
|---|---|---|
| `rejoin_after_completion` | a player who completed a test takes no other slot | the completion is checked before the transaction of join and not in it. |
| `pool_exhausted` | the row lock is held until the transaction ends | its holder waits for a second connection, all of which are held by requests waiting for its lock. |

Seen while modelling. What follows is what the code does, in the order of its parts; the
properties claim no more than is left of each, as their comments say.

* Sessions. A session whose heartbeat key was never set (the request died or the sweep ran
  between the INSERT and the SET, `sessions.service.ts:93`) is closed as timed out. A
  validation whose job is exhausted leaves its session without a verdict for ever
  (`ClosedIsValidated` says so). A session validated while one of its recordings is failed
  is judged invalid (`session.processor.ts:67`), though `schema/participations.ts:108`
  says that a recording does not take the session down; the session view then reads
  "abandoned". Rewards are counted once per completed participation, XP once per test.
* Screens. Join refuses by age what the offer of a test shows as "start", which does not look
  at the age. After a rejoin race, a rejected second participation makes a completed test
  show "start" again. The Home looks at the newest four participations only, and the
  earnings of a player are shown in the currency of whichever reward row comes first.
* Builds. A failed build whose upload is confirmed again gets the same id, its completed
  job is taken for one that will run, and it stays processing through every sweep
  (`ProcessingSettlesOrRan` says so). An enqueue that timed out but landed lets the build be
  validated and its test published before the error path of confirm marks it failed by id
  alone (`tests.service.ts:292`), as does a stalled run while storage does not answer stat
  (`build.processor.ts:155`): no property says that a published build stays validated.
  `deleteBuild` removes the object after its transaction (`tests.service.ts:338`), so a client
  that confirms the same upload in between has a row without an object, which
  `build.validate` then fails.
* Sign-ins. A login that verified the old password can insert its token after the reset, and
  a rotation can commit between the snapshot of the revoking UPDATE and its end: the
  sweep of a reset does not wait for tokens it does not see. Two simultaneous requests for a
  reset link leave both links open.
* Organisations. A transaction all of whose snapshot owners vanish before it locks them
  counts none and is then free to write, so the last owner survives every transaction that
  counted one (`OwnerSurvivesCount`) and no more than that can be claimed.
* Recordings. A request that dies between its two enqueues, or an audio job that fails every
  run, leaves a recording that becomes ready with no extracted audio, since the sweep
  only looks at recordings still processing. A complete that is refused after its upload was
  completed by another leaves the object, as the abort it sends has nothing to abort.
  A recording of the microphone alone has no video, so its transcode always fails it.
  An enqueue that timed out but landed may make a recording ready, which the error path of
  its complete then marks failed by id alone (`media.service.ts:235`).
* Idempotency. A handler that takes longer than the 60 s of its claim lets its key execute
  twice, and so does an answer that could not be stored (`OncePerLapse` says how often).
* Games. Two confirms of a cover retire each other (`games.repository.ts:309`) and leave the game
  without one until the next confirm, and two of the same
  key, as a retry makes, remove their own object. The slug of a removed game stays taken.
* Feed. A game moved back to draft is shown until the snapshot lapses, while its page is
  gone at once. A seed that lapses while a player scrolls gets a new ranking at the old
  offset, which may repeat or skip games (`steady` in `FeedShowsEachOnce`).
* Access. Two replacements of one list that overlap leave the union of both, as the second
  DELETE does not see the rows the first inserted. A set that checked a group before the
  group was removed leaves rows, which the list of groups hides.
* Chat. `message:new` can go out with its body after the message was moderated, and stays on
  the screens of the room until they reload (`mixed`). The broadcast of presence at a
  disconnect has no catch.
* Reports. No sweep looks at exports: one whose request dies before its enqueue stays
  `processing` for ever, and one whose enqueue timed out but landed may end failed with a
  file in storage. The tally of tester profiles drops players of tier `all`, and an average takes ratings of any scale while the distribution takes
  those on its own.
* Lists. An id is made before its INSERT, so a row that commits late, or comes from a replica whose
  clock is behind, can have an id that a client has passed: its next page does not show it, and
  `WalkSeesEachOnce` asks only for rows that lay ahead. A post or message that was removed may be
  restored (`community.service.ts:26`), and no code writes a notification.
* Migrations. A runner whose connection is lost goes on with another, which does not have the lock
  (`lapsed`): `migrate.ts:33` counts on one session. A file applied before checksums were kept is
  given the checksum of whatever text the image has (`migrate.ts:175`), unread (`unchecked`).
* Dashboard. The Home counts tests and sessions of removed games, which no card shows.

## 4. What is proved

Every safety invariant and every action property that a run checks and finds to hold is a theorem,
as is the refinement of `PlaytestLedger`. The theorems hold for every value of the constants that
satisfies the named assumptions:

| Assumption | What it says |
|---|---|
| `RowsAssumption`, `RecordingsAssumption`, `PublishingAssumption`, `OwnersAssumption`, `AssetAssumption`, `MembersAssumption`, `RetriesAssumption`, `NoSessionAssumption` | foreign keys are functions on ids; sets of rows are finite where they are counted; the sentinels are not ids |
| `BoundsAssumption`, `RunsAssumption`, `FaultsAssumption`, `TimeAssumption`, `MaxCountAssumption`, `PagesAssumption`, `FeedAssumption` | the bounds are natural numbers, and positive where zero makes no sense (runs of a job, attempts in a window, length of a page of the feed) |
| `ChatAssumption`, `GroupsAssumption`, `PartIdAssumption` | ids of different kinds are different; ids of participations are unique, and numbers, since they are compared |
| `MigrationsAssumption` | an image has generated migrations up to some number and files with numbers; a file is its SQL and its line endings |
| `MetricsAssumption` | the data `ReportMetrics` is given are of their types: users, tests, questions are finite, days are numbers, a scale lies within the bounds of a rating |

None bounds the number of players, requests, workers, sweeps, replicas or rows. `PartsReadAlike`
and `ScreensAgree` have one hypothesis more, `[][IdsGrow]_vars`: of two participations of a player,
the later one has the greater id. Ids are UUIDv7s made by the replica that joins, so that is so as
long as clocks agree to within the time between two joins of one player. Without it
`findLatestParticipations` can return a settled participation while one with an older id is in
play, and the statements are false. The instances of the runs satisfy it.

`SessionLifecycleProofs`. `TypeCorrect` first, then `AlwaysCoherent`: the
invariant `Coherent`. The properties one wants (`StatusesAgree`,
`RewardedExactlyOnce`) are not inductive: an UPDATE by id at the end of a handler
preserves them only if the handler's earlier read still means something.
`StatusTable` says what verdict and participation each session status allows;
`OnlyClosedAreJudged` says that whoever is about to judge or enqueue a session holds
one that is closed, so that a heartbeat's or a sweep's conditional UPDATE cannot touch it;
`RewardReadIsCurrent` says that the SELECT of an earlier reward is still right when
the run commits: it holds because another reward for the same player and
test needs another participation in play, which `OneActiveParticipation` excludes until
this one is settled. From `Coherent` follow `StatusesCorrect`, `RewardCorrect`, `OneAtATime`,
the action property `OutcomesForever`, and `LedgerImplemented`:
every step of requests, runs and sweeps is one step of `PlaytestLedger` or none.
`SlotsCorrect` rests on cardinality: the CAS and the INSERT add one to both sides.
`PartsReadAlike` and `ScreensAgree` follow from `Coherent` and `ScreensInv`: a participation past its
reservation has a session, and one that is active is the latest of its player and test, so that a
query which asks for the latest alone sees it (`ActiveIsLatest`).

`TestPublishingProofs`. `LockProtects` is the invariant behind `PublishedComplete`,
`PublishedFrozen` and `FinishedForever`, together `PublishedFinal`: a request past `LockRow` and before its
commit is the one the lock names, so the status it saw and what `NothingPending`
read are still so when it commits. Build rows are written outside the lock, but only
their status: the presence of the row, all the theorem claims, changes under it.

`RequestRacesProofs`. Credentials: `HoldInv` relates each request to the rows it holds: a rotation
that claimed its token finds it live when it commits and is alone with it (`TokenReads`),
a reset its link open (`LinkReads`). From it follow `SignInHasOneToken`, `InvitedIsOut`,
`EndedForever` and `LinkOnce`. The member read that precedes a token is not held by
anyone; `InvitedIsOut` survives because no operation turns a member back into
an invited one.
Chat: that a room which is told everything shows what is stored is not inductive, as the telling
takes many steps. `RoundsAlone` says that a round no other overlapped is the only one of its
item, `RoundsTell` that it tells what is stored now, and that whoever does not show that yet is
still to be told; a round to everyone repairs what an earlier overlap left (`ChatInv`). From it follow
`RoomShowsStored` and `RoomShowsMembers`. Rate limit: `LimitRunsOut` is inductive beside its types
(`LimitsRunOut`).

`StudioProofs`. Members: `CountInv`: counted owners are locked by one transaction, and a
transaction that takes ownership away spares one of those it counted
(`OwnersAreHeld`, by cardinality of the counted set). `CountedOwnersStay` and
`OwnersOutlastCounts` follow.
Groups: `AccessInv` relates a list to the requests at it. A replacement that overlaps with no other saw
all that it is to delete (`DeletesAll`), whoever overlaps knows (`Overlapping`), a group that is being
renamed is held by one request (`OneHolder`), and a list reads as it was last asked for
(`ReadsAsAsked`). `ListsReadAsAsked` follows. Feed: `FeedInv` says where a scroll stands. Its page
ends at an offset of the snapshot, which is the cursor; what was shown are the games before that place
but for the removed ones, each once (`Scrolled`). `ScrollsShowEachOnce` follows, as pages of one
snapshot do not overlap.

`LateWorkProofs`. Idempotency: "at most once" is not inductive: a request whose claim ran out
may still be running, and one whose store failed is about to delete an entry that is
no longer its own. `Budget` counts both: executions done, plus requests that run or
are yet to delete, never exceed the lapses so far plus one for a claim or an answer in place;
and a claim that nobody holds has cost nothing. `AnswersAreWritten` says that what is
stored or about to be was written. `ExecutedOncePerLapse` and `AnsweredAlike` follow.
Migrations: `BootInv`. A row of `__manual_migrations` says what was run, and there is one for whatever was
(`RowsAreRuns`: row and SQL are one transaction); what a runner is past was run as its image has it
(`PastAreRun`); the journal claims only what was run (`JournalIsRun`); and while the lock lasts one
runner is at work and what it read still holds (`LockKeepsApart`). The last part is
used for generated migrations only: manual ones are kept apart by their transaction and the primary
key, so `BootsMigrateOnce` holds for them although the lock may be lost. Exports: `ExportInv`. One
run holds the job (`OneHolder`), the job comes after the row (`JobAfterRow`), and a run is where what
it has found lets it be (`RunsInOrder`). `ExportsAreAttended` is part of the invariant,
`ExportsSettleOnce` follows from it.

`MediaPipelineProofs`. `TypeInv` adds to the types what keeps the retry counter in
its bound: an active job has one lock, held by a run of it, and a job that may still run has runs
left (`MediaTypes`). `Lasting` lists what no request undoes (an upload that began, its
file, a row, an object unless refused or too large), and `Held` what each actor goes on from:
a request past `Stat` has its object, a request that marks a row failed saw its
enqueue throw, jobs, runs and the sweep are about rows that exist, and a run or
sweep about to write `failed` has a cause. The properties alone are not inductive: that a
failing transcode of a playable file has a cause needs that the object of a
row is there, which needs what the requests hold. A fault is not a cause by itself: a sweep about
to settle a recording has seen its job fail `MaxJobRuns` times, a count no step takes back. `ObjectsHaveRows` and `RowsHaveObjects`, together
`ObjectsGoWithRows`, and
`FailsForCauseOnly` follow.

`ReportingProofs`. Caches: three invariants, each with what its property lacks. `DatesInv`: an
entry was computed at most `FillTime` before it was stored and a fill under way is no
older than that, so what is served was true within the last TTL and fill time
(`ServedIsRecent`), whatever drops failed and fills were overtaken. `CauseInv` is
`StaleForCause` itself: a write either leaves the pending drop behind or excuses the
cache, and a fill that a write overtook is excused when it is stored (`BehindForCause`).
`RatingInv` adds that whoever is about to mark a session found it judged
(`MarkedWereJudged`): the verdict and the rating are written apart, and it is that a verdict
once written is never taken back which makes them agree (`MarksAndVerdictsAgree`,
`RejectedForGood`).
Lists: `WalkInv` says what a client is owed between two pages: it has seen the row or the row lies
beyond its cursor, in any list and for pages of any length. What `ORDER BY id LIMIT n + 1` returns is
given by counting rows (`Nth`), so `PagesMissNothing` rests on the fact that the nth row of a finite set
exists, is alone, and that the rows before it are n - 1.
Numbers: the step is easy (`RowsInv`: what the guards of play, forms and verdicts leave of each row),
the sums are not. `Total` is a fold over a set, whose library definition picks elements with
CHOOSE: `SumIs` shows that it comes to `h[S]` for any `h` that grows by each element as it is added, and
`CountedByLabel` that things which have one label each are counted once when
they are counted label by label. Each equality of `BlocksAddUp` and `HomeAgrees` is one
such count (`BlocksTellOneStory`, `HomeNeverDisagrees`).

`GameAssetsProofs`. `ObjectInv`: an object disappears only under a request that holds its
key, so a live row without its object needs a second request on the key (`HeldOnce`),
a second row of it (`RowsAlone`), or a request that confirms or cleans what has a row
already (`ConfirmedAlone`, `CleanedAlone`); each of these has raced. `ShownInv`: a request that
retires has inserted the newest row of its kind (`RetiresForLast`) and the newest row is never
retired (`LastStands`). That a non-empty set of rows has a newest one, which the operator of
the model takes with CHOOSE, is proved by well-foundedness (`HasLatest`). `ListedHasObject` and
`CardShowsLatest` follow.

Induction over finite sets. The library's induction theorems take an operator as a parameter and
cannot be used. Where a fact about every finite set is needed (`SumIs`, the nth row of `Pages`,
`HasLatest`, and the sums of `PlayerScreens`) it is proved by a smallest counterexample: the
sets that would be one have cardinalities in Nat, a non-empty set of which has a least one
(`WFMin` of `WellFoundedInduction`).

Model-checked only. Liveness under fairness (`ClosedIsValidated`, `SilentCloses`,
`ProcessingSettlesOrRan`, `RecordingSettles`) is out of the provers' reach, and so is what needs
ENABLED. The violated statements stay with TLC.

## 5. What is not modelled, and what is left

Not modelled because no state is carried over an await there: test models (templates, plain CRUD), health, configuration, and the stateless part of the HTTP layer
(guards, filters, DTOs). Mail, telemetry, payment, AI and speech adapters keep no state, or are
stubs.

Inside modelled components: the event batches and the timeline of a session (no status depends on
them; the telemetry store deduplicates by session, event and time of reception, which does not
recognise a batch sent again), profile edits, catalogues and store pages, slugs and searches,
reports of a post (appended and read by nobody), which request records what in the audit log,
levels, missions and rankings, the per-step report of a build, download and playback URLs, thumbnails, layouts of
exported files.

What would come next: the steps of `ensureJobEnqueued` apart, for the extra run that its race can
give a job; an abstract specification of a settling resource (absent, pending, settled once) which
`MediaPipeline`, `ReportExports` and the builds of `TestPublishing` would all be shown to implement, as
`SessionLifecycle` implements `PlaytestLedger`; and events and timeline of a session.

A hazard without a property is one where the code does what a property would forbid and no
weaker statement says anything: `tests.service.ts:292`, `auth.repository.ts:312`,
`reconcile.processor.ts:89`, `ensure-enqueued.ts:41` and `media.service.ts:235`. Their steps are in
the models, and what they lead to is listed under "Seen while modelling"; where a property meets
one of them, it excuses it (`ProcessingSettlesOrRan`, `FailsForCause`). A hazard with a property
and a note is one of which the property covers a part; the note says which part it excuses.
