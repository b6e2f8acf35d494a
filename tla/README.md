# Verification of Shadower Analytics

TLA+ models of Shadower Analytics: the parts that keep state and run
concurrently, the services that read the dashboards' data, and every handler of
the API; TLC runs that check them on small instances; and TLAPS proofs of every
safety property that the runs check (section 4). All paths below are relative to the repository; `B/` is
short for `backend/src/`. `PROJECT.json` holds the exact list of runs, the source
lines every definition stands for, the hazards and the theorems.

To repeat the checks, run `tlc -config <cfg> <module>` for a row of the table of
runs and `tlapm <module>.tla` for a module whose name ends in
`Proofs`.

## 1. The system

A FastAPI server (`B/api`) answers REST requests and keeps WebSocket connections;
Celery workers run periodic and queued tasks (`B/tasks`, `jobs/`); both share one
PostgreSQL database through SQLAlchemy sessions and one Redis. There are no locks
in the code and no `SELECT ... FOR UPDATE`: what keeps the parts from disturbing
each other is the order of their commits, unique indexes, and, within one server
process, the fact that coroutines switch only at an `await`.

| component | state | operations | talks to | status |
|---|---|---|---|---|
| notification queue | `notification_queue`, `notification_log` | enqueue, process a batch, retry failed ones, mark for retry | preferences, templates, channels, WebSocket | modelled |
| digest queue | `digest_queue` | queue a digest, send the due ones | preferences, notification queue | modelled |
| WebSocket connection manager | registries of connections, subscriptions, streams, rooms; one task per stream and heartbeat | connect, messages of the client, broadcast, disconnect | WebSocket rate limiter, notification channels | partly |
| gateway rate limiter | a sorted set per client in Redis | check a request, forward it | every route | partly |
| WebSocket rate limiter | a dictionary of times per user | check, quota, reset, clean up | WebSocket routes | modelled |
| data exports | `export_jobs`, `export_files`, files on disk, Celery messages | create, process, retry, delete, clean up | analytics tables | partly |
| rollup aggregation | hourly and daily tables, Celery messages | hourly and daily rollup, retry, by hand | execution logs, user activity | partly |
| cache | Redis keys with a time to live: responses (gateway) and results (`@cached`) | get, compute, store, flush | all read services | partly |
| dashboard reads | the session of a request: connection, transaction, statements under way | the read functions of 15 services | PostgreSQL | partly |
| API handlers | the session, Redis, the tasks sent | all mounted handlers | all services | partly |
| export, report, preference, view, alert, administration and authentication handlers | as above | create, change, delete, refresh | `get_db`, Celery | see PROJECT.json |
| maintenance, channels and templates, pub/sub relay, middleware, integrations, frontend, migrations | | | | not modelled (see 6) |

What makes each modelled part correct, and what is hard about it:

- **Notification queue.** Nothing of a notification is sent again once a channel
  has said yes to it; it is tried at most `max_attempts` times and not forgotten.
  A batch is selected without a lock and sent row by row, so beat can start the
  next run while one is still sending; a process can die after the channel has
  accepted a message and before the row is committed; a sender returns `False`
  after any exception, also one that hides that the message has arrived; the
  retry task writes back a status that it read earlier. When a template fails the
  except branch raises itself (`content.get` of `None` while it logs), so that the
  failure is committed with the next row of the batch or rolled back.
- **Digest queue.** A digest goes out once and only if something was queued for
  it. One session serves a whole run; a statement that fails leaves it unusable
  for all digests after that one.
- **WebSocket connection manager.** Five registries have to agree although every
  `await` lets other coroutines run: a broadcast iterates over a dictionary that
  joins and leaves change; `start_stream` waits for the stream it replaces while
  the connection may be disconnected.
- **Rate limiters.** At most so many requests in a window, and nobody refused
  without need. The gateway's limiter is four Redis commands one after the other.
- **Rollups.** The counts of an hour are final once its task has run after its
  end, and no task is forgotten. Beat's message can start late, expire, be
  delivered again or be retried; an upsert reads in one snapshot and shows its
  rows later, while another execution may be doing the same; the three tables of
  an hour are committed one by one.
- **Caches.** How old an answer may be. Two layers are filled one after the
  other, each with Redis commands that may fail; a flush reaches one of them and
  may pass a request that is about to store what it read before.
- **Dashboard reads.** What a failure does to the rest of an answer. Many
  services gather their parts on one `AsyncSession`, which refuses a second
  statement while it waits for its connection, and answer a failed statement with
  zeros without a rollback, after which every other statement fails.
- **Handlers.** What is true when the client has its answer: an error should mean
  that nothing happened, a success that it is stored. Handlers go on after their
  commit; `get_db` commits after the response; `except Exception` catches the
  handler's own `HTTPException`.
- **Exports.** A completed job lists files that exist and can be downloaded.
  Tasks are acknowledged late, so they can be delivered twice and run at the same
  time; attempts work on a copy of the row; the route deletes files and rows
  meanwhile.

## 2. Modules

Each component has a module with its state and one action per step of the code,
a step being what happens between two points where another process, coroutine or
failure can come in between: one transaction, one Redis command, one change of
the file system, or one stretch of code between two awaits. The MC module beside
it extends it for TLC; `MCServices` puts four models side by side. Definitions called *Mutant* in a comment are wrong
versions of the definition below them; no specification uses them. They serve to
show that each property can tell the code from a plausible bug.

| module | models |
|---|---|
| `NotificationQueue` | `B/services/notifications/notification_system.py`, `delivery_tracker.py`, what `channel_manager.py` and `template_engine.py` return, `jobs/notifications/notification_processor.py` |
| `DeliveryContract` | abstract: absent, waiting, attempting, delivered; at most `MaxAttempts` attempts, never two at a time; each reaches the recipient once at most; delivered is final and only said of what arrived. A failure may be recorded as the next attempt begins, and an attempt may be lost |
| `NotificationQueueProofs`, `GatewayRateLimiterProofs`, `WebSocketRateLimiterProofs`, `WebSocketManagerProofs`, `DigestQueueProofs`, `ExportJobsProofs`, `RollupProofs` | theorems about the module they are named after |
| `ServicesProofs` | theorems about `CacheLayers`, `SharedSession` and the handlers, and about the four models of `MCServices` side by side |
| `DigestQueue` | `B/services/notifications/digest_builder.py`, `jobs/notifications/digest_sender.py` |
| `WebSocketManager` | `B/api/websocket/manager.py`, `B/api/routes/websocket.py` |
| `GatewayRateLimiter` | `RateLimitMiddleware` in `B/api/gateway.py` |
| `WindowLimit` | abstract: a request passes exactly if fewer than the limit passed in the window |
| `WebSocketRateLimiter` | `B/api/websocket/rate_limit.py` |
| `ExportJobs` | `B/services/exports/export_processor.py`, `B/tasks/exports.py`, `B/api/routes/exports.py` |
| `Rollup` | `B/services/aggregation/rollup.py`, `B/tasks/aggregation.py`, the beat schedule in `B/celery_app.py` |
| `CacheLayers` | `CacheMiddleware` in `B/api/gateway.py`, `B/services/cache/decorator.py`, `B/core/redis.py` |
| `SharedSession` | one request and its session: `get_db`, and what SQLAlchemy, asyncpg and asyncio do with gathered statements (external) |
| `DashboardReads` | for `SharedSession`: the functions of the read services, 23 services with their parts |
| `RequestLifecycle` | what a handler leaves behind: steps, except clauses, `get_db`, a task that starts at any time |
| `ServiceRoutes`, `DashboardRoutes` | for `RequestLifecycle`: the handlers of `B/api/routes` and the service functions they call |
| `MCServices` | the instance for the caches, the session, the handlers and the WebSocket limiter |
| `MCNotificationQueue`, `MCDigestQueue`, `MCWebSocketManager`, `MCGatewayRateLimiter`, `MCExportJobs`, `MCRollup` | the other instances for TLC: symmetry sets and constant functions |

### NotificationQueue

`row` is the table, `due` the rows whose `scheduled_for` has passed. A worker is
one run of `process_notification_queue`. The session is made with
`expire_on_commit=False` (`B/core/database.py`), so the second SELECT in
`process_notification` returns the object of the batch: `seen[w]` keeps the
attempts a row had then, and `MarkProcessing` writes `seen + 1`, whatever the
table holds. `Render`, `SendAccepted`, `SendRefused`, `AnswerLost`,
`CommitDelivered` and `CommitFailed` are the steps of one attempt; `AnswerLost` is a
`False` for a message that has arrived.

A template that cannot be rendered (`RenderFails`) sets `status = failed` on the
object and leaves `process_notification` by an exception before the log entry and
the commit. `process_notification_queue` catches it and goes on with the same session, so
the commit of the next row writes that status too (`Flushed` in `MarkProcessing`);
after the last row `get_db` closes the session and the status is rolled back
(`RunForgets`): the row stays in processing with nobody on it.

`retry_failed_notifications` and `mark_for_retry` read first and commit later
(`RetrySelect`, `RetryCommit`, `MarkForRetrySelect`, `MarkForRetryCommit`). `WorkerDies`
and `RetrierDies` lose what was not committed. `tries`, `accepted` (sends a channel
said yes to), `denied` (sends that arrived but returned `False`), `unlogged` (tries
whose template failed), `orphans` and `forgotten` (rows left in processing by a death,
by a run that ended) are history; `faults` counts deaths and lost answers for the bound.

### DigestQueue

One row per user for one period. `gen` and `snd` are the runs of the two tasks;
`broken` says that a statement on the run's session has failed. `queued` counts
the rows a digest has in `notification_queue`, which is where the two queues
meet: everything after that is `NotificationQueue`. A second INSERT for a period
is refused by the unique index and breaks the generator's session as well.

### WebSocketManager

`members` stands for the keys of the three registries that `connect` fills and
`disconnect` empties together; `streamKeys` and `stream` are `active_streams`;
`room` one room. `entries` is the insertion order of `active_connections`
including the holes that `del` leaves, because that is what the iterator of a
broadcast walks over; a broadcast raises `RuntimeError` when the size has changed
between two items (`SizeChanged`), and goes on with the old dictionary when the
workspace got a new one (`generation`). `handler[c]` is where
`websocket_endpoint` of connection `c` stands, `awaited[c]` the task that
`stop_stream` waits for.

### GatewayRateLimiter, WebSocketRateLimiter

In the gateway each request passes `trim`, `count`, then `refuse` or `add`,
`expire`, then `forward`, one Redis command at a time, with other requests in
between. Members of the sorted set are times in seconds as strings, so two
requests of the same second are one member. The WebSocket limiter never awaits;
each of its calls is one step.

### ExportJobs

`request[j]` is the request that creates the job, `messages` the broker,
`worker[w]` the attempt a worker is making with the copy of the row it works on
(`local`), `deleter` the request or clean-up that deletes a job. The attempts of
a job write files under names of their own (they carry the time), which
`attempts` stands for.

### Rollup

Two ticks make an hour: the first ends at minute 5, when beat sends the hourly
task. `task[t]` is the Celery task of that hour, one sent by hand
(`Manual`), or the daily one; `target` is fixed when it starts, unless it came
without an argument, when each start computes the hour anew (`Target`). An upsert
is `Snapshot` and `Commit`. `Fail`, `LoseWorker`, `RunAgain` and `Expire` are the
ways in which an execution does not end, or begins again. Logs and activity go on being written meanwhile. `by` in a row is history.

### CacheLayers

`entry` has one key per kind of request at the gateway and one for the function.
A value is the time at which the function read the database, so the age of an
answer is a number. Each Redis command of a request is a step of its own and may
fail, which the code treats as a miss. `MaxDelay` bounds the time a request takes.

### SharedSession and DashboardReads

`part[i]` is a part of a service: a coroutine that runs from `least` to `most`
statements, catches exceptions of a statement or of its rows or passes them on,
and may commit or roll back. `queue` is the order in which the connection serves
them. `DashboardReads` translates each function of the services to a `Part`, and
each service to the way it awaits its parts: one by one (`InTurn`), gathered with
`return_exceptions=True` (`Together`), or gathered without (`Abandoning`).

### RequestLifecycle, ServiceRoutes and DashboardRoutes

A handler is a list of steps before and inside its `try`, and a table from what
they raise to the status that is answered. A step looks, changes, commits, does
something no rollback undoes, sends a task, or waits for one. A task is about a row
that the handler has added (`Enqueue`) or about one the client names: the validation
of an export sends one and waits up to 30 seconds for its result or its exception
(`Ask`, `Wait`). `ServiceRoutes` holds the handlers that create, change or delete,
`DashboardRoutes` the others. A call that cannot succeed at this commit (`.query` on an
`AsyncSession`, `get` on `None`, `uuid.uuid4()` where `uuid` is not imported) is
`Fails`. Commands that the Redis wrapper does not have, such as `setex`, fail and are
caught (`NoSuchCommand`). The checks of dependencies (who the user is) come before a
handler and are left out, as are the entries that `@cached` stores, which are in
`CacheLayers`.

### MCServices

These four models share no variable. One run checks them side by side: `inUse`
says which of them moves, the others rest in one initial state, so the states of
the run are the sum and not the product of theirs. `WebSocketRateLimiter` names
its definitions `Limiter...` so that it can be extended with the others.

## 3. Runs

| run | configuration | what it shows |
|---|---|---|
| `queue_overlap` | `Queue_overlap.cfg` | two overlapping batch runs, a retry, failing templates, a crash or a lost answer: attempts stay in bounds; a row is in processing only with a worker on it, after a crash, or after a failed template at the end of a batch; the log accounts for every other attempt and every accepted message |
| `queue_single` | `Queue_single.cfg` | with one run of each task at a time and two crashes or lost answers anywhere: nothing sent after a yes, tried at most `max_attempts` times, the contract is kept, every row is delivered, out of attempts, or its last outcome is one that nobody committed |
| `ws_safety` | `WS_safety.cfg` | the registries agree, an ended handler leaves nothing behind, a running stream can always be cancelled, a broadcast that nobody disturbs reaches all, and a connection whose client went away is cleaned up |
| `gateway_concurrent` | `Gateway_concurrent.cfg` | nobody is refused below the limit, whatever interleaves or fails; while requests come one by one, no more than `Limit` distinct seconds get through in a window and Retry-After is long enough |
| `digest_overlap` | `Digest_overlap.cfg` | two senders and a generator, a failed statement, a crash: what is marked as sent was queued, a digest is queued once plus once for each failure, crash or other run, and it goes out |
| `export_overlap` | `Export_overlap.cfg` | retries, redelivery, a lost worker and deletion: a completed job has its files, counts are backed by rows, completion is final as long as no message comes twice, every job ends or has had its last chance |
| `rollup_hours` | `Rollup.cfg` | late starts, retries, second executions, lost workers, a task by hand: an hour is counted only when it is over, its counts are set back only by another task, and it is missed only if its task was late, expired or failed for good |
| `services` | `Services.cfg` | the age of answers through both caches; what one failed or refused statement does to a dashboard; which handlers can answer an error after they have done something, or a success that is not stored; that the WebSocket limiter implements `WindowLimit` |

Four runs are expected to fail. Each states what a comment or doc says, and TLC
shows a behaviour of the code in which it does not hold:

| run | configuration | what happens |
|---|---|---|
| `queue_double_processing` | `Queue_bad_OnlyPendingIsProcessed.cfg` | two runs select the same pending row and both process it |
| `gateway_handled_twice` | `Gateway_bad_HandledOnce.cfg` | a handler that raises is called again by the except clause meant for Redis |
| `rollup_daily_sum` | `Rollup_bad_DailyIsSumOfHours.cfg` | the daily query joins hourly rows with the logs of the day, so two executions become four |
| `file_download` | `Services_bad_FileArrives.cfg` | the cache of the gateway reads a file to its end to parse it as JSON, and returns a response with nothing left to send |

`ErrorLeavesNothing`, `DoneIsStored`, `ChosenStatusArrives` and `TaskFindsItsRow`
hold for all handlers but those in three named sets (`CanFailAfterwards`,
`AnswersAnyway`, `CatchesItsOwn`) and, for `TaskFindsItsRow`, the bulk export and the
validation, of which it says that the client is not told 200 about a row no worker
found. The sets are part of the result: `HandlersAssumption` says that they hold
exactly the handlers whose order of steps breaks the rule, and TLC evaluates both
directions, so a change of the code that adds a handler to a set, or makes one that
is in it keep the rule, fails the run.

### Bounds

Every bound is a CONSTANT. The interesting cases need two actors of a kind and
one of each other kind, and the instances have that.

- `Queue_overlap`: 2 rows, 2 workers, 1 retrier, `MaxAttempts` 2, a batch of 2, 1
  crash or lost answer. Two workers on one row while a retrier puts it back is the
  shortest way to a stale write, and the second row lets a worker hold it unread
  meanwhile, or take a failed template's status along with its own.
- `Queue_single`: 3 rows with a batch of 2, so that a batch is cut off;
  `MaxAttempts` 2 (3 in the code), enough for a retry that succeeds and one that is
  the last; 2 crashes or lost answers, so that one follows the other. Failing
  templates and refused sends are not bounded.
- `WS_safety`: 2 connections, 1 broadcast, 2 stream tasks, 3 messages in all,
  enough for subscribe, start and restart of a stream. `FirstResize` is 2 and not
  CPython's 5, so that a dictionary is rebuilt with two connections.
- `Gateway_concurrent`: 4 requests with limit 2 and window 3, at most 2 in the
  limiter at a time, each for at most 2 seconds, clock up to 8: two windows.
- `Services`: 2 requests through the caches, a gateway time to live of 1, one of
  the function of 2, a delay of 1 and a clock up to 5, so that an entry of each
  layer expires and is filled again; all 23 services and all handlers, a loop of
  a service or a handler making two or three rounds; the limiter with limits 1
  and 2, a period of 2 ticks, 5 ticks, 1 reset.
- `Rollup`: the first 2 hours of a day of 3, 2 logs, 1 retry, 2
  incidents (an exception, a lost worker, a task by hand). Two hours are enough
  for a start that slips into the next hour; two incidents for a failure that
  meets a task by hand.
- `Digest_overlap`: 2 users, 1 channel, 2 senders, 1 generator, 1 failure, 1
  crash. With one channel `QueueFails` never has an earlier channel that worked;
  that case differs only in `some`, which a broken session overrides.
- `Export_overlap`: 1 job (jobs share nothing but workers), 2 workers, 2
  sources, 1 retry; of faults, losses and deletions one each and two in all.

### Fairness

Safety runs without liveness use `Spec`. Where liveness is checked, `FairSpec`
assumes weak fairness of:

- the steps of a run that has begun, and the start of the next one: beat starts
  the tasks every minute, hour or day, and clients of channels have timeouts;
- a coroutine whose await is over, a receive on a dead connection, a cancelled
  task that is due to end: the event loop resumes them;
- the requests and the worker pool of the exports;
- in `Rollup` the clock and the workers that take and finish tasks.

Nothing is assumed of messages that clients send, of failures, of crashes, of
deletions or of retries that nobody schedules. A send to a client is assumed not
to block for ever.

## 4. Proofs

The theorems hold for all values of the constants, that is for all sets of rows,
workers, requests, connections, jobs, tasks and services and all limits.

| module | theorem | states |
|---|---|---|
| `NotificationQueueProofs` | `TypeCorrect` | `Spec => []TypeOK` |
| | `AttemptsAlwaysBounded` | the attempts column never passes `MaxAttempts`, however the tasks overlap |
| | `ProcessingAlwaysAttended` | `ProcessingHasWorker`: a row in processing has a worker on it, or one died on it, or its template failed in a run that ended without another commit |
| | `NothingFollowsAYes` | `NothingAfterYes`: if runs of a task do not overlap, nothing of a notification arrives after a channel has said yes to it |
| | `TriesAlwaysWithinLimit` | if runs do not overlap, no row is tried more than `MaxAttempts` times |
| | `QueueKeepsContract` | `KeepsContract`: if runs do not overlap, the queue implements `DeliveryContract`, with lost answers and with failures recorded late or never |
| | `LogAlwaysAccounts` | `LogAccountsForTries`: each attempt has one entry in the log unless its worker died or its template failed, and each delivered entry one message |
| `ServicesProofs` | `AnswersAreYoung` | `AgeBounded`: an answer is younger than both times to live and two requests |
| | `DroppedValuesLeave` | `DroppedValuesFade`: a flush takes old values out of the answers within a gateway time to live and a request |
| | `NothingIsHeld` | `EndedHoldsNothing`: a request that waited for its tasks gives its connection back |
| | `OneFailureIsAll` | `FailureSticks`: a failed statement that is not rolled back is the end of all statements |
| | `OthersAreRefused` | `OnlyTheOpenerSurvives`: of parts started together on a fresh session at most one gets data |
| | `ErrorsComeFirst` | `ErrorLeavesNothing`: outside `CanFailAfterwards` an error leaves nothing stored and nothing sent |
| | `NothingIsTakenBack` | `DoneIsStored`: what was answered with 200 is not rolled back |
| | `StatusesArrive` | `ChosenStatusArrives`: the status of a handler's own exception reaches the client |
| | `TasksFindTheirRows` | `TaskFindsItsRow`: a Celery task finds the row its request saved, and the client of a validation is not told 200 when it found none |
| | `EachIsAlone` | a behaviour of `MCServices` is one of each of its four models |
| | `ServicesTypeCorrect` | `ServicesTypeOK`: all four keep their types |
| `WebSocketRateLimiterProofs` | `LimiterIsWindow` | `KeepsLimit`: the limiter implements `WindowLimit` |
| | `ListsStayShort` | `LimiterTypeOK`: no list is longer than its limit |
| `GatewayRateLimiterProofs` | `NobodyRefusedEarly` | `RefusedOnlyAtLimit`: who is refused has `Limit` recorded requests in the window |
| | `CalmLimit` | `SecondsWithinLimit`: in calm at most `Limit` seconds of a window let the client through |
| | `RetryAfterIsEnough` | `RetryAfterSuffices`: in calm, who waits as long as told finds room |
| `WebSocketManagerProofs` | `RegistriesStayInStep` | `RegistriesAgree`: the registries agree on who is connected |
| | `NoStreamIsLost` | `RunningStreamIsListed`: a running stream can still be cancelled |
| | `NothingIsLeft` | `EndedLeavesNothing`: nothing is left of a connection that has ended |
| | `ManagerTypeCorrect` | `TypeOK`: registries, tasks and broadcasts keep their types |
| | `QuietBroadcastsArrive` | `QuietBroadcastIsComplete`: a broadcast during which nobody joins or leaves reaches all subscribers |
| `DigestQueueProofs` | `NoDigestIsSentUnqueued` | `SentWasQueued`: a digest marked as sent has been queued |
| | `TypeCorrect` | `TypeOK`: a digest is queued on a channel at most once for each run, failure and crash |
| `ExportJobsProofs` | `CompletedStaysWhole` | `CompletedHasItsFiles`: a completed export lists only files that are there |
| | `CountedFilesAlwaysExist` | `CountedFilesExist`: `files_created` is at most the number of rows |
| | `OneAttemptIsEnough` | `OneAttemptDownloads`: after one attempt with rows in every source each link finds its file |
| | `CompletedStaysSo` | `CompletedIsFinal`: while no message comes twice, a completed job stays as it is |
| `RollupProofs` | `TotalsStayFinal` | `TotalsAreFinal`: a total in an hourly table is that of the whole hour |
| | `OwnCountsNeverFall` | `OnlyOtherTasksSetBack`: a task does not set back what it has counted itself |
| | `TypeCorrect` | `TypeOK`: tables hold counts, tasks have hours as targets, only running tasks have a statement under way |

The assumptions are those the modules state about their constants; each is
evaluated by TLC for the instance of a run. Most are about bounds (`MaxAttempts`
is positive, the number of workers and of senders is finite). Four describe the
code that a constant stands for:

- `GatheringAssumption`: the parts of a service that gathers neither commit nor
  roll back, since they share a transaction;
- `RollbackAssumption`: of the parts of a service all roll back, or at most the
  last, which is awaited alone (the refresh of views is the first kind, the
  services that store what they computed are the second);
- `HandlersAssumption`: the handlers outside the named exceptions, and no others,
  keep four rules about the order of their steps; only the validation of an export
  sends a task about a row that the client names, and it waits for it (below);
- `LimitsAssumption`: the limits of the WebSocket messages are positive.

Three theorems about the queue also assume `NoOverlap`, at most one worker and one
retrier: `NothingFollowsAYes`, `TriesAlwaysWithinLimit` and `QueueKeepsContract`. The
theorems of `ServicesProofs` are about `CacheSpec`, `SessionSpec` and
`RequestSpec`, those of the limiter about `LimiterSpec`; `EachIsAlone` shows that
the specification of the run `services` implies all four, because in each of its
steps the model that `inUse` names moves and the variables of the others stay.

*The queue, with overlap.* `AttemptsBounded` is not inductive: a worker writes the
stale `seen + 1`. The strengthening is `ReadBelowLimit`: what a worker has read is
below the limit, because the WHERE clause of the batch said so.
`ProcessingHasWorker` is inductive with `TypeOK` and `FailuresAreCounted` (a worker
whose template failed has counted that): a commit by another worker can only take a
row out of processing early, and the one that writes a failed template's status takes
that row out as it takes up its own.

*The queue, without overlap.* `SoloInv` has four parts. `ReadsAreFresh`: the rows
a process has read still are what it read (pending with the same attempts in a
batch, failed in a retry), and orphans and forgotten rows stay in processing.
`AttemptsAreCounted`: the column equals the number of tries.
`AcceptedIsAccountedFor`: an accepted message belongs to a delivered row, to the
worker that has yet to commit, or to an orphan, which nothing takes up again.
`ArrivalsAreCounted`: what has arrived is no more than the tries, and less before the
send of the current one. `NothingAfterYes` follows from the third part: a worker that
sends is on a row that is in processing, no orphan, and has no yes of its own.
`TriesWithinLimit` is the second together with `AttemptsBounded`. For the contract each
action maps to a step or a stutter: `MarkProcessing` begins an attempt (`GoOn` when it
also writes the failure of the row before), `SendAccepted` and `AnswerLost` arrive, the
commits end an attempt, all others stutter.

*The log.* With overlap a row may have two workers at once, so `LogAccountsForTries`
counts: the log entries of a row on which no worker died, and the workers that are
between the first commit and the last of an attempt at it (`WorkersOn`), and the tries
whose template failed (`unlogged`) add up to its tries; a message that was accepted is
likewise logged or with a worker (`AcceptedOn`). The
property is inductive with `TypeOK`: each step takes one worker into such a set or out
of it, and the proof follows the cardinalities.

*The caches.* The age of an answer says nothing of the entries it may come from, so
`CacheInv` adds when each entry ends relative to the time its value was read
(`EntriesEndInTime`), how old the value of a request on its way to a store can be
(`ReadsAreRecent`), and that no request takes longer than `MaxDelay` (`OnTime`).
For the flush, `OldValuesAreLeaving` says where a value read before it can still
be: with a request that had begun by then, or in an entry of the gateway that such
a request wrote.

*The session.* Closing gives the connection back unless it is being opened, and an
open request for one has its opener in the queue (`OpeningHasOpener`). So it is
enough that a service that waits has an empty queue when it is done
(`DoneHasNoTasks`): when all parts have ended because only queued parts are in the
queue (`QueueIsOfQueued`), and when a part awaited alone raises because what is
before it has ended and what is after it has not begun (`AwaitedInTurn`). For
`FailureSticks` the transaction stays broken (`BrokenStaysBroken`): the only parts
that could roll it back are awaited alone, after all others. For
`OnlyTheOpenerSurvives`, a gathering service whose connection is not open yet has at
most the opener among the parts that have data or wait for it (`OneOpener`), because
what is awaited alone would have opened it. Once another part was refused for the
opener's sake, that stays so, since by the time the connection is open all gathered
tasks have begun (`MetTogether`).

*The handlers.* What a handler can leave behind depends on the order of its steps
alone. Five rules say it: after something that lasts no step may raise that is not
caught (`ActsLast`); no change is left for `get_db` to commit (`SavesItsChanges`);
an exception of its own passes the except clauses with its status
(`KeepsStatuses`); a task is sent after the commit (`SendsAfterSave`); one about a row of the client is
waited for on every way through the handler (`AwaitsItsTask`). The proofs show for any
list of steps that these rules make the four properties hold. They need what
can be true at a step: `NoWayAround` says that some step on every way to it did a
thing, where a caught exception or an early return skips steps, and
`Unreached` that a step that cannot succeed is never passed, and `WaitedFor` that
behind a wait which nothing skips the task has found its row. That
the handlers of the code keep the rules, TLC evaluates once for all of them.

*The gateway.* That a request is refused only at the limit needs three facts about
the sorted set: every time in it is that of a recorded request (`TimesAreRecorded`),
no request stays in the limiter for as long as a window (`OnTime`, from
`MaxDelay < Window`), and between the trim and the count of a request nothing
comes in that its trim would have removed (`TrimmedForCount`). The two other
theorems are about calm, in which requests come one by one and no command fails.
Then `CalmInv` says that one request is in the limiter at a time (`OneAtATime`), that
the key lives as long as a request in its window (`KeyOutlivesRequests`), so that the
set holds the whole window (`WindowIsKept`), and that there was room when a request
passed (`RoomToAdd`). `Retry-After` is computed from the smallest time in the set,
which exists because `<` is well-founded on the naturals.

*The WebSocket limiter.* The refinement maps to the times of all requests that ever
passed, the code keeps only the young ones. The invariant (`LimiterInv`) says that
both lists have the same entries within a period (`SameRecent`). `Recent` is a list
comprehension; its lemmas say that to filter is to keep what is young, that to
filter twice, at a later time, is to filter once at that time, and that the entries
within the window of `WindowLimit` are as many as the filtered list is long. They
are proved by the smallest length at which one of them fails.

*The connection manager.* `disconnect` is called by handlers and broadcasts alike, so
its lemma is about the removal of any set of connections. `RegistriesAgree` is kept by
every step; `EndedLeavesNothing` follows from it once only connections with a handler
at work are registered (`OutsideIsOut`). `RunningStreamIsListed` needs
`StopFollowsList`: while `stop_stream` waits for a task, the list holds that task or,
after a disconnect, none.

A broadcast walks over `entries`, of which a dict that grows is rebuilt (`Rebuilt`):
the rebuilt list still holds all members (`RebuiltKeepsMembers`). `CastInv` then
says of a broadcast that has seen nobody join or leave: all members are in the list
it walks over, those before its place have been sent to or were not subscribed all
the while, and its size is the one it began with, so that it does not raise.

*Digests.* `some`, the local variable that says whether a channel was accepted,
belongs to the digest that is being queued (`SomeMeansQueued`), also after a failed
statement and with other runs at the same digest. That a digest is queued only so
often (`TypeOK`) needs an account: what is queued, plus the runs that may still queue it
(`Claims`), is at most the number of failures, crashes and runs (`QueuedWithCause`).
A run gives its claim up when it queues the digest and gets it back only by a
failure or a crash; a digest that is sent is selected by nobody.

*Exports.* Attempts at one job have different numbers, and an attempt has recorded
nothing from the source it works on (`AttemptsAreApart`); so the row it adds is new.
Then what an attempt has listed has its row and its file (`ListedFilesAreKept`), and the
count in its copy of the job is covered by rows (`CopiesCountFiles`), whoever else
writes the job. A request that has not committed has no attempts yet
(`NotBeforeCommit`), and what a completed job lists stays until the job is deleted
(`CompletedAreKept`). For the links, the list of an attempt that skipped no source has
the i-th source's file in its i-th place (`IndexedSoFar`). For `CompletedIsFinal`, as
long as no message comes twice the message of a job waits, or is with one worker, and
is gone when the job is completed (`OnePlace`).

*Rollups.* The hour that a task works on is over (`TargetsAreOver`), so what its
statement counted stays the count of that hour while it waits for its commit
(`SnapsAreFinal`), and so do the rows (`RowsAreFinal`). Completed executions may still
grow meanwhile; but a statement begins after the last commit of its own task, and has
seen at least as many as that (`SnapsFollowOwnRows`). For the types, a
task has been sent by the time it runs, so the hour before the current one is an hour of the
instance (`TargetIsHour`), and the sums of the day are natural numbers (`SumIsNat`).
`Sum` folds over a set; that there is a function that does so, and that its values
are numbers, is shown by the smallest set for which it fails.

*Recursion.* `Rebuilt`, `Recent` and `Sum` are recursive functions. Induction in the
library takes a predicate as a parameter, which no installed prover can
instantiate; instead each proof takes the least natural number for which the
statement fails (`SmallestExists`, from the well-foundedness of `<`) and refutes it. That the recursive
function exists at all is proved in the same way.

Each invariant was first checked by TLC in the configurations above. Every
invariant and action property of a passing run is also a theorem. Only
model-checked are the liveness properties `Settles`, `GoneIsCleanedUp`,
`DigestGoesOut`, `EndsOrIsLost` and `HourIsRolledUp`, because fairness and ENABLED
are out of reach of the prover, and the rules of `HandlersAssumption` for
the concrete handlers, which TLC evaluates.

## 5. Plan

Done: the notification and digest queues, exports, rollups, both rate limiters with
`WindowLimit`, the connection manager, the caches, the reads of the dashboards and
the handlers. What is left, in this order:

1. Digests and notifications composed: a digest that is marked as sent reaches a
   settled notification.
2. The rest of the connection manager: what a broadcast means for somebody who
   joins while it runs.
3. Alerts, once `AlertEngine` can be constructed: cooldown, escalation against
   acknowledgement, escalation by overlapping tasks.
4. `_calculate_next_run` of the report schedules and the periods of the cohort
   analysis as functions over a small calendar; the order of
   `_resolve_dependencies` of the views over small dependency graphs.
5. Proofs for the compositions of item 1 and item 2 as they are written. Every
   safety property of the modules as they stand is proved.

## 6. Limits of the models

**Simplifications.** A clock never goes back. Message contents, templates and
channel protocols are left out; what remains of a send is that it was accepted,
refused, has arrived but was reported as failed, or was accepted by a process that then
died. Times in `scheduled_for` are
reduced to due or not. One workspace, room, event type and stream type stand for
all, because different ones share only code. Server shutdown, which cancels a
handler before it disconnects, is not modelled: the registries die with the
process. `max_attempts` and the rows of a batch are constants. Log rows that are
deleted or marked as read afterwards are left out. The read services and handlers
are reduced to their statements and effects: SQL, arithmetic, parameters and the
data of an answer are left out, reads that follow each other are one step of a
handler, and a loop is unrolled to two or three rounds.

**Code that does not run as it stands.** The models describe the code as it is
written, each module by itself, with its imports taken as repaired. At this commit
some parts cannot be reached:

- the API cannot be imported: the routes of agents, errors, funnels, leaderboards,
  search and users import `src.middleware.auth`, which does not exist, the alert
  engine imports tables that `B/models` lacks, `predictive_analytics.py` imports a
  missing `cache_service`, and `B/services/analytics/percentiles.py` still has the
  markers of a merge conflict;
- `notification_processor.py` and `digest_sender.py` import
  `get_connection_manager`, which `manager.py` does not define; the names in the
  beat schedule of `jobs/celeryconfig.py` differ from those the tasks register;
  the list of users of the digest generator is a placeholder;
- `B/tasks/alerts.py` uses `await` outside an async function and
  `B/tasks/maintenance.py` imports an `async_engine` that `B/core/database.py` does
  not define, so a worker that includes both does not start, and
  `backfill_aggregations` fails on its import;
- some calls fail whatever happens: the handlers of API keys and sessions use an
  `AsyncSession` as a `Session`, `AlertEngine(db)` calls `get` on the missing
  configuration, some handlers call methods their service lacks, `anomalies.py` makes
  the id of a rule with a `uuid` it does not import, and a token that is not valid for a
  reason other than its age meets `except jwt.InvalidAudienceError`, a name that jose
  does not have, and is answered with 500 instead of 401. They are modelled as steps
  that raise (`Fails`, or an `error` among what a step raises);
- `RedisClient` (`B/core/redis.py`) has neither sorted sets nor `setex`. The rate
  limits inside handlers, the cache of decoded tokens and the blacklist use them; the
  error is caught each time, so that these limits let every request pass, no token is
  cached, and a logout revokes nothing (`NoSuchCommand`);
- the second handler for the overview of trends is shadowed by the first, the
  comparison router is not mounted, and nothing publishes the events whose
  handlers flush the caches.

Correcting these does not change the steps that are modelled.

**Known weaknesses the models allow.** They are behaviours, not accidents of the
models:

- overlapping runs of the queue may send a notification twice and try it more often
  than `max_attempts` (only `AttemptsBounded` survives, because the column is
  overwritten too); a process that dies after a send leaves the row in processing
  for ever;
- a message that arrived although the channel reported a failure is sent again by
  the retry, up to `max_attempts` times (`channel_manager.py:233`);
- a failed template of the last row of a batch leaves that row in processing for ever,
  without an entry in the log (`notification_system.py:330`);
- a generator of digests whose first insert meets an existing row skips all users
  after it;
- a broadcast ends early when somebody joins or leaves while it awaits a send:
  the iteration over the dictionary raises (`manager.py:134`);
- requests of one second are one member of the gateway's sorted set, so that more
  than the limit may pass (`gateway.py:165`);
- a failed statement during an export leaves the job in processing, since the same
  session is asked to record the failure; a job whose task could not be sent stays
  queued; after a data source without rows the links of a job are off by one
  (`exports.py:164`);
- an hourly task that starts after its hour is over counts the next one instead;
- zeros that stand for a failed statement are cached like any answer, for 30
  minutes on the executive dashboard;
- the validation of an export is answered with 500 when its task takes more than 30
  seconds or raises, and the task runs all the same (`exports.py:615`);
- a handler that fails after its commit answers 500 to what has been done, and a
  client that repeats the request does it twice (`CanFailAfterwards`).

**Exports.** The tables are those of the ORM classes. A retry waits five minutes
and so never meets the bulk request that created its job. The nightly clean-up
takes the steps of the delete route with a narrower choice of jobs. Scheduled
exports are never processed; templates and the download counter appear only in the
handlers.

**Not modelled.** Maintenance tasks cannot start (above). The pub/sub relay is
never subscribed to anything. The second HTTP rate limiter
(`B/api/middleware/rate_limit.py`) calls methods the Redis wrapper lacks and lets
everything pass. Token formats and encryption are a matter of data, not of
ordering. Rates, percentiles, forecasts and anomaly scores are real-number
arithmetic without state. Weekly and monthly rollups are no-ops. Integrations are
stubs that answer without doing anything. The frontend renders what the API
returns; migrations are run once by an operator.
