# A TLA+ model of SentinelWP

SentinelWP scans WordPress sites for vulnerabilities. A Flask application takes requests, Celery
workers execute the scans, Celery Beat triggers periodic tasks, and one database (PostgreSQL in
production, SQLite otherwise) holds everything they share; without Celery a thread pool and a scheduler
thread of the web process take its place. This directory holds a TLA+ model of the parts where these
processes and threads meet, the TLC runs that check it on small instances and the theorems that TLAPS
proves for instances of any size.

## 1. The system

| component | state | operations | talks to |
|---|---|---|---|
| Scan worker, `core/tasks/scan_tasks.py` | the message it holds, where it is in the task | receive, skip duplicates, check three limits, claim, preflight, scan, save, mark, retry | job repository, broker |
| Scan job repository, `core/db/repositories/scan_job_repo.py` (SQLite: `core/repository.py`) | `scan_jobs` rows | create, update, mark, claim, reclaim, count, find stale | everyone, one transaction per call |
| Stale job sweep, `recover_stale_jobs_task` | the list of stale jobs it read | reclaim and publish again, give up | job repository, broker |
| Web routes, `app.py` | the in-memory job of a request | submit, cancel, retry | job repository, broker |
| Broker and Celery, `core/tasks/celery_app.py` | queued messages | late acknowledgement, redelivery, task retries, time limits, revoke | workers |
| Scheduler, `dispatch_scheduled_scans_task`, `reconcile_orphaned_scheduled_runs`, `scheduler_repo.py` | `scheduled_scans`, `scheduled_runs` | claim a slot, advance, create a job, link, pause, reconcile | job repository, broker |
| Intelligence reassessment, `outbox_repo.py`, `process_intel_reassessment_queue_task`, `recover_stale_outbox_events_task` | `integration_outbox` | announce, claim, dispatch, back off, recover | job repository, broker |
| Finding lifecycle, `lifecycle.py`, `finding_repo.py`, `adapter.py`, `core/repository.py` | `findings` with a version, `finding_history` | transition, observe in a scan, verify | scan worker, routes, SLA tasks |
| SLA and risk acceptance, `sla_engine.py`, `remediation_tasks.py` | acceptances, SLA columns | decide, re-evaluate, expire, reopen | finding lifecycle |
| Integrations, `core/integrations` | circuit breaker per integration and process | call, succeed, fail | webhooks, Jira, ServiceNow, SIEM |
| Vulnerability intelligence, `core/vulnerability_intelligence/service.py`, `intel_tasks.py` | the sync lock (a key in Redis, a token and a lock per process), the records and their scores | acquire, release, store a feed, enrich, backfill | Redis, NVD, feeds |
| Local backend, `scanners/async_runner.py` | a thread pool, `_scan_progress` | submit, execute, cancel, retry, delete | `scans`, `scan_jobs` |
| Legacy scheduler thread, `core/scheduler.py` | one thread per web process | list, compare, save, start | `scheduled_scans`, local backend |
| Rate limiter, `core/rate_limiter.py` | a sorted set in Redis, a list per process | count, enter, fall back | routes |
| Tenant offboarding, `core/tenant_lifecycle.py` | `tenants`, their schedules | disable, delete | scheduler thread |

The other parts (orchestrator and scanners, risk and policy, evidence, EASM, authentication, migrations,
reports, deployment) are pure functions, I/O or single row updates; `PROJECT.json` lists each with
the reason it is not modelled, and section 6 says more.

**What is hard.** No two components share a lock. Every repository call is a transaction of its own at
READ COMMITTED, so anything decided on a row may be stale when it is written. Messages are delivered at
least once, tasks are acknowledged late (`task_acks_late`, `task_reject_on_worker_lost`) but a hard
time limit acknowledges them; the sweep, the routes and Celery's retries publish further tasks for one
job. Some writers use a version, others save the whole row they read minutes before. What Redis
guards has a lease nobody renews. Every process can stop between any two calls. The hazards this
gives are listed in `PROJECT.json`, each at its line, with the properties that cover it.

**What makes each component correct.**
Jobs: one winner per claim, terminal statuses stay, limits hold, attempts are bounded, no job is left
behind, and a scan says what its job says. Scheduler: one job per due slot, no slot wedged, a pause or
an edit is not reverted. Outbox: one scan per announcement, bounded attempts, no event stranded.
Findings: a status is decided on the row that was seen, the history tells every change, no finding is
verified that a newer scan has seen, accepted risks end, breaches are noticed. Breaker: no calls while
OPEN, closing only after successful probes. Sync lock: one sync at a time. Records: a score of the feed
is not lost, a backfill reaches every record. Local backend: no scan shown as running that nobody runs.
Scheduler thread: one scan per interval, none of a schedule that is off. Limiter: no more requests in a
window than the limit.

## 2. Modules

| module | what it is |
|---|---|
| `ScanJobs` | workers, sweep, job creation by the scheduler, routes, broker, `scan_jobs` and `scans` |
| `AbstractJob` | what `ScanJobs` promises to whoever runs jobs |
| `ScanRows` | `ScanJobs` with what a job and the row of its scan owe each other |
| `Scheduler` | dispatchers, reconciliation and routes of one schedule, `scheduled_scans` and `scheduled_runs` |
| `Outbox` | the monitor, the queue task and the recovery task on `integration_outbox` |
| `Findings` | everybody who writes the row of one finding |
| `CircuitBreaker`, `AbstractBreaker` | the breaker, and what it promises its callers |
| `SyncLock` | the lock that lets one sync of the feeds in |
| `Enrichment` | what syncs and the backfill task write into the records |
| `LocalBackend` | scans of the thread pool and the requests about them |
| `SchedulerThread` | the scheduler thread of every web process and the requests about its schedule |
| `RateLimiter` | the sliding window in Redis and in the memory of each process |
| `MCScanJobs`, `MCScheduler` | instances of one module: who scans what, event budgets, symmetry |
| `MCRecovery` | an instance of `ScanJobs` in which different teams of actors take part |
| `MCScanRows` | `ScanRows` and, beside it, `RateLimiter` |
| `MCServices` | `Scheduler` and, beside it, `SyncLock`, `Enrichment` and `LocalBackend` |
| `MCFindings` | `Findings` and, beside it, `SchedulerThread` |
| `MCOutbox` | `Outbox` and, beside it, `CircuitBreaker` |
| `ScanJobsProofs` | type correctness, unique claims, terminal statuses, bounded attempts, the concurrency limits |
| `SchedulerProofs` | type correctness, one job per slot, no wedge, own jobs |
| `OutboxProofs` | types, claims that are paid for, one dispatch, a scan behind DELIVERED; of the breaker the failure counter, and that it implements `AbstractBreaker` |
| `ScanRowsProofs` | on top of these that `ScanJobs` implements `AbstractJob`, that job and scan agree, and that no waiting job is forsaken |
| `FindingsProofs` | type correctness, the history, double rows, decisions on what was seen, verifications |
| `IntelProofs` | of `SyncLock` and `Enrichment`: what lets two syncs in, stored feeds, scores that are kept, pages of the backfill |
| `LocalProofs` | of `LocalBackend` and `SchedulerThread`, the single-process installation |
| `RateLimiterProofs` | the window |

*Beside* means that the two share no state and one of them moves in a behaviour (`part`, `mover`,
`limiting`, `exports` say which): one run then answers for both, and costs the sum of the two
state spaces and not their product.

The modules meet where one component calls another. `ScanJobs` and `Scheduler` meet where a dispatcher
creates a job and publishes its task: `ScanJobs` has these two steps as `Dispatch` and `SendMaintenance`
and leaves open when they happen; `Scheduler` has all around them and sees of a job only its end,
`JobOver`. `Outbox` does the same (`CreateJob`, `Send`, `ScanFails`). `LocalBackend` has the start of a
scheduled scan as `Schedule` where `SchedulerThread` has `StartScan`. A scan of `Findings` is what
follows the save of a scan in `ScanJobs`, `SaveFindings`.

### ScanJobs

*State.* `status`, `attempt`, `fresh`, `taskId` are the columns of `scan_jobs` (`fresh`: the heartbeat
is younger than the stale threshold); `scan` is `scans.status`; `broker` counts the waiting copies of
a message, which is a task id and Celery's retry counter; `jobOf` is a task's argument. For an actor (a
worker slot, a request, a run of a maintenance task) `pc` and `cur` say where it is and on which job,
`seen` is the row its open transaction has read, `goal` the status it is about to mark; `held` is a
worker's unacknowledged message, `copy` a route's in-memory `ScanJob`, `todo` what is left of the
sweep's list. `gen` and `won` are history: how often a job was put up for claiming, and at which of
these a worker won it. `budget` bounds faults and requests, and counts the retries that were asked for.

*Actions.* One action is one transaction or one broker call. The two repository operations that SELECT
a row and write it at the flush (`mark_status`, `update_job`) are two actions, `MarkRead`/`MarkWrite`
and `UpdateRead`/`UpdateWrite`; the flush writes only the columns that differ from what was read, which
`Overwrite` says. Claim and reclaim are single conditional UPDATEs and single actions.

| code | actions |
|---|---|
| `run_scan_task` up to the claim | `Receive`, `ReadJob`, `CheckLimits` (three counts), `Claim`, `Unclaimed` |
| its body | `Preflight`, `StartScan`, `ScanSucceeds`, `SaveResult`, `SaveFindings`, then `MarkRead`, `MarkWrite`, `FinishCompleted` |
| its handlers | `ScanFails` with `FinishFailed`, `ScanRetryable` with `FinishRetrying` and `AckRetried` |
| Celery | `Retry`, `Ack`, `Requeue` in `WorkerCrash`, `HardTimeLimit` |
| `recover_stale_jobs_task` | `FindStale`, `Reclaim`, `SendMaintenance`, `GiveUp`, `FinishGiveUp`, `BeatCrash`; `Age` is the clock |
| `dispatch_scheduled_scans_task` | `Dispatch`, `SendMaintenance` |
| `api_scan` | `Submit`, `SendTask`, `UpdateRead`, `UpdateWrite` |
| `cancel_scan_job` | `CancelRequest`, `Revoke`, `MarkRead`, `MarkWrite`, `FinishCancel` |
| `retry_scan_job` | `RetryRequest`, `UpdateRead`, `UpdateWrite`, `Rescan`, then as submit |

*Abstractions.* Progress numbers, error texts, notifications and audit records are left out. A
heartbeat is fresh or not; what `update_job` writes into that column matters only when two requests
update one job at once, which no instance has (one analyst). The tenant and authorization checks of the
preflight are a free choice. Inside the scan no heartbeat is modelled: `on_progress`
(`scan_tasks.py:285`) is never handed to the orchestrator, so the cancellation check it contains is never
reached either. `Revoke` either reaches every worker that holds the task or none. Task ids are numbered
in the order they are drawn. `"partial"` of `ScanJobStatus` is never set by the code.

`ScanRows` adds two history variables to it: `disturbed`, the jobs on which two actors worked at once or
one did not finish its two writes, and `forsaken`, the jobs whose last message was given up or never
sent. Each is defined from the step that is taken, one operator per cause, so that the two properties
say exactly which interference they survive.

`AbstractJob` knows no broker, tasks, requests, sweeps or rows, only jobs that are not there, waiting, taken or over, how often
each was put up (a term), the licence of each worker, and the drafts. A licence is won for a term, by one worker and
only while the job waits for it; it is not taken back when the job is put up once more or ended, which is how
two workers come to run one job (see `job_double_execution`), each on a term of its own. What is over comes back, on PostgreSQL,
only through a draft, a transaction that read the row before. `JobKeepsContract` maps `status` to the
phase, `gen` to the term, `cur` and `won` of a worker past his claim to the licence, and the open transactions whose
`seen` is not terminal to the drafts.

### Scheduler

*State.* One schedule: schedules share no row, and a dispatcher handles them one after the other. `row` is
its `scheduled_scans` row (`next_run_at`, `paused_until`), `runs` its `scheduled_runs` by `planned_at`,
which is unique; `scans` and `job` what was created for a claim; `now` a clock in steps. An actor (a run of
the dispatcher task, a request) has `pc`, the in-memory schedule `copy`, the row its open save has read
(`seen`), a dispatcher also the claim it won and the status its open link has read. Of the reconciliation, `todo` is
what is left of its list, `hand` the run it deals with and what it has found of it, `updates` the runs its transaction
has updated and not committed. `slotOf`, `events` and `crossed` are history: the slot a claim was made for, which
disturbances have happened, and the claims that their dispatcher linked while the reconciliation had another claim's
scan in hand for them.

| code | actions |
|---|---|
| `dispatch_scheduled_scans_task` | `Start` (list, pause and due checks), `Claim`, `SaveScan`, `CreateJob`, `Send` |
| `update_scheduled_scan`, four callers | `SaveRead`, `SaveWrite` with `pc` `"unpause"`, `"advance"`, `"final"`, `"store"` |
| `update_scheduled_run_status` | `LinkRead`, `LinkWrite` |
| `reconcile_orphaned_scheduled_runs` | `ReconcileRead`, and for each run of the list `ReconcileLook` (the latest scan, or the run's job), `ReconcileJob` (that scan's job, in a session of its own), `ReconcileRun` (the UPDATE) |
| pause, resume and delete routes | `PauseRequest`, `ResumeRequest`, `DeleteRequest` |
| any process lost; the job's end; time | `Crash`, `JobOver`, `Tick` |

*The two backends.* On PostgreSQL a save SELECTs the row and at the flush writes the columns that differ, so
it is two actions, and so is the link; without the row the save inserts it again. On SQLite a save is INSERT OR
REPLACE: `SaveWrite` replaces the row, and the cascade deletes all runs of the schedule. Both are in one module,
chosen by `Backend`.

*Abstractions.* `enabled` is true, `interval_hours` does not change, retry counters, `last_run_at` and audit
records are left out. 0 stands for a `paused_until` of NULL. The run, the scan and the job of a claim share its id;
ids are drawn in order, so that the order of creation can be compared. The UPDATE of a run is by its id, on
whatever the run has become since it was listed. On PostgreSQL the updates are one transaction that commits at the end
and locks the rows meanwhile: a link of the run, and a delete of the schedule, wait for it. On SQLite each run is
committed by itself. A run is an orphan `Threshold` steps of the clock after its claim. `Tick` keeps the length of a task or
request below the interval: the shortest is an hour, and tasks are killed after 25 minutes (`config.py:94`); a
reconciliation ends within a step of the clock.

### Outbox

*State.* `row` is `integration_outbox` by event key, which is unique, with the id of the present row (`INSERT OR
REPLACE` draws a new one, PostgreSQL resets the old one), status, attempt and claim; `claims` numbers the claims of
an announcement, a claim's number is its `claimed_at`; `stale` says that it is older than the threshold. `jobs` are
the jobs created, in the order of `queued_at`; `prefix` is what the first 24 characters of a key tell apart, all
that `requested_by` keeps of it. `pc`, `todo`, `mine`, `cur` and `goal` are local to a run of a task: where it is,
rows listed, rows claimed, the row at hand, and what a recovery has decided. `events` is history, `budget` bounds it.

| code | actions |
|---|---|
| `check_intel_triggered_reassessment` | `CheckDuplicate`, `SaveEvent` |
| queue task, SQLite path | `ListPending`, `ClaimEvent`, `Load`, `NextEvent`, `Refuse`, `SaveScan`, `CreateJob`, `Send`, `Deliver`, `Audit`; its handler `Raise`, `BackOff`, `BackOffFails` |
| recovery task, SQLite path | `ListStale`, `Lease`, `Verdict` (the idempotency lookup), `Recover` |
| both on PostgreSQL | `ClaimPostgres`; `ReadStale`, `ResetStale` |
| time, lost processes, scans that fail | `Age`, `Crash`, `ScanFails` |

*Abstractions.* Which component matches which vulnerability, LIMIT 20 and the audit texts are left out. `Age` under a
live worker is the event `"slow"`, a recovery that starts while another runs is `"overlap"`: the properties name them
where they matter. On PostgreSQL the queue task claims and then raises (`_get_conn` is SQLite only), which is all it does.

### CircuitBreaker and AbstractBreaker

`state`, `failure_count` and `success_count` are the fields of the breaker, `cooled` says that `recovery_timeout` has
passed, `calls` are the threads between the two critical sections of `call()`: the state is checked when a call begins
(`Begin`, as `Pass` or `Probe`) and updated when it ends (`OnSuccess`, `OnFailure`), and other calls begin and end in
between. `AbstractBreaker` counts no failures and has no clock: a call may begin unless OPEN, only a failure opens,
every failure does while HALF_OPEN, `Probes` successes close. `BreakerRefines` maps `success_count` to the abstract
counter while HALF_OPEN and to 0 otherwise.

### Findings

*State.* `finding` is the one row, with version, status, SLA status, whether it is paused, and which look of a scan
at the asset verified it and saw it last (the numbers of the looks stand for the scan ids, in the order of the looks);
`twin` says that a second row with its fingerprint exists; `acceptances`, `history` are the tables, `expired` and
`stage` the dates that have passed. A writer has `at`, the row it read (`got`), the row it is about to save (`copy`),
the row its save read again (`base`) and `plan`. `noted` is history: `lost` (a save replaced a row its writer had not
seen), `race` (nor had its own save), `conflict`, `crash`, `behind` (somebody saved while row and history of another
writer were apart), `overlap` of scans, `manual` and `redecided` (an acceptance bypassed or decided twice),
`attested` (a person set VERIFIED), `hasty` (an acceptance changed while it was being decided), `accepted` (the risk of the
finding is accepted), `outranked` (a page of other findings comes before it). `left` bounds a scenario.

| code | actions |
|---|---|
| `transition_finding_status` from the routes, with and without a version | `View`, `Post`, `PostUnlocked` |
| routes of risk acceptances | `Decide`, `MoveDecided` |
| `save_finding` and the history entry | `Select`, `Write`, `Conflict`, `Log` |
| `process_scan_findings` | `Look`, `SeeAgain`, `LogFirst`, `SeeFirst`, `SeeTwice`, `Insert`, `Verify` |
| `evaluate_sla_breaches` | `Check` |
| `expire_risk_acceptances` | `ListOver`, `Expire`, `ReopenOver` |
| dates; other findings; lost processes | `Lapse`, `PassDate`; `Outrank`; `Lost` |

*The two backends* differ in what a save compares: SQLite has `WHERE id = ? AND version = ?`, PostgreSQL reads the
version and writes the columns that differ. On SQLite a reopening is in the history before it is in the row
(`LogFirst`), and a new finding in the table before it is in the history (`Insert`, then `Log`); on PostgreSQL both are
one transaction for routes and scans.

*Abstractions.* Assignment, comments, tags and priority are left out: nobody decides on them. Due dates are two bits.
Where one run of a task handles many findings each is a row of its own, and one is enough; but `evaluate_sla_breaches`
reads a single page of 1000 by priority (`remediation_tasks.py:52`), so `Check` does not see a finding that enough others
come before.

*SLA tracking after an accepted risk.* `remediation_tasks.py:108-109` says that the expiry of an acceptance reopens the
finding "and resumes SLA tracking". `ReopenOver` clears `sla_paused_at` (135) but evaluates the SLA (137) while
`sla_status` still says PAUSED, and `evaluate_finding_sla_status` keeps what is PAUSED as it is (`sla_engine.py:181`).
The same holds for every later evaluation, so a finding whose risk was accepted once stays PAUSED for good and its
breach is never noticed. `BreachNoticed` therefore speaks of findings whose risk was never accepted; without that
premise TLC refutes it, by a finding that was accepted, reopened, and passed its date.

### SyncLock

`lease` is the key in Redis (the sync whose token it holds), `client` the processes that keep a `_redis_client`,
`token` and `process_lock` the fields of each process's singleton `_sync_lock`, `required` is
`REQUIRE_DISTRIBUTED_LOCK`, `up` whether Redis answers. `grip` and `robbed` are history: what let a sync in, and who
lost it while it ran. `acquire` is `Win` and `StoreToken` (two steps, as the token is stored on the singleton after
the SET), `Skip`, `NoAnswer`, `ReplyLost`; `release` is `Delete` or `DeleteFails` with `ClearToken` or `AfterFailure`,
`NothingToDelete`, `ReleaseProcess`. `Expire`, `Outage`, `Restored` and `ProcessLost` are the environment. What a
sync does inside is left to `Enrichment`.

### Enrichment

`feed` is what the feed says of each record, `score` the committed column and where it came from, `writer` and
`open` the transaction that a sync keeps open (SQLite on either backend, so one writer at a time). A sync is `Fetch`
or `FetchFails`, a `Store` or `StoreFails` for each record, `Success`, and for a whole sync `Query`, an `Enrich` or
`NotEnriched` for each row of the answer, and `Commit`, with `RoundLost` at any point; the backfill task is
`Backfill`, `Fill` or `NotFilled` for each row of its page, and `EndPage` with the `next_offset` that an operator
resumes with. `Publish` is the feed changing. `overlapped`, `missed` and `scored` are history. KEV and plugin tables
are written the same way and read by no writer.

### LocalBackend

`scan`, `scan_job` and `memory` are `scans.status`, `scan_jobs.status` and `_scan_progress`; `stage`/`about` of a
request, `task`/`task_scan` of a task of the pool, `read` the job status an open mark has read. `interrupted`,
`cancelled`, `deleted`, `overtaken` are history.

| code | actions |
|---|---|
| submit route; scheduler thread | `SaveNew`, `CreateQueued`; `Schedule` |
| `start_async_scan` | `Refused`, `Enter`, `EnsureJob`, `Submit` |
| cancel, retry and delete routes | `Cancel`, `MarkCancelled`, `SaveFailed`; `Retry`, `Reopen`, `SaveAgain`; `DeleteScan` |
| `_execute_async_scan` | `Execute`, `LookAgain`, `Complete`, `SaveFindings`, `Finish`, `MarkCompleted`; `Raise`, `MarkFails` |
| the process is lost | `Restart` |

A cancelled scan goes on in its thread and may complete after all: "Scan execution cancelled." (`app.py:2648`) is
true of the row only. Its row then says completed and its job cancelled, or, when the cancel comes late, its row failed and
its job completed: `Agreed` says of a cancelled scan no more than that row, job and progress are over, and of a deleted
one, whose job went with it, that row and progress are.

### SchedulerThread

`entry` is the row of one schedule, `running` the flag of each process; `turn`, `view`, `moment` belong to a thread or
request. `start_scheduler` is `FindNotRunning` and `StartThread` (two requests may both find no thread), the loop is
`ListScheduled`, `Compare`, `SaveRun` or `SaveFails`, `StartScan` or `StartFails`; requests and the offboarding of the
tenant are `ReadRow` with `PauseUntil`, `Disable` or `DeleteRow`; `Replaced` is the server replacing a process. Every
save replaces the whole row; `reverts` counts those that replaced a row not read. The run is stored (`SaveRun`) and its scan
started (`StartScan`) in two steps, and a started scan is recorded with the row as it is at either. The clock goes by the
hour, a pause is no field of `entry` since the loop never reads `paused_until`.

### RateLimiter

`scene` says what the limit is and in which mode the limiter runs, which processes reached Redis when they started and
who serves each request; `redis` is the sorted set, whose members are clocks (`str(now)`), so that a request with the clock
of an entry adds nothing (`RedisWith`), and `own` and `holder` the lists of a process. `is_allowed` is `Ask`, then
`CountRedis` and `AddRedis` (two pipelines), or `RedisFails`, or `ReadKept`, `Assign` and `EnterOwn` on the list of
the process, which its threads share without a lock. `Ticks`, `RedisStops`, `RedisAnswers` are the environment.
`counted`, `pruned`, `passed` and `stale` are history.

## 3. Runs

The runs of `ScanJobs` use the PostgreSQL backend. `CHECK_DEADLOCK FALSE`: when the jobs are over, the events spent
and the ids used the system stops, as it may.

| run | instance | shows |
|---|---|---|
| `job_claims` | 1 job, 2 workers, 1 analyst, 1 sweep, 2 tasks, no Celery retries, 1 attempt, one disturbance (crash of a worker, a request or the sweep; cancel; retry); beside it 3 requests of 2 processes at the limiter, limits 1 and 2, window 2, six scenes | `TypeOK`, `UniqueClaim`, `ScanMatchesJob`, `NeverForsaken`, `TerminalOnlyLostToRace`, `JobKeepsContract`; `WindowKept` |
| `job_limits` | 4 jobs of 2 tenants, 2 of them of one asset, limits 1/1/1, 2 workers, 2 tasks, one lost worker | `ConcurrencyLimits`, given that terminal rows stay terminal (`SerialSpec`) |
| `job_recovery` | 1 job, 1 Celery retry, 2 attempts; 2 workers and a sweep, or a worker and 2 sweeps, with one crash, two kills, one transient error or a lost sweep; or a worker, a sweep and a request that retries | `AttemptsBounded`; `AbandonedRecovered` and `FinishesUnlessSweepLost` under fairness |
| `schedule_dispatch` | PostgreSQL, 2 dispatchers, 1 request, 2 claims, interval 2, clock to 3, runs orphaned after 1, one event (crash, pause, resume, delete), LIMIT 2; beside it 3 syncs of 2 processes; 2 syncs, 3 records and a chain of pages; 2 local scans, 3 requests, 2 tasks | `TypeOK`, `OneJobPerSlot`, `NeverWedged`, `OwnJob`; `Exclusive`, `ProcessLockKept`, `RobbedAtHome`; `FeedStored`, `FeedScoreKept`, `BackfillMisses`; `NoScanForgotten`, `Agreed`, `NotResurrected` |
| `outbox` | either backend, 1 monitor, 2 queue tasks, 2 recoveries, 2 keys, 2 attempts, one announcement with any two disturbances or two with one; beside it 3 callers, 7 calls, thresholds 2 and 2 | `OutboxTypeOK`, `ClaimsPaidFor`, `SingleDispatch`, `DeliveredIsScanned`, `ResolvedOnSqlite`; `TrippedByCount`, `BreakerRefines` |
| `findings` | either backend, 2 requests, 2 scans, one run of each task, one acceptance, ten scenarios; beside it 2 threads of one process, one request, period 2, 3 hours, one restart | `FindingTypeOK`, `HistoryTellsAll`, `VerifiedByTheLatest`, `OneRow`, `DecidedOnWhatWasSeen`, `AcceptanceEnds`, `BreachNoticed`; `OnePerInterval`, `StaysOff` |
| `job_double_execution` | 1 job, 2 workers, 1 sweep, no fault | `SingleExecutor` is violated |
| `job_retrying_forever` | 1 job, 1 worker, two transient errors | `RetryingResolved` is violated |
| `job_starved` | 2 jobs of one asset, 2 workers, no fault | `EveryJobFinishes` is violated |
| `schedule_duplicate` | SQLite, 2 dispatchers, clock to 1, no event | `NoDuplicates` is violated |
| `schedule_wedged` | PostgreSQL, 2 dispatchers, clock to 2, a crash, fair Beat | `FailedRunUnblocks` is violated |
| `outbox_postgres` | PostgreSQL, one announcement, no disturbance | `EventResolved` is violated |

*Why these bounds.* A claim has two contenders and needs two messages of one job: two workers and two
tasks, or one task and a redelivery. A stale write needs a worker, a request and the sweep. The limits are compared
with one job inside and one outside each of the three scopes. The redeliveries and reclaims of
`job_recovery` use up both the retries and the attempts, and with two sweeps the bound of `AttemptsBounded` is
attained; with one sweep, one retry and one submission by another request it is as well (a separate instance). A schedule comes due twice
within three steps of an interval of two, so a dispatcher of the first slot can meet one of the second, and the
reconciliation finds the first run orphaned while either is at work. `schedule_dispatch` would find two jobs for a slot
without its qualification: with a delete the runs are gone and the slot is claimed again. In `outbox` two attempts mean one
claim that is repeated and one that is the last, two keys a shared prefix or a distinct one, and two disturbances
every pair of a crash, an error, a slow worker, overlapping recoveries and a failed scan. The scenarios of
`findings` (`Few`) put analysts, admins, scans and tasks against each other in ten combinations, with three scans,
one of which dies, with the dates that must pass for both tasks to act, and with a page of other findings. Three syncs of two processes
give two that share a singleton and one that does not; the mishaps (`FewMishaps`) hold every pair of kinds of trouble. Three records with pages of one give a chain that resumes twice, the
least that can step over a record. Two tasks and three requests let a scan be cancelled, retried or deleted at every
step of its task and of each other. Two threads of one process and three hours of a period of two give two due runs
and one in between. The limiter was also run with four requests, a limit of two and a window of one (3.9 million
states), and `NeverForsaken` with a cancel together with a lost request, and a kill together with a transient error.
What is true beyond these bounds is what section 4 proves.

*Fairness.* Celery keeps its worker processes running and Beat fires the sweep every two minutes: weak
fairness of `WorkerStep` and `BeatStep`. A request that has begun goes on (`AnalystStep`), and time
passes (`Age`). No request, no creation of a job and no fault is ever assumed to happen. A worker that
goes on may take the failing or the successful outcome of a scan: the handlers' outcomes are not fair
among themselves, and both end the job. In `Scheduler` Beat starts the dispatcher every minute (`DispatcherStep`)
and the reconciliation with the sweep (`Reconcile`), a request that has begun goes on (`SaveStep`) and the
clock goes on (`Tick`). In `Outbox` a monitor that has checked saves (`SaveEvent`), Beat starts
both tasks again and again (`ProcessorStep`, `ReaperStep`) and claims grow old; no refusal, error or crash is fair. In
`Findings` what has begun goes on, Beat starts both tasks (`CheckStep`, `ExpiryStep`) and the dates of acceptances pass
(`Lapse`); nobody has to open a page, post it or start a scan. The other modules state safety only.

*The six disagreements* of `PROJECT.json` "findings" are read off the six violation runs: a scan executed
twice when it outlasts the stale threshold; a job that stays `retrying` when its task has no retries
left; jobs of one asset that keep each other queued; two jobs for one slot on SQLite, where the save of the
schedule deletes the claim it has just made; a schedule that stands still after a dispatcher was lost between claim
and advance; an announcement that PostgreSQL claims, drops and puts back without end. The last but one happens
without a crash too: `NeverWedged` excludes only dispatchers among themselves, a pause or
a resume that stores the row it read before the advance has the same effect.

*What the passing runs name as exceptions.* A property that holds only but for some interference names it, and
its mutants and the smaller instances show that each exception is needed:

* A terminal status is left by the race between the read and the write of another transaction, and in no other way.
* A scan contradicts its job after two actors worked on it at once, after a cancel or retry of a job that was over,
  after an error behind the mark, or when an actor dies between its two writes (`disturbed`).
* A waiting job loses its last message when a task ends with its retries used up, when a process dies before `delay()`
  or after `revoke()`, and when the update that stores the task id writes `queued` over what a worker made of the
  job (`forsaken`).
* `max_attempts` is exceeded when sweeps overlap, since `reclaim` compares the heartbeat and not the attempt: by one for
  each sweep but the last. The retry route adds an attempt without asking for the limit (`app.py:2671`); each retry then
  allows one more, and one for every sweep that has still to see it.
* A run of a schedule keeps another claim's job when its dispatcher linked its own after the reconciliation had looked for
  the latest scan and before it wrote (`crossed`), and after a crash or a delete.
* An announcement is scanned twice after an error, a failed scan, a slow worker or overlapping recoveries; a
  DELIVERED one was never scanned when its worker died between creating the job and publishing it.
* The history of a finding has gaps after a lost update, a refused save, a crash, or a save between the two statements of
  another writer; two scans that overlap give one weakness two rows, and verify what a later look has seen. So does a
  person who sets VERIFIED beside the scan of an earlier verification, and a PostgreSQL save that mixes its columns
  with those of another. A breach is not noticed once the risk was accepted, nor behind a page of 1000 other findings.
* Syncs overlap when a lease of 300 seconds ends under a longer sync, or with a lock of a process on one side:
  `service.py:39-46` promises a lock across workers and `:434` that one sync runs. The token of `service.py:135` is the
  process's, so a sync can give back the lock of a later sync of its process. A process lock taken while Redis is
  away stays locked when Redis is back before the sync ends.
* A sync stores NULL over scores of the NVD (`FeedScoreKept` is about those of the feed), so a sync of the whole feed
  asks again for 10 or 40 of them; records that fail to be stored are counted as inserted; a chain of pages skips
  records ("Resume by re-running with offset=previous_next_offset", `docs/audit/SPRINT_4_WORKFLOW_INTEGRATION.md:156`).
* A local scan is interrupted for good when its process goes; a refused target, an error after the scan, and the
  `except Exception: pass` of `async_runner.py:63` leave it running or its job open. On this backend
  `process_scan_findings` never runs, so "Live results will verify remediation" (`app.py:3288`) is not so there.
* The scheduler thread runs a schedule twice in an interval, or one that is off, after a save of a row read earlier. A schedule
  that goes off between the save of a run and the start of its scan (`scheduler.py:50`, `55`) is scanned once more by that
  thread. What is an interval apart are the times the runs were stored with; a scan starts later than its run was stored
  by as long as its thread is held up. The thread does not look at `paused_until`, and an error of the start costs the interval.
* The limiter counts and enters in two steps, each request overtaken in between may be one too many. In Redis requests
  at the same clock are one entry (`rate_limiter.py:88`), so each of them but one may let another in over the limit. And it is one
  counter for Redis and one for each process: "open: Redis failure → allow all" (`rate_limiter.py:9`) holds of an outage, but
  a process that found no Redis at its start keeps to its own list, and in mode closed denies until it is restarted.

## 4. Proofs

For any jobs, workers, requests, sweeps, limits, retries and budgets (assumptions `Kinds`, `FiniteJobs`,
`Limits` of `ScanJobs`):

* `TypeCorrect`: `Spec => []TypeOK`. The type is not inductive: what a mark writes is `goal`, and
  `ReadJob` reads the row of a message's job. `TypeInv` adds `AtWork` (a busy actor has a job, and a goal a
  mark may write) and `Delivered` (every message that is held or waiting belongs to a job).
* `UniqueClaimHolds`: `Spec => []UniqueClaim`. Two claims from one time of being put up are excluded because
  a job that is claimable is ahead of every claim ever won on it: `ClaimsBehind` says `won[w] <= gen[j]`, and
  strictly less while the job is claimable. `PutUp`, the only way into a claimable status, advances `gen`.
* `TerminalRaceOnly`: `Spec => TerminalOnlyLostToRace` for `Backend = "postgres"`, one step per action: every
  action but the two writes leaves a terminal row alone by its guard, and these two check the row they read.
* `AttemptsHold`: `Spec => []AttemptsBounded` for any finite number of sweeps and any requests, if `MaxAttempts > 1`. `Behind`
  are the sweeps that have listed a job while it had attempts left, each of which may add one yet; `AttemptInv` bounds the
  attempts of the row together with their number, and the attempt in a request's memory together with the number of all
  sweeps, as any of them may list the job after the request's write. A reclaim moves one from the second term to the first; a
  retry raises the bound by what it may cost.
* `LimitsHold`: `SerialSpec => []ConcurrencyLimits`. That the counts and the claim are not one transaction
  does no harm, because a count includes the jobs that wait. `LimitsAhead` is the inductive part: the running
  jobs of a scope together with those whose worker has passed the scope's check are within its limit or the
  check would not have passed, since each of them was active, hence counted, when the other was checked;
  `Created` says that a worker's job exists. It needs the assumption that an active job once terminal is not
  reopened: with the race that `TerminalOnlyLostToRace` leaves a job could come back uncounted.

* `ContractKept`: `Spec => JobKeepsContract`, on either backend. The claim is `Win`, what writes a status (`TurnRefines`) puts a
  job up, closes it, reopens it or changes nothing that is mapped, and everything else (`QuietRefines`) at most loses
  licences and begins or ends drafts. The invariants are those of `UniqueClaimHolds` and, since a job that does not exist
  must not be closed, `ControlInv` below.
* `ScanFollowsJob`: `ScanRowsSpec => []ScanMatchesJob`, on either backend. `ControlInv` first says where each actor may
  be: what it marks, and that its message, its copy or its list is about its job and no job that does not exist. For
  an undisturbed job (`RowsAgree`) there is one actor who may write its rows at a time, the job is open until his own
  mark, what he read of it included, and after the mark his goal tells what he will save (`InStep`).
* `NoJobForsaken`: `ScanRowsSpec => []NeverForsaken`. `Attended` is not inductive, since somebody at work on a waiting
  job may end without publishing anything; its `Keeper`s will not: who has its message and has not claimed it, who is
  about to publish or to mark it. The job's message never leaves the queue but to a keeper (`Brought`).
* The last two are proved job by job (`RowStays`). All actions but one move one actor, and what he does to one job is `Moves`;
  a revocation moves all workers that hold a copy of the task, which are workers of the same job (`RevokeMoves`).

For any dispatchers, requests, claims, interval and horizon (assumption `SchedulerKinds` of `Scheduler`):

* `SchedulerTypes`: `Spec => []TypeOK`, with `Owned`: a dispatcher past its claim holds an id that was drawn for a
  slot, as does every job, and a taken slot names its claim. Without it a link or a new job might look up the slot
  of no claim.
* `SlotsOnce`: `Spec => []OneJobPerSlot` for `Backend = "postgres"`. The inductive part is `Kept`: while nothing
  deleted the schedule, the run of every claim ever drawn is still in its slot. A slot holds one run, so two
  claims never share one, and jobs are created for claims only. It is the step the cascade breaks on SQLite.
* `NotWedged`, `JobsOwned`: `Spec => []NeverWedged` and `Spec => []OwnJob` for `Backend = "postgres"`. Both rest on
  `OneAhead`: of the times that the row has or that anybody may still write into it, at most one is not claimed yet,
  because a claim uses that one up and makes the next. Whoever is past his claim has that time and is done before it
  comes (`InTime`, from the guard of `Tick`), so nobody else gets past a claim meanwhile (`Working`). Hence nobody's
  stale copy moves the row from where the winner left it (`Still`), and the latest scan is that of the dispatcher
  about to link (`Linkable`, `Guesses`). What the reconciliation has found and not yet written (`InFlight`) is therefore right,
  or will be overwritten by that dispatcher, or he has linked in between (`Pending`), which `crossed` remembers.

For any monitors, tasks, keys, prefixes, attempts and scenarios, on either backend (`OutboxKinds` of `Outbox`):

* `OutboxTypes`: `OutboxSpec => []OutboxTypeOK`. `TypeInv` adds what an actor knows: the rows it has read are or were
  there (`Known`), and ids only grow (`Onward`), so a row that was replaced never matches an old reference again.
* `OutboxClaimsPaid`: `OutboxSpec => []ClaimsPaidFor`. While the history is calm (`Calm`), a row that waits has an
  attempt to spare (`RowPaid`), a row has one processor (`Apart`) whose copy of the attempt is the row's (`Fit`), and a
  recovery holds only rows that are still processed and stale (`Leasing`). A held row is never stale and never waits, so
  nobody writes another's row. A row claimed again since it was listed has a later claim and cannot be leased (`Listed`).
* `OutboxDispatchedOnce`: `OutboxSpec => []SingleDispatch`, from the above and `Single`: a row has no second job, a row
  that waits has none (`Waiting`), nor has what a processor still has to do (`Fresh`) or a recovery is about to put back
  (`Checked`). The last holds between the lookup and the write because a stale row has no processor to create one.
* `OutboxDeliveredScanned`: `OutboxSpec => []DeliveredIsScanned`, from `Published`: whoever is about to write DELIVERED
  has created or seen a job of that prefix, and a job not yet sent has its creator at `send` unless he was lost.

For any callers and thresholds (`Thresholds` of `CircuitBreaker`):

* `TrippedByCountHolds`: `BreakerSpec => []TrippedByCount`, inductive together with the types (`BreakerInv`).
* `Refinement`: `BreakerSpec => BreakerRefines`. Every step maps to one of `AbstractBreaker` or to a stutter (the
  cooling down). The step that needs the invariant is a failure while HALF_OPEN: that it opens the breaker
  follows from `TrippedByCount` only.

For any requests, scans, tasks, acceptances and scenarios (assumptions of `Findings`):

* `FindingTypes`: `FindingsSpec => []FindingTypeOK`, inductive with what each writer holds when he is about to select,
  write or log (`Ready`).
* `DecisionsSeen`: `FindingsSpec => DecidedOnWhatWasSeen`. `Versions` is the inductive part: as long as no two saves
  read one version, a version stands for one row, so a writer who read the present version read the present row. On
  PostgreSQL what a request with a version is about to write on is what it was shown.
* `HistoryIsTold`: `FindingsSpec => []HistoryTellsAll`. Row and history are written apart, so at any time at most
  one writer stands between them (`Together`), and his entry says what he made of the row and starts where the
  history ends (`Follows`). Everybody else's step changes neither.
* `DoublesOverlap`: `FindingsSpec => []OneRow`, from `FirstSeen`: without an overlap one scan at a time is about to
  insert, and only while there is no row.
* `VerifiedLast`: `FindingsSpec => []VerifiedByTheLatest`. `LooksInOrder` is the inductive part: not only the row but
  every copy in a writer's memory says VERIFIED only of a scan that looked after it was last seen, as any of them may
  be saved; and a scan that has looked and not yet written is ahead of them all. It holds while no two saves read one
  version, as a save of PostgreSQL then writes what it read or fails.

For any syncs, processes and mishaps (assumptions of `SyncLock`):

* `ExclusiveHolds`, `ProcessLockHolds`, `RobbedAtHomeHolds`. `LockInv` adds to the types that a sync inside holds what
  let it in unless robbed (`Held`), that two never hold the lock of one process (`OnePerProcess`), that no process
  lock is taken where the lock must be distributed (`Distributed`) and that a token is of a sync of its
  process (`OwnToken`), which is why nobody robs a sync of another process.

For any records, syncs, feeds, answers and page size (assumptions of `Enrichment`):

* `RecordTypeCorrect`, `StoredOnly`, `ScoreKept`. What a sync reports as stored could be undone by a later sync with an
  older feed or by a score from the NVD. `RecordsInv` excludes both: a sync that stores has read a feed that says all
  that was reported before (`LaterFeed`, because nobody reads while an undisturbed sync runs, and the feed takes nothing
  back), and what a sync asks the NVD about had no score of a feed and gets none meanwhile (`AskedUnscored`).
* `MissesOnly`: `EnrichmentSpec => []BackfillMisses`. `Chained` says that up to some id the chain has stepped over no more
  candidates than were scored, and that its next offset is no further from there than the scored ones account
  for (`Skipped`). A page is a set of ranks, so the lemmas count the candidates before an id (`Before`).

For any scans, requests, tasks, pool and plans (assumptions of `LocalBackend`):

* `NothingForgotten`, `DeletedStayAway`, `AgreedHolds`. `LocalInv` has a part for each: `Expected` (a scan that is
  shown as running has a task that has not yet saved it), `Gone` (nobody is about to save a scan deleted before he
  could see it), and for the agreement `RowThere`, `JobThere` (whoever works on a scan finds its rows), `OpenJobs`
  (somebody will end a job that is not over), `ByRequest` (only cancelled scans fail) and `Reported`.

For any processes, threads, requests, period and clock (assumptions of `SchedulerThread`):

* `OnePerIntervalHolds`, `StaysOffHolds`. `InRow` says that until the next revert the row that is left remembers the
  latest run, `Viewed` that a run about to be saved was due by the row that was read, so that runs which were saved are
  apart (`Separate`) whether their scans have been started or not; `OffUntilReverted` is the same for a schedule
  that is off, and `StartedOff` for the scans started: a schedule goes off anew with each time (`OffAgain`), and a thread that
  has started a scan caught between save and start has no older run to start.

For any requests, processes, limit and window (`LimiterAssumption` of `RateLimiter`):

* `WindowKeptHolds`: `LimiterSpec => []WindowKept`. A counter was last pruned with a clock no earlier than anybody's
  who counted (`PrunedLater`), so what is within a window is on the list (`Listed`), a request about to enter knows of
  all that are within its window (`CountIsRight`), and with it they are no more than the limit (`Limited`). A request whose
  clock is in the sorted set already enters nothing and is `stale` from then on, so the list holds all others. The sets are
  finite, and the cardinalities come from `FiniteSetTheorems`.

Each module's type invariant is proved with its theorems (`OutboxTypes`, `BreakerTypes`, `LockTypeCorrect`,
`RecordTypeCorrect`, `LocalTypeCorrect`, `ThreadsTypeCorrect`, `LimiterTypeCorrect`).

Two statements were corrected on the way. The last two conjuncts of `FeedStored` were not aligned, which made it weaker
than meant; as meant it holds and is what is proved. And `VerifiedByTheLatest` did not hold when a person sets VERIFIED,
a target that the instance of `findings` lacked; it names that case now, and the instance has the target.

*Only model-checked:* liveness (`AbandonedRecovered`, `FinishesUnlessSweepLost`, `ResolvedOnSqlite`,
`AcceptanceEnds`, `BreachNoticed`), as fairness and ENABLED are out of the prover's reach. Nothing here computes over
data by recursion, so no induction is missing.

## 5. What is left

Remediation plans and ticket exports, once something in the program calls `dispatch_outbox_event`; an abstract
slot (due, taken, over) that `Scheduler` implements.

## 6. Not modelled

The map covers about a ninth of the source lines. What is outside it has no behaviour over time that several actors
share, or is a twin of what is inside:

* `core/repository.py` and `core/db/repositories` hold every statement once per dialect and a mapping from rows to objects;
  the statements that decide something are modelled, the selects of lists, the counters of dashboards and the
  mappings are not.
* `app.py` is mostly forms, filters and templates around one read or one save; the routes that meet another actor
  are modelled.
* `core/db/models.py`, `core/models.py`, migrations: declarations.
* Scanners, feed and integration clients, DNS and certificate lookups of EASM: network I/O. Their outcomes are free choices of
  the steps that call them.
* Scoring, prioritization, version matching, differential of two scans, report generation: pure functions over
  strings and floats, where a property would restate the function.
* `PolicyEngine` has versions and activations, but only tests call it; likewise EASM verification.
* Authentication, sessions, CSRF: decisions over one row and the clock.
