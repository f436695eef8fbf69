# A TLA+ verification of the distributed job scheduler

This directory holds a TLA+ model of the scheduler in this repository: a REST
backend that stores jobs in PostgreSQL, a fleet of worker processes that claim,
execute, retry and quarantine them, and a dashboard. TLC checks the model on
small instances, and TLAPS proves its main invariants for every size.

Run from this directory:

    tlc -workers 2 -config JE_Faults.cfg MCJobEngine.tla     # any JE_*.cfg
    tlc -workers 2 -config PO_Claims.cfg MCPoller.tla        # any PO_*.cfg
    tlc -workers 2 -config DG_Workflow.cfg MCDagWorkflow.tla
    tlc -workers 2 -config CR_Ticks.cfg MCCronScheduler.tla
    tlc -workers 2 -config IN_Requests.cfg MCIngestion.tla
    tlc -workers 2 -config SE_Sessions.cfg MCSession.tla
    tlc -workers 2 -config SO_Sockets.cfg Sockets.tla
    tlc -workers 2 -config VW_Views.cfg MCViews.tla
    tlapm JobEngineProofs.tla                                # any *Proofs.tla

## 1. The system

All communication between backend and workers goes through the database. There
is no lock, lease or leader outside it: every worker polls, every worker runs the
reaper and the cron scheduler, and the API writes the same rows. The dashboard
talks to the API, and holds one WebSocket per session.

| component | code | state it keeps | operations | module |
|---|---|---|---|---|
| Executor | `worker/src/engine/executor.ts` | `job_executions`, `dead_letter_queue_entries`, `jobs.status` | `execute`, `handleFailure`, `calculateRetryDelay`, `resolveChildDependencies` | `JobEngine`, `RetryDelay`, `DagWorkflow` |
| Worker process | `worker/src/index.ts` | `activeJobs`, timers, `isDraining` | `start`, `pollAndDispatch`, `runJob`, `shutdown` | `JobEngine` |
| Poller | `worker/src/engine/poller.ts` | `jobs.status`, `claimedByWorkerId` | `claimJobs` over all unpaused queues | `Poller` |
| Zombie reaper | `worker/src/engine/reaper.ts` | `workers.status`, orphaned `jobs` | `reapDeadWorkers`, every worker, periodically | `JobEngine`, `DagWorkflow` |
| Heartbeat service | `worker/src/heartbeat/heartbeat.service.ts` | `workers.status`, `lastHeartbeatAt` | `registerWorker`, ping, `setDraining`, `setOffline` | `JobEngine` |
| Cron scheduler | `worker/src/engine/cron-scheduler.ts`, `backend/src/services/cron.service.ts` | `scheduled_jobs`, new `jobs` | `tick`, create, toggle, delete | `CronScheduler` |
| Job service | `backend/src/services/job.service.ts` | `jobs`, `job_dependencies`, `dead_letter_queue_entries` | create, batch; cancel, retry, replay; dependencies | `Ingestion`, `JobEngine`, `DagWorkflow` |
| Retry policies | `backend/src/services/retry-policy.service.ts` | `retry_policies` | list (provisions defaults), create | `Ingestion` |
| Queues | `backend/src/services/queue.service.ts` | `queues` | create, update, delete; pause, resume | `Ingestion`, `Poller`, `DagWorkflow` |
| Accounts, projects | `backend/src/services/auth.service.ts`, `project.service.ts`, `frontend/src/context/AuthContext.tsx` | `users`, `organizations`, `projects`; the page and `localStorage` | register, login, logout, create, switch | `Session` |
| WebSockets | `backend/src/websocket/ws.server.ts`, `frontend/src/context/WebSocketContext.tsx` | table of clients; socket, timer, indicator | connect, open, close, reconnect | `Sockets` |
| Dashboard views | `frontend/src/views`, `api/client.ts` | the list shown, loaders, disabled rows | load, refresh, poll, change | `Views` |
| Handlers | `worker/src/handlers/handler.registry.ts` | none | simulated work | - |

### How they interact

1. `createJob` inserts a row that is QUEUED, or SCHEDULED when the job is
   delayed or has parents.
2. A worker with free slots claims QUEUED rows that are due
   (`SELECT ... FOR UPDATE SKIP LOCKED`, then an update to CLAIMED, in one
   transaction) and starts `Executor.execute` for each, without awaiting it.
3. `execute` counts the execution rows of the job, then inserts row n + 1 and
   sets the job RUNNING in one transaction, runs the handler against a
   timeout, and records SUCCESS / COMPLETED in one transaction, or FAILED.
4. After a success it queues the SCHEDULED children all of whose parents are
   COMPLETED. After a failure, attempt n <= `maxRetries` re-queues the job with a
   later `runAt`; a larger n dead-letters it and inserts a dead letter entry.
5. Each worker pings the `workers` table. Each worker also runs the reaper: a
   HEALTHY worker whose last ping is older than a threshold is marked OFFLINE
   and its CLAIMED or RUNNING jobs are re-queued.
6. Each worker also runs `CronScheduler.tick`, which inserts a job for every
   schedule that is due and moves the schedule on.
7. On SIGTERM a worker clears its timers, becomes DRAINING, waits up to 30 s
   for `activeJobs` to empty, becomes OFFLINE and exits.
8. The API creates, cancels and retries jobs, replays dead letter entries, and
   administers queues, policies, schedules, accounts and projects. Deleting a queue
   deletes its jobs and, by cascade, every dependency that names one of them.
9. The dashboard keeps the session in the page and in `localStorage`, opens a
   socket for it, and its views fetch lists and send changes.

### What is hard

Nearly every write to `jobs` is by id alone, after a read in an earlier
statement, and nearly every answer in the dashboard is applied to whatever is
selected when it comes. What makes that interesting:

- *interleaving*: the reaper, two invocations of the executor for one job, two
  resolvers of one child, two passes of the cron timer, and API requests hold
  decisions about one row at the same time;
- *atomicity*: an attempt number, the active jobs of a queue, an idempotency key
  are looked up in one statement and used in a later one, guarded by a unique
  index or by nothing;
- *crashes*: a worker may die between any two statements; its work must come
  back through the reaper, and only through it;
- *timeouts*: a worker that misses its pings is treated as dead while it runs;
- *partial failure*: a database error inside, or after, a `try` block; an item of
  a batch that collides;
- *ordering*: answers and close events that come after a logout, a login or a new
  selection; answers that were served before what they are combined with;
- *shutdown*: calls already under way when the timers are cleared.

`PROJECT.json` lists these hazards one by one with their lines and the
properties that cover them.

### What makes each component correct

- *Executor*: one invocation writes one attempt; a recorded failure is final;
  quarantine happens after, and only after, the retry budget is spent, once per
  failure. *Dependencies*: a child runs after all its parents, and no unlock is
  lost between parents that complete together.
- *Worker process, poller*: no job is executed twice at a time, unless a worker
  is wrongly taken for dead, two reaper passes share a dead one, or two parents
  queue one child; slots are respected and always come back; SIGTERM ends; a paused
  queue runs empty and none starves.
- *Reaper, heartbeat*: what a dead worker held is re-queued; what is no longer
  held is not.
- *Job service*: the dead letter list contains every quarantined job; no
  sequence of cancel, retry and replay damages the history; a key names one job;
  a batch is whole; budget and delays of a job come from one policy.
- *Cron*: one job per occurrence; what is due is handled.
- *Session*: page, token and storage speak of one user; a login ends well.
- *Sockets*: reconnection does not multiply, and the session gets its socket back.
- *Views*: a quiet view is current; no loader or disabled button stays for good.

## 2. Modules

| module | content |
|---|---|
| `JobEngine` | executor, worker process, claiming, reaper, heartbeat, shutdown, cancel / retry / replay, and their properties |
| `ExecutionLedger` | the abstract specification of the history of a job: attempts are appended, finished and quarantined |
| `Poller` | one poll, statement by statement: several queues, pausing, limits, row locks, slots |
| `DagWorkflow` | jobs with dependencies: creation, resolution by several invocations; cancel, retry, deleted queues and reapers in between |
| `DependencyOrder` | the abstract specification of a workflow: parents first |
| `CronScheduler` | passes of the cron timer and the requests that change schedules |
| `RetryDelay` | policies, and the delay as a function of policy and attempt |
| `Ingestion` | the requests that create policies, queues, jobs and batches; extends `RetryDelay` |
| `Session` | accounts, projects and the browser session |
| `Sockets` | the reconnecting socket of the dashboard and the server's table of clients |
| `Views` | how the seven views of the dashboard load, refresh and change what they show |
| `MCJobEngine`, `MCPoller`, `MCDagWorkflow`, `MCCronScheduler`, `MCIngestion`, `MCSession`, `MCViews` | values of constants, symmetry and constraints, for TLC |
| `JobEngineProofs`, `PollerProofs`, `DagProofs`, `CronProofs`, `IngestionProofs`, `SessionProofs`, `SocketsProofs`, `ViewsProofs` | the theorems, for TLAPS |

`JobEngine` is the core. The other modules look into what it takes for one step
(`Poller` into its claim, `Ingestion` into its `Submit`), take up a part of it in
more detail (`DagWorkflow` the dependencies), or model what surrounds it. What they take from each other is
abstracted to what the neighbour can observe, and said at the head of the module.
`DagWorkflow`, for instance, knows of workers and reapers only that a job which
is in flight may be read by a reaper, rightly or wrongly, and queued later.

In every module one action is one database statement, one transaction or one
callback, with the local computation up to the next `await`. Node and the browser
run one callback at a time, so an `await` is the only point at which another
callback of the process can run, and a statement is the unit in which processes
interleave in the database.

### How `JobEngine` corresponds to the code

| state | code |
|---|---|
| `status`, `claimedBy`, `due` | `jobs.status`, `jobs.claimedByWorkerId`, `jobs.runAt <= NOW()` |
| `executions[j][n]` | the `job_executions` row with `attemptNumber` n: its worker and status |
| `dlq[j]` | the `dead_letter_queue_entries` rows of j: `totalAttempts`, and whether `replayedAt` is set |
| `wstatus`, `stale` | `workers.status`; `lastHeartbeatAt` older than the reaper's threshold |
| `phase`, `active`, `inflight` | the process: `isRunning` / `isDraining` and where `shutdown` is, `activeJobs`, calls under way at SIGTERM |
| `run[r]` | a call of `Executor.execute`: the `await` it is at, its job, worker and attempt, and the children it has read |
| `reaper[p]` | a call of `reapDeadWorkers`: its worker, the `await` it is at and the rows it has read; one worker may have several |
| `request[q]` | a call of `cancelJob` or `retryJob` between its read and its write |

| actions | code |
|---|---|
| `Submit`, `RunAtPasses` | `createJob`; the clock |
| `ClaimJobs` | `pollAndDispatch`, `claimJobs` and the start of `runJob` |
| `CountExecutions`, `StartExecution`, `StartRejected` | `execute`, lines 13-38; the unique index |
| `HandlerSucceeds`, `HandlerFails` | the race of handler and timeout |
| `Complete` | the success transaction |
| `ReadChildren`, `ReadParents`, `Unlock`, `Resolved` | `resolveChildDependencies`: its reads, the update of a child by id, which keeps the owner, and its end |
| `RecordFailure`, `ScheduleRetry`, `RetryLogged`, `DeadLetter` | the catch block, `handleFailure`; a job whose retry is scheduled can be claimed before the log of it is written |
| `DbErrorInRun`, `ReaperThrows` | a database call that fails: which `try` block, if any, it lands in |
| `ReapScan`, `ReapMark`, `ReapFind`, `ReapRequeue` | the statements of `reapDeadWorkers` |
| `Register`, `Heartbeat`, `HeartbeatExpires`, `LatePing` | the heartbeat service; time |
| `Shutdown`, `SetDraining`, `Drained`, `Exit`, `Crash` | `shutdown`; the end of a process |
| `CancelRead`, `CancelWrite`, `RetryRead`, `RetryWrite`, `ReplayDlq` | the job service |

Abstractions. `Parents` fixes what each job is created to depend on; jobs are not
deleted here (see `DagWorkflow`). Time is a pair of flags, `due` and `stale`. Nothing in the code
compares two future times, so only whether a moment has passed matters. The
outcome of a handler is nondeterministic. Logs, payloads and telemetry are left
out. There is one queue, unpaused and without a limit, so any subset of the
claimable jobs that fits the free slots can be claimed (`SKIP LOCKED` may skip
any row). All jobs have the same `maxRetries`. Statuses the code never writes
(`FAILED` and `TIMED_OUT` of a job or execution, `DEGRADED` of a worker) do not
occur. A restarted process registers a new row and is therefore a new worker.
A `poll` or `ping` that SIGTERM finds under way is a member of `inflight`; a
reaper pass under way goes on by itself.

### How `Poller` corresponds to the code

`JobEngine` claims a set of jobs in one step and knows one queue. `Poller` looks
into that step: one action is one statement of `claimJobs`, and any number of
workers are in the middle of a call at once.

| state | code |
|---|---|
| `status`, `owner` | `jobs.status` (CLAIMED stands for RUNNING too), `jobs.claimedByWorkerId` |
| `lock` | the row locks of `FOR UPDATE`, held to the end of the transaction |
| `paused`, `limit` | `queues.isPaused`, `queues.concurrencyLimit` |
| `active` | `activeJobs` |
| `poll[w]` | the local variables of `claimJobs`: the queues still to come with the limits read, `remainingSlots`, `claimedJobs`, and the queue, `LIMIT` and rows of the transaction under way |

| actions | code |
|---|---|
| `FetchQueues` | `queue.findMany`, the early returns before and after it |
| `SkipQueue`, `EnterQueue` | `job.count`, `allowedForQueue`, `continue`, `limit` |
| `SelectRows` | `SELECT ... LIMIT ... FOR UPDATE SKIP LOCKED`, and the return without rows |
| `UpdateRows` | `updateMany`, the commit, `claimedJobs.push`, `remainingSlots -=` |
| `Continue` (part of the last three) | the head of the loop; on its end, `pollAndDispatch` adds the claims to `activeJobs` |
| `PollFails` | a statement that fails: rollback, and the catch of `pollAndDispatch` |
| `Finish`, `Return` | the executor: a job ends, or goes back to QUEUED |
| `SetPaused`, `SetLimit` | `setQueuePaused`, `updateQueue` |

The jobs are all due, and neither cancelled nor reaped: what those do to a
claim is in `JobEngine`. A job that ends leaves its slot in the same step. A job
keeps its place in its queue when it is retried, although its `runAt` moves.

### How `DagWorkflow` corresponds to the code

| state | code |
|---|---|
| `status`, `deps` | `jobs.status`, also "DELETED"; what a child was created to depend on. `Parents(c)` are the rows of `job_dependencies` that exist |
| `run[r]` | a call of `Executor.execute`: the `await` it is at, its job, and the children `resolveChildDependencies` has read, or found ready |
| `reaping[p]` | the jobs a reaper pass has read and not yet queued |
| `request[q]` | `cancelJob` or `retryJob` between its read and its write |
| `started`, `completed`, `exempt`, `late`, `lost`, `stranded`, `usurped` | histories: rows of `job_executions`; jobs that completed; jobs released by hand; children created too late; parents whose resolution broke off; children from which a deletion took the last parent that was pending; jobs a reaper queued that were no orphans by then |

| actions | code |
|---|---|
| `Create` | `createJob` with `dependencyIds`: the row and its dependencies in one transaction |
| `DeleteQueue` | `deleteQueue`: any set of jobs, as each may be in a queue of its own, with their dependencies |
| `Claim`, `Start`, `StartRejected`, `Complete`, `Fail`, `JobGone` | the poller's claim and `execute`, as in `JobEngine`, without counting attempts; its writes fail once the job is deleted |
| `ReadChildren`, `ReadParents`, `Unlock`, `Resolved` | `resolveChildDependencies`: the two queries (the parents are an include of the same `findMany`, which is a later statement), and one update per child |
| `UnlockFails`, `ResolveFails`, `Crash` | the catch block of `execute` after the success was committed, because a child was deleted or a query failed; a process ends |
| `FindOrphans`, `Requeue` | `reapDeadWorkers`: the jobs in flight of a worker that is taken for dead, also one that is alive, are read and later queued by id |
| `ReadJob`, `WriteJob`, `WriteFails` | `cancelJob`, `retryJob` |

Dependencies refer to rows that exist (the foreign key) and a job has its
dependencies from its creation, so that the graph has no cycle.

### How `CronScheduler` corresponds to the code

| state | code |
|---|---|
| `state`, `nextRunAt`, `hasQueue` | `scheduled_jobs.isActive`, `nextRunAt`; the row of `queues` the schedules belong to |
| `pass[p]` | a call of `tick`, in any worker: the schedules still to come, the current one, the next occurrence computed for it |
| `request[q]` | a request of `CronService` between its read and its write |
| `spawned`, `overlapped`, `rewound` | histories: jobs per occurrence; the two exceptions |

`ReadDue`, `Spawn`, `SpawnFails` and `PassAborts` are `tick`; `CreateRead`,
`ResumeRead`, `PauseRead`, `DeleteRead`, `Write` and `WriteRejected` are
`CronService`; `DeleteQueue` is the cascade of `deleteQueue`. A cron expression is a
period.

### How `Ingestion` and `RetryDelay` correspond to the code

| state | code |
|---|---|
| `policies`, `queue`, `jobs` | `retry_policies` by name; `queues` with their policy; the rows of `jobs` in the order of their creation, with `live` for those that still exist |
| `request[c]` | a request between two of its queries, and what it has read |
| `answered` | history: the jobs that were answered to requests with a key |

| actions | code |
|---|---|
| `CountPolicies`, `Provision`, `CreatePolicy` | `RetryPolicyService` |
| `CreateQueueCheck`, `CreateQueue`, `UpdateQueue`, `DeleteQueue` | `QueueService` |
| `ReadQueue`, `FindByKey`, `ReadPolicy`, `InsertJob` | the four queries of `createJob` |
| `ReadQueueForBatch`, `InsertBatch` | `createBatchJobs`; the transaction is one step |
| `FailJob` | the delay that `handleFailure` computes with `calculateRetryDelay` |

The delay is computed in milliseconds; multipliers are whole numbers and the random
factor of the jitter is a number of percent between 75 and 125.

### How `Session` corresponds to the code

| state | code |
|---|---|
| `org`, `projects` | `users.organizationId`; `projects`, the newest first |
| `stored` | `localStorage`: `djs_auth_token`, `djs_user`, `djs_current_project` |
| `user`, `token`, `list`, `current` | the state of `AuthProvider` |
| `auth`, `refresh`, `post` | calls of `login` / `register`, `refreshProjects` and the form for a new project that are under way |

| actions | code |
|---|---|
| `Submit`, `LoginServed`, `RegisterServed`, `SignIn`, `ProjectsServed`, `AuthProjects`, `AuthFails` | `login` and `register`: the form, `AuthService`, the first answer, `listProjects`, the second answer, and a call that fails |
| `StartRefresh` (part of others), `RefreshServed`, `RefreshAnswer`, `RefreshFails` | `refreshProjects`: the request, `listProjects` that serves it, and the answer, which may come any time later |
| `PostProject`, `PostServed`, `PostAnswer`, `PostFails` | the project form and `createProject`; the refresh after it |
| `Logout`, `Choose`, `Load` | the header; a reload |

A token stands for the user it was issued to. There is one page: other tabs, which
share its `localStorage`, are left out.

### How `Sockets` corresponds to the code

A *loop* is one run of the effect of `WebSocketContext`: `connecting`, `open`,
`closing` (the close event is still to come), or `waiting` for its timer.
`wsRef`, `timerRef` and `connected` are the refs and `isConnected`, which all
loops share. `TokenChanges` is the cleanup and the effect, which run together;
`OnOpen`, `OnClose`, `Drop` and `TimerFires` are the callbacks. On the server, a
connection with a token is accepted or refused in the step that opens it; one
with an API key waits for the lookup: `MachineConnects`, `KeyFound`, `KeyRejected`
and `MachineLeaves`, with `clients` for the table. An error during the lookup finds no
listener and ends the API process (`ErrorUnheard`).

### How `Views` corresponds to the code

A behaviour is the life of one mounted view, `kind`, which differs from the others
in whether it polls, is of a project, has pages on the server, and what it
changes (`Views`, a record per view). A view of a project may be mounted when there is
none (`NoProject`: the project request of a login has not been answered, or failed);
its fetches return before they do anything.

| state | code |
|---|---|
| `project`, `page`, `tab`, `text`, `effect` | the selection, and the copy the effect has closed over |
| `requests` | the requests in flight: sent, or handled with their data |
| `shown`, `loading`, `refreshing`, `marks` | the list with the selection it was asked for; the skeleton, the spinner; disabled rows, forms and dialogs |
| `items` | the rows on the server |
| `foreign` | history: the rows others changed, or the user without an answer, since a list was last read |

| actions | code |
|---|---|
| `SwitchProject`, `TurnPage`, `ChooseTab`, `Search`, `Refresh`, `Poll` | what makes a view fetch: the effect, Enter in the search field, the refresh button, the interval |
| `Submit`, `ChangeDone`, `ChangeFailed` | a handler that changes a row or adds one, and the fetch that follows it |
| `Serve`, `Fail`, `Others` | the API; a request that fails, or whose answer is lost after it was handled; workers, the scheduler and other users, who change rows of every view |
| `ListAnswered` | the end of `fetchJobs`, `fetchDlq`, ... |

## 3. Runs

| run | instance | shows |
|---|---|---|
| `JE_Faults` | 1 job, 2 workers that may crash, 2 invocations, 2 reaper passes, 1 retry, 1 late heartbeat, 1 database error | one executor per attempt, owner and status agree, and the refinement of `ExecutionLedger`, although two workers may execute the job at once |
| `JE_Requests` | 1 job, 1 worker with 2 slots that may be stopped, 1 reaper pass, 2 requests (cancel, retry, replay), no retry, fairness | the dead letter queue is truthful and complete under every race of two requests with each other and with two invocations; a worker that receives SIGTERM exits |
| `JE_Settles` | 3 jobs, one the child of another, 2 workers, one may crash, 2 invocations, 1 reaper pass, 1 retry, fairness | when only dead workers are reaped, by one pass at a time, a job is executed by one invocation, which holds its lease; the retry budget is respected; completion is final; every job settles |
| `PO_Claims` | 2 queues, 3 jobs, one retried without end, 2 workers with 2 slots, limits 1 and 2, 1 change of a queue, 1 database error | no two workers hold a job, nothing claimed is dropped unless a statement fails, slots are respected, one worker alone respects a limit |
| `PO_Live` | the same with limits of 1, fairness | a paused queue runs empty; every waiting job is claimed, whatever fills the other queues |
| `DG_Workflow` | 3 jobs with any dependencies, 2 invocations, 1 reaper pass, 1 request, 1 crash, failing query, deletion or false alarm, fairness | parents first, also as a refinement of `DependencyOrder`; no unlock is lost but for three named exceptions; in a tree no job runs twice at a time, unless it is retried by hand or reaped wrongly; children are unlocked |
| `CR_Ticks` | 2 schedules of periods 1 and 2, one of them created, 2 passes, 2 requests, time to 2, 1 aborted pass, fairness | one job per occurrence, outside two counted exceptions; what is due is handled |
| `IN_Requests` | 2 clients with 2 requests each, 2 queues, 1 key, a batch with and without it, 4 rows, 2 failures, jitter at both ends | one job per key; batches are whole; budget and delays come from one policy; delays are within it, but for the jitter |
| `SE_Sessions` | 2 users, 2 organizations, 2 project names, 2 failures, 2 reloads, fairness | one identity; own projects; the choice survives a refresh that knows of it; a login ends in a session with a project or in none |
| `SO_Sockets` | 2 tokens, 3 changes of the token, 1 break or unheard error, 1 machine, fairness | one loop per session; the indicator is never on without a socket; entries are open connections; the session gets its socket back |
| `VW_Views` | each of the 7 views, with a project and without; 2 projects, 2 rows, 2 requests in flight, 3 actions of the user, or 2 and 1 of others or 1 failure, fairness | a quiet view is current but for the rows of others; what is disabled is released; the polling view settles |

Each of these properties is refuted by a faulty variant of a definition, kept
beside it under a name ending in `Bug` (a dropped guard, a missing reset, an
off-by-one, a wrong filter), so none of them holds for want of interesting
behaviour.

One more run, `JE_DelayedStays`, checks what the documents say and the code does
not do: `docs/api-reference.md:245` and `README.md:25` promise delayed jobs, but a
delayed job is created SCHEDULED, and nothing but dependency resolution moves a
job from there to QUEUED. TLC finds the job that waits for good.

### Behaviours worth knowing

The following are behaviours of the model, found by checking a stronger
property, and kept as the exceptions that the properties name rather than as runs.

*Workers.* A `poll` under way at SIGTERM claims jobs after the drain loop saw none
(`index.ts:127`): the worker exits as OFFLINE and no reaper looks at it. The
reaper selects no DRAINING worker (`reaper.ts:14`), and marks a worker OFFLINE
before it re-queues its jobs (`reaper.ts:27`), so that a crash while draining, or
one database error, leaves jobs behind; so does an error in `handleFailure`
(`executor.ts:123`). A worker taken for dead that starts a job it lost turns QUEUED
into RUNNING with no owner (`executor.ts:21`); if it then crashes nothing selects
the job again, where `reaper.ts:7` says "tasks are never lost". Two reapers find
one orphan, and the second re-queues it after it was claimed again
(`reaper.ts:42`); they may be passes of one worker, because its interval starts a pass
without waiting for the last (`index.ts:54`). A job whose retry is scheduled can be
claimed while the log of it is still to be written (`executor.ts:155`); the old
invocation keeps a slot, and the poller of the same worker may start the job again
before it ends. If dependency resolution fails after a success was committed, the
success becomes FAILED and the completed job is retried (`executor.ts:103`).

*Limits.* Two workers that count the active jobs of a queue before either claims
exceed its `concurrencyLimit` together (`poller.ts:51`). A poll that fails at a later
queue drops the jobs it claimed from an earlier one, which stay CLAIMED by a live
worker and count against the limit for good (`poller.ts:66`, `index.ts:98`).

*Requests.* `cancelJob` cancels CLAIMED and RUNNING jobs, where
`docs/api-reference.md:295` says "before it is claimed", and a job that completes
between its read and its write becomes CANCELLED. `retryJob` leaves the dead letter
entry open. A replayed job is quarantined again at its first failure, because the
budget is counted in execution rows, where `docs/api-reference.md:328` says that a
replay "resets retry counters".

*Dependencies.* `docs/architecture.md:83` says that a child whose parents are all
completed "is automatically unlocked". A child that is created after its parents
completed never is (`late`), nor is one whose resolution broke off (`lost`). The
resolver queues by id: a child that was cancelled meanwhile is resurrected, and a
child of two parents may be queued by both, the second time while it is claimed or
runs, and then with an owner, which this update does not clear (`executor.ts:268`).
Deleting a queue (`queue.service.ts:163`) deletes, by cascade, the dependencies of
children in other queues: a child whose last pending parent goes this way stays
SCHEDULED although all its remaining parents are COMPLETED (`stranded`), and a
resolution that is about to queue a deleted child fails, which leaves its other
children waiting too. A reaper that takes a live worker for dead, or comes after
another one, queues a job that is being executed (`usurped`), in a tree as anywhere.

*Cron.* Two passes that overlap spawn two jobs for an occurrence, and a resume
computed before a spawn and written after it moves the schedule back.

*Ingestion.* The items of a batch take the delays of their queue's policy and the
default budget. Jitter is applied after the cap. An idempotency key is taken for as
long as its job exists: `docs/database-schema.md:188` says "within the 24-hour retention
window", and `tests/src/idempotency.test.ts:40` and its query (lines 60-66) look for
jobs "within 24h", but `job.service.ts:32` looks at no age and the unique index
(`schema.prisma:223`) has none. So a key that is repeated after 24 hours is answered with
the old job. `OneJobPerKey` states what the code does; the model has no clock, since no
query of ingestion reads one, and the disagreement is with the documents only.

*Accounts.* The slug of the default project collides with that of an organization
that exists already, which undoes the registration: nobody can join an
organization after its first user. An answer of `refreshProjects` that comes in
another session shows the projects of the earlier one, and a failed refresh ends
the session it meets. An answer that was served before a project was created,
and comes after that project was chosen, does not contain it, and puts the first
project in its place, in `localStorage` as well (`AuthContext.tsx:90`).

*Sockets.* The close handler arms a timer also when the cleanup closed the socket,
so that the loop of an ended session goes on with its old token. Its late close
event turns the indicator off under an open socket, and a token the server refuses
makes the indicator flap. On the server, a connection that is gone before its key was
found stays in the table, and one that reports an error before then has no listener for
it (`ws.server.ts:100`), which ends the process. Nothing calls `broadcast`, so that the "live events" of
`README.md:27` consist of the welcome message.

*Views.* An answer is shown whatever is selected by then; a view that does not poll
keeps the wrong list. Text that is searched for on the first page is not seen by
the interval, which puts the earlier list back. One variable marks the row that is
being toggled, so that a second toggle enables the first row again. A change whose answer is
lost is not followed by a fetch, so that a view that does not poll goes on showing the
old row. Without a project a fetch returns before its `finally`
(`JobExplorerView.tsx:70`, `DlqView.tsx:44`, `QueuesView.tsx:45`, `CronView.tsx:50`,
`OverviewView.tsx:39`): after a login whose second request failed the skeleton stays, and
so does the spinner of a refresh, until there is a project.

### Bounds

*`JobEngine`.* `MaxLatePings` and `MaxDbErrors` count faults; one of each is enough
for a second invocation on the same job, and for an error at every `await`. Two passes
are two workers, or one worker, reaping the same dead worker. In
`JE_Requests` a second invocation comes from cancelling and retrying a running job,
which takes two requests and two slots. `SlowDrain` is empty there, so that the worker
exits because it has drained, not because 30 seconds have passed. The number of attempts of a job is bounded by
`MaxRetries` and by how often faults and requests re-queue it, so no run needs a
state constraint.

*`Poller`.* Two workers and two queues are enough for every race of two polls over
one queue and for claims carried from a queue to the next; two jobs in the queue
of the higher priority let one wait behind the other. `MaxChanges` and `MaxDbErrors`
bound pauses, updates and failures. Retries are not bounded: the jobs in `Retried`
return again and again. In `PO_Live` the limit of each queue is below the slots of a
worker. With limits above them a strict priority starves the lower queue by
design, as the code orders the queues, and a job that fails without end can keep
those behind it in its own queue waiting; the retried job is therefore the last of
its queue there. A limit is at least 1 (`shared/src/dtos.ts:53`).

*`DagWorkflow`.* Three jobs give a child with two parents, a parent with two
children and a chain; two invocations are two parents that complete together.
Failures and retries are not bounded, `MaxEvents` counts crashes, failing queries,
deletions and false alarms. The constraint `InsertedInOrder` drops workflows that differ
only in the names of jobs, `Connected` those in which a job has nothing to do with the
others, and `FewEvents` combines a request with no other event than the deletion of its
job.

*`CronScheduler`.* Time 2 lets a schedule of period 1 fire twice and be due again;
a second schedule lets a pass fail before or after the one of interest.

*`Ingestion`.* Two clients race for one key, in a single job or in a batch, through
two queues of which one can be created or deleted meanwhile. Two requests of each
let a client repeat a request. Four rows hold a batch of two items and a job.

*`Session`.* Two users and organizations are what answers can be mixed up between; two
failures break a login and a refresh.

*`Sockets`.* Three changes of the token are login, logout and login, and three
loops are as many as they leave behind. A break can be followed by any number of
reconnections.

*`Views`.* Two slots are the least for answers to overtake one another; three actions
of the user are a selection, a change and a refresh, in any order. The constraint
`OneDisturbance` leaves out the behaviours in which a request fails and others also
change a row, and those with three actions of the user besides. No constraint cuts off a step that a fairness condition is about.

`CHECK_DEADLOCK FALSE` is set where the system may stop: the jobs have settled and
the workers are gone, or the bounded requests are used up. Invocations,
passes, requests and, where no constant tells them apart, workers are interchangeable;
symmetry is used in safety runs only.

### Fairness

Fairness is weak everywhere, and assumed only of what the code's own scheduling
repeats or answers; never of what users do, of changes of queues or schedules, nor of any fault.

| module | `FairSpec` assumes | because |
|---|---|---|
| `JobEngine` | a started invocation goes on; workers register, ping, poll and run the reaper; shutdown goes on; time passes | the event loop; the handler's timeout; repeated timers |
| `Poller` | workers poll and their statements return; each execution ends | the poll timer, the pool of connections, the handler's timeout |
| `DagWorkflow` | a started invocation goes on | the event loop |
| `CronScheduler` | passes start again and go on | `setInterval` in every worker |
| `Session` | a call that is under way is answered or fails | `fetch` |
| `Sockets` | events and timers of a loop are delivered | the browser |
| `Views` | the interval keeps running; requests are handled and answered | `setInterval`, `fetch` |

## 4. Proofs

TLAPS proves the following for every value of the constants that satisfies the
assumptions each module names.

| module | theorems | statement |
|---|---|---|
| `JobEngineProofs` | `Invariance`, `TypeCorrect` | `[]IInv`, `[]TypeOK` |
| | `AttemptNumbersContiguous`, `OneExecutorPerAttempt` | `[]AttemptsContiguous`, `[]AttemptHasOneExecutor` |
| | `QuarantineIsBacked`, `DeadLetteredListed`, `OwnerConsistent` | `[]DlqEntriesBacked`, `[]DeadLetteredIsListed`, `[]OwnerMatchesStatus` |
| | `HistoryMonotonic` | `HistoryIsMonotonic` |
| | `LedgerKept` | `KeepsLedger`: `JobEngine` implements `ExecutionLedger` |
| | `OneExecutor`, `LeaseHeld` | `[]OneExecutorPerJob`, `[]LeaseIsHeld`, each under conditions (below) |
| | `CompletionFinal`, `RetryBudgetKept` | `CompletedIsFinal`, `[]FailuresWithinRetryBudget`, likewise |
| | `ResolversCarryChildren` | `[]ChildrenDepend` |
| | `OnlyDeadReaped` | `[]DeadAreDead`, of every deployment without late heartbeats and SIGTERM |
| | `QuietGuarantees` | the four properties of such a deployment that is undisturbed, if passes are disjoint |
| `PollerProofs` | `PollerInvariance`, `PollerTypes` | `[]PInv`, `[]TypeOK` |
| | `DisjointClaims`, `ClaimsHeld`, `SlotsRespected` | `[]ClaimsDisjoint`, `[]ClaimedIsHeld`, `[]WithinSlots` |
| | `OwnClaimsWithinLimit` | `[]WorkerWithinLimit` |
| `DagProofs` | `WorkflowInvariance`, `WorkflowTypes` | `[]GInv`, `[]TypeOK` |
| | `Gate`, `UnlocksConserved`, `OnceInTrees` | `[]ParentsFirst`, `[]NoLostUnlock`, `[]TreesRunOnce` |
| | `OrderKept` | `KeepsOrder`: `DagWorkflow` implements `DependencyOrder` |
| `CronProofs` | `CronInvariance`, `CronTypes`, `FiresOnce` | `[]CInv`, `[]TypeOK`, `[]OncePerOccurrence` |
| `IngestionProofs` | `IngestionInvariance` | `[]IngestionInv` |
| | `KeyNamesOneJob`, `BatchWhole`, `BudgetIsOfPolicy` | `[]OneJobPerKey`, `[]BatchIsWhole`, `[]BudgetOfPolicy` |
| | `DelaysBounded` | `[]DelayWithinPolicy` |
| `SessionProofs` | `SessionInvariance` | `[]SessionInv` |
| | `IdentityIsOne`, `ProjectsAreOwn`, `LogoutComplete`, `NobodyLockedOut` | `[]OneIdentity`, `[]ProjectsOfUser`, `[]LogoutIsComplete`, `[]AccountHasProject` |
| | `ChoiceKept` | `ChoiceSurvives` |
| `SocketsProofs` | `SocketInvariance`, `SocketTypes` | `[]SInv`, `[]TypeOK` |
| | `ReconnectionKeepsOne`, `IndicatorTrue`, `ClientsOpen` | `[]OneLoopPerRun`, `[]LiveSyncIsTrue`, `[]EntriesAreOpen` |
| `ViewsProofs` | `Invariance`, `TypeCorrectness`, `QuietViewIsCurrent` | `[]VInv`, `[]TypeOK`, `[]QuietIsCurrent` |

Every module has the same shape: an invariant that is inductive, a lemma for each
action that preserves it (or the parts the action can disturb), and the theorems
drawn from it.

*`JobEngine`.* The job row cannot carry the proof: anyone overwrites it. What
is stable is the history. An invocation gets an attempt number n that is at most
one beyond the rows (`RunsOwnRows`); the unique index lets exactly one
invocation insert row n, and from then on it alone writes that row. So the rows
stay contiguous, no two invocations share one (`AttemptHasOneExecutor`), and
when an invocation comes to route its failure, the row still says FAILED and is
not yet in the dead letter queue (`NotYetQuarantined`). `AttemptsContiguous` alone
is not inductive (a stale number could skip one), nor is `DlqEntriesBacked` (a
second invocation could have rewritten the row).

*The ledger.* `ExecutionLedger` says what the history of a job promises
without the processes that write it: its attempts are a sequence that is
appended to, an attempt succeeds at most once and fails at most once, and a failed
attempt beyond the budget is quarantined at most once. `Ledger == INSTANCE
ExecutionLedger` maps the tables to themselves; what has to be shown is that a
table keyed by an attempt number counted earlier is a sequence
(`RowsAreSequence`), that inserting a row appends it (`StartBegins`), and that a
failure is routed to quarantine once (`DeadLetterQuarantines`). A success may
become a failure, because the code allows it.

*The owner.* A resolver queues a child by id and keeps its owner, so that a QUEUED row
may have one. `ChildrenDepend` says that what resolvers carry are children of the job
they completed; everybody else who writes QUEUED clears the owner. So `OwnerMatchesStatus`
excludes an owner of a queued job only if the job has no parents.

*The lease.* That a job has one executor, that the executor holds it, that completion
is final and that retries are bounded does not hold of the code as it stands: a late
heartbeat, two reaper passes, two parents of one child or a request break it
(*Behaviours worth knowing*). The theorems say which conditions are enough, and nothing
in the code enforces these:

| condition | it says | what would break it |
|---|---|---|
| `DeadAreDead` | who looks dead to a reaper is not alive | a heartbeat that is late |
| `PassesDisjoint` | no two passes deal with one dead worker | the timers of two workers that fire together, or the timer of one that fires again during a slow pass |
| `Tree` | no job has two parents | two parents that both queue their child, the second after it was claimed |
| `QueuesUnattended`, `QueuesNothing` | the API queues no job that is executed, about to be re-queued, or about to be queued by a resolver; none at all | `retryJob` after `cancelJob` of a running job, `replayDlq` of one |
| `WritesUnattended`, `WritesSpareCompleted` | nor cancels a job that is executed or about to be re-queued; nor writes a completed one | `cancelJob` of a running job; or one that completes between its read and its write |
| `ResolvesSucceed` | no database error during dependency resolution | `executor.ts:102` |

The first two are invariants, `Tree` is about the constants, the others are conditions on
steps. `OneExecutor` needs the first three and `QueuesUnattended`; `RetryBudgetKept` the
same with `QueuesNothing`; `LeaseHeld` the first three with `WritesUnattended` and
`ResolvesSucceed`; `CompletionFinal` also `WritesSpareCompleted`. Everything else, crashes
and shutdowns at any point, passes of one worker that overlap over different dead
workers, and database errors anywhere else, is covered.

`OnlyDeadReaped` proves `DeadAreDead` from the specification when no heartbeat is late and
nobody sends SIGTERM (`NoFalseDeath`), for any number of workers that crash.
`QuietGuarantees` draws the four properties from the constants alone (`NoFalseDeath`, no
request and no database error (`Undisturbed`), and `Tree`) and one condition on the
behaviour, `PassesDisjoint`. That one cannot be had from the constants, because nothing
keeps even the passes of one worker apart; in `JE_Settles`, which satisfies the
assumptions, it is met because there is only one pass at a time.

The invariants build on one another. `LeaseInv` is about whose hands a job is in: a
busy invocation has a live worker, one invocation has a job (`OneRun`) and keeps its
row away from the pollers and from other owners (`RunsKeepRows`), a job on the
list of a pass is in nobody's hands and on no other list (`OrphansUnattended`), and a
child that a resolver carries waits or was cancelled, and is in no other hands
(`ChildrenWait`). The
last part makes `ReapRequeue`, which writes by id what `ReapFind` read before,
harmless. `HoldInv` adds that the row says what the invocation wrote last. `BudgetInv`
is about failures beyond the budget that are recorded and not quarantined yet
(`Unrouted`): every such failure of a job has a worker of its own, and all of those workers
but one have ended. So a job fails at most `MaxRetries + 1` times, and once more
for each worker that ended, and not for each database error: an error in
`handleFailure` leaves the job RUNNING under its live worker, where nobody fails it
again before that worker is gone.

*`Poller`.* `ClaimsDisjoint` rests on two different things: while a row is QUEUED the
lock separates the calls (`LocksMatch`, `PickedQueued`), and after the commit its
owner does (`HeldOwned`). The commit is where one takes over from the other.
`WithinSlots`, and the fact that `remainingSlots` is never negative, need the sum of
slots, claims and active jobs (`SlotsCounted`), which each commit preserves and
each job that ends meanwhile only lowers. `WorkerWithinLimit` holds although the jobs are
counted before the transaction: the count takes in the worker's own rows, and only
its own commit can add to them, so that what it may take fits in beside them until
then (`RoomWithinLimit`).

*`DagWorkflow`.* A completed parent may be queued again, so what is stable is that it
completed once: `Released` is monotonic, and both what is queued
(`QueuedIsReleased`) and what an invocation or a resolver holds
(`RunsAreReleased`) is released; a parent that is deleted releases its child as one that
completed does. `NoLostUnlock` is about two parents that complete
together: the later one commits COMPLETED before it reads, so that it carries the
child whatever the earlier one saw (`Carries`). A step that deletes nothing is shown to
keep what is carried, or to record that a resolution broke off (`UnlocksKept`). A
deletion is the one step that shrinks the parents of a child: it leaves the child a
parent that is pending, or records it as stranded. `DependencyOrder` leaves out
invocations, resolvers and reapers; a step of `DagWorkflow` declares, removes, starts,
finishes or exempts a job, or changes nothing there. In a tree (`TreesRunOnce`) a job that
waits or is queued has no invocation, and a child that a resolver has read waits, was
cancelled or was deleted, until that resolver queues it (`OneInvocation`,
`ChildrenWait`): its one
parent has one invocation, so no other resolver can have read it. With two parents
both resolvers may queue it, and the argument fails where the code does; so it does once
a reaper has queued a job that was no orphan (`usurped`), which the property excludes by
name.

*`CronScheduler`.* A schedule is in the hands of one pass (`HandsAreFresh`), which
holds an occurrence that has passed and a later one to write (`PassesAreDue`), and
neither the occurrence in hand nor that of an active schedule, nor any later one,
has fired (`SchedulesAreAhead`). The last part is why the proof needs the
occurrences after the current one, which `OncePerOccurrence` does not speak of.

*`Ingestion`.* The index keeps keys unique among the rows (`KeysAreUnique`), and an
answer is always a row with the key, so that two answers are the same row. Rows are
only appended, by `RowsAdded`, or cease to be live together with all others of their
queue; the items of a batch are in the queue of their parent (`BatchesAreWhole`),
which is why a deletion does not split a batch. Policies are neither changed nor
deleted, so that a policy read early is still the same (`PoliciesExist`). `DelayInv`
bounds the delays, of the jobs of deleted queues too. Its proof corrected the
property: the delay with jitter is rounded after the factor, so that it may
exceed 1.25 times the maximum by up to half a millisecond. The small policy of the
run never shows that.

*`Session`.* The copies of the identity agree, and a page that restores a session
has a refresh under way (`IdentityAgrees`); whoever sends a request has an account
(`SendersHaveAccounts`), and what it was served are projects of its sender
(`AnswersAreOwn`); what is shown is of the user unless the last answer was for
another session (`PageIsOwn`). That an account has a project is needed for the first
project of a login to exist, and holds because registration is one transaction.

*`Sockets`.* The runs of the effect are numbered, and a loop keeps the number of its
run through every reconnection; `LookupsKnown` says which lookups can still leave
an entry behind.

*`Views`.* What is shown is current only at the end, so that the invariant follows the
data on its way there (`InOrder`): unless answers could overtake each other at most one
list is in flight (`OneList`) and every request is of the selection
(`AsksForSelected`); an answer that was read agrees with the server unless a change was
applied after it, whose handler will fetch again, or by others (`AnswersAreCurrent`); and
what is shown agrees once no list and no applied change is in flight (`ShownIsCurrent`).
Agreement is row by row (`Agree`): the rows that others changed since the last list was
read, and those whose change was not answered, are collected in `foreign` and excepted.

*Assumptions.* `EntitiesFinite` (rows can be counted), `NullIsNoRow`,
`SubsetsChosen` and `BoundsAreNaturals` in `JobEngine`; `JobsFinite`, `TablesTyped`
(limits are positive) and `PollBounds` in `Poller`; `NullIsNoJob` and `EventsBounded` in
`DagWorkflow`; `PeriodsPositive`, `CronBounds`, `SomeSchedulesExist` and
`NullIsNoSchedule` in `CronScheduler`; `IngestionBounds`, `KeysOfBatches` and
`PolicyIsValid` in `Ingestion`; `SessionBounds`, `NamesIncludeDefault`,
`NullIsNoName` and `KnownAccounts` in `Session`; `SocketBounds` and `NullIsNeither` in
`Sockets`; `ViewConstants`, `ViewBounds` and `NullIsNoObject` in `Views`. TLC evaluates them in the runs.

*Only model-checked.* Liveness: `EventuallySettled`, `ShutdownCompletes`,
`PausedRunsEmpty`, `EventuallyClaimed`, `ChildUnlocked`, `DueIsHandled`,
`SessionSettles`, `LiveAgain`, `Released` and `PollSettles` (reasoning with
fairness and ENABLED is out of the prover's reach). Every safety invariant and
every action property of the runs has a theorem.

## 5. Not modelled

- *Job service: queries*: `listJobs` and `listDlq` are what `Views` is answered with;
  `getJobById` and the statistics write nothing.
- *Queue administration*: a change of priority is left out; `rateLimitPerMin` is read
  by no code. `JobEngine` and `Poller` have no deletion of a queue: it takes jobs and
  their history away, and what it does to those that remain is in `DagWorkflow`,
  `Ingestion` and `CronScheduler`.
- *Session*: other tabs, which share `localStorage` with the page.
- *React's StrictMode*, which mounts every effect twice in development.
- *The timeout of a handler* does not stop the handler (`executor.ts:58`): its side
  effects after the timeout are outside the model.
- *WebSocket server*: subscription messages; the one reader of the subscriptions,
  `broadcast`, has no caller.
- *API keys*: the middleware that admits REST requests writes `lastUsedAt` and
  nothing else.
- *Dashboard*: the detail dialog, the summary drawer, filters and pages that are
  computed in the browser, and layout.
- *Worker fleet queries*, *AI failure summary*, *handler registry*, *seed data*:
  read-only queries, a call to a language model, simulated work, a script.
- *Controllers, routes, validation, error middleware*: a stateless translation
  between HTTP and the services. They appear as the beginning and the end of
  requests.
- Logs, telemetry, payloads and wording.

Worth adding next: the composition of `DagWorkflow` with the attempts of
`JobEngine`, which would tell how often a resurrected child is executed; a proof
that the workers of one fleet respect `concurrencyLimit` if the count were taken
inside the claim; and the detail dialog of the job explorer.
