# A verification project for rowtheboat

TLA+ models of the parts of this repository whose correctness depends on the
order in which things happen, the TLC runs that check them on small instances,
and TLAPS proofs, for every size, of the safety properties the runs check. Paths are
relative to the repository's root; `WS` is `src/services/workflowService.ts`, `JQ`
`src/services/jobQueue.ts`, `SS` `src/services/schedulerService.ts`.

Run a check with `tlc -config <Run>.cfg MC<Module>.tla`, the proofs with
`tlapm <Module>Proofs.tla`.

## The system

A Node.js server (`src/api/server.ts`) with its state in PostgreSQL (through
drizzle and postgres.js) and in the memory of its process. A request or a cron
schedule inserts a row into `task_logs` and enqueues a job for it; a timer runs
the jobs; a job of type `scheduledWorkflow` executes one or two steps of a
workflow, whose row holds the steps, a cursor, an accumulated context and a lock.

    routes --INSERT task_logs, enqueueJob--> jobQueue --executeWorkflowById--> workflowService
    node-cron --executeScheduledWorkflow--^                                   |  row of workflows
        ^                                                                     v
    schedulerService (activeSchedules, rows of schedules)             step handlers, email

Around this core stand services that share no state with it: a queue of emails,
a circuit breaker in front of the AI provider, the ingestion of reports,
parsers, credentials, health checks, monitoring, migrations, a Redis connection
and the configuration they all start from.

Within a process the code is single-threaded and every `await` lets everything
else run. Several processes may share the database. A statement may fail, or be
executed and its reply lost; a process may die at any `await`.

### Components

| Component | State | Operations | What is hard | What makes it correct | Module |
|---|---|---|---|---|---|
| Workflow engine (`WS`, `executeWorkflowById` in `SS`) | row of `workflows`: status, locked, lockedAt, currentStep, steps with retry counts, context | createWorkflow, runWorkflow, resetWorkflow, deleteWorkflow, configureWorkflowNotifications | concurrent jobs on one row; a lock that anybody may clear; UPDATEs from an old snapshot; lost replies | steps in order, no step skipped, results not lost, completed means performed, retries bounded, workflows come to an end | WorkflowService |
| Job queue (`JQ`) | array of jobs, rows of `jobs` and `task_logs` | enqueueJob, the 5 s timer with processInMemoryJobs, processJob | overlapping ticks with snapshots of their own; a failing step of error handling; loss of the array | start order, nothing completed that was not executed, honest attempt counts, every job started, no task left in processing | JobQueue |
| Cron scheduler (`SS`) | rows of `schedules`, map activeSchedules, node-cron tasks | initializeScheduler, create/update/deleteSchedule, start/stopSchedule | the map read and written across awaits; answers in any order; restart | the task that fires is the one the row asks for; no task out of reach | Scheduler |
| Scheduled runs (`SS`:448-616, routes, `JQ`, `WS`) | rows of `task_logs` | executeScheduledWorkflow, POST /api/tasks, /submit-task, /enqueue/:taskId | a row and a job written apart; a repeated INSERT; an engine that skips | what a row of `task_logs` says has happened | ScheduledExecution, RunLog |
| Email queue (`emailQueue.ts`, `mailerService.ts`) | rows of `email_queue` and `email_logs`, isProcessing | enqueue, processQueue, retryEmail | lost wake-up at the end of the loop; rows stuck in processing; overlapping retries | sent once; completed and sent mean it; pending emails are taken up | EmailQueue |
| Circuit breaker and AI client (`utils/circuitBreaker.ts`, `core/ai/`) | row of `circuit_breaker_state`, list of models | generateWithFallback, execute, reset | state, counters and time of the last failure read and written in separate statements | opens and closes only with failures and successes enough | CircuitBreaker |
| Rate limiter (`utils/rateLimiter.ts`) | timestamps, waiters, paused | execute, pause, resume | waiters woken by completions only, in microtasks of their own | at most maxRequests in a window | RateLimiter |
| Typed queue manager (`queueManager.ts`) | array of jobs, rows of `jobs` | addJob, addRepeatedJob, timer | one catch for the job and for the statement after it | a job runs again only for a reason | TypedQueue |
| Report ingestion (`emailIngestService.ts`, `resultsPersistence.ts`) | files, rows of `report_sources` and `reports` | ingestReportFromEmail, storeResults | a look for duplicates and an INSERT apart | one report for an attachment | Ingestion |
| Prompt templates (`core/ai/promptTemplate.ts`) | cache by name, times by path | load, get, update, refresh | content read before the time | a template is what was last loaded; edits are seen | PromptTemplates |
| Retries and errors (`utils/retry.ts`, `errorHandling.ts`, `apiErrorHandler.ts`, `shared/error*.ts`) | counters of a call | three retry helpers, wrappers, middleware | two ways to count | as many calls as allowed; the status of the error | ErrorHandling |
| Forms (`frontend/.../useForm.ts` and three forms) | values, errors, isSubmitting | change, submit, reset | fields open during a submission | what is submitted was validated, one at a time | Forms |
| Task parser (`taskParser.ts`) | none | parseUserRequest | two models whose answers may be anything | a task of every request, of the answer given | TaskParser |
| Response cache (`middleware/cache.ts`) | entries with a time to live | cacheMiddleware, clearCache, clearCacheKey | an answer computed before a removal and stored after it | only successful answers; none older than a removal | ResponseCache |
| Redis connection (`redisService.ts`, `redisHealthCheck.ts`) | status, attempts, clients, timers | initialize, connect, reconnect, close | events of old clients; failed reconnects | connected means connected | RedisConnection |
| Health checks (`healthService.ts`, `healthCheckScheduler.ts`, `routes/health.ts`) | rows and logs of checks, timers | runHealthChecks, the checks | overlapping runs | the row shows the last result | HealthChecks |
| Migrations (`migrations/`, `migrationService.ts`) | table of applied migrations | migrateDatabase, runMigrations, the script | several instances; applied but not recorded | in order, recorded only when applied | Migrations |
| User credentials (`userCredentialService.ts`) | rows, audit log | add, read, update, delete, deactivate | read, write and log in three statements | deleted stays deleted; changes are logged | UserCredentials |
| Documents (`pdfExtractor.ts`, `attachmentParsers.ts`, `XLSXParser.ts`) | none | extraction of tables, reading of sheets | loops over lines and cells | rows of a table are found with their columns | Tables |
| Parsers (`parsers/`) | hashes, metrics, temporary files | parseFileWithDeduplication, metrics | a hash stored apart from the look for it | each content once; the metrics count | Parsers |
| Monitoring (`performance.ts`, `monitoringService.ts`, `datadogService.ts`, `performanceMonitor.ts`) | counters, buffer, samples | per request, timers, reset, shutdown | overlapping collections and flushes | counts and samples lose nothing | Monitoring |
| Configuration (`config/`, `envValidator.ts`, `encryption.ts`, `db.ts`) | keys, settings | start, encrypt | four modules read one variable in their own ways | a running server has a proper key and one database | Configuration |
| Security monitoring (`securityMonitoringService.ts`, `securityInitializer.ts`) | cron task, settings | initializeSecurity, checks | repeated initialization | the task can be stopped; alerts have a cause | SecurityMonitoring |

Facts about this commit that decide what can happen:

* `initializeJobQueue` needs BullMQ's `QueueScheduler` (`JQ`:73-79), which the
  version in package.json (^5.52.2) no longer exports. The error is caught and
  the queue is in memory, whatever Redis does. `JobQueue` models that mode.
  `bullmqService.ts` imports the same name statically and cannot be loaded at all.
* A row of `jobs` is written by enqueueJob and retryJob and read by nobody in
  that mode; rows of `task_logs` are never deleted.
* `createWorkflow`'s `.returning()` is inside a comment (`WS`:43); four files
  (`WS`:288-298, `emailQueue.ts`:101-111, `mailerService.ts`:114-124,
  `server/routes/jobs.ts`:24-33) declare `const errorMessage` several times in
  one catch block, which no compiler accepts. The duplicates all have one value:
  the models take them as one, and follow what the statements around such slips do.
* `server/routes/schedules.ts` imports a module that does not exist, so
  createSchedule, updateSchedule and deleteSchedule are an exported API that no
  route reaches; `api/server.ts`:76 calls initializeScheduler before any route is
  registered. deleteWorkflow is called by no route either.
* `__lastStepResult` and `notifyEmail` are keys of the same context as the
  results; the models keep which results it holds.
* Nothing in the repository imports `rateLimiter.ts`, `userCredentialService.ts`,
  `middleware/cache.ts` or, outside themselves, the `parsers/`: they are modelled as the API they export.

## The models

### WorkflowService

One row (statements name their row by id and touch no other), `Runners` that are
jobs inside executeWorkflowById, `Clients` that configure notifications. Each SQL
statement is one action; the code between two awaits belongs to the action
before it.

| TLA+ | Code |
|---|---|
| `row`, `exists`, `CreatedRow` | the row, createWorkflow (`WS`:19-58) |
| `ExecuteWorkflowById` | getWorkflow and the skip check (`SS`:559-577) |
| `ReadWorkflow` | SELECT and its checks (`WS`:65-84) |
| `LockWorkflow`, `CanLock`, `LockedRow` | the conditional UPDATE (85-99) and the choice at 106 |
| `HandlerReturns`, `HandlerThrows` | the step's handler (199-223) |
| `StoreResult`, `StoredRow` | merge and UPDATE (224-243) |
| `StoreFailure`, `FailedRow`, `MayRetry` | inner catch (244-285) |
| `FinishWorkflow` | cursor past the end (105-198) |
| `UnlockAfterError` | outer catch (286-333) |
| `AfterCall` | the second call for a paused workflow (`SS`:589-601) |
| `StatementFails` | a rejecting statement, executed or not, at any of these awaits |
| `ResetWorkflow`, `DeleteWorkflow`, `ConfigureRead`, `ConfigureWrite` | the other operations |
| `TimePasses`, `Crash` | lockedAt ages past five minutes; a process dies |

Data: the context is the set of steps whose result it holds; a handler's outcome
is a choice; lockedAt is fresh or stale. `performed` and `lapsed` are history
variables: the steps whose handler has succeeded, and the runners at work whose
lock a statement has cleared.

### JobQueue

The array as jobs numbered in push order, `Ticks` that may be under way at a
time. A tick's synchronous code (take a snapshot, start a job; end a job, start
the next) is one action, each statement of processJob another. nextRunAt is left
out because it is never ahead of a pending job: only a failure moves it, and a
failed job does not become pending again. `started`, `failures` and `executed`
are history. `workflowless` holds the tasks of type scheduledWorkflow whose data
names no workflow (`schedules.workflowId` is nullable, `shared/schema.ts`:129):
`LoadTask` has the three ways of `JQ`:229-245, of which this one returns without
a statement, so that the job ends completed and its row stays in processing.

### Scheduler

One schedule: its row, the map entry (`active`), the node-cron tasks that fire
(`running`, each named by the call that created it) and the calls on it. A
statement is sent, executed and answered at three different times. postgres.js
may hand several answers over in one turn of the event loop; `ready` is the
queue of continuations, so that `await stopSchedule(...)`, which waits for
nothing, puts the rest of the call behind those that are already ready.
Calls begin only after the start-up call has ended. `disturbed` records which
of four things have happened (overlapping calls, a failed statement, a cascading
delete, several answers in one turn), so that properties can say what they need.

### ScheduledExecution and RunLog

JobQueue and WorkflowService by INSTANCE, with the callers that insert tasks. A
tick inside executeWorkflowById is the runner of the same name; the step that
ends its call is also processJob's next one, as no await lies between.

| TLA+ | Code |
|---|---|
| `Begin`, `TouchSchedule`, `InsertTask` | a firing or a request; UPDATE of lastRunAt; INSERT and the synchronous half of enqueueJob (`SS`:448-498, `api/server.ts` POST /api/tasks, /submit-task) |
| `InsertDuplicate`, `AfterError` | the second attempt with the same id (`SS`:499-555) |
| `EnqueueAgain` | POST /enqueue/:taskId (`server/routes/jobs.ts`) |
| `RecordJob` | INSERT into jobs (`JQ`:290) |
| `QueueStep` | processInMemoryJobs and processJob (`JQ`:174-262) |
| `SkipWorkflow`, `WorkflowNotFound`, `RunWorkflow`, `EngineMoves` | executeWorkflowById (`SS`:559-601) around runWorkflow |
| `CallerStatementFails`, `QueueStatementFails`, `Crash`, `DeleteWorkflow` | faults, one budget for all three parts, and the deletion of the workflow; an INSERT on its way when the process dies may still be executed |

`RunLog` is the abstract specification: a row appears as pending, changes only
while an attempt at it is under way, and says completed only when some attempt
has done the work. Attempts may overlap, and may end without a report. A process that dies may leave rows for
runs it did not live to begin. The refinement mapping takes `log` from
`task_logs`, `open` from the ticks inside processJob, `done` from the tasks whose
workflow was executed, skips included: a skipped workflow counts as executed, in
the code as in the mapping. `CompletedRunsCount` says what this is worth.

### The components of MCOutbound and MCPlatform

These share no state with each other or with the core, so one run checks several:
its first step chooses a component, which then runs alone from its initial state
while the others stay as they are. Each module has its own Init, Next and
properties; the MC module joins them.

* **EmailQueue**. The loop statement by statement, sendEmail with its log
  included; the callers of enqueue and retryEmail; failed statements and deaths.
  The SELECT that comes back empty and the clearing of isProcessing are two
  steps. `mailIgnored` names the four accidents that strand an email: the answer to
  an INSERT or a retry that comes between those two, a failed statement outside the
  inner try, an INSERT or UPDATE that is executed and its reply lost, and the death of the process.
* **CircuitBreaker**. generateWithFallback's models (the set of those left, in order
  of tier), generateCompletion's attempts and execute, each statement on the
  breaker's row a step. Counters are
  compared before they are incremented and no transition resets them, so that
  threshold + 1 failures open the circuit and failures of long ago count
  (the comments at `circuitBreaker.ts`:21 and 25 say otherwise). BreakerHonest takes neither
  side: it says without how many failures and successes the circuit does not move, which
  both agree on. A caller between the
  UPDATE to open and that of the time of the failure probes at once.
* **RateLimiter**. A caller that is let go pushes its timestamp in a microtask of
  its own; `crossed` notes when another was counted in between, the one way past
  the limit. The filter of a timeout (line 138) compares a wrapper with resolve
  and removes nothing.
* **TypedQueue**. The array when Redis does not answer; ticks that overlap; a
  catch that puts a completed job back. A rejection inside that catch ends the
  process.
* **Ingestion**. Attachments in turn, each a file, a source and a report; the
  option storeResults at its default. fetch and generateInsights throw in this
  tree and settle either way here.
* **PromptTemplates**. Files are edited at any time, each edit at a time of its
  own. Files of one base name share an entry, the last loaded wins; a template
  of a subdirectory is not found again once missed; deleted files stay cached. A
  save is two steps, the file with the cache and the stat (lines 267-273): both a load
  and a save have a gap before their stat in which an edit is missed (`raced`).
* **ErrorHandling**. The retry helpers (retry counts from zero, retryWithBackoff
  from one) and the way of the error through the wrappers to the answer. The
  jitter of retry is a half to one and a half (its comment, line 83, says 25%) and
  comes after the cap, so that a wait may pass maxTimeout by up to half (`TimeToWait`).
  A parse error of express.json is answered with 500.
* **Forms**. One form open at a time. A success resets what was typed meanwhile;
  a timer of an earlier submission may take back a later status; ApiKeyForm's
  additionalData inputs are stored under a flat name and never show their text.
* **TaskParser**. An answer is an object with or without type, title and steps,
  or none. Two useless answers yield a pending task of type simple, an untyped
  object in the second a failed one. `api/server.ts`:5 imports a default
  export that the file does not have.
* **ResponseCache**. One key. A request that began before a removal may store its
  older answer after it; a slower request may replace a newer answer. A hit is
  answered with status 200 and the body alone, without its Content-Type.
* **RedisConnection**. Every client's events reach the one service. A reconnect
  that fails is the last (against the comment at `redisService.ts`:433); two
  overlapping initializations share the attempts; startHealthCheck is called by nobody.
* **HealthChecks**. SELECT, write and log of a check are separate; runs come from
  the timer and the routes.
* **Migrations**. migrateDatabase by several instances and the script, whose
  tables have one name and different columns. The one registered migration
  (`migrationRunner.ts`:30) is an object that is called as a function, so that migrate()
  throws; the model lets a migration succeed or fail. Nobody calls
  migrateDatabase at startup although docs/DATABASE_MIGRATIONS.md:7 says so.
* **UserCredentials**. Each operation selects, writes and logs. A read decrypts
  between its UPDATE and its event (lines 175 and 532), and throws there when the row
  was written under another key: `credUnread` has these, whose touch is never logged. Reading moves
  updatedAt, so that "most recently updated" (line 508) is most recently touched;
  a softly deleted name cannot be added again.
* **Tables**. The loops of both modes step over the lines; what they find is
  compared with what a look at the whole text finds: the rules that open a table and the
  lines to the next rule (`Opening`, `TableFrom`), the longest runs of lines of
  many words (`Starts`, `RunEnd`, `TableAt`). Square roots are taken out of
  the confidence. A standard table with a rule under its header loses its rows
  in both modes; two-column tables are never confident enough for the stream mode
  (0.63 < 0.7); parseXLSX shifts columns behind an empty header cell.
* **Parsers**. The hash is stored before it is known that the file can be parsed,
  so that a failed file is refused as a duplicate for sixty days. XLSX and PDF
  files never parse.
* **Monitoring**. Requests and samples, of which one or the other runs. The alert
  on the error rate repeats with every request; flushMetrics is a stub that logs and
  clears the buffer (`datadogService.ts`:189-194); the INSERT of samples always
  fails (a `$1` without a value); the shutdown loses the metrics of open requests.
* **Configuration**. Environments by what its branches tell apart: mode, form of
  the key, form of the database settings. encryption.ts and secrets.ts derive
  different keys from one variable; a key of 44 characters without padding decodes to
  33 bytes, with which every encryption fails though isEncryptionConfigured says
  true. An empty DATABASE_URL is none for `db.ts`:76 and an invalid one for the schema; the
  example key of docs/ENVIRONMENT_VARIABLES.md:69 is one of the forms; `schema.ts`:125 ends in a dangling `export`, taken as absent.
* **SecurityMonitoring**. A second initialization, even one that disables, never
  stops the first task; without SECURITY_MONITORING_SCHEDULE,
  undefined overrides the default and is refused; three of the checks
  group with a HAVING on a bigint and always fail in this commit, so that of the four alerts only that
  on encryption failures can be raised. SecurityHonest does not rely on it:
  it says of any alert that its threshold had been reached. keyRotationService.js is
  missing and taken as present.

## The runs

| Run | Expected | Shows |
|---|---|---|
| WorkflowFaults | pass | TypeOK; LockProtects, NoStepSkipped, CompletedOnlyWhenPerformed, RetriesBounded, CursorMovesUnderLock, LockHasWorker under a crash, a failed statement, a reset, a delete and a client |
| WorkflowConcurrent | pass | InputsComplete and WorkflowSettles (liveness), three jobs and no faults |
| WorkflowLockStolen | violated | LockIsExclusive: the loser's catch unlocks the winner (`WS`:310) against "another process might be running this" (`WS`:96) |
| WorkflowStaleLock | violated | StaleLockTakenOver: "consider it stale and continue" (`WS`:76), but nobody can |
| WorkflowLostResult | violated | InputsComplete with a client: the context is overwritten (`WS`:481-492) |
| JobQueueOverlap | pass | TypeOK, StartedInOrder, RunningNotTaken, AttemptsCounted, CompletedWasExecuted, LogNotAbandoned, EveryJobStarts (liveness) |
| JobQueueRetry | violated | FailedAttemptRetried: a failed job stays in processing (`JQ`:196-200) against docs/ARCHITECTURE.md:55 |
| SchedulerOverlap | pass | TypeOK, MappedTaskRuns, EveryTaskIsMapped, TasksMatchRow |
| SchedulerDelete | violated | DeletedIsStopped: an update in flight starts a task for a deleted schedule |
| ScheduledRuns | pass | ExecutionTypeOK; RunLogImplemented (refinement: `task_logs` keeps the promises of RunLog), RowsAndJobsAgree, CompletedRunsCount, RunSettles (liveness) with callers, queue and engine together |
| Outbound | pass | OutboundTypeOK; EmailSentOnce, EmailTakenUp (liveness), BreakerHonest, LimitHolds, TypedJobsHonest, ReportsKeptOnce, and ClientsHonest: prompt templates, retries, errors, forms, task parser and response cache |
| Platform | pass | PlatformTypeOK; RedisStatusHonest, HealthHonest, MigrationsHonest, CredentialsHonest, DocumentsHonest (tables, parsers), StartupHonest (configuration, monitoring, security monitoring) |

Where the code and its documents disagree beyond the five refutations, the models follow the
code and no property takes a side:

* the circuit opens at threshold + 1 failures, and neither counter is ever reset, against
  the comments at `utils/circuitBreaker.ts`:21 and 25;
* the jitter of `utils/retry.ts`:85 is ±50% where the comment says ±25%, and takes the delay past
  `maxTimeout`;
* the row of a task that names no workflow stays in processing (`JQ`:229-239);
* three of the four alerts of docs/SECURITY_HARDENING.md:82-89 are never raised;
* docs/CONFIGURATION.md:80 and 108 give ENCRYPTION_KEY a default, without which the configuration has
  no key to accept (`config/index.ts`:200), and docs/ENVIRONMENT_VARIABLES.md:69 and 180 an example that no list of
  defaults has, so that production accepts it;
* the comment at `redisService.ts`:433 promises a reconnect after a failed health check that cannot
  happen, as the status was set to error two lines before.

Several properties of Outbound and Platform name the events that excuse a
departure (overlapping calls, failed statements, the accidents of the email
loop). Each is a history variable set only by that event, so that the property says exactly
when the code's promise can be relied on. That the code may depart from it then is
no claim any document of the repository contradicts, but for those named above.

The definitions marked "Mutant" in the modules are plausible mistakes in the
operator that follows them; each property of a passing run is refuted when one
of them replaces the operator it precedes.

### Bounds

* Workflow: two steps, so that there is a first, a last and a cursor past the
  end; the first may be retried once. WorkflowConcurrent has three, so that a
  handler has two earlier results that could be lost and a third job has to
  finish what the two calls of the first leave. Two runners with faults, three without:
  three are needed to steal a lock (one at work, one whose catch unlocks, one
  that locks again); with faults a reset or lost reply does the second's part.
  One crash, one failed statement, one reset, a delete, in any order.
* Jobs: three jobs of two tasks (one a scheduled workflow, with or without the id of
  one) so that two jobs share
  a task; two ticks; maxAttempts 1, which two failing runs in two ticks exceed,
  so that `failed` is reached. With the code's 3, four ticks would have to hold
  the same job.
* Scheduler: three calls besides the start-up: one creates the schedule (or it
  exists), two race. Two valid cron expressions, to tell an old task from a new
  one, and an invalid one. Two answers in a turn; one failed statement, one crash.
* ScheduledRuns: one firing and one request that submits a task or enqueues the
  firing's again; two ticks, two steps without retries, maxAttempts 1; one
  fault anywhere in the three parts, and the deletion of the workflow. A second job
  of the same run in an overlapping tick is what makes attempts overlap.
* Outbound: two emails (one to strand, one to wake the loop), two retries that
  race, two attempts, two failed statements, one death. Two completions of two
  models with two attempts; two failures and one success as thresholds, so that one
  failure is too few, and a call admitted before the circuit opens ends after it. Five limited callers for a limit of 2: two in the window, two let go, one that
  crosses. Two typed jobs in two ticks, two failed statements, one death. Three ingests of two
  attachments: two that race and one that finds their work. One template in three
  places, four edits, three calls. Two retries, delays of at most 3 (30 in the
  code), two wrappers. Three typed changes and two submissions. One request with
  two answers. Three cached requests, two versions, one removal.
* Platform: two Redis clients, two checks, one attempt, one close. Two health
  checks (one that pings, one that counts) under two calls. Two instances, two
  scripts, two migrations, one policy. Two users, names, credentials and callers,
  four operations. Six lines of text and a header window of 3 (10 in the code), three
  columns, two rows: two tables with a rule between them. Two parses of two
  contents. Two requests with an alert from the second on (100 in the code), a buffer
  of 5, three samples and a history of 2. Two starts. Two security tasks, runs,
  initializations and failures. One failed statement in each.
* Symmetry is used only in runs without liveness properties, on the runners
  of WorkflowFaults and on the calls of SchedulerOverlap.

The counters in `used` and its like exist only to bound faults. The theorems hold for every
value of the bounds.

### Fairness

`FairSpec` of WorkflowService is weak fairness of each runner's fault-free steps:
schedules keep firing, the database answers and handlers settle. Nothing is
assumed of faults, clients or resets. Weak fairness is enough: a step
of a job that has started stays enabled until it is taken; the start of a job
may be disabled again by another job, which then makes progress itself. `FairSpec` of JobQueue is
weak fairness of each tick: the interval timer does not stop and awaited calls
settle. A crash is never fair; EveryJobStarts is stated up to a crash because
the array dies with the process. ScheduledExecution has weak fairness of each
caller's steps once it has begun and of each tick, which includes the engine's
steps; whether a cron task fires or a request comes is left open. EmailQueue,
and with it Outbound, has weak fairness of the loop's steps and of the calls that
have begun: the database and the provider answer. Nothing makes a retry or an enqueue begin.

CHECK_DEADLOCK is FALSE where the model may really stop: a deleted or finished
workflow, an empty queue, all calls made.

## The proofs

All theorems hold for every value of the constants that satisfies the ASSUMEs of the
modules: any set of runners, clients, ticks, callers, requests and users, any number of
steps, jobs, emails, models, migrations and retries. What is assumed is what a
number needs to count with (limits are naturals, and positive where the code
divides by them, waits for them or makes at least one attempt), that a list of
steps is not empty, that sets that are counted are finite (the callers of
ScheduledExecution, of the rate limiter and of the health checks, the names of
prompts), and that names do not clash ("none" is no security task; firings are no
requests; the start-up is no call). Bounds on faults may have any value.

Types and properties are seldom inductive as they stand; most components therefore
have an invariant whose name ends in `Inv`, a conjunction of named parts, each of which
says one thing. A step of the proof, or a lemma, for each action shows that it keeps
them, and the theorems follow from the invariant.

**WorkflowServiceProofs.** TypeCorrect rests on `TypeInv`: the types and that a
runner inside a step has the number of one. LockProtectsOwner: LockProtects is
inductive on top of `TypeInv`. Statements of runners without the lock are the
hard case: whatever clears the lock or removes the row puts every runner at work
into `lapsed` (ReleaseProtects), and only a lock taken of an unlocked row makes a
new owner. CursorDiscipline, an action property, follows from that invariant: a
runner that stores its result either still holds the lock, and then its cursor is
the row's, or is in `lapsed`. StepsInOrder and CompletedMeansPerformed cannot use
the lock, as runners that lost it go on writing; their `ProgressInv` says of every
cursor, in the row and in every runner's variables, however old, that the steps
below it have been performed. RetriesNeverExceeded: likewise every copy of the
retry counts is within the limits. InputsNeverLost: without clients, every
statement writes a cursor and a context from the same snapshot, so `InputsInv` holds
of the row and of all snapshots, stolen locks and faults included; this is the
half of InputsComplete that WorkflowLostResult shows to need its premise.
LocksHaveWorkers: LockHasWorker is inductive with the types, because every way out
of a job but a crash or a failed statement writes an unlocked row, whoever's lock
it is; WorkflowStaleLock is what follows once a crash has broken it.

**JobQueueProofs.** FirstStartsInOrder needs `OrderInv`: a job is pending exactly
until it is first started, and an older job that nobody has started is in every
snapshot that still holds a later one. RunningJobsNotTaken follows from the first half,
as a job that a tick runs, or that has ended, was started before.
AttemptsCountFailures is inductive with the types: the two counters of a job move
together although overlapping ticks fail it. CompletedMeansExecuted adds that a
tick about to report a scheduled workflow has executed it, and that one about to
complete a job without a report has a task that names no workflow. LogSettles is
inductive: without faults and for tasks that name a workflow, a tick leaves processJob only by a statement that ends
the task's processing status, and one that marks it again is inside itself.

**SchedulerProofs.** MapIsLive is inductive with the types. NoTaskLeaks needs
`OneInQueue`: while no turn handles several answers, at most one continuation is
ready, and a call that awaits stopSchedule is that one and finds the map still
empty when it goes on. TasksFollowRow needs `OneAtATime`: while calls come one at a
time, `UnderWay` says for each place of the one call how the map, the row and the
rows it was answered are related.

**ScheduledExecutionProofs.** The proof modules of queue and engine are instantiated
under the composition's substitution, so that their lemmas about single steps are
used again. `ExecutionInv` adds to the types what only the composition has. `CallersInv`:
the jobs pushed and the callers still to push one are no more than there are
numbers, and who is about to record a job has pushed it. `TicksInv`: only scheduled
workflows are run, and what is reported completed has been executed.
`EngineInv`: a tick in the engine awaits executeWorkflowById, and without faults a
workflow that is locked or running has a tick at work on it. TypeCorrect,
RowsAndJobs and CompletedRuns follow. LogKept is the refinement of RunLog: the initial states
agree, and of every step a lemma says which one of the log it is or that the log's
three variables stay.

**OutboundProofs.** A component each. `BreakerInv`: what the row counts and what
requests are about to count is no more than the calls that failed, or succeeded,
until these exceed the threshold; requests about to transition are covered by
the same. `EmailInv` counts the attempts at an email still due (`SendsDue`), which
with those made never exceed one, the failed statements and the retries; while no
statement has failed, the place of the loop says what is logged
(`FaultlessEmails`). `LimiterInv` counts callers let go and not yet counted. `TypedInv`
has a start due for a job that may be taken up, and says of every start what
excused it. `IngestInv`: files, sources and reports follow each other with
the calls between them counted (`CallsCounted`), and a call about to insert a report is
alone unless two were storing at once (`StoredAlone`). OutboundCorrect maps every
behavior of MCOutbound to one of each component: a step is the component's own or
leaves its variables alone.

**PlatformProofs.** `RedisInv`: who is connected has a client that is
(`ConnectedClient`), and while none was left behind, the one that the service
hands out is the only one that may connect (`NoneLeftBehind`). `HealthInv`: there are as many results
as runs that have made one (`ResultsCounted`), a log entry has its row
(`LoggedHasRow`), and without overlaps one run is under way (`OneRun`) and holds
the last result or has stored it (`LastResult`). `MigInv`: effects are a prefix of the list
(`DoneInOrder`), and whatever is not in the list an instance has left to run has
taken effect (`PendingInOrder`); instances that do not overlap find theirs unapplied
(`OneInstance`), so that a migration is run once (`RunOnce`). That the next one of a list is its
least takes LeastExists, which rests on the order of the naturals. `CredInv`: a row
is not touched more often than there were operations, the calls about to write
counted (`TouchesCounted`); the row a call has selected is still its user's, or gone
(`CallCurrent`); every change is logged, has the call that is about to, or is the
touch of a read that could not decrypt.
PlatformCorrect puts them together.

**ClientProofs.** `CacheInv`: data a handler has read are no older than the last
removal, if its request began after that (`ReadsData`). `TaskParserInv` says at each place which
answers there have been and which counts (`FirstUseless`, `FirstComplete`, `SecondTaken`).
`FormsInv`: what was taken had passed although fields stay open (`Validated`), the
flag is what is under way (`FlagTrue`), and every timer is of a submission that is
over (`TimersCounted`). `ErrorsInv`: calls, attempts and notes of the helpers agree at
every place (`RetriesCounted`), and an error, however wrapped, still tells the status and code of
its class (`Tells`). `PromptsInv`: the time a template was loaded at is that of its
content (`LoadsTrue`), and a call still holds what is there (`ReadTrue`), unless an edit came
between; of a save that has not looked at its file yet the same is said of what it wrote. ClientsCorrect and OutboundTypeCorrect are about all ten components.

**ServerProofs.** `ConfigurationInv` says what has been decided at each place of the
start (`OneDatabase`, `CipherOfKey`), how it can have ended (`HowEnded`), and that
nothing was encrypted but under the cipher of a fit key (`EncryptedFit`).
`SecurityInv` counts tasks that fire against initializations (`OneTaskEach`), since
each may leave one behind. `ParserInv`: every content remembered or refused had a
call that was let through (`RefusedOnce`), and one was taken twice only past a
race, an expiry or an error (`TakenTwice`); the metrics count finite sets of calls.
`MonitoringInv`: the times added up for a path are a recursive function over the
requests answered. Nothing can be proved of it by induction over its argument;
the invariant instead says that some function satisfies its equations
(`PathsMeasured`), which each request extends by one, and that there is only one follows from the
least argument at which two of them would differ. PlatformTypeCorrect,
DocumentsCorrect and StartupCorrect are about all of MCPlatform.

Of Tables TablesTruthful is proved, for documents, windows and sheets of any size. What
the loops have found is compared with the whole text, of which they remember only the lines of the
table they are in; the inductive invariant, `TablesFound`, says what these and the flag
mean. `LatticeInv`: where no rule follows another, the loop is in a table after an
odd number of rules (whether a rule opens a table depends on how many came before),
has all lines below the last one, and has listed the tables that a later rule
closed (`Closed`). `StreamInv`: it has the lines of the run that goes on, if one
does, and has listed the runs that ended (`Ended`). Two things make this provable without
induction over data. Lists of the whole text are stated by `Listed`, which
orders the values of a function by the `Rank` of their argument, so that a new
last argument appends (ListedAppend); that ranks are met by exactly one member each
(RankOnto) is proved by the least rank missed. The folds over the columns of a
table add up the same number for each row of a regular one; that they yield the
multiple (ConstantFolds) follows, like above, from the least argument at which
they would not. OneTableFound and OneTableRead then say that a regular table between two
rules is extracted with all its rows, HeaderNumbers and SheetsAgree where the
readings of a sheet agree.

Only model-checked:

* WorkflowSettles, EveryJobStarts, RunSettles and EmailTakenUp: liveness under
  fairness is outside what this prover handles.
* The refutations, which are traces.

## Plan

1. WorkflowService, JobQueue, Scheduler and their theorems. *Done.*
2. ScheduledExecution, the composition, and RunLog, the abstract specification it
   implements. *Done, with the refinement proved.*
3. EmailQueue, CircuitBreaker, RateLimiter, TypedQueue, Ingestion and the clients. *Done
   and proved.*
4. The platform: Redis, health, migrations, credentials, documents, monitoring,
   configuration, security. *Done and proved.*
5. Every invariant and action property of the passing runs as a theorem. *Done;
   the four liveness properties remain with TLC.*
6. Worth adding: the strongest parts of the invariants above as properties of their
   own where a reader would cite them.

## Not modelled, and why

* `api/server.ts` but for the two requests: it does not compile (a static `import`
  inside a function at line 67, an unimported loadConfig at line 40), and registers
  the routes of its asynchronous block behind the error handler.
* Files that cannot be loaded: `server/routes/schedules.ts` and `emails.ts`
  (missing services), `executePlan.ts` (a duplicate import; its steps table is a
  plain object, so that every insert would throw), `jobQueueSystem.ts`,
  `bullmqService.ts`, `server/routes/monitoring.ts` (missing dashboardService.js).
* API keys and roles: the statements of `apiKeyService.ts`,
  `enhancedApiKeyService.ts` and `rbacService.ts` use columns that api_keys
  (`shared/schema.ts`:286-297) does not have, and the second imports functions the KMS
  service does not export. The KMS services are stubs that throw. `credentialVault.ts`
  is single statements.
* Stubs: imapIngestionService, insightGenerator, stepHandlers (a handler's outcome is
  a choice in WorkflowService), workflowEmailServiceFixed, alertMailer, services/attachmentParsers.
* External services and their clients: Sentry, the mail and AI providers; audit
  rows of the AI calls and the queries over them; dbHealthCheck, one query.
* The BullMQ paths, which this commit cannot reach, and Redis itself.
* Routes and frontend pages that only read and render; templates' substitution; the
  conversions of libraries. `src/pending-review` is reached by no build.
* Hazards that no property speaks of, because the code promises nothing and does
  nothing about them: a notification address configured while a step runs is
  overwritten by the step's UPDATE (`WS`:225); the completion email is sent only for a cursor past the last
  step (`WS`:117), which the last step's own UPDATE to completed makes
  unreachable unless its reply is lost; the array dies with the process and its
  tasks stay pending or processing (`JQ`:37); retryJob resets a row nobody reads
  (`JQ`:396); a lost reply of an UPDATE leaves the row ahead of the task until
  the next restart (`SS`:250).
* Time: lockedAt is fresh or stale, timers fire at any moment.
