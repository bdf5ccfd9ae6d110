------------------------- MODULE ScheduledExecution -------------------------
(***************************************************************************)
(* From the request for a run to its entry in task_logs: the callers that   *)
(* insert a task and enqueue a job for it (executeScheduledWorkflow in      *)
(* schedulerService.ts, POST /api/tasks and /submit-task in api/server.ts,  *)
(* POST /enqueue/:taskId in server/routes/jobs.ts), the in-memory job queue *)
(* (JobQueue) and the workflow that the queue's ticks execute               *)
(* (WorkflowService).  The runners of the workflow are the queue's ticks: a *)
(* tick inside executeWorkflowById is the runner of the same name.          *)
(*                                                                         *)
(* All of it is one process.  A step of a tick inside executeWorkflowById   *)
(* that ends the call also goes on in processJob, in the same turn of the   *)
(* event loop.  The age of the lock is left out: it only decides which of    *)
(* two statements notices that the row is locked.                           *)
(***************************************************************************)
EXTENDS Integers, FiniteSets

CONSTANTS
    Firings,      \* firings of a cron task: executeScheduledWorkflow
    Requests,     \* requests that submit a task of another type, or enqueue one again
    Ticks,        \* ticks of the queue that may be under way at a time
    NumSteps, MaxRetries,    \* the workflow, as in WorkflowService
    MaxAttempts,  \* as in JobQueue
    MaxFaults,    \* bound: failed statements, lost replies, deaths of the process
    MayDelete     \* whether the workflow may be deleted

Callers == Firings \cup Requests

\* The rows of task_logs, each named after the caller that inserts it.
Runs == Callers

NumJobs == Cardinality(Callers)

ASSUME ExecutionAssumption ==
    /\ IsFiniteSet(Callers) /\ Firings \cap Requests = {}
    /\ NumSteps \in Nat \ {0} /\ MaxRetries \in [0 .. NumSteps - 1 -> Nat]
    /\ MaxAttempts \in Nat \ {0}
    /\ MaxFaults \in Nat /\ MayDelete \in BOOLEAN

VARIABLES
    call,       \* where each caller is
    target,     \* the task it enqueues
    logged,     \* the rows in task_logs
    recorded,   \* the callers whose row is in the jobs table
    callErrors, \* statements of callers that have failed
    \* the variables of JobQueue
    pushed, lost, task, workflowless, status, attempts, taskLog, current, rest, at,
    started, failures, executed, queueUsed,
    \* the variables of WorkflowService, but for the requests it leaves out here
    exists, row, pc, local, performed, lapsed, engineUsed

Queue == INSTANCE JobQueue WITH Tasks <- Runs, ScheduledTasks <- Firings,
                                MaxDbErrors <- MaxFaults, MaxCrashes <- MaxFaults,
                                used <- queueUsed

Engine == INSTANCE WorkflowService WITH Runners <- Ticks, Clients <- {},
              MaxDbErrors <- MaxFaults, MaxCrashes <- MaxFaults, MaxResets <- 0,
              request <- << >>, used <- engineUsed

callerVars == <<call, target, logged, recorded, callErrors>>
queueVars  == <<pushed, lost, task, workflowless, status, attempts, taskLog, current, rest, at,
                started, failures, executed, queueUsed>>
engineVars == <<exists, row, pc, local, performed, lapsed, engineUsed>>
vars == <<callerVars, queueVars, engineVars>>

-----------------------------------------------------------------------------
CallStates == {"idle",         \* the call has not been made
               "touch",        \* about to set lastRunAt of the schedule
               "insert",       \* about to insert the task
               "insertAgain",  \* about to insert it a second time
               "record",       \* job pushed: about to insert it into jobs
               "accepted",     \* over: the caller was given a job id
               "rejected",     \* over: the caller was told of an error
               "dead"}         \* over: the process died

Over == {"idle", "accepted", "rejected", "dead"}

\* One budget of faults for the three components.
Faults == callErrors + queueUsed.dbErrors + engineUsed.dbErrors + queueUsed.crashes

MayFail == Faults < MaxFaults

CallGoto(c, label) == call' = [call EXCEPT ![c] = label]

Init ==
    /\ call = [c \in Callers |-> "idle"]
    /\ target = [c \in Callers |-> c]
    /\ logged = {}
    /\ recorded = {}
    /\ callErrors = 0
    /\ Queue!Init
    /\ task = [j \in 1 .. NumJobs |-> CHOOSE k \in Runs : TRUE]
    /\ Engine!Init

-----------------------------------------------------------------------------
(* The callers.                                                             *)

\* A cron task fires, or a request has been parsed.
Begin(c) ==
    /\ call[c] = "idle"
    /\ CallGoto(c, IF c \in Firings THEN "touch" ELSE "insert")
    /\ UNCHANGED <<target, logged, recorded, callErrors, queueVars, engineVars>>

\* lastRunAt of the schedule: nothing here depends on it.
TouchSchedule(c) ==
    /\ call[c] = "touch"
    /\ CallGoto(c, "insert")
    /\ UNCHANGED <<target, logged, recorded, callErrors, queueVars, engineVars>>

\* The synchronous half of enqueueJob: the job is in the array before its row
\* is in the table.
Push(k) ==
    /\ pushed' = pushed + 1
    /\ task' = [task EXCEPT ![pushed + 1] = k]
    /\ UNCHANGED <<lost, workflowless, status, attempts, taskLog, current, rest, at,
                   started, failures, executed, queueUsed>>

\* The task is inserted and, in the same turn, its job pushed.
InsertTask(c) ==
    /\ call[c] \in {"insert", "insertAgain"}
    /\ c \notin logged
    /\ logged' = logged \cup {c}
    /\ Push(c)
    /\ CallGoto(c, "record")
    /\ UNCHANGED <<target, recorded, callErrors, engineVars>>

\* Mutant: the second attempt is taken for a success when the row is there.
DuplicateAccepted(c) == "accepted"

\* The second INSERT has the id of the first: a row that the first one left
\* behind makes it fail.
DuplicateTask(c) == "rejected"

InsertDuplicate(c) ==
    /\ call[c] = "insertAgain"
    /\ c \in logged
    /\ CallGoto(c, DuplicateTask(c))
    /\ UNCHANGED <<target, logged, recorded, callErrors, queueVars, engineVars>>

\* A task that is there is enqueued again.
EnqueueAgain(c, k) ==
    /\ c \in Requests
    /\ call[c] = "idle"
    /\ k \in logged
    /\ Push(k)
    /\ target' = [target EXCEPT ![c] = k]
    /\ CallGoto(c, "record")
    /\ UNCHANGED <<logged, recorded, callErrors, engineVars>>

\* The asynchronous half of enqueueJob.
RecordJob(c) ==
    /\ call[c] = "record"
    /\ recorded' = recorded \cup {c}
    /\ CallGoto(c, "accepted")
    /\ UNCHANGED <<target, logged, callErrors, queueVars, engineVars>>

\* What a caller does when its statement rejects.
AfterError(c) ==
    IF call[c] = "insert" /\ c \in Firings THEN "insertAgain" ELSE "rejected"

\* A statement of a caller rejects, executed or not.
CallerStatementFails(c) ==
    /\ MayFail
    /\ callErrors' = callErrors + 1
    /\ call[c] \notin Over
    /\ CallGoto(c, AfterError(c))
    /\ \/ UNCHANGED <<logged, recorded>>
       \/ /\ call[c] \in {"insert", "insertAgain"}
          /\ logged' = logged \cup {c}
          /\ UNCHANGED recorded
       \/ /\ call[c] = "record"
          /\ recorded' = recorded \cup {c}
          /\ UNCHANGED logged
    /\ UNCHANGED <<target, queueVars, engineVars>>

-----------------------------------------------------------------------------
(* The ticks, outside and inside executeWorkflowById.                       *)

\* A tick is about to call executeWorkflowById; afterwards it is still at "run"
\* and its runner at work.  Mutant: the call is made before the task is loaded.
CallingEarly(t) == at[t] \in {"load", "run"} /\ pc[t] = "idle"

Calling(t) == at[t] = "run" /\ pc[t] = "idle"

\* processJob up to that call and after it.
QueueStep(t) ==
    /\ \/ Queue!ProcessInMemoryJobs(t) \/ Queue!MarkProcessing(t) \/ Queue!LoadTask(t)
       \/ Queue!MarkCompleted(t) \/ Queue!MarkFailed(t)
       \/ Queue!JobCompletes(t) \/ Queue!JobFails(t)
    /\ UNCHANGED <<callerVars, engineVars>>

\* Mutant: only a paused workflow is run.
SkippedUnlessPaused == exists /\ row.status # "paused"

\* The check that skips a workflow which is running or locked.
Skipped == exists /\ (row.status = "running" \/ row.locked)

\* executeWorkflowById returns without a call of runWorkflow.
SkipWorkflow(t) ==
    /\ Calling(t)
    /\ Skipped
    /\ Queue!WorkflowReturns(t)
    /\ UNCHANGED <<callerVars, engineVars>>

\* The workflow is gone.
WorkflowNotFound(t) ==
    /\ Calling(t)
    /\ ~exists
    /\ Queue!WorkflowThrows(t)
    /\ UNCHANGED <<callerVars, engineVars>>

RunWorkflow(t) ==
    /\ Calling(t)
    /\ Engine!ExecuteWorkflowById(t)
    /\ UNCHANGED <<callerVars, queueVars>>

\* runWorkflow throws from its outer catch and returns from everywhere else.
Throws(t) == pc[t] = "unlock"

\* A step of runWorkflow; when it ends the call, processJob goes on.
EngineMoves(t) ==
    /\ \/ Engine!ReadWorkflow(t) \/ Engine!LockWorkflow(t)
       \/ Engine!HandlerReturns(t) \/ Engine!HandlerThrows(t)
       \/ Engine!StoreResult(t) \/ Engine!StoreFailure(t)
       \/ Engine!FinishWorkflow(t) \/ Engine!UnlockAfterError(t)
       \/ MayFail /\ Engine!StatementFails(t)
    /\ IF pc'[t] # "idle" THEN UNCHANGED queueVars
       ELSE IF Throws(t) THEN Queue!WorkflowThrows(t)
       ELSE Queue!WorkflowReturns(t)
    /\ UNCHANGED callerVars

\* A statement of processJob, or the SELECT of getWorkflow, rejects.
QueueStatementFails(t) ==
    /\ MayFail
    /\ \/ Queue!StatementFails(t)
       \/ /\ Calling(t)
          /\ at' = [at EXCEPT ![t] = "fail"]
          /\ queueUsed' = [queueUsed EXCEPT !.dbErrors = @ + 1]
          /\ UNCHANGED <<pushed, lost, task, workflowless, status, attempts, taskLog, current, rest,
                         started, failures, executed>>
    /\ UNCHANGED <<callerVars, engineVars>>

DeleteWorkflow ==
    /\ Engine!DeleteWorkflow
    /\ UNCHANGED <<callerVars, queueVars>>

\* The process dies, with its calls, its array and its ticks; rows stay.  An
\* INSERT that was on its way may still be executed, and nobody pushes its job.
Crash ==
    /\ MayFail
    /\ Queue!Crash
    /\ call' = [c \in Callers |-> IF call[c] \in Over THEN call[c] ELSE "dead"]
    /\ pc' = [t \in Ticks |-> "idle"]
    /\ local' = [t \in Ticks |-> Engine!Blank]
    /\ lapsed' = {}
    /\ \E S \in SUBSET {c \in Callers : call[c] \in {"insert", "insertAgain"}} :
          logged' = logged \cup S
    /\ \E S \in SUBSET {c \in Callers : call[c] = "record"} : recorded' = recorded \cup S
    /\ UNCHANGED <<target, callErrors, exists, row, performed, engineUsed>>

-----------------------------------------------------------------------------
\* A caller goes on with what it has begun.
CallerStep(c) ==
    \/ TouchSchedule(c) \/ InsertTask(c) \/ InsertDuplicate(c) \/ RecordJob(c)

TickStep(t) ==
    \/ QueueStep(t) \/ SkipWorkflow(t) \/ WorkflowNotFound(t)
    \/ RunWorkflow(t) \/ EngineMoves(t)

Next ==
    \/ \E c \in Callers : Begin(c) \/ CallerStep(c) \/ CallerStatementFails(c)
    \/ \E c \in Callers, k \in Runs : EnqueueAgain(c, k)
    \/ \E t \in Ticks : TickStep(t) \/ QueueStatementFails(t)
    \/ DeleteWorkflow
    \/ Crash

Spec == Init /\ [][Next]_vars

\* Callers go on with what they have begun; the timer keeps firing, statements
\* answer and handlers settle.
FairSpec ==
    /\ Spec
    /\ \A c \in Callers : WF_vars(CallerStep(c))
    /\ \A t \in Ticks : WF_vars(TickStep(t))

-----------------------------------------------------------------------------
Healthy == Faults = 0

(* Type invariant.  A runner at work on the workflow is a tick that awaits  *)
(* executeWorkflowById for a scheduled task.                                *)
ExecutionTypeOK ==
    /\ Queue!TypeOK /\ Engine!TypeOK
    /\ call \in [Callers -> CallStates]
    /\ target \in [Callers -> Runs]
    /\ logged \subseteq Runs /\ recorded \subseteq Callers
    /\ callErrors \in 0 .. MaxFaults
    /\ \A t \in Ticks : pc[t] # "idle" =>
          at[t] = "run" /\ task[current[t]] \in Firings

(* What a row of task_logs promises (RunLog) is what callers, ticks and     *)
(* engine make of it: no status without an attempt under way, no completed  *)
(* run whose workflow nobody executed, whatever fails and wherever the      *)
(* process dies.                                                            *)
AttemptsAt(k) == {t \in Ticks : /\ at[t] \in {"load", "run", "complete", "fail"}
                               /\ task[current[t]] = k}

Log == INSTANCE RunLog WITH
           WorkRuns <- Firings,
           log  <- [k \in Runs |-> IF k \in logged THEN taskLog[k] ELSE "absent"],
           open <- [k \in Runs |-> Cardinality(AttemptsAt(k))],
           done <- {task[j] : j \in executed}

RunLogImplemented == Log!Spec

(* Rows and jobs agree: a job never runs without its task's row; a caller   *)
(* that was given a job id has its row in the table and, until the process   *)
(* dies, its job in the array; a row that has no job in the array is left by *)
(* a lost reply of its INSERT or by a process that has died.                *)
JobOf(k) == \E j \in Queue!Queue : task[j] = k

RowsAndJobsAgree ==
    /\ \A j \in 1 .. pushed : task[j] \in logged
    /\ \A c \in Callers : call[c] = "accepted" =>
          c \in recorded /\ (JobOf(target[c]) \/ queueUsed.crashes > 0)
    /\ \A k \in logged : JobOf(k) \/ callErrors > 0 \/ queueUsed.crashes > 0

(* A run that is reported as completed has moved the workflow: it is no     *)
(* longer as createWorkflow left it, and when no tick is inside             *)
(* executeWorkflowById it is neither running nor locked, so that the next   *)
(* run is not skipped and reported as completed for nothing.  Failed        *)
(* statements and crashes are excepted.                                     *)
CompletedRunsCount ==
    Healthy /\ exists =>
        /\ (\E k \in Firings : taskLog[k] = "completed") => row.status # "pending"
        /\ (\A t \in Ticks : at[t] # "run") => ~(row.locked \/ row.status = "running")

(* Liveness: a cron task that has fired comes to an entry that says whether *)
(* it was completed or has failed, unless its schedule has no workflow, a    *)
(* statement fails or the process dies on the way.                          *)
RunSettles ==
    \A c \in Firings :
        call[c] = "touch" /\ c \notin workflowless
            ~> taskLog[c] \in {"completed", "failed"} \/ ~Healthy

=============================================================================
