---------------------- MODULE ScheduledExecutionProofs ----------------------
(***************************************************************************)
(* Theorems about ScheduledExecution, for every number of callers, ticks,  *)
(* steps, retries and attempts, and for every bound on faults.  What is    *)
(* proved of the job queue and of the workflow in modules of their own is  *)
(* used here for the parts of the composition: the two instances below     *)
(* take those modules with the substitutions of ScheduledExecution.        *)
(***************************************************************************)
EXTENDS ScheduledExecution, FiniteSetTheorems, TLAPS

QueueProofs == INSTANCE JobQueueProofs WITH
                   Tasks <- Runs, ScheduledTasks <- Firings,
                   MaxDbErrors <- MaxFaults, MaxCrashes <- MaxFaults,
                   used <- queueUsed

EngineProofs == INSTANCE WorkflowServiceProofs WITH
                    Runners <- Ticks, Clients <- {},
                    MaxDbErrors <- MaxFaults, MaxCrashes <- MaxFaults, MaxResets <- 0,
                    request <- << >>, used <- engineUsed

-----------------------------------------------------------------------------
(* The parts.                                                               *)

(* The assumptions of the two parts follow from those of the composition.   *)
LEMMA PartsAssumptions ==
    /\ NumJobs \in Nat /\ Firings \subseteq Runs
    /\ MaxAttempts \in Nat \ {0} /\ MaxFaults \in Nat
    /\ NumSteps \in Nat \ {0} /\ MaxRetries \in [0 .. NumSteps - 1 -> Nat]
    /\ MayDelete \in BOOLEAN
  BY ExecutionAssumption, FS_CardinalityType DEF NumJobs, Runs, Callers

(* The two instances of the queue say the same of states and of steps.      *)
LEMMA QueueTypes ==
    /\ Queue!TypeOK <=> QueueProofs!TypeOK
    /\ Queue!TypeOK' <=> QueueProofs!TypeOK'
  BY DEF Queue!TypeOK, QueueProofs!TypeOK, Queue!Jobs, QueueProofs!Jobs,
     Queue!Queue, QueueProofs!Queue, Queue!JobStatuses, QueueProofs!JobStatuses,
     Queue!LogStatuses, QueueProofs!LogStatuses, Queue!Labels, QueueProofs!Labels

LEMMA QueueSteps ==
    ASSUME [Queue!Next]_(Queue!vars)
    PROVE  [QueueProofs!Next]_(QueueProofs!vars)
  BY DEF Queue!Next, QueueProofs!Next, Queue!TickStep, QueueProofs!TickStep,
     Queue!EnqueueJob, QueueProofs!EnqueueJob,
     Queue!ProcessInMemoryJobs, QueueProofs!ProcessInMemoryJobs,
     Queue!MarkProcessing, QueueProofs!MarkProcessing,
     Queue!LoadTask, QueueProofs!LoadTask,
     Queue!WorkflowReturns, QueueProofs!WorkflowReturns,
     Queue!WorkflowThrows, QueueProofs!WorkflowThrows,
     Queue!MarkCompleted, QueueProofs!MarkCompleted,
     Queue!MarkFailed, QueueProofs!MarkFailed,
     Queue!StatementFails, QueueProofs!StatementFails,
     Queue!JobCompletes, QueueProofs!JobCompletes,
     Queue!JobFails, QueueProofs!JobFails, Queue!Crash, QueueProofs!Crash,
     Queue!StartNext, QueueProofs!StartNext, Queue!GivenUp, QueueProofs!GivenUp,
     Queue!FirstOf, QueueProofs!FirstOf, Queue!Due, QueueProofs!Due,
     Queue!UpdateTaskLog, QueueProofs!UpdateTaskLog,
     Queue!StatusSet, QueueProofs!StatusSet, Queue!Goto, QueueProofs!Goto,
     Queue!IsWorkflow, QueueProofs!IsWorkflow,
     Queue!HasWorkflow, QueueProofs!HasWorkflow, Queue!vars, QueueProofs!vars,
     Queue!queueVars, QueueProofs!queueVars,
     Queue!historyVars, QueueProofs!historyVars,
     Queue!Jobs, QueueProofs!Jobs, Queue!Queue, QueueProofs!Queue

(* A step of the queue keeps the queue's variables typed.                   *)
LEMMA QueueTypeStep ==
    ASSUME Queue!TypeOK, [Queue!Next]_(Queue!vars)
    PROVE  Queue!TypeOK'
  BY PartsAssumptions, QueueTypes, QueueSteps, QueueProofs!TypeStep

\* A runner of the workflow that executes a step has the number of one.
EngineTyped == Engine!TypeOK /\ EngineProofs!CursorInRange

(* The two instances of the workflow say the same of states and of steps.   *)
LEMMA EngineTypes ==
    /\ EngineTyped <=> EngineProofs!TypeInv
    /\ EngineTyped' <=> EngineProofs!TypeInv'
  BY DEF EngineTyped, Engine!TypeOK, EngineProofs!TypeInv, EngineProofs!TypeOK,
     Engine!Row, EngineProofs!Row, Engine!Local, EngineProofs!Local,
     Engine!Labels, EngineProofs!Labels, Engine!Steps, EngineProofs!Steps,
     Engine!Statuses, EngineProofs!Statuses, Engine!Ages, EngineProofs!Ages

\* The steps of the workflow that the composition takes.
EngineStep(t) == Engine!RunnerStep(t) \/ Engine!StatementFails(t)

LEMMA EngineSteps ==
    ASSUME NEW t \in Ticks, EngineStep(t)
    PROVE  EngineProofs!RunnerStep(t) \/ EngineProofs!StatementFails(t)
  BY DEF EngineStep, Engine!RunnerStep, EngineProofs!RunnerStep,
     Engine!ExecuteWorkflowById, EngineProofs!ExecuteWorkflowById,
     Engine!ReadWorkflow, EngineProofs!ReadWorkflow,
     Engine!LockWorkflow, EngineProofs!LockWorkflow,
     Engine!HandlerReturns, EngineProofs!HandlerReturns,
     Engine!HandlerThrows, EngineProofs!HandlerThrows,
     Engine!StoreResult, EngineProofs!StoreResult,
     Engine!StoreFailure, EngineProofs!StoreFailure,
     Engine!FinishWorkflow, EngineProofs!FinishWorkflow,
     Engine!UnlockAfterError, EngineProofs!UnlockAfterError,
     Engine!StatementFails, EngineProofs!StatementFails,
     Engine!Update, EngineProofs!Update, Engine!Written, EngineProofs!Written,
     Engine!LockStatement, EngineProofs!LockStatement,
     Engine!LockedRow, EngineProofs!LockedRow, Engine!CanLock, EngineProofs!CanLock,
     Engine!AllDone, EngineProofs!AllDone, Engine!StoredRow, EngineProofs!StoredRow,
     Engine!FailedRow, EngineProofs!FailedRow, Engine!MayRetry, EngineProofs!MayRetry,
     Engine!FinishedRow, EngineProofs!FinishedRow,
     Engine!UnlockedRow, EngineProofs!UnlockedRow,
     Engine!NoteLapses, EngineProofs!NoteLapses, Engine!AtWork, EngineProofs!AtWork,
     Engine!Goto, EngineProofs!Goto, Engine!Leave, EngineProofs!Leave,
     Engine!AfterCall, EngineProofs!AfterCall, Engine!Blank, EngineProofs!Blank,
     Engine!Steps, EngineProofs!Steps

(* A step of a runner, and the deletion, keep the workflow's variables      *)
(* typed.                                                                   *)
LEMMA EngineTypeStep ==
    ASSUME EngineTyped, \/ \E t \in Ticks : EngineStep(t)
                        \/ Engine!DeleteWorkflow
    PROVE  EngineTyped'
<1>1. ASSUME NEW t \in Ticks, EngineStep(t)
      PROVE  EngineProofs!Next
  BY <1>1, EngineSteps DEF EngineProofs!Next
<1>2. ASSUME Engine!DeleteWorkflow
      PROVE  EngineProofs!Next
  BY <1>2 DEF Engine!DeleteWorkflow, EngineProofs!DeleteWorkflow, EngineProofs!Next,
     Engine!NoteLapses, EngineProofs!NoteLapses, Engine!AtWork, EngineProofs!AtWork
<1>3. 0 \in Nat
  OBVIOUS
<1>4. QED
  BY <1>1, <1>2, <1>3, PartsAssumptions, EngineTypes, EngineProofs!TypeStep
     DEF EngineProofs!Steps

-----------------------------------------------------------------------------
(* What a tick does to the queue, seen from the row of its task.            *)

\* In processJob, after the row was marked and before it is reported on.
Attempting == {"load", "run", "complete", "fail"}

\* Tick t goes from one of the labels from to one of the labels to.
Moves(t, from, to) ==
    /\ at[t] \in from
    /\ \E label \in to : at' = [at EXCEPT ![t] = label]
    /\ UNCHANGED current

\* The row of its task is set to one of the statuses, or left as it is.
Logs(t, statuses) ==
    taskLog' \in {taskLog} \cup {[taskLog EXCEPT ![task[current[t]]] = s] : s \in statuses}

\* It ends a job, or the tick, and begins the next job, or the tick.
Continues(t) ==
    /\ at[t] \notin Attempting /\ at'[t] \notin Attempting
    /\ \A u \in Ticks \ {t} : at'[u] = at[u] /\ current'[u] = current[u]
    /\ UNCHANGED <<taskLog, executed>>

\* It marks the row.
Starts(t) ==
    /\ Moves(t, {"mark"}, {"load", "fail"})
    /\ Logs(t, {"processing"})
    /\ UNCHANGED executed

\* It goes on with the attempt; only a scheduled workflow is executed.
GoesOn(t) ==
    /\ \/ Moves(t, {"load", "run"}, {"fail"})
       \/ Moves(t, {"load"}, {"run"}) /\ task[current[t]] \in Firings
       \/ Moves(t, {"load"}, {"complete"}) /\ task[current[t]] \notin Firings
    /\ UNCHANGED <<taskLog, executed>>

\* Its executeWorkflowById returns.
Executes(t) ==
    /\ Moves(t, {"run"}, {"complete"})
    /\ executed' = executed \cup {current[t]}
    /\ UNCHANGED taskLog

\* It reports, or fails to; a completion that is lost is followed by a failure,
\* and a task that names no workflow is not reported on.
Concludes(t) ==
    /\ \/ Moves(t, {"load"}, {"resolved"}) /\ UNCHANGED taskLog
       \/ Moves(t, {"complete"}, {"resolved", "fail"}) /\ Logs(t, {"completed"})
       \/ Moves(t, {"fail"}, {"rejected"}) /\ Logs(t, {"failed"})
    /\ UNCHANGED executed

TickMoves(t) ==
    /\ Continues(t) \/ Starts(t) \/ GoesOn(t) \/ Executes(t) \/ Concludes(t)
    /\ UNCHANGED <<pushed, lost, task>>
    /\ queueUsed'.crashes = queueUsed.crashes

\* Awaiting executeWorkflowById, the SELECT of getWorkflow rejects.
CallRejects(t) ==
    /\ at[t] = "run"
    /\ at' = [at EXCEPT ![t] = "fail"]
    /\ queueUsed' = [queueUsed EXCEPT !.dbErrors = @ + 1]
    /\ UNCHANGED <<pushed, lost, task, workflowless, status, attempts, taskLog, current,
                   rest, started, failures, executed>>

(* Going on to the next job moves that tick only.                           *)
LEMMA StartNextMoves ==
    ASSUME Queue!TypeOK, NEW t \in Ticks, NEW jobs, NEW statuses,
           Queue!StartNext(t, jobs, statuses)
    PROVE  /\ at'[t] \in {"idle", "mark"}
           /\ \A u \in Ticks \ {t} : at'[u] = at[u] /\ current'[u] = current[u]
<1>1. at \in [Ticks -> Queue!Labels] /\ current \in [Ticks -> 0 .. NumJobs]
  BY DEF Queue!TypeOK
<1>2. PICK label \in {"idle", "mark"} :
        \E j : at' = [at EXCEPT ![t] = label] /\ current' = [current EXCEPT ![t] = j]
  BY DEF Queue!StartNext
<1>3. QED
  BY <1>1, <1>2

(* Every step of the queue that a tick takes is one of those above.         *)
LEMMA QueueMoves ==
    ASSUME Queue!TypeOK, NEW t \in Ticks,
           Queue!TickStep(t) \/ Queue!StatementFails(t) \/ CallRejects(t)
    PROVE  TickMoves(t)
<1> USE DEF TickMoves, Moves, Logs, Attempting
<1>1. at[t] \in Queue!Labels /\ at \in [Ticks -> Queue!Labels]
      /\ taskLog \in [Runs -> Queue!LogStatuses]
      /\ queueUsed \in [dbErrors : Nat, crashes : Nat]
  BY DEF Queue!TypeOK
<1>2. CASE Queue!ProcessInMemoryJobs(t) \/ Queue!JobCompletes(t) \/ Queue!JobFails(t)
  BY <1>2, StartNextMoves
     DEF Continues, Queue!ProcessInMemoryJobs, Queue!JobCompletes, Queue!JobFails,
     Queue!StartNext
<1>3. CASE Queue!MarkProcessing(t)
  BY <1>3 DEF Starts, Queue!MarkProcessing, Queue!UpdateTaskLog, Queue!StatusSet,
     Queue!Goto, Queue!queueVars, Queue!historyVars
<1>4. CASE Queue!LoadTask(t)
  BY <1>4 DEF GoesOn, Concludes, Queue!LoadTask, Queue!IsWorkflow, Queue!HasWorkflow,
     Queue!Goto, Queue!queueVars, Queue!historyVars
<1>5. CASE Queue!WorkflowReturns(t)
  BY <1>5 DEF Executes, Queue!WorkflowReturns, Queue!Goto, Queue!queueVars
<1>6. CASE Queue!WorkflowThrows(t)
  BY <1>6 DEF GoesOn, Queue!WorkflowThrows, Queue!Goto, Queue!queueVars,
     Queue!historyVars
<1>7. CASE Queue!MarkCompleted(t) \/ Queue!MarkFailed(t)
  BY <1>7 DEF Concludes, Queue!MarkCompleted, Queue!MarkFailed, Queue!UpdateTaskLog,
     Queue!StatusSet, Queue!Goto, Queue!queueVars, Queue!historyVars
<1>8. CASE Queue!StatementFails(t)
  <2>1. /\ UNCHANGED <<pushed, lost, task, current, executed>>
        /\ queueUsed'.crashes = queueUsed.crashes
        /\ UNCHANGED taskLog \/ Queue!UpdateTaskLog(t)
        /\ at[t] \in {"mark", "load", "complete", "fail"}
        /\ at' = [at EXCEPT ![t] = IF at[t] = "fail" THEN "rejected" ELSE "fail"]
    BY <1>1, <1>8 DEF Queue!StatementFails, Queue!Goto, Queue!queueVars, Queue!historyVars
  <2>2. CASE at[t] = "mark"
    BY <2>1, <2>2 DEF Starts, Queue!UpdateTaskLog, Queue!StatusSet
  <2>3. CASE at[t] = "load"
    <3>1. taskLog' = taskLog
      BY <1>1, <2>1, <2>3 DEF Queue!UpdateTaskLog, Queue!StatusSet
    <3>2. QED
      BY <2>1, <2>3, <3>1 DEF GoesOn
  <2>4. CASE at[t] = "complete" \/ at[t] = "fail"
    BY <2>1, <2>4 DEF Concludes, Queue!UpdateTaskLog, Queue!StatusSet
  <2>5. QED
    BY <2>1, <2>2, <2>3, <2>4
<1>9. CASE CallRejects(t)
  BY <1>1, <1>9 DEF GoesOn, CallRejects
<1>10. QED
  BY <1>2, <1>3, <1>4, <1>5, <1>6, <1>7, <1>8, <1>9 DEF Queue!TickStep

-----------------------------------------------------------------------------
(* What a step of the composition does to callers and queue.                *)

\* The callers that have pushed no job.
NotYet == {c \in Callers : call[c] \in {"idle", "touch", "insert", "insertAgain"}}

\* Caller c pushes a job for the task of row k, which is there by then.
Pushes(c, k) ==
    /\ c \in NotYet
    /\ Push(k)
    /\ call' = [call EXCEPT ![c] = "record"]
    /\ \/ k = c /\ c \notin logged /\ logged' = logged \cup {c} /\ UNCHANGED target
       \/ /\ k \in logged /\ UNCHANGED logged
          /\ target' = [target EXCEPT ![c] = k]
    /\ UNCHANGED <<recorded, callErrors, engineVars>>

\* It goes on without pushing one.
CallerMoves(c) ==
    \/ Begin(c) \/ TouchSchedule(c) \/ InsertDuplicate(c) \/ RecordJob(c)
    \/ CallerStatementFails(c)

\* The steps that a tick takes inside executeWorkflowById.
InsideEngine(t) ==
    /\ EngineStep(t)
    /\ at[t] = "run" \/ pc[t] # "idle"
    /\ UNCHANGED <<callerVars, queueVars>>

\* Those of processJob outside of it.
OutsideCall(t) ==
    /\ at[t] # "run"
    /\ Queue!TickStep(t) \/ Queue!StatementFails(t)
    /\ UNCHANGED <<callerVars, engineVars>>

\* It throws, or its first statement rejects.
CallThrows(t) ==
    /\ Queue!WorkflowThrows(t) \/ CallRejects(t)
    /\ \/ pc[t] = "idle" /\ UNCHANGED engineVars
       \/ EngineStep(t) /\ pc'[t] = "idle"
    /\ UNCHANGED callerVars

\* It returns, having skipped the workflow or run it.
CallReturns(t) ==
    /\ Queue!WorkflowReturns(t)
    /\ \/ pc[t] = "idle" /\ Skipped /\ UNCHANGED engineVars
       \/ EngineStep(t) /\ pc[t] \notin {"idle", "unlock"} /\ pc'[t] = "idle"
    /\ UNCHANGED callerVars

InQueue(t) == OutsideCall(t) \/ CallThrows(t) \/ CallReturns(t)

(* What the three have in common.                                           *)
LEMMA InQueueSteps ==
    ASSUME NEW t \in Ticks, InQueue(t)
    PROVE  /\ Queue!TickStep(t) \/ Queue!StatementFails(t) \/ CallRejects(t)
           /\ EngineStep(t) \/ UNCHANGED engineVars
           /\ UNCHANGED callerVars
  BY DEF InQueue, OutsideCall, CallThrows, CallReturns, Queue!TickStep

(* Every step is of one of these kinds.                                     *)
LEMMA NextCases ==
    ASSUME Next
    PROVE  \/ \E c \in Callers : CallerMoves(c)
           \/ \E c \in Callers, k \in Runs : Pushes(c, k)
           \/ \E t \in Ticks : InsideEngine(t) \/ InQueue(t)
           \/ DeleteWorkflow
           \/ Crash
<1>1. ASSUME NEW c \in Callers, InsertTask(c)
      PROVE  c \in Runs /\ Pushes(c, c)
  BY <1>1 DEF InsertTask, Pushes, NotYet, CallGoto, Runs
<1>2. ASSUME NEW c \in Callers, NEW k \in Runs, EnqueueAgain(c, k)
      PROVE  Pushes(c, k)
  BY <1>2 DEF EnqueueAgain, Pushes, NotYet, CallGoto
<1>3. ASSUME NEW t \in Ticks, TickStep(t)
      PROVE  InsideEngine(t) \/ InQueue(t)
  <2> USE DEF InQueue, OutsideCall, CallThrows, CallReturns
  <2>1. CASE QueueStep(t)
    <3>1. at[t] # "run"
      BY <2>1 DEF QueueStep, Queue!ProcessInMemoryJobs, Queue!MarkProcessing,
         Queue!LoadTask, Queue!MarkCompleted, Queue!MarkFailed, Queue!JobCompletes,
         Queue!JobFails
    <3>2. QED
      BY <2>1, <3>1 DEF QueueStep, Queue!TickStep
  <2>2. CASE SkipWorkflow(t) \/ WorkflowNotFound(t)
    BY <2>2 DEF SkipWorkflow, WorkflowNotFound, Calling
  <2>3. CASE RunWorkflow(t)
    BY <2>3 DEF RunWorkflow, InsideEngine, EngineStep, Engine!RunnerStep, Calling
  <2>4. CASE EngineMoves(t)
    <3>1. EngineStep(t) /\ pc[t] # "idle" /\ UNCHANGED callerVars
      BY <2>4 DEF EngineMoves, EngineStep, Engine!RunnerStep, Engine!ReadWorkflow,
         Engine!LockWorkflow, Engine!HandlerReturns, Engine!HandlerThrows,
         Engine!StoreResult, Engine!StoreFailure, Engine!FinishWorkflow,
         Engine!UnlockAfterError, Engine!StatementFails
    <3>2. \/ UNCHANGED queueVars
          \/ pc'[t] = "idle" /\ Queue!WorkflowThrows(t)
          \/ pc'[t] = "idle" /\ pc[t] # "unlock" /\ Queue!WorkflowReturns(t)
      BY <2>4 DEF EngineMoves, Throws
    <3>3. QED
      BY <3>1, <3>2 DEF InsideEngine
  <2>5. QED
    BY <1>3, <2>1, <2>2, <2>3, <2>4 DEF TickStep
<1>4. ASSUME NEW t \in Ticks, QueueStatementFails(t)
      PROVE  InQueue(t)
  <2> USE DEF InQueue, OutsideCall, CallThrows
  <2>1. CASE Queue!StatementFails(t)
    BY <1>4, <2>1 DEF QueueStatementFails, Queue!StatementFails
  <2>2. CASE ~Queue!StatementFails(t)
    BY <1>4, <2>2 DEF QueueStatementFails, CallRejects, Calling
  <2>3. QED
    BY <2>1, <2>2
<1>5. QED
  BY <1>1, <1>2, <1>3, <1>4 DEF Next, CallerStep, CallerMoves

-----------------------------------------------------------------------------
(* Callers, rows and jobs.                                                  *)

CallersTyped ==
    /\ call \in [Callers -> CallStates]
    /\ target \in [Callers -> Runs]
    /\ logged \subseteq Runs /\ recorded \subseteq Callers
    /\ callErrors \in 0 .. MaxFaults

\* The other conjuncts of ExecutionTypeOK come with those of the ticks.
TypeInv == Queue!TypeOK /\ EngineTyped /\ CallersTyped

\* Every caller pushes one job at most, so that there is a number for each; a
\* caller that has pushed none still enqueues the task it inserts itself; and
\* one that is about to record its job has pushed it.
CallersInv ==
    /\ pushed + Cardinality(NotYet) <= NumJobs
    /\ \A c \in NotYet : target[c] = c
    /\ \A c \in Callers : call[c] = "record" => JobOf(target[c])
    /\ RowsAndJobsAgree

LEMMA NotYetFinite ==
    /\ IsFiniteSet(NotYet)
    /\ Cardinality(NotYet) \in Nat
    /\ \A S : S \subseteq NotYet => IsFiniteSet(S) /\ Cardinality(S) \in Nat
                                    /\ Cardinality(S) <= Cardinality(NotYet)
<1>1. NotYet \subseteq Callers
  BY DEF NotYet
<1>2. IsFiniteSet(NotYet)
  BY <1>1, ExecutionAssumption, FS_Subset
<1>3. QED
  BY <1>2, FS_Subset, FS_CardinalityType

(* A caller that pushes a job is the last to be given its number.           *)
LEMMA PushCounts ==
    ASSUME TypeInv, CallersInv, NEW c \in Callers, NEW k \in Runs, Pushes(c, k)
    PROVE  /\ pushed \in Nat /\ pushed + 1 \in 1 .. NumJobs
           /\ task \in [1 .. NumJobs -> Runs]
           /\ pushed' + Cardinality(NotYet') <= NumJobs
<1>1. pushed \in Nat /\ NumJobs \in Nat /\ task \in [1 .. NumJobs -> Runs]
  BY PartsAssumptions DEF TypeInv, Queue!TypeOK, Queue!Jobs
<1>2. NotYet' = NotYet \ {c} /\ c \in NotYet
  BY DEF NotYet, Pushes, TypeInv, CallersTyped
<1>3. Cardinality(NotYet \ {c}) = Cardinality(NotYet) - 1
  BY <1>2, NotYetFinite, FS_RemoveElement
<1>4. Cardinality(NotYet \ {c}) \in Nat /\ Cardinality(NotYet) \in Nat
  BY NotYetFinite
<1>5. pushed' = pushed + 1
  BY DEF Pushes, Push
<1>6. pushed + Cardinality(NotYet) <= NumJobs
  BY DEF CallersInv
<1>7. QED
  BY <1>1, <1>2, <1>3, <1>4, <1>5, <1>6

LEMMA CallersTypedStep ==
    ASSUME TypeInv, CallersInv, Next
    PROVE  CallersTyped'
<1> USE DEF TypeInv, CallersTyped, CallStates, Runs
<1>1. ASSUME NEW c \in Callers, CallerMoves(c)
      PROVE  CallersTyped'
  <2>1. CASE Begin(c) \/ TouchSchedule(c) \/ InsertDuplicate(c) \/ RecordJob(c)
    BY <2>1 DEF Begin, TouchSchedule, InsertDuplicate, RecordJob, CallGoto, DuplicateTask
  <2>2. CASE CallerStatementFails(c)
    <3>1. callErrors' \in 0 .. MaxFaults
      <4>1. /\ queueUsed.dbErrors \in Nat /\ queueUsed.crashes \in Nat
            /\ engineUsed.dbErrors \in Nat
        BY DEF Queue!TypeOK, EngineTyped, Engine!TypeOK
      <4>2. callErrors' = callErrors + 1 /\ Faults < MaxFaults
        BY <2>2 DEF CallerStatementFails, MayFail
      <4>3. QED
        BY <4>1, <4>2, PartsAssumptions DEF Faults
    <3>2. QED
      BY <2>2, <3>1 DEF CallerStatementFails, CallGoto, AfterError
  <2>3. QED
    BY <1>1, <2>1, <2>2 DEF CallerMoves
<1>2. ASSUME NEW c \in Callers, NEW k \in Runs, Pushes(c, k)
      PROVE  CallersTyped'
  BY <1>2 DEF Pushes
<1>3. ASSUME NEW t \in Ticks, InsideEngine(t) \/ InQueue(t)
      PROVE  CallersTyped'
  BY <1>3, InQueueSteps DEF InsideEngine, callerVars
<1>4. CASE DeleteWorkflow
  BY <1>4 DEF DeleteWorkflow, callerVars
<1>5. CASE Crash
  BY <1>5 DEF Crash
<1>6. QED
  BY <1>1, <1>2, <1>3, <1>4, <1>5, NextCases

(* The queue's variables keep their types when a job is pushed, and when    *)
(* the call of a tick rejects.                                              *)
LEMMA PushTyped ==
    ASSUME TypeInv, CallersInv, NEW c \in Callers, NEW k \in Runs, Pushes(c, k)
    PROVE  Queue!TypeOK'
<1> USE DEF Queue!Jobs, Queue!Queue
<1>1. /\ pushed' = pushed + 1 /\ task' = [task EXCEPT ![pushed + 1] = k]
      /\ UNCHANGED <<lost, workflowless, status, attempts, taskLog, current, rest, at,
                     started, failures, executed, queueUsed>>
  BY DEF Pushes, Push
<1>2. pushed' \in 0 .. NumJobs /\ lost' \in 0 .. pushed' /\ pushed \in Nat /\ lost \in Nat
  BY <1>1, PushCounts DEF TypeInv, Queue!TypeOK
<1>3. task' \in [1 .. NumJobs -> Runs]
  BY <1>1, PushCounts
<1>4. lost + 1 .. pushed \subseteq lost' + 1 .. pushed'
  BY <1>1, <1>2
<1>5. QED
  BY <1>1, <1>2, <1>3, <1>4 DEF TypeInv, Queue!TypeOK

LEMMA CallRejectsTyped ==
    ASSUME Queue!TypeOK, NEW t \in Ticks, CallRejects(t)
    PROVE  Queue!TypeOK'
<1> USE DEF CallRejects
<1>1. at' \in [Ticks -> Queue!Labels] /\ \A u \in Ticks : at'[u] = "idle" <=> at[u] = "idle"
  BY DEF Queue!TypeOK, Queue!Labels
<1>2. queueUsed' \in [dbErrors : Nat, crashes : Nat]
  BY DEF Queue!TypeOK
<1>3. QED
  BY <1>1, <1>2 DEF Queue!TypeOK, Queue!Jobs, Queue!Queue

LEMMA TypeStep ==
    ASSUME TypeInv, CallersInv, [Next]_vars
    PROVE  TypeInv'
<1> USE DEF TypeInv
<1>1. ASSUME NEW c \in Callers, CallerMoves(c)
      PROVE  UNCHANGED <<queueVars, engineVars>>
  BY <1>1 DEF CallerMoves, Begin, TouchSchedule, InsertDuplicate, RecordJob,
     CallerStatementFails
<1>2. ASSUME UNCHANGED queueVars
      PROVE  Queue!TypeOK'
  BY <1>2 DEF queueVars, Queue!TypeOK, Queue!Jobs, Queue!Queue
<1>3. ASSUME UNCHANGED engineVars
      PROVE  EngineTyped'
  BY <1>3 DEF engineVars, EngineTyped, Engine!TypeOK, EngineProofs!CursorInRange,
     EngineProofs!Steps
<1>4. ASSUME NEW t \in Ticks, InsideEngine(t) \/ InQueue(t)
      PROVE  Queue!TypeOK' /\ EngineTyped'
  <2>1. EngineTyped'
    BY <1>3, <1>4, EngineTypeStep, InQueueSteps DEF InsideEngine
  <2>2. CASE Queue!TickStep(t) \/ Queue!StatementFails(t)
    BY <2>1, <2>2, QueueTypeStep DEF Queue!Next
  <2>3. CASE CallRejects(t) \/ UNCHANGED queueVars
    BY <1>2, <2>1, <2>3, CallRejectsTyped
  <2>4. QED
    BY <1>4, <2>2, <2>3, InQueueSteps DEF InsideEngine
<1>5. CASE DeleteWorkflow
  BY <1>2, <1>5, EngineTypeStep, CallersTypedStep DEF DeleteWorkflow, Next
<1>6. CASE Crash
  <2>1. Queue!TypeOK'
    BY <1>6, QueueTypeStep DEF Crash, Queue!Next
  <2>2. Engine!Blank \in Engine!Local
    <3>1. 0 \in 0 .. NumSteps /\ [s \in Engine!Steps |-> 0] \in [Engine!Steps -> Nat]
      BY PartsAssumptions
    <3>2. QED
      BY <3>1 DEF Engine!Blank, Engine!Local
  <2>3. /\ pc' = [t \in Ticks |-> "idle"] /\ local' = [t \in Ticks |-> Engine!Blank]
        /\ lapsed' = {} /\ UNCHANGED <<exists, row, performed, engineUsed>>
    BY <1>6 DEF Crash
  <2>4. Engine!TypeOK'
    BY <2>2, <2>3 DEF EngineTyped, Engine!TypeOK, Engine!Labels
  <2>5. EngineProofs!CursorInRange'
    BY <2>3 DEF EngineProofs!CursorInRange
  <2>6. CallersTyped'
    BY <1>6, CallersTypedStep DEF Next
  <2>7. QED
    BY <2>1, <2>4, <2>5, <2>6 DEF EngineTyped
<1>7. CASE UNCHANGED vars
  BY <1>2, <1>3, <1>7 DEF vars, callerVars, CallersTyped
<1>8. ASSUME NEW c \in Callers, NEW k \in Runs, Pushes(c, k)
      PROVE  Queue!TypeOK' /\ EngineTyped'
  BY <1>3, <1>8, PushTyped DEF Pushes
<1>9. QED
  BY <1>1, <1>2, <1>3, <1>4, <1>5, <1>6, <1>7, <1>8, NextCases, CallersTypedStep

(* Until the process dies a job in the array stays there, and its task      *)
(* stays the same.                                                          *)
LEMMA JobsStay ==
    ASSUME TypeInv, CallersInv,
           \/ UNCHANGED <<pushed, lost, task>>
           \/ \E c \in Callers, k \in Runs : Pushes(c, k)
    PROVE  /\ \A j \in 1 .. pushed : j \in 1 .. pushed' /\ task'[j] = task[j]
           /\ \A k : JobOf(k) => JobOf(k)'
<1> USE DEF Queue!Queue
<1>1. CASE UNCHANGED <<pushed, lost, task>>
  BY <1>1 DEF JobOf
<1>2. ASSUME NEW c \in Callers, NEW k \in Runs, Pushes(c, k)
      PROVE  /\ \A j \in 1 .. pushed : j \in 1 .. pushed' /\ task'[j] = task[j]
             /\ \A i : JobOf(i) => JobOf(i)'
  <2>1. pushed \in Nat /\ pushed' = pushed + 1 /\ task \in [1 .. NumJobs -> Runs]
        /\ task' = [task EXCEPT ![pushed + 1] = k] /\ pushed + 1 \in 1 .. NumJobs
    BY <1>2, PushCounts DEF Pushes, Push
  <2>2. \A j \in 1 .. pushed : j \in 1 .. pushed' /\ task'[j] = task[j]
    BY <2>1
  <2>3. lost' = lost /\ lost \in 0 .. pushed
    BY <1>2 DEF Pushes, Push, TypeInv, Queue!TypeOK
  <2>4. \A j \in lost + 1 .. pushed : j \in lost' + 1 .. pushed' /\ j \in 1 .. pushed
    BY <2>1, <2>3
  <2>5. QED
    BY <2>2, <2>4 DEF JobOf
<1>3. QED
  BY <1>1, <1>2

(* A step of a tick leaves to callers, rows and jobs what they have.        *)
LEMMA CallersFrame ==
    ASSUME CallersInv, UNCHANGED <<callerVars, pushed, lost, task>>,
           queueUsed'.crashes = queueUsed.crashes
    PROVE  CallersInv'
<1>1. NotYet' = NotYet
  BY DEF NotYet, callerVars
<1>2. QED
  BY <1>1 DEF CallersInv, callerVars, JobOf, RowsAndJobsAgree, Queue!Queue

(* A caller that goes on without a job leaves the others what they have.    *)
LEMMA CallerMovesKeep ==
    ASSUME TypeInv, CallersInv, NEW c \in Callers, CallerMoves(c)
    PROVE  CallersInv'
<1> USE DEF TypeInv, CallersTyped
<1>1. /\ UNCHANGED <<pushed, lost, task, queueUsed, target>>
      /\ \E label : call' = [call EXCEPT ![c] = label]
      /\ logged \subseteq logged' /\ recorded \subseteq recorded'
      /\ callErrors' \in {callErrors, callErrors + 1}
  BY DEF CallerMoves, Begin, TouchSchedule, InsertDuplicate, RecordJob,
     CallerStatementFails, CallGoto, queueVars
<1>2. NotYet' \subseteq NotYet
  BY <1>1 DEF CallerMoves, Begin, TouchSchedule, InsertDuplicate, RecordJob,
     CallerStatementFails, CallGoto, DuplicateTask, AfterError, NotYet
<1>3. pushed' + Cardinality(NotYet') <= NumJobs
  <2>1. pushed \in Nat /\ NumJobs \in Nat
    BY PartsAssumptions DEF Queue!TypeOK
  <2>2. /\ Cardinality(NotYet) \in Nat /\ Cardinality(NotYet') \in Nat
        /\ Cardinality(NotYet') <= Cardinality(NotYet)
    BY <1>2, NotYetFinite
  <2>3. QED
    BY <1>1, <2>1, <2>2 DEF CallersInv
<1>4. \A d \in NotYet' : target'[d] = d
  BY <1>1, <1>2 DEF CallersInv
<1>5. ASSUME NEW d \in Callers, call'[d] = "record"
      PROVE  JobOf(target[d])' 
  <2>1. call[d] = "record"
    BY <1>5 DEF CallerMoves, Begin, TouchSchedule, InsertDuplicate, RecordJob,
       CallerStatementFails, CallGoto, DuplicateTask, AfterError
  <2>2. QED
    BY <1>1, <2>1 DEF CallersInv, JobOf, Queue!Queue
<1>6. \A j \in 1 .. pushed' : task'[j] \in logged'
  BY <1>1 DEF CallersInv, RowsAndJobsAgree
<1>7. ASSUME NEW d \in Callers, call'[d] = "accepted"
      PROVE  d \in recorded' /\ (JobOf(target[d])' \/ queueUsed'.crashes > 0)
  <2>1. \/ call[d] = "accepted"
        \/ d = c /\ RecordJob(c)
    BY <1>7 DEF CallerMoves, Begin, TouchSchedule, InsertDuplicate, RecordJob,
       CallerStatementFails, CallGoto, DuplicateTask, AfterError
  <2>2. CASE call[d] = "accepted"
    BY <1>1, <2>2 DEF CallersInv, RowsAndJobsAgree, JobOf, Queue!Queue
  <2>3. CASE d = c /\ RecordJob(c)
    BY <1>1, <2>3 DEF CallersInv, RecordJob, JobOf, Queue!Queue
  <2>4. QED
    BY <2>1, <2>2, <2>3
<1>8. ASSUME NEW k \in logged'
      PROVE  JobOf(k)' \/ callErrors' > 0 \/ queueUsed'.crashes > 0
  <2>1. CASE CallerStatementFails(c)
    BY <2>1 DEF CallerStatementFails
  <2>2. CASE ~CallerStatementFails(c)
    <3>1. logged' = logged /\ callErrors' = callErrors
      BY <2>2 DEF CallerMoves, Begin, TouchSchedule, InsertDuplicate, RecordJob
    <3>2. QED
      BY <1>1, <1>8, <3>1 DEF CallersInv, RowsAndJobsAgree, JobOf, Queue!Queue
  <2>3. QED
    BY <2>1, <2>2
<1>9. QED
  BY <1>3, <1>4, <1>5, <1>6, <1>7, <1>8 DEF CallersInv, RowsAndJobsAgree

(* A caller that pushes its job has its row there, and its number in time.  *)
LEMMA PushesKeep ==
    ASSUME TypeInv, CallersInv, NEW c \in Callers, NEW k \in Runs, Pushes(c, k)
    PROVE  CallersInv'
<1>1. /\ pushed \in Nat /\ pushed' = pushed + 1 /\ pushed + 1 \in 1 .. NumJobs
      /\ task \in [1 .. NumJobs -> Runs] /\ task' = [task EXCEPT ![pushed + 1] = k]
      /\ c \in NotYet /\ call' = [call EXCEPT ![c] = "record"]
      /\ recorded' = recorded /\ callErrors' = callErrors
      /\ queueUsed' = queueUsed
      /\ call \in [Callers -> CallStates] /\ target \in [Callers -> Runs]
  BY PushCounts DEF Pushes, Push, TypeInv, CallersTyped
<1> DEFINE HasJob(i) == \E j \in Queue!Queue' : task'[j] = i
<1>2. /\ \A j \in 1 .. pushed : j \in 1 .. pushed' /\ task'[j] = task[j]
      /\ \A i : JobOf(i) => HasJob(i)
  BY JobsStay DEF JobOf
<1>3. HasJob(k)
  <2>1. lost' = lost /\ lost \in 0 .. pushed
    BY DEF Pushes, Push, TypeInv, Queue!TypeOK
  <2>2. pushed + 1 \in lost' + 1 .. pushed' /\ task'[pushed + 1] = k
    BY <1>1, <2>1
  <2>3. QED
    BY <2>2 DEF Queue!Queue
<1> HIDE DEF HasJob
<1>4. /\ k \in logged' /\ logged' \in {logged, logged \cup {k}}
      /\ target'[c] = k /\ \A d \in Callers \ {c} : target'[d] = target[d]
  BY <1>1 DEF Pushes, CallersInv
<1>5. NotYet' \subseteq NotYet \ {c}
  BY <1>1 DEF NotYet
<1>6. \A d \in NotYet' : target'[d] = d
  BY <1>4, <1>5 DEF CallersInv, NotYet
<1>7. \A j \in 1 .. pushed' : task'[j] \in logged'
  <2>1. \A j \in 1 .. pushed' : j \in 1 .. pushed \/ j = pushed + 1
    BY <1>1
  <2>2. task'[pushed + 1] = k
    BY <1>1
  <2>3. \A j \in 1 .. pushed : task'[j] \in logged'
    BY <1>2, <1>4 DEF CallersInv, RowsAndJobsAgree
  <2>4. QED
    BY <1>4, <2>1, <2>2, <2>3
<1>8. \A d \in Callers : call'[d] = "record" => HasJob(target'[d])
  BY <1>1, <1>2, <1>3, <1>4 DEF CallersInv
<1>9. \A d \in Callers : call'[d] = "accepted" =>
          d \in recorded' /\ (HasJob(target'[d]) \/ queueUsed'.crashes > 0)
  BY <1>1, <1>2, <1>4 DEF CallersInv, RowsAndJobsAgree
<1>10. \A i \in logged' : HasJob(i) \/ callErrors' > 0 \/ queueUsed'.crashes > 0
  BY <1>1, <1>2, <1>3, <1>4 DEF CallersInv, RowsAndJobsAgree
<1>11. QED
  BY <1>6, <1>7, <1>8, <1>9, <1>10, PushCounts DEF CallersInv, RowsAndJobsAgree, JobOf, HasJob

LEMMA CallersStep ==
    ASSUME TypeInv, CallersInv, [Next]_vars
    PROVE  CallersInv'
<1>1. ASSUME NEW t \in Ticks, InsideEngine(t) \/ InQueue(t)
      PROVE  CallersInv'
  <2>1. UNCHANGED <<pushed, lost, task>> /\ queueUsed'.crashes = queueUsed.crashes
    BY <1>1, QueueMoves, InQueueSteps DEF InsideEngine, queueVars, TypeInv, TickMoves
  <2>2. QED
    BY <1>1, <2>1, CallersFrame, InQueueSteps DEF InsideEngine
<1>2. CASE DeleteWorkflow \/ UNCHANGED vars
  BY <1>2, CallersFrame DEF DeleteWorkflow, vars, queueVars
<1>3. CASE Crash
  <2>1. /\ UNCHANGED <<pushed, task, target, callErrors>>
        /\ logged \subseteq logged' /\ recorded \subseteq recorded'
        /\ queueUsed'.crashes > 0
        /\ call' = [c \in Callers |-> IF call[c] \in Over THEN call[c] ELSE "dead"]
    BY <1>3 DEF Crash, Queue!Crash, TypeInv, Queue!TypeOK
  <2>2. \A c \in Callers : call'[c] = "dead" \/ (call'[c] = call[c] /\ call[c] # "record")
    BY <2>1 DEF Over, TypeInv, CallersTyped
  <2>3. NotYet' \subseteq NotYet
    BY <2>2 DEF NotYet
  <2>4. pushed' + Cardinality(NotYet') <= NumJobs
    <3>1. pushed \in Nat /\ NumJobs \in Nat
      BY PartsAssumptions DEF TypeInv, Queue!TypeOK
    <3>2. /\ Cardinality(NotYet) \in Nat /\ Cardinality(NotYet') \in Nat
          /\ Cardinality(NotYet') <= Cardinality(NotYet)
      BY <2>3, NotYetFinite
    <3>3. QED
      BY <2>1, <3>1, <3>2 DEF CallersInv
  <2>5. QED
    BY <2>1, <2>2, <2>3, <2>4 DEF CallersInv, RowsAndJobsAgree
<1>4. QED
  BY <1>1, <1>2, <1>3, CallerMovesKeep, PushesKeep, NextCases

LEMMA InitCallers ==
    ASSUME Init
    PROVE  TypeInv /\ CallersInv
<1>1. Queue!TypeOK
  <2>1. QueueProofs!Init
    BY DEF Init, Queue!Init, QueueProofs!Init, Queue!Jobs, QueueProofs!Jobs
  <2>2. QED
    BY <2>1, PartsAssumptions, QueueTypes, QueueProofs!InitTyped
<1>2. EngineTyped
  <2>1. EngineProofs!Init
    BY DEF Init, Engine!Init, EngineProofs!Init, Engine!CreatedRow,
       EngineProofs!CreatedRow, Engine!Blank, EngineProofs!Blank,
       Engine!Steps, EngineProofs!Steps, Engine!NoRequest, EngineProofs!NoRequest
  <2>2. 0 \in Nat
    OBVIOUS
  <2>3. QED
    BY <2>1, <2>2, PartsAssumptions, EngineTypes, EngineProofs!InitTyped
       DEF EngineProofs!Steps
<1>3. CallersTyped
  BY PartsAssumptions DEF Init, CallersTyped, CallStates, Runs
<1>4. pushed = 0 /\ logged = {} /\ NotYet = Callers
  BY DEF Init, Queue!Init, NotYet
<1>5. pushed + Cardinality(NotYet) <= NumJobs
  BY <1>4, PartsAssumptions DEF NumJobs
<1>6. QED
  BY <1>1, <1>2, <1>3, <1>4, <1>5
     DEF Init, TypeInv, CallersInv, RowsAndJobsAgree

LEMMA CallersAlways == Spec => [](TypeInv /\ CallersInv)
<1>1. TypeInv /\ CallersInv /\ [Next]_vars => (TypeInv /\ CallersInv)'
  BY TypeStep, CallersStep
<1>2. QED
  BY InitCallers, <1>1, PTL DEF Spec

(* No job runs without the row of its task; a caller is given the id of a   *)
(* job that is in the table and, until the process dies, in the array; and  *)
(* no row is left without a job in the array but by a statement of a caller *)
(* that failed or by a process that has died.                               *)
THEOREM RowsAndJobs == Spec => []RowsAndJobsAgree
<1>1. CallersInv => RowsAndJobsAgree
  BY DEF CallersInv
<1>2. QED
  BY CallersAlways, <1>1, PTL

-----------------------------------------------------------------------------
(* Ticks, and what becomes of the rows.                                     *)

\* The jobs that have been executed are in the array; only a scheduled workflow
\* is run; a tick that is about to report one as completed has executed it, and
\* the row of one says completed only when somebody has; a row nobody inserted
\* yet says what it will be inserted with; and only so many ticks are under way.
TicksInv ==
    /\ executed \subseteq 1 .. pushed
    /\ \A t \in Ticks : at[t] = "run" => task[current[t]] \in Firings
    /\ \A t \in Ticks : at[t] = "complete" /\ task[current[t]] \in Firings
                           => current[t] \in executed
    /\ \A k \in Firings : taskLog[k] = "completed" => \E j \in executed : task[j] = k
    /\ \A k \in Runs \ logged : taskLog[k] = "pending"
    /\ IsFiniteSet({t \in Ticks : at[t] # "idle"})

(* The job a tick has is in the array, and the row of its task is there.    *)
LEMMA CurrentThere ==
    ASSUME TypeInv, CallersInv, NEW t \in Ticks, at[t] # "idle"
    PROVE  /\ current[t] \in 1 .. pushed
           /\ task[current[t]] \in Runs /\ task[current[t]] \in logged
<1>1. /\ current[t] \in lost + 1 .. pushed /\ pushed \in 0 .. NumJobs /\ NumJobs \in Nat
      /\ lost \in 0 .. pushed /\ task \in [1 .. NumJobs -> Runs]
  BY PartsAssumptions DEF TypeInv, Queue!TypeOK, Queue!Queue, Queue!Jobs
<1>2. current[t] \in 1 .. pushed /\ current[t] \in 1 .. NumJobs
  BY <1>1
<1>3. QED
  BY <1>1, <1>2 DEF CallersInv, RowsAndJobsAgree

(* One step adds one tick at most to those under way.                       *)
LEMMA TicksFinite ==
    ASSUME TypeInv, IsFiniteSet({t \in Ticks : at[t] # "idle"}), NEW u \in Ticks,
           \A t \in Ticks \ {u} : at'[t] = at[t]
    PROVE  IsFiniteSet({t \in Ticks : at'[t] # "idle"})
<1> DEFINE before == {t \in Ticks : at[t] # "idle"}
           after == {t \in Ticks : at'[t] # "idle"}
<1>1. after \subseteq before \cup {u}
  OBVIOUS
<1>2. IsFiniteSet(before \cup {u})
  BY FS_AddElement
<1> HIDE DEF before
<1>3. QED
  BY <1>1, <1>2, FS_Subset

(* Whatever a tick does, it touches the row of its own task only, and it    *)
(* reports what has been executed.                                          *)
LEMMA TickMovesKeep ==
    ASSUME TypeInv, CallersInv, TicksInv, NEW t \in Ticks, TickMoves(t),
           UNCHANGED callerVars
    PROVE  TicksInv'
<1> USE DEF Moves, Logs, Attempting
<1>1. /\ at \in [Ticks -> Queue!Labels] /\ taskLog \in [Runs -> Queue!LogStatuses]
      /\ UNCHANGED <<pushed, task, logged>> /\ Firings \subseteq Runs
  BY PartsAssumptions DEF TypeInv, Queue!TypeOK, TickMoves, callerVars
<1>2. at[t] # "idle" => /\ current[t] \in 1 .. pushed
                        /\ task[current[t]] \in Runs /\ task[current[t]] \in logged
  BY CurrentThere
<1>3. \A u \in Ticks \ {t} : at'[u] = at[u] /\ current'[u] = current[u]
  BY <1>1 DEF TickMoves, Continues, Starts, GoesOn, Executes, Concludes
<1>4. executed \subseteq executed' /\ executed' \subseteq 1 .. pushed'
  <2>1. CASE Executes(t)
    BY <1>1, <1>2, <2>1 DEF Executes, TicksInv
  <2>2. CASE ~Executes(t)
    BY <1>1, <2>2 DEF TickMoves, Continues, Starts, GoesOn, Concludes, TicksInv
  <2>3. QED
    BY <2>1, <2>2
<1>5. ASSUME NEW u \in Ticks, at'[u] = "run"
      PROVE  task'[current'[u]] \in Firings
  <2>1. CASE u # t
    BY <1>1, <1>3, <1>5, <2>1 DEF TicksInv
  <2>2. CASE u = t
    BY <1>1, <1>5, <2>2 DEF TickMoves, Continues, Starts, GoesOn, Executes, Concludes
  <2>3. QED
    BY <2>1, <2>2
<1>6. ASSUME NEW u \in Ticks, at'[u] = "complete", task'[current'[u]] \in Firings
      PROVE  current'[u] \in executed'
  <2>1. CASE u # t
    BY <1>1, <1>3, <1>4, <1>6, <2>1 DEF TicksInv
  <2>2. CASE u = t
    BY <1>1, <1>6, <2>2 DEF TickMoves, Continues, Starts, GoesOn, Executes, Concludes
  <2>3. QED
    BY <2>1, <2>2
<1>7. /\ \A k \in Runs : taskLog'[k] # taskLog[k] => at[t] # "idle" /\ k = task[current[t]]
      /\ \A k \in Runs : taskLog'[k] = "completed" /\ taskLog[k] # "completed"
             => at[t] = "complete"
  <2>1. CASE Continues(t) \/ GoesOn(t) \/ Executes(t)
    BY <2>1 DEF Continues, GoesOn, Executes
  <2>2. CASE Starts(t)
    BY <1>1, <2>2 DEF Starts
  <2>3. CASE Concludes(t)
    BY <1>1, <2>3 DEF Concludes
  <2>4. QED
    BY <2>1, <2>2, <2>3 DEF TickMoves
<1>8. ASSUME NEW k \in Firings, taskLog'[k] = "completed"
      PROVE  \E j \in executed' : task'[j] = k
  <2>1. CASE taskLog[k] = "completed"
    BY <1>1, <1>4, <2>1 DEF TicksInv
  <2>2. CASE taskLog[k] # "completed"
    <3>1. at[t] = "complete" /\ k = task[current[t]]
      BY <1>1, <1>7, <1>8, <2>2
    <3>2. current[t] \in executed
      BY <3>1 DEF TicksInv
    <3>3. QED
      BY <1>1, <1>4, <3>1, <3>2
  <2>3. QED
    BY <2>1, <2>2
<1>9. \A k \in Runs \ logged' : taskLog'[k] = "pending"
  BY <1>1, <1>2, <1>7 DEF TicksInv
<1>10. IsFiniteSet({u \in Ticks : at'[u] # "idle"})
  BY <1>3, TicksFinite DEF TicksInv
<1>11. QED
  BY <1>4, <1>5, <1>6, <1>8, <1>9, <1>10 DEF TicksInv

LEMMA TicksStep ==
    ASSUME TypeInv, CallersInv, TicksInv, [Next]_vars
    PROVE  TicksInv'
<1>1. ASSUME UNCHANGED <<pushed, task, taskLog, current, at, executed>>, logged \subseteq logged'
      PROVE  TicksInv'
  BY <1>1 DEF TicksInv
<1>2. ASSUME NEW c \in Callers, CallerMoves(c)
      PROVE  TicksInv'
  BY <1>1, <1>2 DEF CallerMoves, Begin, TouchSchedule, InsertDuplicate, RecordJob,
     CallerStatementFails, queueVars
<1>3. ASSUME NEW c \in Callers, NEW k \in Runs, Pushes(c, k)
      PROVE  TicksInv'
  <2>1. /\ UNCHANGED <<taskLog, current, at, executed>> /\ logged \subseteq logged'
    BY <1>3 DEF Pushes, Push
  <2>2. \A j \in 1 .. pushed : j \in 1 .. pushed' /\ task'[j] = task[j]
    BY <1>3, JobsStay
  <2>3. \A t \in Ticks : at[t] # "idle" => task'[current[t]] = task[current[t]]
    BY <2>2, CurrentThere
  <2>4. \A j \in executed : j \in 1 .. pushed' /\ task'[j] = task[j]
    BY <2>2 DEF TicksInv
  <2>5. QED
    BY <2>1, <2>3, <2>4 DEF TicksInv
<1>4. ASSUME NEW t \in Ticks, InsideEngine(t) \/ InQueue(t)
      PROVE  TicksInv'
  <2>1. CASE InsideEngine(t)
    BY <1>1, <2>1 DEF InsideEngine, callerVars, queueVars
  <2>2. CASE InQueue(t)
    BY <2>2, QueueMoves, TickMovesKeep, InQueueSteps DEF TypeInv
  <2>3. QED
    BY <1>4, <2>1, <2>2
<1>5. CASE DeleteWorkflow \/ UNCHANGED vars
  BY <1>1, <1>5 DEF DeleteWorkflow, vars, callerVars, queueVars
<1>6. CASE Crash
  <2>1. /\ UNCHANGED <<pushed, task, taskLog, executed>> /\ logged \subseteq logged'
        /\ at' = [t \in Ticks |-> "idle"]
    BY <1>6 DEF Crash, Queue!Crash, Queue!historyVars
  <2>2. {t \in Ticks : at'[t] # "idle"} = {}
    BY <2>1
  <2>3. QED
    BY <2>1, <2>2, FS_EmptySet DEF TicksInv
<1>7. QED
  BY <1>2, <1>3, <1>4, <1>5, <1>6, NextCases

LEMMA InitTicks ==
    ASSUME Init
    PROVE  TicksInv
<1>1. {t \in Ticks : at[t] # "idle"} = {}
  BY DEF Init, Queue!Init
<1>2. QED
  BY <1>1, PartsAssumptions, FS_EmptySet DEF Init, Queue!Init, TicksInv

-----------------------------------------------------------------------------
(* Ticks and the workflow.                                                  *)

\* A tick at work on the workflow awaits executeWorkflowById; a workflow that
\* any job has executed, or that is locked, is no longer as it was created; and
\* without faults one that is locked or running has a tick at work on it.
EngineInv ==
    /\ \A t \in Ticks : pc[t] # "idle" => at[t] = "run"
    /\ exists /\ executed # {} => row.status # "pending"
    /\ row.locked => row.status # "pending"
    /\ Healthy /\ exists /\ (row.locked \/ row.status = "running")
           => \E t \in Ticks : pc[t] \in Engine!AtWork

(* What a step inside executeWorkflowById does to the workflow's row.       *)
LEMMA EngineFrame ==
    ASSUME EngineTyped, NEW t \in Ticks, EngineStep(t)
    PROVE  /\ exists' = exists
           /\ \A u \in Ticks \ {t} : pc'[u] = pc[u]
           /\ row.status # "pending" => row'.status # "pending"
           /\ row'.locked => row'.status # "pending" \/ row.locked
           /\ exists /\ pc[t] \notin {"idle", "unlock"} /\ pc'[t] = "idle"
                 => row'.status # "pending"
           /\ \/ engineUsed'.dbErrors > 0
              \/ pc'[t] \in Engine!AtWork
              \/ exists => ~row'.locked /\ row'.status # "running"
              \/ /\ pc[t] \notin Engine!AtWork
                 /\ row'.locked => row.locked
                 /\ row'.status = "running" => row.status = "running"
<1> USE DEF Engine!AtWork, Engine!Goto, Engine!Leave, Engine!AfterCall, Engine!Update
<1>1. /\ pc \in [Ticks -> Engine!Labels] /\ row \in Engine!Row
      /\ engineUsed.dbErrors \in Nat
  BY DEF EngineTyped, Engine!TypeOK
<1>2. CASE Engine!ExecuteWorkflowById(t)
  BY <1>1, <1>2 DEF Engine!ExecuteWorkflowById
<1>3. CASE Engine!ReadWorkflow(t)
  BY <1>1, <1>3 DEF Engine!ReadWorkflow
<1>4. CASE Engine!LockWorkflow(t)
  BY <1>1, <1>4 DEF Engine!LockWorkflow, Engine!LockStatement, Engine!LockedRow,
     Engine!CanLock, Engine!Row
<1>5. CASE Engine!HandlerReturns(t) \/ Engine!HandlerThrows(t)
  BY <1>1, <1>5 DEF Engine!HandlerReturns, Engine!HandlerThrows
<1>6. ASSUME Engine!StoreResult(t) \/ Engine!StoreFailure(t) \/ Engine!FinishWorkflow(t)
      PROVE  /\ exists' = exists
             /\ \A u \in Ticks \ {t} : pc'[u] = pc[u]
             /\ exists => /\ row'.status \in {"completed", "paused", "failed"}
                          /\ ~row'.locked
             /\ ~exists => row' = row
  BY <1>1, <1>6 DEF Engine!StoreResult, Engine!StoreFailure, Engine!FinishWorkflow,
     Engine!StoredRow, Engine!FailedRow, Engine!FinishedRow, Engine!Row
<1>7. CASE Engine!UnlockAfterError(t)
  BY <1>1, <1>7 DEF Engine!UnlockAfterError, Engine!UnlockedRow, Engine!Row
<1>8. CASE Engine!StatementFails(t)
  <2>1. engineUsed'.dbErrors > 0
    BY <1>1, <1>8 DEF Engine!StatementFails, EngineTyped, Engine!TypeOK
  <2>2. /\ exists' = exists
        /\ \A u \in Ticks \ {t} : pc'[u] = pc[u]
        /\ pc'[t] = "idle" => pc[t] = "unlock"
        /\ row' \in {row, Engine!Written(t)}
    BY <1>1, <1>8 DEF Engine!StatementFails
  <2>3. \/ row' = row
        \/ row'.status \in {"running", "completed", "paused", "failed"}
        \/ row'.status = row.status /\ ~row'.locked
    BY <1>1, <2>2 DEF Engine!Written, Engine!LockStatement, Engine!LockedRow,
       Engine!StoredRow, Engine!FailedRow, Engine!FinishedRow, Engine!UnlockedRow,
       Engine!Row
  <2>4. QED
    BY <2>1, <2>2, <2>3
<1>9. QED
  BY <1>2, <1>3, <1>4, <1>5, <1>6, <1>7, <1>8 DEF EngineStep, Engine!RunnerStep

(* Faults are counted and never forgotten.                                  *)
LEMMA FaultsStay ==
    ASSUME TypeInv, [Next]_vars, Healthy'
    PROVE  Healthy
<1>1. /\ callErrors \in Nat /\ queueUsed \in [dbErrors : Nat, crashes : Nat]
      /\ engineUsed \in [crashes : Nat, dbErrors : Nat, resets : Nat]
  BY PartsAssumptions
     DEF TypeInv, CallersTyped, Queue!TypeOK, EngineTyped, Engine!TypeOK
<1> DEFINE Grow == /\ callErrors' \in {callErrors, callErrors + 1}
                   /\ queueUsed'.dbErrors \in {queueUsed.dbErrors, queueUsed.dbErrors + 1}
                   /\ queueUsed'.crashes \in {queueUsed.crashes, queueUsed.crashes + 1}
                   /\ engineUsed'.dbErrors \in {engineUsed.dbErrors, engineUsed.dbErrors + 1}
<1>2. Grow => Healthy
  BY <1>1 DEF Healthy, Faults
<1>3. ASSUME NEW c \in Callers, CallerMoves(c)
      PROVE  Grow
  BY <1>3 DEF CallerMoves, Begin, TouchSchedule, InsertDuplicate, RecordJob,
     CallerStatementFails, queueVars, engineVars
<1>4. ASSUME NEW c \in Callers, NEW k \in Runs, Pushes(c, k)
      PROVE  Grow
  BY <1>4 DEF Pushes, Push, engineVars
<1>5. ASSUME NEW t \in Ticks, InsideEngine(t) \/ InQueue(t)
      PROVE  Grow
  <2>1. callErrors' = callErrors
    BY <1>5, InQueueSteps DEF InsideEngine, callerVars
  <2>2. engineUsed' \in {engineUsed, [engineUsed EXCEPT !.dbErrors = @ + 1]}
    BY <1>5, InQueueSteps DEF InsideEngine, engineVars, EngineStep, Engine!RunnerStep,
       Engine!ExecuteWorkflowById, Engine!ReadWorkflow, Engine!LockWorkflow,
       Engine!HandlerReturns, Engine!HandlerThrows, Engine!StoreResult,
       Engine!StoreFailure, Engine!FinishWorkflow, Engine!UnlockAfterError,
       Engine!StatementFails
  <2>3. queueUsed' \in {queueUsed, [queueUsed EXCEPT !.dbErrors = @ + 1]}
    BY <1>5, InQueueSteps DEF InsideEngine, queueVars, CallRejects, Queue!TickStep,
       Queue!ProcessInMemoryJobs, Queue!MarkProcessing, Queue!LoadTask,
       Queue!WorkflowReturns, Queue!WorkflowThrows, Queue!MarkCompleted,
       Queue!MarkFailed, Queue!JobCompletes, Queue!JobFails, Queue!StatementFails
  <2>4. QED
    BY <1>1, <2>1, <2>2, <2>3
<1>6. ASSUME DeleteWorkflow \/ UNCHANGED vars
      PROVE  Grow
  BY <1>6 DEF DeleteWorkflow, Engine!DeleteWorkflow, vars, callerVars, queueVars, engineVars
<1>7. ASSUME Crash
      PROVE  Grow
  BY <1>1, <1>7 DEF Crash, Queue!Crash
<1>8. QED
  BY <1>2, <1>3, <1>4, <1>5, <1>6, <1>7, NextCases

(* A step of runWorkflow by a tick, whatever the queue does with it: the    *)
(* row moves on from what it was created as, and is only left locked or     *)
(* running with a tick at work on it.                                       *)
LEMMA EngineKeeps ==
    ASSUME TypeInv, TypeInv', EngineInv, Healthy' => Healthy,
           NEW t \in Ticks, EngineStep(t)
    PROVE  /\ row'.locked => row'.status # "pending"
           /\ Healthy' /\ exists' /\ (row'.locked \/ row'.status = "running")
                  => \E u \in Ticks : pc'[u] \in Engine!AtWork
<1>1. row'.locked => row'.status # "pending"
  BY EngineFrame DEF TypeInv, EngineInv
<1>2. ASSUME Healthy', exists', row'.locked \/ row'.status = "running"
      PROVE  \E u \in Ticks : pc'[u] \in Engine!AtWork
  <2>1. /\ exists' = exists /\ \A u \in Ticks \ {t} : pc'[u] = pc[u]
        /\ \/ engineUsed'.dbErrors > 0
           \/ pc'[t] \in Engine!AtWork
           \/ exists => ~row'.locked /\ row'.status # "running"
           \/ /\ pc[t] \notin Engine!AtWork
              /\ row'.locked => row.locked
              /\ row'.status = "running" => row.status = "running"
    BY EngineFrame DEF TypeInv
  <2>2. ~(engineUsed'.dbErrors > 0)
    <3>1. /\ engineUsed'.dbErrors \in Nat /\ queueUsed'.dbErrors \in Nat
          /\ queueUsed'.crashes \in Nat /\ callErrors' \in Nat
      BY PartsAssumptions
         DEF TypeInv, CallersTyped, Queue!TypeOK, EngineTyped, Engine!TypeOK
    <3>2. QED
      BY <1>2, <3>1 DEF Healthy, Faults
  <2>3. CASE pc'[t] \in Engine!AtWork
    BY <2>3
  <2>4. CASE /\ pc[t] \notin Engine!AtWork
             /\ row'.locked => row.locked
             /\ row'.status = "running" => row.status = "running"
    <3>1. PICK u \in Ticks : pc[u] \in Engine!AtWork
      BY <1>2, <2>1, <2>4 DEF EngineInv
    <3>2. u # t /\ pc'[u] = pc[u]
      BY <2>1, <2>4, <3>1
    <3>3. QED
      BY <3>1, <3>2
  <2>5. QED
    BY <1>2, <2>1, <2>2, <2>3, <2>4
<1>3. QED
  BY <1>1, <1>2

LEMMA WorkflowStep ==
    ASSUME TypeInv, CallersInv, EngineInv, [Next]_vars
    PROVE  EngineInv'
<1>1. TypeInv' /\ (Healthy' => Healthy)
  BY TypeStep, FaultsStay
<1>2. ASSUME UNCHANGED <<at, executed, exists, row, pc>>
      PROVE  EngineInv'
  BY <1>1, <1>2 DEF EngineInv
<1>3. ASSUME NEW c \in Callers, CallerMoves(c)
      PROVE  EngineInv'
  BY <1>2, <1>3 DEF CallerMoves, Begin, TouchSchedule, InsertDuplicate, RecordJob,
     CallerStatementFails, queueVars, engineVars
<1>4. ASSUME NEW c \in Callers, NEW k \in Runs, Pushes(c, k)
      PROVE  EngineInv'
  BY <1>2, <1>4 DEF Pushes, Push, engineVars
<1>5. ASSUME NEW t \in Ticks, InsideEngine(t)
      PROVE  EngineInv'
  <2>1. /\ row'.locked => row'.status # "pending"
        /\ Healthy' /\ exists' /\ (row'.locked \/ row'.status = "running")
               => \E u \in Ticks : pc'[u] \in Engine!AtWork
    BY <1>1, <1>5, EngineKeeps DEF InsideEngine
  <2>2. /\ exists' = exists /\ UNCHANGED <<at, executed>>
        /\ \A u \in Ticks \ {t} : pc'[u] = pc[u]
        /\ row.status # "pending" => row'.status # "pending"
    BY <1>5, EngineFrame DEF InsideEngine, queueVars, TypeInv
  <2>3. at[t] = "run"
    BY <1>5 DEF InsideEngine, EngineInv
  <2>4. QED
    BY <2>1, <2>2, <2>3 DEF EngineInv
<1>6. ASSUME NEW t \in Ticks, OutsideCall(t)
      PROVE  EngineInv'
  <2>1. TickMoves(t) /\ at[t] # "run" /\ UNCHANGED engineVars
    BY <1>6, QueueMoves DEF OutsideCall, TypeInv
  <2>2. executed' = executed /\ \A u \in Ticks \ {t} : at'[u] = at[u]
    BY <2>1 DEF TickMoves, Moves, Continues, Starts, GoesOn, Executes, Concludes,
       TypeInv, Queue!TypeOK
  <2>3. QED
    BY <1>1, <2>1, <2>2 DEF EngineInv, engineVars
<1>7. ASSUME NEW t \in Ticks, CallThrows(t)
      PROVE  EngineInv'
  <2>1. executed' = executed /\ \A u \in Ticks \ {t} : at'[u] = at[u]
    BY <1>7 DEF CallThrows, CallRejects, Queue!WorkflowThrows, Queue!Goto,
       Queue!historyVars, TypeInv, Queue!TypeOK
  <2>2. CASE pc[t] = "idle" /\ UNCHANGED engineVars
    BY <1>1, <2>1, <2>2 DEF EngineInv, engineVars
  <2>3. CASE EngineStep(t) /\ pc'[t] = "idle"
    BY <1>1, <2>1, <2>3, EngineKeeps, EngineFrame DEF EngineInv, TypeInv
  <2>4. QED
    BY <1>7, <2>2, <2>3 DEF CallThrows
<1>8. ASSUME NEW t \in Ticks, CallReturns(t)
      PROVE  EngineInv'
  <2>1. \A u \in Ticks \ {t} : at'[u] = at[u]
    BY <1>8 DEF CallReturns, Queue!WorkflowReturns, Queue!Goto, TypeInv, Queue!TypeOK
  <2>2. CASE pc[t] = "idle" /\ Skipped /\ UNCHANGED engineVars
    BY <1>1, <2>1, <2>2 DEF EngineInv, engineVars, Skipped
  <2>3. CASE EngineStep(t) /\ pc[t] \notin {"idle", "unlock"} /\ pc'[t] = "idle"
    BY <1>1, <2>1, <2>3, EngineKeeps, EngineFrame DEF EngineInv, TypeInv
  <2>4. QED
    BY <1>8, <2>2, <2>3 DEF CallReturns
<1>9. CASE DeleteWorkflow
  BY <1>1, <1>9 DEF DeleteWorkflow, Engine!DeleteWorkflow, queueVars, EngineInv
<1>10. CASE Crash
  <2>1. /\ UNCHANGED <<exists, row, executed>> /\ pc' = [t \in Ticks |-> "idle"]
    BY <1>10 DEF Crash, Queue!Crash, Queue!historyVars
  <2>2. ~Healthy'
    <3>1. queueUsed'.crashes = queueUsed.crashes + 1 /\ queueUsed.crashes \in Nat
      BY <1>10 DEF Crash, Queue!Crash, TypeInv, Queue!TypeOK
    <3>2. /\ engineUsed'.dbErrors \in Nat /\ queueUsed'.dbErrors \in Nat
          /\ callErrors' \in Nat
      BY <1>1, PartsAssumptions
         DEF TypeInv, CallersTyped, Queue!TypeOK, EngineTyped, Engine!TypeOK
    <3>3. QED
      BY <3>1, <3>2 DEF Healthy, Faults
  <2>3. QED
    BY <2>1, <2>2 DEF EngineInv
<1>11. CASE UNCHANGED vars
  BY <1>2, <1>11 DEF vars, queueVars, engineVars
<1>12. QED
  BY <1>3, <1>4, <1>5, <1>6, <1>7, <1>8, <1>9, <1>10, <1>11, NextCases DEF InQueue

LEMMA InitWorkflow ==
    ASSUME Init
    PROVE  EngineInv
BY DEF Init, Queue!Init, Engine!Init, Engine!CreatedRow, EngineInv

-----------------------------------------------------------------------------
(* What is proved of the whole.                                             *)

ExecutionInv == TypeInv /\ CallersInv /\ TicksInv /\ EngineInv

LEMMA ExecutionAlways == Spec => []ExecutionInv
<1>1. Init => ExecutionInv
  BY InitCallers, InitTicks, InitWorkflow DEF ExecutionInv
<1>2. ExecutionInv /\ [Next]_vars => ExecutionInv'
  BY TypeStep, CallersStep, TicksStep, WorkflowStep DEF ExecutionInv
<1>3. QED
  BY <1>1, <1>2, PTL DEF Spec

(* Every variable keeps its type, and a tick at work on the workflow awaits *)
(* executeWorkflowById for a scheduled task.                                *)
THEOREM TypeCorrect == Spec => []ExecutionTypeOK
<1>1. ExecutionInv => ExecutionTypeOK
  BY DEF ExecutionInv, TypeInv, EngineTyped, CallersTyped, TicksInv, EngineInv,
     ExecutionTypeOK
<1>2. QED
  BY ExecutionAlways, <1>1, PTL

(* A run reported as completed has moved the workflow, and leaves it        *)
(* neither locked nor running, unless a statement failed or the process     *)
(* died.                                                                    *)
THEOREM CompletedRuns == Spec => []CompletedRunsCount
<1>1. ASSUME ExecutionInv, Healthy, exists
      PROVE  /\ (\E k \in Firings : taskLog[k] = "completed") => row.status # "pending"
             /\ (\A t \in Ticks : at[t] # "run") => ~(row.locked \/ row.status = "running")
  <2>1. (\E k \in Firings : taskLog[k] = "completed") => row.status # "pending"
    BY <1>1 DEF ExecutionInv, TicksInv, EngineInv
  <2>2. ASSUME \A t \in Ticks : at[t] # "run"
        PROVE  ~(row.locked \/ row.status = "running")
    BY <1>1, <2>2 DEF ExecutionInv, EngineInv, Engine!AtWork
  <2>3. QED
    BY <2>1, <2>2
<1>2. ExecutionInv => CompletedRunsCount
  BY <1>1 DEF CompletedRunsCount
<1>3. QED
  BY ExecutionAlways, <1>2, PTL

-----------------------------------------------------------------------------
(* The rows of task_logs are kept as RunLog promises.                       *)

\* The three variables of RunLog.
LogOf == [k \in Runs |-> IF k \in logged THEN taskLog[k] ELSE "absent"]
OpenOf == [k \in Runs |-> Cardinality(AttemptsAt(k))]
DoneOf == {task[j] : j \in executed}

LEMMA LogVariables ==
    /\ Log!Init <=> /\ LogOf = [k \in Runs |-> "absent"]
                    /\ OpenOf = [k \in Runs |-> 0]
                    /\ DoneOf = {}
    /\ UNCHANGED <<LogOf, OpenOf, DoneOf>> => UNCHANGED Log!vars
  BY DEF Log!Init, Log!vars, LogOf, OpenOf, DoneOf

(* Attempts are counted.                                                    *)
LEMMA AttemptsFinite ==
    ASSUME TicksInv, NEW k \in Runs
    PROVE  /\ IsFiniteSet(AttemptsAt(k))
           /\ Cardinality(AttemptsAt(k)) \in Nat
           /\ OpenOf[k] = Cardinality(AttemptsAt(k))
           /\ AttemptsAt(k) # {} => OpenOf[k] > 0
<1>1. AttemptsAt(k) \subseteq {t \in Ticks : at[t] # "idle"}
  BY DEF AttemptsAt
<1>2. IsFiniteSet(AttemptsAt(k))
  BY <1>1, FS_Subset DEF TicksInv
<1>3. QED
  BY <1>2, FS_CardinalityType, FS_EmptySet DEF OpenOf

(* The numbers stay while the same ticks attempt the same tasks ...         *)
LEMMA SameAttempts ==
    ASSUME \A t \in Ticks : at'[t] \in Attempting <=> at[t] \in Attempting,
           \A t \in Ticks : at[t] \in Attempting =>
                task'[current'[t]] = task[current[t]]
    PROVE  OpenOf' = OpenOf
<1>1. \A k : AttemptsAt(k)' = AttemptsAt(k)
  BY DEF AttemptsAt, Attempting
<1>2. QED
  BY <1>1 DEF OpenOf

(* ... and change by one where a tick begins or ends an attempt.            *)
LEMMA AttemptBegins ==
    ASSUME TypeInv, TicksInv, NEW t \in Ticks, NEW label \in Attempting,
           at[t] \notin Attempting, at' = [at EXCEPT ![t] = label],
           UNCHANGED <<current, task>>, task[current[t]] \in Runs
    PROVE  OpenOf' = [OpenOf EXCEPT ![task[current[t]]] = @ + 1]
<1>1. at'[t] = label /\ \A u \in Ticks \ {t} : at'[u] = at[u]
  BY DEF TypeInv, Queue!TypeOK
<1>2. AttemptsAt(task[current[t]])' = AttemptsAt(task[current[t]]) \cup {t}
  BY <1>1 DEF AttemptsAt, Attempting
<1>3. \A k \in Runs \ {task[current[t]]} : AttemptsAt(k)' = AttemptsAt(k)
  BY <1>1 DEF AttemptsAt, Attempting
<1>4. t \notin AttemptsAt(task[current[t]])
  BY DEF AttemptsAt, Attempting
<1>5. Cardinality(AttemptsAt(task[current[t]]) \cup {t})
        = Cardinality(AttemptsAt(task[current[t]])) + 1
  BY <1>4, AttemptsFinite, FS_AddElement
<1>6. QED
  BY <1>2, <1>3, <1>5 DEF OpenOf

LEMMA AttemptEnds ==
    ASSUME TypeInv, TicksInv, NEW t \in Ticks, NEW label,
           at[t] \in Attempting, label \notin Attempting, at' = [at EXCEPT ![t] = label],
           UNCHANGED <<current, task>>, task[current[t]] \in Runs
    PROVE  OpenOf' = [OpenOf EXCEPT ![task[current[t]]] = @ - 1]
<1>1. at'[t] = label /\ \A u \in Ticks \ {t} : at'[u] = at[u]
  BY DEF TypeInv, Queue!TypeOK
<1>2. AttemptsAt(task[current[t]])' = AttemptsAt(task[current[t]]) \ {t}
  BY <1>1 DEF AttemptsAt, Attempting
<1>3. \A k \in Runs \ {task[current[t]]} : AttemptsAt(k)' = AttemptsAt(k)
  BY <1>1 DEF AttemptsAt, Attempting
<1>4. t \in AttemptsAt(task[current[t]])
  BY DEF AttemptsAt, Attempting
<1>5. Cardinality(AttemptsAt(task[current[t]]) \ {t})
        = Cardinality(AttemptsAt(task[current[t]])) - 1
  BY <1>4, AttemptsFinite, FS_RemoveElement
<1>6. QED
  BY <1>2, <1>3, <1>5 DEF OpenOf

(* What a tick does is what an attempt may do.                              *)
LEMMA TickMovesLogged ==
    ASSUME TypeInv, CallersInv, TicksInv, NEW t \in Ticks, TickMoves(t),
           UNCHANGED callerVars
    PROVE  [Log!Next]_(Log!vars)
<1> DEFINE k == task[current[t]]
<1>1. /\ at \in [Ticks -> Queue!Labels] /\ taskLog \in [Runs -> Queue!LogStatuses]
      /\ UNCHANGED <<pushed, task, logged>>
  BY DEF TypeInv, Queue!TypeOK, TickMoves, callerVars
<1>2. at[t] # "idle" => k \in Runs /\ k \in logged
  BY CurrentThere
<1>3. \A s : taskLog' = [taskLog EXCEPT ![k] = s] /\ k \in logged
               => LogOf' = [LogOf EXCEPT ![k] = s]
  BY <1>1, <1>2 DEF LogOf
<1>4. /\ taskLog' = taskLog => LogOf' = LogOf
      /\ executed' = executed => DoneOf' = DoneOf
      /\ k \in logged /\ k \in Runs => LogOf[k] # "absent"
  BY <1>1 DEF LogOf, DoneOf, Queue!LogStatuses
<1>5. at[t] \in Attempting /\ k \in Runs => OpenOf[k] > 0
  <2>1. at[t] \in Attempting => t \in AttemptsAt(k)
    BY DEF AttemptsAt, Attempting
  <2>2. QED
    BY <2>1, AttemptsFinite
<1>6. CASE Continues(t)
  <2>1. OpenOf' = OpenOf
    BY <1>1, <1>6, SameAttempts DEF Continues
  <2>2. QED
    BY <1>4, <1>6, <2>1, LogVariables DEF Continues
<1>7. CASE GoesOn(t)
  <2>1. OpenOf' = OpenOf
    BY <1>1, <1>7, SameAttempts DEF GoesOn, Moves, Attempting
  <2>2. QED
    BY <1>4, <1>7, <2>1, LogVariables DEF GoesOn
<1>8. CASE Executes(t)
  <2>1. OpenOf' = OpenOf
    BY <1>1, <1>8, SameAttempts DEF Executes, Moves, Attempting
  <2>2. DoneOf' = DoneOf \cup {k}
    BY <1>1, <1>8 DEF Executes, DoneOf
  <2>3. k \in Runs /\ OpenOf[k] > 0
    BY <1>2, <1>5, <1>8 DEF Executes, Moves, Attempting
  <2>4. Log!Next
    BY <1>4, <1>8, <2>1, <2>2, <2>3
       DEF Log!Next, Log!Work, Executes, LogOf, OpenOf, DoneOf
  <2>5. QED
    BY <2>4
<1>9. CASE Starts(t)
  <2>1. PICK label \in {"load", "fail"} : at' = [at EXCEPT ![t] = label]
    BY <1>9 DEF Starts, Moves
  <2>2. k \in Runs /\ k \in logged /\ LogOf[k] # "absent"
    BY <1>2, <1>4, <1>9 DEF Starts, Moves
  <2>3. OpenOf' = [OpenOf EXCEPT ![k] = @ + 1]
    BY <1>1, <1>9, <2>1, <2>2, AttemptBegins DEF Starts, Moves, Attempting
  <2>4. LogOf' \in {LogOf, [LogOf EXCEPT ![k] = "processing"]}
    BY <1>3, <1>4, <1>9, <2>2 DEF Starts, Logs
  <2>5. Log!Next
    BY <1>4, <1>9, <2>2, <2>3, <2>4
       DEF Log!Next, Log!Begin, Starts, LogOf, OpenOf, DoneOf
  <2>6. QED
    BY <2>5
<1>10. CASE Concludes(t)
  <2>1. /\ at[t] \in Attempting /\ k \in Runs /\ k \in logged /\ OpenOf[k] > 0
        /\ DoneOf' = DoneOf
    BY <1>2, <1>4, <1>5, <1>10 DEF Concludes, Moves, Attempting
  <2>2. OpenOf' \in {OpenOf, [OpenOf EXCEPT ![k] = @ - 1]}
    <3>1. CASE at'[t] \in Attempting
      BY <1>1, <1>10, <2>1, <3>1, SameAttempts DEF Concludes, Moves
    <3>2. CASE at'[t] \notin Attempting
      <4>1. PICK label : at' = [at EXCEPT ![t] = label] /\ label \notin Attempting
        BY <1>1, <1>10, <3>2 DEF Concludes, Moves
      <4>2. QED
        BY <1>1, <1>10, <2>1, <4>1, AttemptEnds DEF Concludes, Moves
    <3>3. QED
      BY <3>1, <3>2
  <2>3. CASE taskLog' = taskLog
    <3>1. Log!GiveUp(k) \/ UNCHANGED Log!vars
      BY <1>4, <2>1, <2>2, <2>3, LogVariables DEF Log!GiveUp, LogOf, OpenOf, DoneOf
    <3>2. QED
      BY <2>1, <3>1 DEF Log!Next
  <2>4. CASE taskLog' # taskLog
    <3>1. PICK s \in {"completed", "failed"} :
            /\ taskLog' = [taskLog EXCEPT ![k] = s]
            /\ s = "completed" => at[t] = "complete"
      BY <1>10, <2>4 DEF Concludes, Logs, Moves
    <3>2. LogOf' = [LogOf EXCEPT ![k] = s]
      BY <1>3, <2>1, <3>1
    <3>3. s = "completed" /\ k \in Firings => k \in DoneOf
      BY <3>1 DEF TicksInv, DoneOf
    <3>4. Log!Report(k, s)
      BY <2>1, <2>2, <3>2, <3>3 DEF Log!Report, LogOf, OpenOf, DoneOf
    <3>5. QED
      BY <2>1, <3>4 DEF Log!Next
  <2>5. QED
    BY <2>3, <2>4
<1>11. QED
  BY <1>6, <1>7, <1>8, <1>9, <1>10 DEF TickMoves

(* A row is inserted as pending.                                            *)
LEMMA RowInserted ==
    ASSUME TicksInv, NEW c \in Runs, logged' \in {logged, logged \cup {c}},
           UNCHANGED taskLog, OpenOf' = OpenOf, DoneOf' = DoneOf
    PROVE  [Log!Next]_(Log!vars)
<1>1. CASE logged' = logged
  <2>1. LogOf' = LogOf
    BY <1>1 DEF LogOf
  <2>2. QED
    BY <2>1, LogVariables
<1>2. CASE c \notin logged /\ logged' = logged \cup {c}
  <2>1. taskLog[c] = "pending"
    BY <1>2 DEF TicksInv
  <2>2. LogOf[c] = "absent" /\ LogOf' = [LogOf EXCEPT ![c] = "pending"]
    BY <1>2, <2>1 DEF LogOf
  <2>3. Log!Record(c)
    BY <2>2 DEF Log!Record, LogOf, OpenOf, DoneOf
  <2>4. QED
    BY <2>3 DEF Log!Next
<1>3. QED
  BY <1>1, <1>2

LEMMA LogStep ==
    ASSUME ExecutionInv, [Next]_vars
    PROVE  [Log!Next]_(Log!vars)
<1> USE DEF ExecutionInv
<1>1. ASSUME NEW c \in Callers, CallerMoves(c)
      PROVE  [Log!Next]_(Log!vars)
  <2>1. /\ UNCHANGED <<pushed, task, current, at, executed, taskLog>>
        /\ logged' \in {logged, logged \cup {c}}
    BY <1>1 DEF CallerMoves, Begin, TouchSchedule, InsertDuplicate, RecordJob,
       CallerStatementFails, queueVars
  <2>2. OpenOf' = OpenOf /\ DoneOf' = DoneOf
    BY <2>1, SameAttempts DEF DoneOf
  <2>3. QED
    BY <2>1, <2>2, RowInserted DEF Runs
<1>2. ASSUME NEW c \in Callers, NEW k \in Runs, Pushes(c, k)
      PROVE  [Log!Next]_(Log!vars)
  <2>1. /\ UNCHANGED <<current, at, executed, taskLog>>
        /\ logged' \in {logged, logged \cup {c}}
    BY <1>2 DEF Pushes, Push
  <2>2. \A j \in 1 .. pushed : task'[j] = task[j]
    BY <1>2, JobsStay
  <2>3. \A t \in Ticks : at[t] \in Attempting => current[t] \in 1 .. pushed
    BY CurrentThere DEF Attempting
  <2>4. OpenOf' = OpenOf
    BY <2>1, <2>2, <2>3, SameAttempts
  <2>5. DoneOf' = DoneOf
    BY <2>1, <2>2 DEF DoneOf, TicksInv
  <2>6. QED
    BY <2>1, <2>4, <2>5, RowInserted DEF Runs
<1>3. ASSUME UNCHANGED <<task, current, at, executed, taskLog, logged>>
      PROVE  [Log!Next]_(Log!vars)
  BY <1>3, SameAttempts, LogVariables DEF LogOf, DoneOf
<1>4. ASSUME NEW t \in Ticks, InsideEngine(t) \/ InQueue(t)
      PROVE  [Log!Next]_(Log!vars)
  <2>1. CASE InsideEngine(t)
    BY <1>3, <2>1 DEF InsideEngine, callerVars, queueVars
  <2>2. CASE InQueue(t)
    BY <2>2, QueueMoves, TickMovesLogged, InQueueSteps DEF TypeInv
  <2>3. QED
    BY <1>4, <2>1, <2>2
<1>5. CASE DeleteWorkflow \/ UNCHANGED vars
  BY <1>3, <1>5 DEF DeleteWorkflow, vars, callerVars, queueVars
<1>6. CASE Crash
  <2>1. /\ UNCHANGED <<task, taskLog, executed>> /\ logged \subseteq logged'
        /\ at' = [t \in Ticks |-> "idle"] /\ logged' \subseteq Runs
    BY <1>6, CallersTypedStep DEF Crash, Queue!Crash, Queue!historyVars, Next, CallersTyped
  <2>2. \A k : AttemptsAt(k)' = {}
    BY <2>1 DEF AttemptsAt
  <2>3. OpenOf' = [k \in Runs |-> 0]
    BY <2>2, FS_EmptySet DEF OpenOf
  <2>4. \A k \in logged' \ logged : LogOf[k] = "absent" /\ LogOf'[k] = "pending"
    BY <2>1 DEF LogOf, TicksInv
  <2>5. LogOf' = [k \in Runs |-> IF k \in logged' \ logged THEN "pending" ELSE LogOf[k]]
    BY <2>1, <2>4 DEF LogOf
  <2>6. logged' \ logged \in SUBSET {k \in Runs : LogOf[k] = "absent"}
    BY <2>1, <2>4
  <2>7. Log!Crash
    BY <2>1, <2>3, <2>5, <2>6 DEF Log!Crash, LogOf, OpenOf, DoneOf
  <2>8. QED
    BY <2>7 DEF Log!Next
<1>7. QED
  BY <1>1, <1>2, <1>4, <1>5, <1>6, NextCases

(* The rows of task_logs implement RunLog: no status without an attempt     *)
(* under way, no completed run whose workflow nobody executed.              *)
THEOREM LogKept == Spec => RunLogImplemented
<1>1. ASSUME Init
      PROVE  Log!Init
  <2>1. \A k : AttemptsAt(k) = {}
    BY <1>1 DEF Init, Queue!Init, AttemptsAt
  <2>2. OpenOf = [k \in Runs |-> 0]
    BY <2>1, FS_EmptySet DEF OpenOf
  <2>3. LogOf = [k \in Runs |-> "absent"] /\ DoneOf = {}
    BY <1>1 DEF Init, Queue!Init, LogOf, DoneOf
  <2>4. QED
    BY <2>2, <2>3, LogVariables
<1>2. ExecutionInv /\ [Next]_vars => [Log!Next]_(Log!vars)
  BY LogStep
<1>3. QED
  BY ExecutionAlways, <1>1, <1>2, PTL DEF Spec, RunLogImplemented, Log!Spec

=============================================================================
