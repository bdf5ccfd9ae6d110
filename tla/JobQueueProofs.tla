--------------------------- MODULE JobQueueProofs ---------------------------
(***************************************************************************)
(* Theorems about JobQueue, for every number of jobs, tasks, overlapping   *)
(* ticks and attempts, and for every bound on faults.                      *)
(***************************************************************************)
EXTENDS JobQueue, TLAPS

-----------------------------------------------------------------------------
(* Types.                                                                   *)

(* Starting a tick's next job, or ending the tick, keeps everything typed.  *)
LEMMA StartNextTyped ==
    ASSUME TypeOK, NEW t \in Ticks, NEW jobs, jobs \subseteq Queue,
           NEW statuses \in [Jobs -> JobStatuses], StartNext(t, jobs, statuses),
           pushed' = pushed, lost' = lost
    PROVE  /\ status' \in [Jobs -> JobStatuses]
           /\ started' \in [Jobs -> Nat]
           /\ current' \in [Ticks -> 0 .. NumJobs]
           /\ rest' \in [Ticks -> SUBSET Jobs]
           /\ at' \in [Ticks -> Labels]
           /\ \A u \in Ticks :
                 /\ rest'[u] \subseteq Queue'
                 /\ IF at'[u] = "idle" THEN current'[u] = 0 ELSE current'[u] \in Queue'
<1> USE JobQueueAssumption DEF TypeOK, Jobs, Queue
<1>1. Queue' = Queue /\ Queue \subseteq Jobs
  OBVIOUS
<1>2. CASE /\ jobs = {}
           /\ status' = statuses
           /\ current' = [current EXCEPT ![t] = 0]
           /\ rest' = [rest EXCEPT ![t] = {}]
           /\ at' = [at EXCEPT ![t] = "idle"]
           /\ UNCHANGED started
  BY <1>1, <1>2 DEF Labels
<1>3. ASSUME NEW j \in jobs,
             status' = [statuses EXCEPT ![j] = "processing"],
             current' = [current EXCEPT ![t] = j],
             rest' = [rest EXCEPT ![t] = jobs \ {j}],
             at' = [at EXCEPT ![t] = "mark"],
             started' = [started EXCEPT ![j] = @ + 1]
      PROVE  /\ status' \in [Jobs -> JobStatuses]
             /\ started' \in [Jobs -> Nat]
             /\ current' \in [Ticks -> 0 .. NumJobs]
             /\ rest' \in [Ticks -> SUBSET Jobs]
             /\ at' \in [Ticks -> Labels]
             /\ \A u \in Ticks :
                   /\ rest'[u] \subseteq Queue'
                   /\ IF at'[u] = "idle" THEN current'[u] = 0
                                         ELSE current'[u] \in Queue'
  <2>1. j \in Queue /\ j \in Jobs /\ j \in 0 .. NumJobs
    BY <1>1
  <2>2. status' \in [Jobs -> JobStatuses] /\ started' \in [Jobs -> Nat]
    BY <1>3, <2>1 DEF JobStatuses
  <2>3. /\ current' \in [Ticks -> 0 .. NumJobs]
        /\ rest' \in [Ticks -> SUBSET Jobs]
        /\ at' \in [Ticks -> Labels]
    BY <1>1, <1>3, <2>1 DEF Labels
  <2>4. ASSUME NEW u \in Ticks
        PROVE  /\ rest'[u] \subseteq Queue'
               /\ IF at'[u] = "idle" THEN current'[u] = 0 ELSE current'[u] \in Queue'
    BY <1>1, <1>3, <2>1
  <2>5. QED
    BY <2>2, <2>3, <2>4
<1>4. QED
  BY <1>2, <1>3 DEF StartNext

LEMMA UsedTyped ==
    ASSUME NEW u \in [dbErrors : Nat, crashes : Nat]
    PROVE  /\ [u EXCEPT !.dbErrors = @ + 1] \in [dbErrors : Nat, crashes : Nat]
           /\ [u EXCEPT !.crashes = @ + 1] \in [dbErrors : Nat, crashes : Nat]
  OBVIOUS

LEMMA TypeStep ==
    ASSUME TypeOK, [Next]_vars
    PROVE  TypeOK'
<1> USE JobQueueAssumption DEF TypeOK, Jobs, Queue
<1>1. CASE EnqueueJob
  <2>1. /\ pushed' \in 0 .. NumJobs /\ lost' \in 0 .. pushed' /\ Queue \subseteq Queue'
        /\ \A t \in Ticks : rest'[t] = rest[t] /\ at'[t] = at[t] /\ current'[t] = current[t]
    BY <1>1 DEF EnqueueJob
  <2>2. \A t \in Ticks :
           /\ rest'[t] \subseteq Queue'
           /\ IF at'[t] = "idle" THEN current'[t] = 0 ELSE current'[t] \in Queue'
    BY <2>1
  <2>3. UNCHANGED <<task, workflowless, status, attempts, taskLog, current, rest, at, used>>
    BY <1>1 DEF EnqueueJob
  <2>4. UNCHANGED <<started, failures, executed>>
    BY <1>1 DEF EnqueueJob, historyVars
  <2> HIDE DEF Queue
  <2>5. QED
    BY <2>1, <2>2, <2>3, <2>4
<1>2. ASSUME NEW t \in Ticks, ProcessInMemoryJobs(t)
      PROVE  TypeOK'
  <2>1. Due \subseteq Queue
    BY DEF Due
  <2>2. StartNext(t, Due, status) /\ pushed' = pushed /\ lost' = lost
    BY <1>2 DEF ProcessInMemoryJobs
  <2> HIDE DEF Queue
  <2>3. QED
    BY <1>2, <2>1, <2>2, StartNextTyped DEF ProcessInMemoryJobs
<1>3. ASSUME NEW t \in Ticks, JobCompletes(t)
      PROVE  TypeOK'
  <2>1. [status EXCEPT ![current[t]] = "completed"] \in [Jobs -> JobStatuses]
    BY DEF JobStatuses
  <2>2. QED
    BY <1>3, <2>1, StartNextTyped DEF JobCompletes
<1>4. ASSUME NEW t \in Ticks, JobFails(t)
      PROVE  TypeOK'
  <2> DEFINE j == current[t]
             statuses == IF GivenUp(j) THEN [status EXCEPT ![j] = "failed"] ELSE status
  <2>1. statuses \in [Jobs -> JobStatuses]
    BY DEF JobStatuses
  <2>2. j \in Jobs
    <3>1. at[t] = "rejected"
      BY <1>4 DEF JobFails
    <3>2. current[t] \in lost + 1 .. pushed
      BY <3>1
    <3>3. QED
      BY <3>2
  <2>3. failures' \in [Jobs -> Nat]
    <3>1. failures' = [failures EXCEPT ![j] = failures[j] + 1]
      BY <1>4 DEF JobFails
    <3>2. failures \in [Jobs -> Nat]
      OBVIOUS
    <3> HIDE DEF j, TypeOK
    <3>3. QED
      BY <2>2, <3>1, <3>2
  <2>4. attempts' \in [Jobs -> 0 .. MaxAttempts]
    <3>1. attempts[j] \in 0 .. MaxAttempts
      BY <2>2
    <3>2. ~GivenUp(j) => attempts[j] + 1 \in 0 .. MaxAttempts
      BY <3>1 DEF GivenUp
    <3>3. attempts' = IF GivenUp(j) THEN attempts
                                    ELSE [attempts EXCEPT ![j] = attempts[j] + 1]
      BY <1>4 DEF JobFails
    <3> HIDE DEF j
    <3>4. QED
      BY <2>2, <3>2, <3>3
  <2>5. StartNext(t, rest[t], statuses)
    BY <1>4 DEF JobFails
  <2> HIDE DEF statuses, Queue
  <2>6. QED
    BY <1>4, <2>1, <2>3, <2>4, <2>5, StartNextTyped DEF JobFails
<1>5. ASSUME NEW t \in Ticks,
             \/ MarkProcessing(t) \/ LoadTask(t) \/ WorkflowReturns(t)
             \/ WorkflowThrows(t) \/ MarkCompleted(t) \/ MarkFailed(t)
             \/ StatementFails(t)
      PROVE  TypeOK'
  <2>1. at[t] # "idle" /\ current[t] \in Jobs
    BY <1>5 DEF MarkProcessing, LoadTask, WorkflowReturns, WorkflowThrows,
                MarkCompleted, MarkFailed, StatementFails
  <2>2. PICK label \in Labels \ {"idle"} : at' = [at EXCEPT ![t] = label]
    BY <1>5 DEF MarkProcessing, LoadTask, WorkflowReturns, WorkflowThrows,
                MarkCompleted, MarkFailed, StatementFails, Goto, Labels
  <2>3. /\ at' \in [Ticks -> Labels]
        /\ \A u \in Ticks : at'[u] = "idle" <=> at[u] = "idle"
    BY <2>1, <2>2
  <2>4. StatusSet(t) \in LogStatuses
    BY <2>1 DEF StatusSet, LogStatuses
  <2>5. taskLog' \in [Tasks -> LogStatuses]
    BY <1>5, <2>4 DEF MarkProcessing, LoadTask, WorkflowReturns, WorkflowThrows,
                MarkCompleted, MarkFailed, StatementFails, UpdateTaskLog
  <2>6. executed' \in SUBSET Jobs /\ used' \in [dbErrors : Nat, crashes : Nat]
    <3>1. executed' \in {executed, executed \cup {current[t]}}
      BY <1>5 DEF MarkProcessing, LoadTask, WorkflowReturns, WorkflowThrows,
                  MarkCompleted, MarkFailed, StatementFails, historyVars
    <3>2. used' \in {used, [used EXCEPT !.dbErrors = @ + 1]}
      BY <1>5 DEF MarkProcessing, LoadTask, WorkflowReturns, WorkflowThrows,
                  MarkCompleted, MarkFailed, StatementFails
    <3>3. [used EXCEPT !.dbErrors = @ + 1] \in [dbErrors : Nat, crashes : Nat]
      BY UsedTyped
    <3>4. QED
      BY <2>1, <3>1, <3>2, <3>3
  <2>7. UNCHANGED <<pushed, lost, task, workflowless, status, attempts, current, rest,
                    started, failures>>
    BY <1>5 DEF MarkProcessing, LoadTask, WorkflowReturns, WorkflowThrows,
                MarkCompleted, MarkFailed, StatementFails, queueVars, historyVars
  <2>8. QED
    BY <2>3, <2>5, <2>6, <2>7
<1>6. CASE Crash
  <2>1. used' \in [dbErrors : Nat, crashes : Nat]
    BY <1>6, UsedTyped DEF Crash
  <2>2. /\ current' \in [Ticks -> 0 .. NumJobs] /\ rest' \in [Ticks -> SUBSET Jobs]
        /\ at' \in [Ticks -> Labels]
    BY <1>6 DEF Crash, Labels
  <2>3. pushed' \in 0 .. NumJobs /\ lost' \in 0 .. pushed'
    BY <1>6 DEF Crash
  <2>4. \A t \in Ticks : at'[t] = "idle" /\ current'[t] = 0 /\ rest'[t] = {}
    BY <1>6 DEF Crash
  <2>5. QED
    BY <1>6, <2>1, <2>2, <2>3, <2>4 DEF Crash, historyVars
<1>7. CASE UNCHANGED vars
  BY <1>7 DEF vars, queueVars, historyVars
<1>8. QED
  BY <1>1, <1>2, <1>3, <1>4, <1>5, <1>6, <1>7 DEF Next, TickStep

LEMMA InitTyped == Init => TypeOK
<1>1. ASSUME Init PROVE used \in [dbErrors : Nat, crashes : Nat]
  BY <1>1 DEF Init
<1>2. QED
  BY <1>1, JobQueueAssumption
  DEF Init, TypeOK, Jobs, Queue, JobStatuses, LogStatuses, Labels

(* In every behaviour every variable keeps its type; in particular no job   *)
(* counts more attempts than maxAttempts.                                   *)
THEOREM TypeCorrect == Spec => []TypeOK
<1>1. TypeOK /\ [Next]_vars => TypeOK'
  BY TypeStep
<1>2. QED
  BY InitTyped, <1>1, PTL DEF Spec

-----------------------------------------------------------------------------
(* The order of the first starts.                                           *)

\* A job is pending exactly until it is first started, and whatever a tick has
\* still to come to is followed in its snapshot by nothing it has passed over:
\* an older job that nobody has started is in the snapshot as well.
OrderInv ==
    /\ \A j \in Jobs : status[j] = "pending" <=> started[j] = 0
    /\ \A j \in Jobs : j > pushed => started[j] = 0
    /\ \A t \in Ticks : at[t] # "idle" => started[current[t]] > 0
    /\ \A t \in Ticks, j \in Queue : \A k \in rest[t] :
          j < k /\ started[j] = 0 => j \in rest[t]
    /\ StartedInOrder

\* Set aside while jobs are started from the snapshot of tick t.
Behind(t, jobs) ==
    \A j \in Queue : \A k \in jobs : j < k /\ started[j] = 0 => j \in jobs

(* Starting the first job of a snapshot keeps the order, whether the        *)
(* snapshot is new or left over.                                            *)
LEMMA StartKeepsOrder ==
    ASSUME TypeOK, OrderInv, NEW t \in Ticks, NEW jobs, jobs \subseteq Queue,
           Behind(t, jobs), NEW statuses \in [Jobs -> JobStatuses],
           \A j \in Jobs : statuses[j] = "pending" <=> started[j] = 0,
           StartNext(t, jobs, statuses), pushed' = pushed, lost' = lost
    PROVE  OrderInv'
<1> USE JobQueueAssumption DEF Jobs, Queue
<1>1. Queue' = Queue /\ Queue \subseteq Jobs
  BY DEF TypeOK
<1>2. /\ rest \in [Ticks -> SUBSET Jobs] /\ started \in [Jobs -> Nat]
      /\ current \in [Ticks -> 0 .. NumJobs] /\ at \in [Ticks -> Labels]
      /\ \A u \in Ticks : at[u] # "idle" => current[u] \in Jobs
  <2>1. \A u \in Ticks : at[u] # "idle" => current[u] \in Queue
    BY DEF TypeOK
  <2> HIDE DEF Jobs, Queue
  <2>2. \A u \in Ticks : at[u] # "idle" => current[u] \in Jobs
    BY <1>1, <2>1
  <2>3. QED
    BY <2>2 DEF TypeOK
<1>3. CASE /\ jobs = {}
           /\ status' = statuses
           /\ current' = [current EXCEPT ![t] = 0]
           /\ rest' = [rest EXCEPT ![t] = {}]
           /\ at' = [at EXCEPT ![t] = "idle"]
           /\ UNCHANGED started
  BY <1>1, <1>2, <1>3 DEF OrderInv, StartedInOrder
<1>4. ASSUME NEW j \in jobs, FirstOf(j, jobs),
             status' = [statuses EXCEPT ![j] = "processing"],
             current' = [current EXCEPT ![t] = j],
             rest' = [rest EXCEPT ![t] = jobs \ {j}],
             at' = [at EXCEPT ![t] = "mark"],
             started' = [started EXCEPT ![j] = @ + 1]
      PROVE  OrderInv'
  <2>1. j \in Queue /\ j \in Jobs
    BY <1>1
  <2>2. /\ started'[j] > 0 /\ status'[j] # "pending"
        /\ \A i \in Jobs \ {j} : started'[i] = started[i] /\ status'[i] = statuses[i]
    BY <1>2, <1>4, <2>1
  <2>3. \A i \in Jobs : status'[i] = "pending" <=> started'[i] = 0
    BY <2>2
  <2>4. \A i \in Jobs : i > pushed => started'[i] = 0
    <3>1. \A i \in Jobs : i > pushed => started[i] = 0
      BY DEF OrderInv
    <3>2. ~(j > pushed)
      BY <2>1 DEF TypeOK
    <3> HIDE DEF Jobs, Queue
    <3>3. QED
      BY <2>2, <3>1, <3>2
  <2>5. \A u \in Ticks, i \in Queue : \A k \in rest'[u] :
            i < k /\ started'[i] = 0 => i \in rest'[u]
    <3>1. SUFFICES ASSUME NEW u \in Ticks, NEW i \in Queue, NEW k \in rest'[u],
                          i < k, started'[i] = 0
                   PROVE  i \in rest'[u]
      OBVIOUS
    <3>2. i # j /\ started[i] = 0
      BY <1>1, <2>2, <3>1
    <3>3. CASE u = t
      <4>1. rest'[u] = jobs \ {j}
        BY <1>2, <1>4, <3>3
      <4>2. QED
        BY <3>1, <3>2, <4>1 DEF Behind
    <3>4. CASE u # t
      <4>1. rest'[u] = rest[u]
        BY <1>2, <1>4, <3>4
      <4>2. QED
        BY <3>1, <3>2, <4>1 DEF OrderInv
    <3>5. QED
      BY <3>3, <3>4
  <2>6. \A i \in Queue : i < j => started[i] > 0
    <3>1. ASSUME NEW i \in Queue, i < j, started[i] = 0 PROVE FALSE
      <4>1. i \in jobs
        BY <3>1 DEF Behind
      <4>2. QED
        BY <1>4, <2>1, <3>1, <4>1 DEF FirstOf, TypeOK
    <3>2. QED
      BY <1>1, <1>2, <3>1
  <2>7. StartedInOrder'
    <3>1. SUFFICES ASSUME NEW i \in Queue, NEW k \in Queue, i < k, started'[k] > 0
                   PROVE  started'[i] > 0
      BY <1>1 DEF StartedInOrder
    <3>2. CASE k = j
      BY <1>1, <2>2, <2>6, <3>1, <3>2
    <3>3. CASE i = j
      BY <2>2, <3>3
    <3>4. CASE k # j /\ i # j
      BY <1>1, <2>2, <3>1, <3>4 DEF OrderInv, StartedInOrder
    <3>5. QED
      BY <3>2, <3>3, <3>4
  <2>8. ASSUME NEW u \in Ticks, at'[u] # "idle"
        PROVE  started'[current'[u]] > 0
    <3>1. CASE u = t
      BY <1>2, <1>4, <2>2, <3>1
    <3>2. CASE u # t
      <4>1. at[u] # "idle" /\ current'[u] = current[u]
        BY <1>2, <1>4, <2>8, <3>2
      <4>2. started[current[u]] > 0 /\ current[u] \in Jobs
        BY <1>2, <4>1 DEF OrderInv
      <4>3. QED
        BY <2>2, <4>1, <4>2
    <3>3. QED
      BY <3>1, <3>2
  <2>9. QED
    BY <1>1, <2>3, <2>4, <2>5, <2>7, <2>8 DEF OrderInv
<1>5. QED
  BY <1>3, <1>4 DEF StartNext

LEMMA OrderStep ==
    ASSUME TypeOK, OrderInv, [Next]_vars
    PROVE  OrderInv'
<1> USE JobQueueAssumption DEF Jobs, Queue
<1>1. CASE EnqueueJob
  <2>1. /\ pushed' = pushed + 1 /\ lost' = lost
        /\ UNCHANGED <<status, started, rest, at, current>>
    BY <1>1 DEF EnqueueJob, historyVars
  <2>2. /\ started[pushed'] = 0 /\ pushed' \in Jobs
        /\ \A t \in Ticks : \A k \in rest[t] : k < pushed'
    BY <1>1, <2>1 DEF OrderInv, TypeOK, EnqueueJob
  <2>3. \A j \in Queue' : j \in Queue \/ j = pushed'
    BY <2>1 DEF TypeOK
  <2>4. \A t \in Ticks, j \in Queue' : \A k \in rest[t] :
            j < k /\ started[j] = 0 => j \in rest[t]
    BY <2>2, <2>3 DEF OrderInv, TypeOK
  <2>5. ASSUME NEW j \in Queue', NEW k \in Queue', j < k, started[k] > 0
        PROVE  started[j] > 0
    <3>1. k \in Queue
      BY <2>2, <2>3, <2>5
    <3>2. j \in Queue
      BY <2>1, <2>5, <3>1 DEF TypeOK
    <3>3. QED
      BY <2>5, <3>1, <3>2 DEF OrderInv, StartedInOrder
  <2>6. \A j \in Jobs : j > pushed' => started[j] = 0
    BY <2>1 DEF OrderInv, TypeOK
  <2>7. QED
    BY <2>1, <2>4, <2>5, <2>6 DEF OrderInv, StartedInOrder
<1>2. ASSUME NEW t \in Ticks, ProcessInMemoryJobs(t)
      PROVE  OrderInv'
  <2>1. Due \subseteq Queue /\ Behind(t, Due)
    BY DEF Due, Behind, OrderInv, TypeOK
  <2>2. status \in [Jobs -> JobStatuses]
    BY DEF TypeOK
  <2>3. StartNext(t, Due, status) /\ pushed' = pushed /\ lost' = lost
    BY <1>2 DEF ProcessInMemoryJobs
  <2>4. \A j \in Jobs : status[j] = "pending" <=> started[j] = 0
    BY DEF OrderInv
  <2> HIDE DEF Jobs, Queue
  <2>5. QED
    BY <2>1, <2>2, <2>3, <2>4, StartKeepsOrder
<1>3. ASSUME NEW t \in Ticks, NEW statuses,
             \/ statuses = status
             \/ \E s \in {"completed", "failed"} :
                   statuses = [status EXCEPT ![current[t]] = s],
             at[t] # "idle",
             StartNext(t, rest[t], statuses), pushed' = pushed, lost' = lost
      PROVE  OrderInv'
  <2>1. current[t] \in Jobs /\ rest[t] \subseteq Queue
    <3>1. at[t] # "idle"
      BY <1>3
    <3>2. /\ rest[t] \subseteq Queue
          /\ at[t] # "idle" => current[t] \in Queue
      BY DEF TypeOK
    <3>3. Queue \subseteq Jobs
      BY DEF TypeOK
    <3>4. QED
      BY <3>1, <3>2, <3>3
  <2>2. Behind(t, rest[t])
    BY DEF Behind, OrderInv
  <2>3. statuses \in [Jobs -> JobStatuses]
    BY <1>3 DEF TypeOK, JobStatuses
  <2>4. started[current[t]] > 0
    BY <1>3 DEF OrderInv
  <2>5. ASSUME NEW j \in Jobs
        PROVE  statuses[j] = "pending" <=> started[j] = 0
    <3>1. status[j] = "pending" <=> started[j] = 0
      BY DEF OrderInv
    <3>2. CASE j = current[t] /\ statuses # status
      <4>1. PICK s \in {"completed", "failed"} :
                statuses = [status EXCEPT ![current[t]] = s]
        BY <1>3, <3>2
      <4>2. statuses[j] = s
        BY <3>2, <4>1 DEF TypeOK
      <4>3. started[j] # 0
        BY <2>4, <3>2 DEF TypeOK
      <4>4. QED
        BY <4>2, <4>3
    <3>3. CASE j # current[t] \/ statuses = status
      <4>1. statuses[j] = status[j]
        BY <1>3, <3>3 DEF TypeOK
      <4>2. QED
        BY <3>1, <4>1
    <3>4. QED
      BY <3>2, <3>3
  <2> HIDE DEF Jobs, Queue
  <2>6. QED
    BY <1>3, <2>1, <2>2, <2>3, <2>5, StartKeepsOrder
<1>4. ASSUME NEW t \in Ticks, JobCompletes(t)
      PROVE  OrderInv'
  BY <1>3, <1>4 DEF JobCompletes
<1>5. ASSUME NEW t \in Ticks, JobFails(t)
      PROVE  OrderInv'
  <2> DEFINE statuses == IF GivenUp(current[t])
                         THEN [status EXCEPT ![current[t]] = "failed"] ELSE status
  <2>1. /\ StartNext(t, rest[t], statuses) /\ pushed' = pushed /\ lost' = lost
        /\ at[t] # "idle"
    BY <1>5 DEF JobFails
  <2>2. \/ statuses = status
        \/ \E s \in {"completed", "failed"} :
              statuses = [status EXCEPT ![current[t]] = s]
    OBVIOUS
  <2> HIDE DEF statuses
  <2>3. QED
    BY <1>3, <2>1, <2>2
<1>6. ASSUME NEW t \in Ticks,
             \/ MarkProcessing(t) \/ LoadTask(t) \/ WorkflowReturns(t)
             \/ WorkflowThrows(t) \/ MarkCompleted(t) \/ MarkFailed(t)
             \/ StatementFails(t)
      PROVE  OrderInv'
  <2>1. UNCHANGED <<pushed, lost, status, current, rest, started>>
    BY <1>6 DEF MarkProcessing, LoadTask, WorkflowReturns, WorkflowThrows,
                MarkCompleted, MarkFailed, StatementFails, queueVars, historyVars
  <2>2. \A u \in Ticks : at'[u] # "idle" => at[u] # "idle"
    BY <1>6 DEF MarkProcessing, LoadTask, WorkflowReturns, WorkflowThrows,
                MarkCompleted, MarkFailed, StatementFails, Goto, TypeOK
  <2>3. QED
    BY <2>1, <2>2 DEF OrderInv, StartedInOrder
<1>7. CASE Crash
  <2>1. /\ lost' = pushed /\ pushed' = pushed /\ UNCHANGED <<status, started>>
        /\ \A t \in Ticks : at'[t] = "idle" /\ rest'[t] = {}
    BY <1>7 DEF Crash, historyVars
  <2>2. Queue' = {}
    BY <2>1 DEF TypeOK
  <2> HIDE DEF Queue
  <2>3. QED
    BY <2>1, <2>2 DEF OrderInv, StartedInOrder
<1>8. CASE UNCHANGED vars
  BY <1>8 DEF vars, queueVars, historyVars, OrderInv, StartedInOrder
<1>9. QED
  BY <1>1, <1>2, <1>4, <1>5, <1>6, <1>7, <1>8 DEF Next, TickStep

LEMMA OrderAlways == Spec => [](TypeOK /\ OrderInv)
<1>1. Init => OrderInv
  BY JobQueueAssumption DEF Init, OrderInv, StartedInOrder, Jobs, Queue
<1>2. TypeOK /\ OrderInv /\ [Next]_vars => (TypeOK /\ OrderInv)'
  BY TypeStep, OrderStep
<1>3. QED
  BY InitTyped, <1>1, <1>2, PTL DEF Spec

(* Jobs are first started in the order they were enqueued.                  *)
THEOREM FirstStartsInOrder == Spec => []StartedInOrder
<1>1. OrderInv => StartedInOrder
  BY DEF OrderInv
<1>2. QED
  BY OrderAlways, <1>1, PTL

(* A tick that begins takes up nothing that is being run or has ended.      *)
THEOREM RunningJobsNotTaken == Spec => RunningNotTaken
<1> DEFINE Fresh == \A t \in Ticks : at[t] = "idle" /\ at'[t] # "idle" =>
                        \A j \in rest'[t] \cup {current'[t]} :
                            /\ status[j] \notin {"completed", "failed"}
                            /\ \A u \in Ticks : current[u] # j
<1>1. TypeOK /\ OrderInv /\ [Next]_vars => [Fresh]_vars
  <2>1. SUFFICES ASSUME TypeOK, OrderInv, Next,
                        NEW t \in Ticks, at[t] = "idle", at'[t] # "idle",
                        NEW j \in rest'[t] \cup {current'[t]}
                 PROVE  /\ status[j] \notin {"completed", "failed"}
                        /\ \A u \in Ticks : current[u] # j
    BY DEF vars
  <2>2. ASSUME NEW u \in Ticks, u # t, TickStep(u) \/ StatementFails(u)
        PROVE  at'[t] = at[t]
    <3>1. ASSUME NEW jobs, NEW statuses, StartNext(u, jobs, statuses)
          PROVE  at'[t] = at[t]
      BY <2>1, <2>2, <3>1 DEF StartNext, TypeOK
    <3>2. CASE ProcessInMemoryJobs(u) \/ JobCompletes(u) \/ JobFails(u)
      BY <3>1, <3>2 DEF ProcessInMemoryJobs, JobCompletes, JobFails
    <3>3. CASE \E label : Goto(u, label)
      BY <2>1, <2>2, <3>3 DEF Goto, TypeOK
    <3>4. QED
      BY <2>2, <3>2, <3>3 DEF TickStep, MarkProcessing, LoadTask, WorkflowReturns,
                WorkflowThrows, MarkCompleted, MarkFailed, StatementFails
  <2>3. ProcessInMemoryJobs(t)
    <3>1. ~EnqueueJob /\ ~Crash
      BY <2>1 DEF EnqueueJob, Crash
    <3>2. TickStep(t) \/ StatementFails(t)
      BY <2>1, <2>2, <3>1 DEF Next
    <3>3. QED
      BY <2>1, <3>2 DEF TickStep, MarkProcessing, LoadTask, WorkflowReturns,
                WorkflowThrows, MarkCompleted, MarkFailed, JobCompletes, JobFails,
                StatementFails
  <2>4. StartNext(t, Due, status) /\ Due # {}
    BY <2>3 DEF ProcessInMemoryJobs
  <2>5. rest'[t] \cup {current'[t]} \subseteq Due
    <3>1. PICK i \in Due : /\ current' = [current EXCEPT ![t] = i]
                           /\ rest' = [rest EXCEPT ![t] = Due \ {i}]
      BY <2>4 DEF StartNext
    <3>2. current'[t] = i /\ rest'[t] = Due \ {i}
      BY <2>1, <3>1 DEF TypeOK
    <3>3. QED
      BY <3>1, <3>2
  <2>6. j \in Queue /\ status[j] = "pending"
    BY <2>1, <2>5 DEF Due
  <2>7. j \in Jobs
    BY <2>1, <2>6, JobQueueAssumption DEF TypeOK, Queue, Jobs
  <2>8. started[j] = 0 /\ j # 0
    BY <2>1, <2>6, <2>7 DEF OrderInv, Jobs
  <2>9. ASSUME NEW u \in Ticks
        PROVE  current[u] # j
    BY <2>1, <2>8 DEF OrderInv, TypeOK
  <2>10. QED
    BY <2>6, <2>9
<1>2. QED
  BY OrderAlways, <1>1, PTL DEF Spec, RunningNotTaken

-----------------------------------------------------------------------------
(* What is counted and reported.                                            *)

(* Going on to the next job touches the status of that job only, and the    *)
(* position of that tick only.                                              *)
LEMMA StartNextFrame ==
    ASSUME TypeOK, NEW t \in Ticks, NEW jobs, jobs \subseteq Queue,
           NEW statuses \in [Jobs -> JobStatuses], StartNext(t, jobs, statuses)
    PROVE  /\ \A j \in Jobs : status'[j] \in {statuses[j], "processing"}
           /\ at'[t] \in {"idle", "mark"}
           /\ \A u \in Ticks \ {t} : at'[u] = at[u] /\ current'[u] = current[u]
<1>1. CASE /\ status' = statuses
           /\ current' = [current EXCEPT ![t] = 0]
           /\ at' = [at EXCEPT ![t] = "idle"]
  BY <1>1 DEF TypeOK
<1>2. CASE \E j \in jobs : /\ status' = [statuses EXCEPT ![j] = "processing"]
                            /\ current' = [current EXCEPT ![t] = j]
                            /\ at' = [at EXCEPT ![t] = "mark"]
  BY <1>2 DEF TypeOK
<1>3. QED
  BY <1>1, <1>2 DEF StartNext

(* The steps that end one job and begin the next, or begin the first.       *)
LEMMA ContinueFrame ==
    ASSUME TypeOK, NEW t \in Ticks,
           ProcessInMemoryJobs(t) \/ JobCompletes(t) \/ JobFails(t)
    PROVE  /\ \A j \in Jobs : status'[j] = "completed" /\ status[j] # "completed"
                 => j = current[t] /\ JobCompletes(t)
           /\ \A j \in Jobs : status'[j] = "failed" /\ status[j] # "failed"
                 => j = current[t] /\ JobFails(t) /\ GivenUp(j)
           /\ at'[t] \in {"idle", "mark"}
           /\ \A u \in Ticks \ {t} : at'[u] = at[u] /\ current'[u] = current[u]
<1>1. CASE ProcessInMemoryJobs(t)
  <2>1. StartNext(t, Due, status) /\ Due \subseteq Queue
    BY <1>1 DEF ProcessInMemoryJobs, Due
  <2>2. status \in [Jobs -> JobStatuses]
    BY DEF TypeOK
  <2>3. QED
    BY <2>1, <2>2, StartNextFrame
<1>2. CASE JobCompletes(t)
  <2> DEFINE statuses == [status EXCEPT ![current[t]] = "completed"]
  <2>1. StartNext(t, rest[t], statuses)
    BY <1>2 DEF JobCompletes
  <2>2. statuses \in [Jobs -> JobStatuses] /\ rest[t] \subseteq Queue
    BY DEF TypeOK, JobStatuses
  <2>3. \A j \in Jobs : statuses[j] # status[j] =>
            j = current[t] /\ statuses[j] = "completed"
    BY DEF TypeOK
  <2> HIDE DEF statuses
  <2>4. QED
    BY <1>2, <2>1, <2>2, <2>3, StartNextFrame
<1>3. CASE JobFails(t)
  <2> DEFINE statuses == IF GivenUp(current[t])
                         THEN [status EXCEPT ![current[t]] = "failed"] ELSE status
  <2>1. StartNext(t, rest[t], statuses)
    BY <1>3 DEF JobFails
  <2>2. statuses \in [Jobs -> JobStatuses] /\ rest[t] \subseteq Queue
    BY DEF TypeOK, JobStatuses
  <2>3. \A j \in Jobs : statuses[j] # status[j] =>
            j = current[t] /\ GivenUp(j) /\ statuses[j] = "failed"
    BY DEF TypeOK
  <2> HIDE DEF statuses
  <2>4. QED
    BY <1>3, <2>1, <2>2, <2>3, StartNextFrame
<1>4. QED
  BY <1>1, <1>2, <1>3

\* The steps inside processJob.
InProcessJob(t) ==
    \/ MarkProcessing(t) \/ LoadTask(t) \/ WorkflowReturns(t) \/ WorkflowThrows(t)
    \/ MarkCompleted(t) \/ MarkFailed(t) \/ StatementFails(t)

LEMMA NextCases ==
    ASSUME [Next]_vars
    PROVE  \/ EnqueueJob \/ Crash \/ UNCHANGED vars
           \/ \E t \in Ticks :
                 InProcessJob(t) \/ ProcessInMemoryJobs(t) \/ JobCompletes(t) \/ JobFails(t)
  BY DEF Next, TickStep, InProcessJob

LEMMA AttemptsStep ==
    ASSUME TypeOK, AttemptsCounted, [Next]_vars
    PROVE  AttemptsCounted'
<1> USE JobQueueAssumption
<1>1. CASE UNCHANGED <<status, attempts, failures>>
  BY <1>1 DEF AttemptsCounted
<1>2. ASSUME NEW t \in Ticks, ProcessInMemoryJobs(t) \/ JobCompletes(t)
      PROVE  AttemptsCounted'
  <2>1. UNCHANGED <<attempts, failures>>
    BY <1>2 DEF ProcessInMemoryJobs, JobCompletes
  <2>2. \A j \in Jobs : status'[j] = "failed" => status[j] = "failed"
    BY <1>2, ContinueFrame DEF JobCompletes, JobFails, ProcessInMemoryJobs
  <2>3. QED
    BY <2>1, <2>2 DEF AttemptsCounted
<1>3. ASSUME NEW t \in Ticks, JobFails(t)
      PROVE  AttemptsCounted'
  <2> DEFINE j == current[t]
  <2>1. j \in Jobs
    <3>1. current[t] \in Queue
      BY <1>3 DEF JobFails, TypeOK
    <3>2. QED
      BY <3>1 DEF TypeOK, Queue, Jobs
  <2>2. /\ attempts \in [Jobs -> 0 .. MaxAttempts] /\ failures \in [Jobs -> Nat]
        /\ MaxAttempts \in Nat
    BY DEF TypeOK
  <2>3. /\ attempts' = IF GivenUp(j) THEN attempts
                                     ELSE [attempts EXCEPT ![j] = attempts[j] + 1]
        /\ failures' = [failures EXCEPT ![j] = failures[j] + 1]
    BY <1>3 DEF JobFails
  <2>4. \A i \in Jobs : status'[i] = "failed" =>
            status[i] = "failed" \/ (i = j /\ GivenUp(i))
    BY <1>3, ContinueFrame
  <2> HIDE DEF j
  <2>5. ASSUME NEW i \in Jobs, i # j
        PROVE  attempts'[i] = attempts[i] /\ failures'[i] = failures[i]
    BY <2>2, <2>3, <2>5
  <2>6. /\ attempts'[j] = IF GivenUp(j) THEN attempts[j] ELSE attempts[j] + 1
        /\ failures'[j] = failures[j] + 1
    BY <2>1, <2>2, <2>3
  <2>7. /\ attempts[j] = IF failures[j] <= MaxAttempts THEN failures[j] ELSE MaxAttempts
        /\ attempts[j] \in 0 .. MaxAttempts /\ failures[j] \in Nat
    BY <2>1, <2>2 DEF AttemptsCounted
  <2>8. /\ attempts'[j] = IF failures'[j] <= MaxAttempts THEN failures'[j] ELSE MaxAttempts
        /\ GivenUp(j) => failures'[j] > MaxAttempts
        /\ failures[j] > MaxAttempts => failures'[j] > MaxAttempts
    BY <2>2, <2>6, <2>7 DEF GivenUp
  <2>9. QED
    BY <2>4, <2>5, <2>8 DEF AttemptsCounted
<1>4. ASSUME NEW t \in Ticks, InProcessJob(t)
      PROVE  UNCHANGED <<status, attempts, failures>>
  BY <1>4 DEF InProcessJob, MarkProcessing, LoadTask, WorkflowReturns, WorkflowThrows,
              MarkCompleted, MarkFailed, StatementFails, queueVars, historyVars
<1>5. EnqueueJob \/ Crash \/ UNCHANGED vars => UNCHANGED <<status, attempts, failures>>
  BY DEF EnqueueJob, Crash, vars, queueVars, historyVars
<1>6. QED
  BY <1>1, <1>2, <1>3, <1>4, <1>5, NextCases

(* Attempts count failures, and a job is given up after maxAttempts + 1.    *)
THEOREM AttemptsCountFailures == Spec => []AttemptsCounted
<1>1. Init => AttemptsCounted
  BY JobQueueAssumption DEF Init, AttemptsCounted
<1>2. TypeOK /\ AttemptsCounted /\ [Next]_vars => (TypeOK /\ AttemptsCounted)'
  BY TypeStep, AttemptsStep
<1>3. QED
  BY InitTyped, <1>1, <1>2, PTL DEF Spec

\* A tick that is about to report a scheduled workflow has executed it, and none is
\* about to report one of a task that names none.
ExecutedInv ==
    /\ CompletedWasExecuted
    /\ \A t \in Ticks : task[current[t]] \in ScheduledTasks =>
          /\ at[t] \in {"run", "complete"} => task[current[t]] \notin workflowless
          /\ at[t] \in {"complete", "resolved"} =>
                current[t] \in executed \/ task[current[t]] \in workflowless

LEMMA ExecutedStep ==
    ASSUME TypeOK, ExecutedInv, [Next]_vars
    PROVE  ExecutedInv'
<1> USE JobQueueAssumption
<1>1. task' = task /\ workflowless' = workflowless /\ executed \subseteq executed'
  BY NextCases DEF EnqueueJob, Crash, vars, InProcessJob, MarkProcessing, LoadTask,
     WorkflowReturns, WorkflowThrows, MarkCompleted, MarkFailed, StatementFails,
     ProcessInMemoryJobs, JobCompletes, JobFails, queueVars, historyVars
<1>2. ASSUME NEW t \in Ticks, ProcessInMemoryJobs(t) \/ JobCompletes(t) \/ JobFails(t)
      PROVE  ExecutedInv'
  <2>1. \A j \in Jobs : status'[j] = "completed" =>
            status[j] = "completed" \/ (j = current[t] /\ JobCompletes(t))
    BY <1>2, ContinueFrame
  <2>2. taskLog' = taskLog
    BY <1>2 DEF ProcessInMemoryJobs, JobCompletes, JobFails
  <2>3. \A j \in Jobs : status'[j] = "completed" /\ task[j] \in ScheduledTasks
            => j \in executed \/ task[j] \in workflowless
    BY <2>1 DEF ExecutedInv, CompletedWasExecuted, JobCompletes
  <2>4. ASSUME NEW u \in Ticks, task[current'[u]] \in ScheduledTasks
        PROVE  /\ at'[u] \in {"run", "complete"} => task[current'[u]] \notin workflowless
               /\ at'[u] \in {"complete", "resolved"} =>
                     current'[u] \in executed \/ task[current'[u]] \in workflowless
    BY <1>2, <2>4, ContinueFrame DEF ExecutedInv
  <2>5. QED
    BY <1>1, <2>2, <2>3, <2>4 DEF ExecutedInv, CompletedWasExecuted
<1>3. ASSUME NEW t \in Ticks, InProcessJob(t)
      PROVE  ExecutedInv'
  <2>1. status' = status /\ current' = current /\ task' = task
    BY <1>3 DEF InProcessJob, MarkProcessing, LoadTask, WorkflowReturns, WorkflowThrows,
                MarkCompleted, MarkFailed, StatementFails, queueVars, historyVars
  <2>2. /\ \A u \in Ticks \ {t} : at'[u] = at[u]
        /\ at'[t] = "complete" => \/ at[t] = "load" /\ task[current[t]] \notin ScheduledTasks
                                  \/ at[t] = "run" /\ current[t] \in executed'
        /\ at'[t] = "resolved" => at[t] = "complete" \/ task[current[t]] \in workflowless
        /\ at'[t] = "run" => task[current[t]] \notin workflowless
    BY <1>3 DEF InProcessJob, MarkProcessing, LoadTask, WorkflowReturns, WorkflowThrows,
                MarkCompleted, MarkFailed, StatementFails, Goto, IsWorkflow, HasWorkflow, TypeOK
  <2>3. ASSUME NEW k \in Tasks, taskLog'[k] = "completed", taskLog[k] # "completed"
        PROVE  at[t] = "complete" /\ task[current[t]] = k
    BY <1>3, <2>3 DEF InProcessJob, MarkProcessing, LoadTask, WorkflowReturns,
                WorkflowThrows, MarkCompleted, MarkFailed, StatementFails,
                UpdateTaskLog, StatusSet, TypeOK
  <2>4. ASSUME NEW k \in ScheduledTasks, taskLog'[k] = "completed"
        PROVE  k \notin workflowless /\ \E j \in executed' : task[j] = k
    <3>1. CASE taskLog[k] = "completed"
      BY <1>1, <3>1 DEF ExecutedInv, CompletedWasExecuted
    <3>2. CASE taskLog[k] # "completed"
      BY <1>1, <2>3, <2>4, <3>2 DEF ExecutedInv
    <3>3. QED
      BY <3>1, <3>2
  <2>5. ASSUME NEW u \in Ticks, task[current[u]] \in ScheduledTasks
        PROVE  /\ at'[u] \in {"run", "complete"} => task[current[u]] \notin workflowless
               /\ at'[u] \in {"complete", "resolved"} =>
                     current[u] \in executed' \/ task[current[u]] \in workflowless
    BY <1>1, <2>2, <2>5 DEF ExecutedInv
  <2>6. QED
    BY <1>1, <2>1, <2>4, <2>5 DEF ExecutedInv, CompletedWasExecuted
<1>4. CASE EnqueueJob \/ UNCHANGED vars
  BY <1>4 DEF EnqueueJob, vars, queueVars, historyVars, ExecutedInv, CompletedWasExecuted
<1>5. CASE Crash
  BY <1>5 DEF Crash, historyVars, ExecutedInv, CompletedWasExecuted
<1>6. QED
  BY <1>2, <1>3, <1>4, <1>5, NextCases

(* No scheduled workflow is reported as completed without being executed.   *)
THEOREM CompletedMeansExecuted == Spec => []CompletedWasExecuted
<1>1. Init => ExecutedInv
  BY JobQueueAssumption DEF Init, ExecutedInv, CompletedWasExecuted
<1>2. TypeOK /\ ExecutedInv /\ [Next]_vars => (TypeOK /\ ExecutedInv)'
  BY TypeStep, ExecutedStep
<1>3. ExecutedInv => CompletedWasExecuted
  BY DEF ExecutedInv
<1>4. QED
  BY InitTyped, <1>1, <1>2, <1>3, PTL DEF Spec

\* Tick t is in processJob with a job of task k, which it has marked.
Working(t, k) ==
    /\ at[t] \in {"load", "run", "complete", "fail"}
    /\ task[current[t]] = k

LEMMA AbandonStep ==
    ASSUME TypeOK, LogNotAbandoned, [Next]_vars
    PROVE  LogNotAbandoned'
<1> USE JobQueueAssumption
<1>0. workflowless' = workflowless
  BY NextCases DEF EnqueueJob, Crash, vars, InProcessJob, MarkProcessing, LoadTask,
     WorkflowReturns, WorkflowThrows, MarkCompleted, MarkFailed, StatementFails,
     ProcessInMemoryJobs, JobCompletes, JobFails, queueVars
<1>1. SUFFICES ASSUME NEW k \in Tasks \ workflowless, taskLog'[k] = "processing",
                      ~(used'.dbErrors > 0), ~(used'.crashes > 0)
               PROVE  \E u \in Ticks : Working(u, k)'
  BY <1>0 DEF LogNotAbandoned, Working
<1>2. ASSUME NEW t \in Ticks, InProcessJob(t)
      PROVE  \E u \in Ticks : Working(u, k)'
  <2>1. /\ ~StatementFails(t)
        /\ used' = used
    BY <1>1, <1>2 DEF InProcessJob, MarkProcessing, LoadTask, WorkflowReturns,
       WorkflowThrows, MarkCompleted, MarkFailed, StatementFails, historyVars, TypeOK
  <2>2. task' = task /\ current' = current /\ \A u \in Ticks \ {t} : at'[u] = at[u]
    BY <1>2, <2>1 DEF InProcessJob, MarkProcessing, LoadTask, WorkflowReturns,
       WorkflowThrows, MarkCompleted, MarkFailed, Goto, queueVars, TypeOK
  <2>3. CASE task[current[t]] = k /\ at'[t] \in {"load", "run", "complete", "fail"}
    BY <2>2, <2>3 DEF Working
  <2>4. CASE task[current[t]] # k
    <3>1. taskLog'[k] = taskLog[k]
      BY <1>2, <2>1, <2>4 DEF InProcessJob, MarkProcessing, LoadTask, WorkflowReturns,
         WorkflowThrows, MarkCompleted, MarkFailed, UpdateTaskLog, TypeOK
    <3>2. PICK u \in Ticks : Working(u, k)
      BY <1>1, <2>1, <3>1 DEF LogNotAbandoned, Working
    <3>3. u # t
      BY <2>4, <3>2 DEF Working
    <3>4. QED
      BY <2>2, <3>2, <3>3 DEF Working
  <2>5. CASE task[current[t]] = k /\ at'[t] \notin {"load", "run", "complete", "fail"}
    <3>1. at[t] \in {"complete", "fail"} /\ UpdateTaskLog(t)
      BY <1>2, <2>1, <2>5 DEF InProcessJob, MarkProcessing, LoadTask, HasWorkflow,
         WorkflowReturns, WorkflowThrows, MarkCompleted, MarkFailed, Goto, TypeOK
    <3>2. taskLog'[k] \in {"completed", "failed"}
      BY <2>5, <3>1 DEF UpdateTaskLog, StatusSet, TypeOK
    <3>3. QED
      BY <1>1, <3>2
  <2>6. QED
    BY <2>3, <2>4, <2>5
<1>3. ASSUME NEW t \in Ticks, ProcessInMemoryJobs(t) \/ JobCompletes(t) \/ JobFails(t)
      PROVE  \E u \in Ticks : Working(u, k)'
  <2>1. /\ taskLog' = taskLog /\ used' = used /\ task' = task
        /\ at[t] \notin {"load", "run", "complete", "fail"}
    BY <1>3 DEF ProcessInMemoryJobs, JobCompletes, JobFails
  <2>2. PICK u \in Ticks : Working(u, k)
    BY <1>1, <2>1 DEF LogNotAbandoned, Working
  <2>3. u # t
    BY <2>1, <2>2 DEF Working
  <2>4. at'[u] = at[u] /\ current'[u] = current[u]
    BY <1>3, <2>3, ContinueFrame
  <2>5. QED
    BY <2>1, <2>2, <2>4 DEF Working
<1>4. CASE EnqueueJob \/ UNCHANGED vars
  BY <1>1, <1>4 DEF EnqueueJob, vars, queueVars, LogNotAbandoned, Working
<1>5. CASE Crash
  BY <1>1, <1>5 DEF Crash, TypeOK
<1>6. QED
  BY <1>2, <1>3, <1>4, <1>5, NextCases

(* A task that names a workflow, or is of another type, is only left as      *)
(* processing by a failed statement or a crash.                             *)
THEOREM LogSettles == Spec => []LogNotAbandoned
<1>1. Init => LogNotAbandoned
  BY DEF Init, LogNotAbandoned
<1>2. TypeOK /\ LogNotAbandoned /\ [Next]_vars => (TypeOK /\ LogNotAbandoned)'
  BY TypeStep, AbandonStep
<1>3. QED
  BY InitTyped, <1>1, <1>2, PTL DEF Spec
=============================================================================
