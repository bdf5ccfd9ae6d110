--------------------------- MODULE SchedulerProofs ---------------------------
(***************************************************************************)
(* Theorems about Scheduler, for every number of overlapping calls, of      *)
(* answers in a turn, of failing statements and of restarts.                *)
(***************************************************************************)
EXTENDS Scheduler, SequenceTheorems, TLAPS

\* What a continuation may do to the map and the tasks.
NoTaskChange(h) ==
    UNCHANGED tasks /\ (Leave(h, "done") \/ Leave(h, "disable"))

TaskCreated(h) ==
    /\ active' = {h} /\ running' = running \cup {h} /\ Leave(h, "done")
    /\ active = {} \/ pc[h] = "schedule"

TaskStopped(h) ==
    StopTask /\ (Yield(h, "restart") \/ Yield(h, "schedule"))

LEMMA CreateCases ==
    ASSUME NEW h \in Handlers, CreateTask(h), active = {} \/ pc[h] = "schedule"
    PROVE  NoTaskChange(h) \/ TaskCreated(h)
  BY DEF CreateTask, NoTaskChange, TaskCreated

LEMMA StartCases ==
    ASSUME NEW h \in Handlers, StartSchedule(h)
    PROVE  NoTaskChange(h) \/ TaskCreated(h) \/ TaskStopped(h)
<1>1. CASE active # {}
  BY <1>1 DEF StartSchedule, TaskStopped
<1>2. CASE active = {}
  BY <1>2, CreateCases DEF StartSchedule
<1>3. QED
  BY <1>1, <1>2

LEMMA ContinueCases ==
    ASSUME NEW h \in Handlers, Continues(h)
    PROVE  /\ Runs(h)
           /\ NoTaskChange(h) \/ TaskCreated(h) \/ TaskStopped(h)
<1>1. Runs(h)
  BY DEF Continues, AfterInsert, AfterUpdate, AfterStop, AfterStopInStart, AfterSelect
<1>2. ASSUME StartIfEnabled(h)
      PROVE  NoTaskChange(h) \/ TaskCreated(h) \/ TaskStopped(h)
  <2>1. PICK r \in reply[h] : IF r.enabled THEN StartSchedule(h)
                              ELSE Leave(h, "done") /\ UNCHANGED tasks
    BY <1>2 DEF StartIfEnabled
  <2>2. CASE r.enabled
    BY <2>1, <2>2, StartCases
  <2>3. CASE ~r.enabled
    BY <2>1, <2>3 DEF NoTaskChange
  <2>4. QED
    BY <2>2, <2>3
<1>3. CASE AfterInsert(h) \/ AfterStop(h)
  BY <1>2, <1>3 DEF AfterInsert, AfterStop
<1>4. CASE AfterUpdate(h)
  BY <1>2, <1>4 DEF AfterUpdate, NoTaskChange, TaskStopped
<1>5. CASE AfterStopInStart(h)
  BY <1>5, CreateCases DEF AfterStopInStart
<1>6. CASE AfterSelect(h)
  BY <1>6, StartCases DEF AfterSelect, NoTaskChange
<1>7. QED
  BY <1>1, <1>3, <1>4, <1>5, <1>6 DEF Continues

\* The queue after its first continuation has run.
LEMMA QueueAfter ==
    ASSUME NEW h \in Handlers, ready \in Seq(Handlers), ready # <<>>
    PROVE  /\ Head(ready) \in Handlers /\ Len(ready) \in Nat \ {0}
           /\ Tail(ready) \in Seq(Handlers) /\ Len(Tail(ready)) = Len(ready) - 1
           /\ Append(Tail(ready), h) \in Seq(Handlers)
           /\ Len(Append(Tail(ready), h)) = Len(ready)
           /\ Append(Tail(ready), h) # <<>>
           /\ Len(ready) = 1 => Tail(ready) = <<>> /\ Head(Append(Tail(ready), h)) = h
<1>1. /\ Head(ready) \in Handlers
      /\ Tail(ready) \in Seq(Handlers) /\ Len(Tail(ready)) = Len(ready) - 1
  BY HeadTailProperties
<1>2. Len(ready) \in Nat \ {0}
  BY EmptySeq
<1>3. /\ Append(Tail(ready), h) \in Seq(Handlers)
      /\ Len(Append(Tail(ready), h)) = Len(ready)
      /\ Append(Tail(ready), h)[Len(ready)] = h
  BY <1>1, <1>2
<1>4. ASSUME Len(ready) = 1
      PROVE  Tail(ready) = <<>> /\ Head(Append(Tail(ready), h)) = h
  <2>1. Len(Tail(ready)) = 0
    BY <1>1, <1>4
  <2>2. Tail(ready) = <<>>
    BY <1>1, <2>1, EmptySeq
  <2>3. Head(Append(<<>>, h)) = h
    OBVIOUS
  <2>4. QED
    BY <2>2, <2>3
<1>5. QED
  BY <1>1, <1>2, <1>3, <1>4, EmptySeq

(* A continuation, a call that comes in and an answer keep the types.       *)
LEMMA ContinueTyped ==
    ASSUME TypeOK, NEW h \in Handlers, Continues(h)
    PROVE  TypeOK'
<1>1. Runs(h) /\ (NoTaskChange(h) \/ TaskCreated(h) \/ TaskStopped(h))
  BY ContinueCases
<1>2. ready \in Seq(Handlers) /\ ready # <<>>
  BY <1>1 DEF Runs, TypeOK
<1>3. UNCHANGED <<table, row, reply, disturbed, used>>
  BY <1>1 DEF Runs, rows
<1>4. pc' \in [Handlers -> Labels]
  BY <1>1 DEF TypeOK, NoTaskChange, TaskCreated, TaskStopped, Leave, Yield, Goto, Labels
<1>5. ready' \in Seq(Handlers)
  BY <1>1, <1>2, QueueAfter DEF NoTaskChange, TaskCreated, TaskStopped, Leave, Yield
<1>6. /\ active' \in SUBSET Handlers /\ running' \in SUBSET Handlers
      /\ \A f, g \in active' : f = g
  BY <1>1 DEF TypeOK, NoTaskChange, TaskCreated, TaskStopped, StopTask, tasks
<1>7. QED
  BY <1>3, <1>4, <1>5, <1>6 DEF TypeOK

LEMMA StatementTyped ==
    ASSUME TypeOK, NEW h \in Handlers, StatementExecutes(h)
    PROVE  TypeOK'
<1>1. UNCHANGED <<active, running, ready, disturbed, used>>
  BY DEF StatementExecutes, InsertSchedule, GetSchedule, UpdateRow, DeleteRow,
         DisableRow, SelectEnabled, tasks
<1>2. pc' \in [Handlers -> Labels]
  BY DEF StatementExecutes, InsertSchedule, GetSchedule, UpdateRow, DeleteRow,
         DisableRow, SelectEnabled, TypeOK, Goto, Labels
<1>3. table' \in {"absent", "present", "deleted"} /\ row' \in Row
  BY DEF StatementExecutes, InsertSchedule, GetSchedule, UpdateRow, DeleteRow,
         DisableRow, SelectEnabled, TypeOK, Insert, Update, Delete, Disable, rows, Row
<1>4. \/ UNCHANGED reply
      \/ reply' = [reply EXCEPT ![h] = {row'}]
      \/ reply' = [reply EXCEPT ![h] = {}]
      \/ reply' = [reply EXCEPT ![h] = {row}]
  BY DEF StatementExecutes, InsertSchedule, GetSchedule, UpdateRow, DeleteRow,
         DisableRow, SelectEnabled
<1>5. /\ reply' \in [Handlers -> SUBSET Row]
      /\ \A g \in Handlers : \A q, r \in reply'[g] : q = r
  BY <1>3, <1>4 DEF TypeOK
<1>6. QED
  BY <1>1, <1>2, <1>3, <1>5 DEF TypeOK

LEMMA UsedTyped ==
    ASSUME used \in [dbErrors : Nat, crashes : Nat]
    PROVE  /\ [used EXCEPT !.dbErrors = @ + 1] \in [dbErrors : Nat, crashes : Nat]
           /\ [used EXCEPT !.crashes = @ + 1] \in [dbErrors : Nat, crashes : Nat]
  OBVIOUS

LEMMA TypeStep ==
    ASSUME TypeOK, [Next]_vars
    PROVE  TypeOK'
<1> USE SchedulerAssumption
<1>1. ASSUME NEW h \in Calls, CallBegins(h)
      PROVE  TypeOK'
  <2>1. h \in Handlers
    BY DEF Handlers
  <2>2. Begin(h, "insert") \/ Begin(h, "find") \/ Begin(h, "delete")
    BY <1>1 DEF CallBegins, CreateSchedule, UpdateSchedule, DeleteSchedule
  <2>3. UNCHANGED <<active, running>> \/ StopTask
    BY <1>1 DEF CallBegins, CreateSchedule, UpdateSchedule, DeleteSchedule, tasks
  <2>4. /\ pc' \in [Handlers -> Labels]
        /\ disturbed' \in SUBSET Disturbances
        /\ UNCHANGED <<table, row, reply, ready, used>>
    BY <2>1, <2>2 DEF Begin, Goto, TypeOK, Labels, Disturbances, rows
  <2>5. QED
    BY <2>3, <2>4 DEF StopTask, TypeOK
<1>2. ASSUME NEW h \in Handlers, StatementFails(h)
      PROVE  TypeOK'
  <2>1. table' \in {"absent", "present", "deleted"} /\ row' \in Row
    BY <1>2 DEF StatementFails, Statement, Insert, Update, Delete, Disable, rows, Row, TypeOK
  <2>2. pc' \in [Handlers -> Labels] /\ disturbed' \in SUBSET Disturbances
    BY <1>2 DEF StatementFails, Goto, TypeOK, Labels, Disturbances
  <2>3. used' \in [dbErrors : Nat, crashes : Nat]
    BY <1>2, UsedTyped DEF StatementFails, TypeOK
  <2>4. UNCHANGED <<reply, active, running, ready>>
    BY <1>2 DEF StatementFails, tasks
  <2>5. QED
    BY <2>1, <2>2, <2>3, <2>4 DEF TypeOK
<1>3. CASE RepliesArrive
  <2>1. PICK n \in 1 .. MaxReplies : \E s \in [1 .. n -> Handlers] :
            ready' = s /\ disturbed' \in {disturbed, disturbed \cup {"batch"}}
    BY <1>3 DEF RepliesArrive
  <2>2. ready' \in Seq(Handlers)
    BY <2>1, SeqDef
  <2>3. disturbed' \in SUBSET Disturbances
    BY <2>1 DEF TypeOK, Disturbances
  <2>4. UNCHANGED <<table, row, pc, reply, active, running, used>>
    BY <1>3 DEF RepliesArrive, rows, tasks
  <2>5. QED
    BY <2>2, <2>3, <2>4 DEF TypeOK
<1>4. CASE Crash
  <2>1. pc' \in [Handlers -> Labels]
    BY <1>4 DEF Crash, TypeOK, Labels
  <2>2. used' \in [dbErrors : Nat, crashes : Nat]
    BY <1>4, UsedTyped DEF Crash, TypeOK
  <2>3. ready' \in Seq(Handlers)
    BY <1>4, EmptySeq DEF Crash
  <2>4. UNCHANGED <<table, row>> /\ active' = {} /\ running' = {} /\ disturbed' = {}
    BY <1>4 DEF Crash, rows
  <2>5. reply' = [h \in Handlers |-> {}]
    BY <1>4 DEF Crash
  <2>6. QED
    BY <2>1, <2>2, <2>3, <2>4, <2>5 DEF TypeOK, Disturbances
<1>5. CASE WorkflowDeleted
  BY <1>5 DEF WorkflowDeleted, TypeOK, Disturbances, tasks
<1>6. CASE UNCHANGED vars
  BY <1>6 DEF vars, rows, tasks, TypeOK
<1>7. QED
  BY <1>1, <1>2, <1>3, <1>4, <1>5, <1>6, ContinueTyped, StatementTyped DEF Next

LEMMA InitTyped == Init => TypeOK
  BY SchedulerAssumption, EmptySeq DEF Init, TypeOK, Labels, Disturbances, Row

(* The scheduler's state keeps its types, and the map one entry.            *)
THEOREM TypeCorrect == Spec => []TypeOK
  BY InitTyped, TypeStep, PTL DEF Spec

-----------------------------------------------------------------------------
LEMMA MappedStep ==
    ASSUME TypeOK, MappedTaskRuns, [Next]_vars
    PROVE  MappedTaskRuns'
<1>1. ASSUME NEW h \in Handlers, Continues(h)
      PROVE  MappedTaskRuns'
  BY <1>1, ContinueCases
     DEF NoTaskChange, TaskCreated, TaskStopped, StopTask, MappedTaskRuns, tasks
<1>2. ASSUME NEW h \in Calls, CallBegins(h)
      PROVE  MappedTaskRuns'
  BY <1>2 DEF CallBegins, CreateSchedule, UpdateSchedule, DeleteSchedule, StopTask,
              MappedTaskRuns, tasks
<1>3. ASSUME NEW h \in Handlers, StatementExecutes(h) \/ StatementFails(h)
      PROVE  MappedTaskRuns'
  BY <1>3 DEF StatementExecutes, InsertSchedule, GetSchedule, UpdateRow, DeleteRow,
              DisableRow, SelectEnabled, StatementFails, MappedTaskRuns, tasks
<1>4. CASE RepliesArrive \/ Crash \/ WorkflowDeleted \/ UNCHANGED vars
  BY <1>4 DEF RepliesArrive, Crash, WorkflowDeleted, vars, MappedTaskRuns, tasks
<1>5. QED
  BY <1>1, <1>2, <1>3, <1>4 DEF Next

(* A task that is in the map fires.                                         *)
THEOREM MapIsLive == Spec => []MappedTaskRuns
<1>1. Init => MappedTaskRuns
  BY DEF Init, MappedTaskRuns
<1>2. TypeOK /\ MappedTaskRuns /\ [Next]_vars => (TypeOK /\ MappedTaskRuns)'
  BY MappedStep, TypeStep
<1>3. QED
  BY InitTyped, <1>1, <1>2, PTL DEF Spec

-----------------------------------------------------------------------------
\* With one answer in a turn one call is in the queue; a call that awaits a
\* stopSchedule is that one, and the map is empty until it goes on.
OneInQueue ==
    "batch" \notin disturbed =>
        /\ running \subseteq active
        /\ Len(ready) <= 1
        /\ \A h \in Handlers : pc[h] \in {"restart", "schedule"} =>
              ready # <<>> /\ Head(ready) = h /\ active = {}

LEMMA OneInQueueStep ==
    ASSUME TypeOK, OneInQueue, [Next]_vars
    PROVE  OneInQueue'
<1> USE SchedulerAssumption
<1>1. ASSUME NEW h \in Handlers, Continues(h), "batch" \notin disturbed'
      PROVE  OneInQueue'
  <2>1. Runs(h) /\ (NoTaskChange(h) \/ TaskCreated(h) \/ TaskStopped(h))
    BY <1>1, ContinueCases
  <2>2. /\ disturbed' = disturbed /\ ready # <<>> /\ Head(ready) = h
        /\ ready \in Seq(Handlers) /\ pc \in [Handlers -> Labels]
    BY <2>1 DEF Runs, TypeOK
  <2>3. /\ running \subseteq active /\ Len(ready) = 1
        /\ \A g \in Handlers : pc[g] \in {"restart", "schedule"} => g = h /\ active = {}
    <3>1. Len(ready) \in Nat \ {0}
      BY <2>2, QueueAfter
    <3>2. "batch" \notin disturbed
      BY <1>1, <2>2
    <3>3. /\ running \subseteq active /\ Len(ready) <= 1
          /\ \A g \in Handlers : pc[g] \in {"restart", "schedule"}
                => Head(ready) = g /\ active = {}
      BY <3>2 DEF OneInQueue
    <3>4. Len(ready) = 1
      <4>1. \A n \in Nat \ {0} : n <= 1 => n = 1
        OBVIOUS
      <4>2. QED
        BY <3>1, <3>3, <4>1
    <3>5. QED
      BY <2>2, <3>3, <3>4
  <2>4. /\ Tail(ready) = <<>> /\ Append(Tail(ready), h) # <<>>
        /\ Len(Append(Tail(ready), h)) = 1 /\ Head(Append(Tail(ready), h)) = h
    BY <2>2, <2>3, QueueAfter
  <2>5. CASE NoTaskChange(h)
    <3>1. /\ UNCHANGED <<active, running>> /\ ready' = <<>>
          /\ pc' \in {[pc EXCEPT ![h] = "done"], [pc EXCEPT ![h] = "disable"]}
      BY <2>4, <2>5 DEF NoTaskChange, Leave, Goto, tasks
    <3>2. \A g \in Handlers : pc'[g] \notin {"restart", "schedule"}
      BY <2>2, <2>3, <3>1
    <3>3. QED
      BY <2>3, <3>1, <3>2, EmptySeq DEF OneInQueue
  <2>6. CASE TaskCreated(h)
    <3>1. /\ active' = {h} /\ running' = running \cup {h} /\ ready' = <<>>
          /\ pc' = [pc EXCEPT ![h] = "done"]
      BY <2>4, <2>6 DEF TaskCreated, Leave, Goto
    <3>2. running = {}
      BY <2>3, <2>6 DEF TaskCreated
    <3>3. \A g \in Handlers : pc'[g] \notin {"restart", "schedule"}
      BY <2>2, <2>3, <3>1
    <3>4. QED
      BY <3>1, <3>2, <3>3, EmptySeq DEF OneInQueue
  <2>7. CASE TaskStopped(h)
    <3>1. /\ active' = {} /\ running' = running \ active
          /\ ready' = Append(Tail(ready), h)
          /\ \A g \in Handlers : g # h => pc'[g] = pc[g]
      BY <2>2, <2>7 DEF TaskStopped, StopTask, Yield, Goto
    <3>2. QED
      BY <2>3, <2>4, <3>1 DEF OneInQueue
  <2>8. QED
    BY <2>1, <2>5, <2>6, <2>7
<1>2. ASSUME NEW h \in Calls, CallBegins(h), "batch" \notin disturbed'
      PROVE  OneInQueue'
  <2>1. h \in Handlers
    BY DEF Handlers
  <2>2. Begin(h, "insert") \/ Begin(h, "find") \/ Begin(h, "delete")
    BY <1>2 DEF CallBegins, CreateSchedule, UpdateSchedule, DeleteSchedule
  <2>3. /\ ready = <<>> /\ ready' = ready
        /\ "batch" \notin disturbed
        /\ \A g \in Handlers : pc'[g] \in {pc[g], "insert", "find", "delete"}
    BY <1>2, <2>1, <2>2 DEF Begin, Goto, TypeOK
  <2>4. UNCHANGED <<active, running>> \/ StopTask
    BY <1>2 DEF CallBegins, CreateSchedule, UpdateSchedule, DeleteSchedule, tasks
  <2>5. QED
    BY <2>3, <2>4 DEF StopTask, OneInQueue
<1>3. ASSUME NEW h \in Handlers, StatementExecutes(h) \/ StatementFails(h),
             "batch" \notin disturbed'
      PROVE  OneInQueue'
  <2>1. UNCHANGED <<active, running, ready>> /\ "batch" \notin disturbed
    BY <1>3 DEF StatementExecutes, InsertSchedule, GetSchedule, UpdateRow, DeleteRow,
                DisableRow, SelectEnabled, StatementFails, tasks
  <2>2. \A g \in Handlers : pc'[g] \in {"restart", "schedule"} => pc'[g] = pc[g]
    BY <1>3 DEF StatementExecutes, InsertSchedule, GetSchedule, UpdateRow, DeleteRow,
                DisableRow, SelectEnabled, StatementFails, Goto, TypeOK
  <2>3. QED
    BY <2>1, <2>2 DEF OneInQueue
<1>4. CASE RepliesArrive
  <2>0. PICK n \in 1 .. MaxReplies : \E s \in [1 .. n -> Handlers] :
            /\ ready' = s
            /\ disturbed' = IF n > 1 THEN disturbed \cup {"batch"} ELSE disturbed
    BY <1>4 DEF RepliesArrive
  <2>1. PICK s \in [1 .. n -> Handlers] :
            /\ ready' = s
            /\ disturbed' = IF n > 1 THEN disturbed \cup {"batch"} ELSE disturbed
    BY <2>0
  <2>2. ready = <<>> /\ UNCHANGED <<pc, active, running>>
    BY <1>4 DEF RepliesArrive, tasks
  <2>3. n \in Nat /\ Len(s) = n
    BY <2>1
  <2>4. QED
    BY <2>1, <2>2, <2>3 DEF OneInQueue
<1>5. CASE Crash
  <2>1. /\ active' = {} /\ running' = {} /\ ready' = <<>>
        /\ pc' = [h \in Handlers |-> IF h = Startup THEN "select"
                                     ELSE IF Busy(h) THEN "done" ELSE pc[h]]
    BY <1>5 DEF Crash
  <2>2. \A h \in Handlers : pc'[h] \notin {"restart", "schedule"}
    BY <2>1 DEF Busy
  <2>3. QED
    BY <2>1, <2>2, EmptySeq DEF OneInQueue
<1>6. CASE WorkflowDeleted
  BY <1>6 DEF WorkflowDeleted, OneInQueue, tasks
<1>7. CASE UNCHANGED vars
  BY <1>7 DEF vars, OneInQueue, tasks
<1>8. QED
  BY <1>1, <1>2, <1>3, <1>4, <1>5, <1>6, <1>7 DEF Next, OneInQueue

LEMMA QueueAlways == Spec => [](TypeOK /\ OneInQueue)
<1>1. Init => OneInQueue
  BY SchedulerAssumption, EmptySeq DEF Init, OneInQueue
<1>2. TypeOK /\ OneInQueue /\ [Next]_vars => (TypeOK /\ OneInQueue)'
  BY OneInQueueStep, TypeStep
<1>3. QED
  BY InitTyped, <1>1, <1>2, PTL DEF Spec

(* However calls overlap, a task that fires can be stopped, as long as no   *)
(* two answers are handled in one turn.                                     *)
THEOREM NoTaskLeaks == Spec => []EveryTaskIsMapped
<1>1. OneInQueue => EveryTaskIsMapped
  BY DEF OneInQueue, EveryTaskIsMapped
<1>2. QED
  BY QueueAlways, <1>1, PTL

-----------------------------------------------------------------------------
\* The map is what the row asks for.
Matches ==
    /\ active # {} <=> Present /\ row.enabled
    /\ \A h \in active : reply[h] = {row}

\* How far call h is from leaving the map as the row asks, when it is the only
\* one under way.
UnderWay(h) ==
    /\ pc[h] \in {"find", "update"} => Matches
    /\ pc[h] \in {"insert", "inserted", "restart", "schedule", "delete", "select",
                  "selected", "disable"} => active = {}
    /\ pc[h] \in {"inserted", "restart", "schedule"} => Present /\ reply[h] = {row}
    /\ pc[h] = "schedule" => row.enabled
    /\ pc[h] = "updated" => \/ Present /\ reply[h] = {row}
                            \/ ~Present /\ reply[h] = {} /\ active = {}
    /\ pc[h] = "selected" => reply[h] = IF Present /\ row.enabled THEN {row} ELSE {}

\* While calls come one at a time and nothing fails.
OneAtATime ==
    disturbed = {} =>
        /\ \A g, h \in Handlers : Busy(g) /\ Busy(h) => g = h
        /\ \A h \in active : pc[h] = "done"
        /\ (\A h \in Handlers : ~Busy(h)) => Matches
        /\ \A h \in Handlers : Busy(h) => UnderWay(h)

\* After a step of the only call under way.
LEMMA OneCall ==
    ASSUME NEW h \in Handlers,
           \A g \in Handlers : g # h => pc'[g] \in {"idle", "done"},
           \A g \in active' : pc'[g] = "done",
           pc'[h] \in {"idle", "done"} => Matches',
           pc'[h] \notin {"idle", "done"} => UnderWay(h)'
    PROVE  OneAtATime'
<1>1. \A f, g \in Handlers : Busy(f)' /\ Busy(g)' => f = g
  BY DEF Busy
<1>2. (\A g \in Handlers : ~Busy(g)') => Matches'
  BY DEF Busy
<1>3. ASSUME NEW g \in Handlers, Busy(g)'
      PROVE  UnderWay(g)'
  <2>1. g = h /\ UnderWay(h)'
    BY <1>3 DEF Busy
  <2>2. QED
    BY <2>1 DEF UnderWay
<1>4. QED
  BY <1>1, <1>2, <1>3 DEF OneAtATime

LEMMA BeginKeepsMatch ==
    ASSUME TypeOK, OneAtATime, NEW h \in Calls, CallBegins(h)
    PROVE  OneAtATime'
<1> SUFFICES ASSUME disturbed' = {} PROVE OneAtATime'
  BY DEF OneAtATime
<1>1. h \in Handlers
  BY DEF Handlers
<1>2. Begin(h, "insert") \/ Begin(h, "find") \/ Begin(h, "delete")
  BY DEF CallBegins, CreateSchedule, UpdateSchedule, DeleteSchedule
<1>3. /\ pc[h] = "idle" /\ UNCHANGED <<table, row, reply>>
      /\ \A g \in Handlers : ~Busy(g)
      /\ disturbed = {}
  BY <1>2 DEF Begin, rows
<1>4. Matches /\ \A g \in active : pc[g] = "done"
  BY <1>3 DEF OneAtATime
<1>5. /\ \A g \in Handlers : g # h => pc'[g] = pc[g]
      /\ pc'[h] \in {"insert", "find", "delete"}
  BY <1>1, <1>2 DEF Begin, Goto, TypeOK
<1>6. \A g \in Handlers : g # h => pc'[g] \in {"idle", "done"}
  BY <1>3, <1>5 DEF Busy
<1>7. pc'[h] \notin {"idle", "done"}
  BY <1>5
<1>8. CASE CreateSchedule(h)
  <2>1. table = "absent" /\ UNCHANGED <<active, running>>
    BY <1>8 DEF CreateSchedule, tasks
  <2>2. pc'[h] = "insert"
    BY <1>1, <1>8 DEF CreateSchedule, Begin, Goto, TypeOK
  <2>3. active = {}
    BY <1>4, <2>1 DEF Matches, Present
  <2>4. UnderWay(h)'
    BY <2>1, <2>2, <2>3 DEF UnderWay
  <2>5. QED
    BY <1>1, <1>6, <1>7, <2>1, <2>3, <2>4, OneCall
<1>9. CASE UpdateSchedule(h)
  <2>1. UNCHANGED <<active, running>>
    BY <1>9 DEF UpdateSchedule, tasks
  <2>2. pc'[h] = "find"
    BY <1>1, <1>9 DEF UpdateSchedule, Begin, Goto, TypeOK
  <2>3. Matches'
    BY <1>3, <1>4, <2>1 DEF Matches, Present
  <2>4. UnderWay(h)'
    BY <2>2, <2>3 DEF UnderWay
  <2>5. \A g \in active' : pc'[g] = "done"
    BY <1>3, <1>4, <1>5, <2>1 DEF TypeOK
  <2>6. QED
    BY <1>1, <1>6, <1>7, <2>4, <2>5, OneCall
<1>10. CASE DeleteSchedule(h)
  <2>1. active' = {}
    BY <1>10 DEF DeleteSchedule, StopTask
  <2>2. pc'[h] = "delete"
    BY <1>1, <1>10 DEF DeleteSchedule, Begin, Goto, TypeOK
  <2>3. UnderWay(h)'
    BY <2>1, <2>2 DEF UnderWay
  <2>4. QED
    BY <1>1, <1>6, <1>7, <2>1, <2>3, OneCall
<1>11. QED
  BY <1>8, <1>9, <1>10 DEF CallBegins

LEMMA StatementKeepsMatch ==
    ASSUME TypeOK, OneAtATime, NEW h \in Handlers, StatementExecutes(h)
    PROVE  OneAtATime'
<1> SUFFICES ASSUME disturbed' = {} PROVE OneAtATime'
  BY DEF OneAtATime
<1>1. UNCHANGED <<active, running, disturbed>> /\ Busy(h)
  BY DEF StatementExecutes, InsertSchedule, GetSchedule, UpdateRow, DeleteRow,
         DisableRow, SelectEnabled, tasks, Busy
<1>2. /\ \A g \in Handlers : Busy(g) => g = h
      /\ \A g \in active : pc[g] = "done" /\ g # h
      /\ UnderWay(h)
  BY <1>1 DEF OneAtATime, Busy
<1>3. /\ \A g \in Handlers : g # h => pc'[g] = pc[g]
      /\ pc \in [Handlers -> Labels] /\ pc' = [pc EXCEPT ![h] = pc'[h]]
  BY DEF StatementExecutes, InsertSchedule, GetSchedule, UpdateRow, DeleteRow,
         DisableRow, SelectEnabled, Goto, TypeOK
<1>4. /\ \A g \in Handlers : g # h => pc'[g] \in {"idle", "done"}
      /\ \A g \in active' : pc'[g] = "done"
  BY <1>1, <1>2, <1>3 DEF Busy, TypeOK
<1>5. SUFFICES (pc'[h] = "done" => Matches') /\ (pc'[h] # "done" => UnderWay(h)')
  <2>1. pc'[h] # "idle"
    BY DEF StatementExecutes, InsertSchedule, GetSchedule, UpdateRow, DeleteRow,
           DisableRow, SelectEnabled, Goto, TypeOK
  <2>2. QED
    BY <1>4, <1>5, <2>1, OneCall
<1>6. CASE InsertSchedule(h)
  BY <1>1, <1>2, <1>6 DEF InsertSchedule, Insert, Goto, UnderWay, TypeOK, Present
<1>7. CASE GetSchedule(h)
  BY <1>1, <1>2, <1>7 DEF GetSchedule, Goto, UnderWay, TypeOK, Present, Matches, rows
<1>8. CASE UpdateRow(h)
  <2>1. /\ pc'[h] = "updated" /\ table' = table
        /\ reply'[h] = IF Present THEN {row'} ELSE {}
    BY <1>8 DEF UpdateRow, Goto, TypeOK, Update
  <2>2. ~Present => active = {}
    BY <1>2, <1>8 DEF UpdateRow, UnderWay, Matches
  <2>3. QED
    BY <1>1, <2>1, <2>2 DEF UnderWay, Present
<1>9. CASE DeleteRow(h) \/ DisableRow(h)
  <2>1. pc'[h] = "done" /\ active' = {}
    BY <1>1, <1>2, <1>9 DEF DeleteRow, DisableRow, Goto, UnderWay, TypeOK
  <2>2. ~(Present' /\ row'.enabled)
    BY <1>9 DEF DeleteRow, Delete, DisableRow, Disable, Present, TypeOK, Row
  <2>3. QED
    BY <2>1, <2>2 DEF Matches, Present
<1>10. CASE SelectEnabled(h)
  <2>1. /\ pc'[h] = "selected" /\ active' = {}
        /\ UNCHANGED <<table, row>>
        /\ reply'[h] = IF Present /\ row.enabled THEN {row} ELSE {}
    BY <1>1, <1>2, <1>10 DEF SelectEnabled, Goto, UnderWay, TypeOK, rows
  <2>2. QED
    BY <2>1 DEF UnderWay, Present
<1>11. QED
  BY <1>6, <1>7, <1>8, <1>9, <1>10 DEF StatementExecutes

LEMMA ContinueKeepsMatch ==
    ASSUME TypeOK, OneAtATime, NEW h \in Handlers, Continues(h)
    PROVE  OneAtATime'
<1> SUFFICES ASSUME disturbed' = {} PROVE OneAtATime'
  BY DEF OneAtATime
<1>1. /\ Runs(h) /\ Busy(h)
      /\ NoTaskChange(h) \/ TaskCreated(h) \/ TaskStopped(h)
  BY ContinueCases DEF Continues, AfterInsert, AfterUpdate, AfterStop, AfterStopInStart,
     AfterSelect, Busy
<1>2. UNCHANGED <<table, row, reply, disturbed>>
  BY <1>1 DEF Runs, rows
<1>3. /\ \A g \in Handlers : Busy(g) => g = h
      /\ \A g \in active : pc[g] = "done" /\ g # h
      /\ UnderWay(h)
  BY <1>1, <1>2 DEF OneAtATime, Busy
<1>4. /\ \A g \in Handlers : g # h => pc'[g] \in {"idle", "done"}
      /\ \A g \in Handlers : g # h => pc'[g] = pc[g]
  BY <1>1, <1>3 DEF NoTaskChange, TaskCreated, TaskStopped, Leave, Yield, Goto, Busy, TypeOK
<1>5. \A g \in active' : pc'[g] = "done"
  BY <1>1, <1>3, <1>4 DEF NoTaskChange, TaskCreated, TaskStopped, Leave, Goto, StopTask,
     tasks, TypeOK
<1>6. SUFFICES /\ pc'[h] \in {"idle", "done"} => Matches'
               /\ pc'[h] \notin {"idle", "done"} => UnderWay(h)'
  BY <1>4, <1>5, <1>6, OneCall
\* The call that starts the task of the row, with an empty map.
<1>7. ASSUME Present, row.enabled, reply[h] = {row}, active = {}, CreateTask(h)
      PROVE  /\ pc'[h] \in {"idle", "done"} => Matches'
             /\ pc'[h] \notin {"idle", "done"} => UnderWay(h)'
  <2>1. CASE row.cron \in ValidCrons
    <3>1. active' = {h} /\ pc'[h] = "done"
      BY <1>7, <2>1 DEF CreateTask, Leave, Goto, TypeOK
    <3>2. QED
      BY <1>2, <1>7, <3>1 DEF Matches, Present
  <2>2. CASE row.cron \notin ValidCrons
    <3>1. active' = {} /\ pc'[h] = "disable"
      BY <1>7, <2>2 DEF CreateTask, Leave, Goto, TypeOK, tasks
    <3>2. QED
      BY <3>1 DEF UnderWay
  <2>3. QED
    BY <2>1, <2>2
<1>8. ASSUME Present, reply[h] = {row}, active = {}, StartIfEnabled(h)
      PROVE  /\ pc'[h] \in {"idle", "done"} => Matches'
             /\ pc'[h] \notin {"idle", "done"} => UnderWay(h)'
  <2>1. CASE row.enabled
    BY <1>7, <1>8, <2>1 DEF StartIfEnabled, StartSchedule
  <2>2. CASE ~row.enabled
    <3>1. active' = {} /\ pc'[h] = "done"
      BY <1>8, <2>2 DEF StartIfEnabled, Leave, Goto, TypeOK, tasks
    <3>2. QED
      BY <1>2, <2>2, <3>1 DEF Matches
  <2>3. QED
    BY <2>1, <2>2
<1>9. CASE AfterInsert(h) \/ AfterStop(h)
  <2>1. Present /\ reply[h] = {row} /\ active = {} /\ StartIfEnabled(h)
    BY <1>3, <1>9 DEF AfterInsert, AfterStop, UnderWay
  <2>2. QED
    BY <1>8, <2>1
<1>10. CASE AfterUpdate(h)
  <2>1. CASE reply[h] = {}
    <3>1. ~Present /\ active = {} /\ NoTaskChange(h)
      BY <1>3, <1>10, <2>1 DEF AfterUpdate, UnderWay, NoTaskChange
    <3>2. pc'[h] = "done" /\ active' = {}
      BY <1>10, <2>1, <3>1 DEF AfterUpdate, Leave, Goto, TypeOK, NoTaskChange, tasks
    <3>3. QED
      BY <1>2, <3>1, <3>2 DEF Matches, Present
  <2>2. CASE reply[h] # {} /\ active # {}
    <3>1. Present /\ reply[h] = {row}
      BY <1>3, <1>10, <2>2 DEF AfterUpdate, UnderWay
    <3>2. pc'[h] = "restart" /\ active' = {}
      BY <1>10, <2>2 DEF AfterUpdate, Yield, Goto, TypeOK, StopTask
    <3>3. QED
      BY <1>2, <3>1, <3>2 DEF UnderWay, Present
  <2>3. CASE reply[h] # {} /\ active = {}
    <3>1. Present /\ reply[h] = {row} /\ StartIfEnabled(h)
      BY <1>3, <1>10, <2>3 DEF AfterUpdate, UnderWay
    <3>2. QED
      BY <1>8, <2>3, <3>1
  <2>4. QED
    BY <2>1, <2>2, <2>3
<1>11. CASE AfterStopInStart(h)
  BY <1>3, <1>7, <1>11 DEF AfterStopInStart, UnderWay
<1>12. CASE AfterSelect(h)
  <2>1. active = {} /\ reply[h] = IF Present /\ row.enabled THEN {row} ELSE {}
    BY <1>3, <1>12 DEF AfterSelect, UnderWay
  <2>2. CASE Present /\ row.enabled
    <3>1. reply[h] = {row}
      BY <2>1, <2>2
    <3>2. CASE row.cron \in ValidCrons
      BY <1>7, <1>12, <2>1, <2>2, <3>1, <3>2 DEF AfterSelect, StartSchedule
    <3>3. CASE row.cron \notin ValidCrons
      <4>1. reply[h] # {} /\ \A r \in reply[h] : r.cron \notin ValidCrons
        BY <3>1, <3>3
      <4>2. Leave(h, "disable") /\ UNCHANGED tasks
        BY <1>12, <4>1 DEF AfterSelect
      <4>3. pc'[h] = "disable" /\ active' = {}
        BY <2>1, <4>2 DEF Leave, Goto, TypeOK, tasks
      <4>4. QED
        BY <4>3 DEF UnderWay
    <3>4. QED
      BY <3>2, <3>3
  <2>3. CASE ~(Present /\ row.enabled)
    <3>1. pc'[h] = "done" /\ active' = {}
      BY <1>12, <2>1, <2>3 DEF AfterSelect, Leave, Goto, TypeOK, tasks
    <3>2. QED
      BY <1>2, <2>3, <3>1 DEF Matches, Present
  <2>4. QED
    BY <2>2, <2>3
<1>13. QED
  BY <1>9, <1>10, <1>11, <1>12 DEF Continues

LEMMA OneAtATimeStep ==
    ASSUME TypeOK, OneAtATime, [Next]_vars
    PROVE  OneAtATime'
<1> USE SchedulerAssumption
<1>1. ASSUME NEW h \in Handlers, StatementFails(h)
      PROVE  OneAtATime'
  BY <1>1 DEF StatementFails, OneAtATime
<1>2. CASE WorkflowDeleted
  BY <1>2 DEF WorkflowDeleted, OneAtATime
<1>3. CASE RepliesArrive
  <2>1. /\ UNCHANGED <<table, row, pc, reply, active>>
        /\ disturbed' = {} => disturbed = {}
    BY <1>3 DEF RepliesArrive, rows, tasks
  <2>2. QED
    BY <2>1 DEF OneAtATime, Busy, UnderWay, Matches, Present
<1>4. CASE Crash
  <2>1. /\ active' = {} /\ Startup \in Handlers
        /\ pc' = [h \in Handlers |-> IF h = Startup THEN "select"
                                     ELSE IF Busy(h) THEN "done" ELSE pc[h]]
    BY <1>4 DEF Crash, Handlers
  <2>2. /\ pc'[Startup] = "select"
        /\ \A g \in Handlers : g # Startup => pc'[g] \in {"idle", "done"}
    BY <2>1 DEF Busy
  <2>3. UnderWay(Startup)'
    BY <2>1, <2>2 DEF UnderWay
  <2>4. QED
    BY <2>1, <2>2, <2>3, OneCall
<1>5. CASE UNCHANGED vars
  BY <1>5 DEF vars, rows, tasks, OneAtATime, Busy, UnderWay, Matches, Present
<1>6. QED
  BY <1>1, <1>2, <1>3, <1>4, <1>5, BeginKeepsMatch, StatementKeepsMatch,
     ContinueKeepsMatch DEF Next

LEMMA InitOneAtATime == Init => OneAtATime
  BY SchedulerAssumption DEF Init, OneAtATime, Busy, UnderWay, Handlers

(* Between calls that come one at a time, after restarts too, the task that *)
(* fires is the one the row asks for.                                       *)
THEOREM TasksFollowRow == Spec => []TasksMatchRow
<1>1. TypeOK /\ OneAtATime /\ [Next]_vars => (TypeOK /\ OneAtATime)'
  BY OneAtATimeStep, TypeStep
<1>2. OneInQueue /\ MappedTaskRuns /\ OneAtATime => TasksMatchRow
  BY DEF OneInQueue, MappedTaskRuns, OneAtATime, TasksMatchRow, Matches
<1>3. Spec => [](TypeOK /\ OneAtATime)
  BY InitTyped, InitOneAtATime, <1>1, PTL DEF Spec
<1>4. QED
  BY QueueAlways, MapIsLive, <1>2, <1>3, PTL
=============================================================================
