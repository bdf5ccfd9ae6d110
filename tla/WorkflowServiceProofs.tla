----------------------- MODULE WorkflowServiceProofs -----------------------
(***************************************************************************)
(* Theorems about WorkflowService, for every number of jobs, steps and     *)
(* retries and for every bound on crashes, failing statements and resets.  *)
(***************************************************************************)
EXTENDS WorkflowService, TLAPS

\* A runner that executes a step has the number of one.
CursorInRange ==
    \A r \in Runners : pc[r] \in {"handler", "store", "stepError"}
                           => local[r].currentStep \in Steps

TypeInv == TypeOK /\ CursorInRange

(* Every row a statement writes is a row.                                   *)
LEMMA WrittenRows ==
    ASSUME TypeOK, NEW r \in Runners
    PROVE  /\ LockedRow \in Row /\ LockStatement \in Row
           /\ FinishedRow \in Row /\ UnlockedRow \in Row
           /\ local[r].currentStep \in Steps => /\ StoredRow(r) \in Row
                                                /\ FailedRow(r) \in Row
<1> USE WorkflowAssumption DEF Row, Local, Statuses, Ages, CanLock, AllDone, MayRetry
<1>1. row \in Row /\ local[r] \in Local
  BY DEF TypeOK
<1>2. LockedRow \in Row /\ LockStatement \in Row
  BY <1>1 DEF LockedRow, LockStatement
<1>3. FinishedRow \in Row /\ UnlockedRow \in Row
  BY <1>1 DEF FinishedRow, UnlockedRow
<1>4. ASSUME local[r].currentStep \in Steps PROVE StoredRow(r) \in Row
  <2> DEFINE next == local[r].currentStep + 1
             results == local[r].results \cup {local[r].currentStep}
             status == IF next >= NumSteps THEN "completed" ELSE "paused"
  <2>1. next \in 0 .. NumSteps
    BY <1>4 DEF Steps
  <2>2. results \in SUBSET Steps
    BY <1>1, <1>4
  <2>3. status \in Statuses
    BY <1>1
  <2> HIDE DEF next, results, status
  <2>4. [row EXCEPT !.currentStep = next, !.results = results, !.status = status,
                    !.locked = FALSE] \in Row
    BY <1>1, <2>1, <2>2, <2>3
  <2>5. QED
    BY <2>4 DEF StoredRow, next, results, status
<1>5. ASSUME local[r].currentStep \in Steps PROVE FailedRow(r) \in Row
  <2> DEFINE step == local[r].currentStep
             retry == local[r].retries[step] < MaxRetries[step]
             retries == IF retry THEN [local[r].retries EXCEPT ![step] = @ + 1]
                                 ELSE local[r].retries
             status == IF retry THEN "paused" ELSE "failed"
  <2>1. retries \in [Steps -> Nat]
    BY <1>1, <1>5
  <2>2. status \in Statuses
    BY <1>1
  <2>3. FailedRow(r) = [row EXCEPT !.retries = retries, !.status = status,
                                   !.locked = FALSE]
    BY <1>1 DEF FailedRow
  <2> HIDE DEF step, retry, retries, status
  <2>4. QED
    BY <1>1, <2>1, <2>2, <2>3
<1>6. QED
  BY <1>2, <1>3, <1>4, <1>5

LEMMA BlankIsLocal == Blank \in Local /\ [Blank EXCEPT !.call = 2] \in Local
<1>1. 0 \in 0 .. NumSteps /\ [s \in Steps |-> 0] \in [Steps -> Nat]
  BY WorkflowAssumption
<1>2. Blank \in Local
  BY <1>1 DEF Blank, Local
<1>3. [Blank EXCEPT !.call = 2] \in Local
  BY <1>2 DEF Local
<1>4. QED
  BY <1>2, <1>3

(* Leaving a job, or going on after a call, keeps pc and local typed and    *)
(* leaves no step number behind.                                            *)
LEMMA LeaveTyped ==
    ASSUME TypeInv, NEW r \in Runners,
           Leave(r) \/ \E status : AfterCall(r, status)
    PROVE  /\ pc' \in [Runners -> Labels] /\ local' \in [Runners -> Local]
           /\ pc'[r] \in {"idle", "read"}
           /\ \A q \in Runners \ {r} : pc'[q] = pc[q] /\ local'[q] = local[q]
  BY BlankIsLocal DEF TypeInv, TypeOK, Leave, AfterCall, Goto, Labels

LEMMA TypeStep ==
    ASSUME TypeInv, [Next]_vars
    PROVE  TypeInv'
<1> USE DEF TypeInv, TypeOK, CursorInRange
<1>1. ASSUME NEW r \in Runners, ExecuteWorkflowById(r)
      PROVE  TypeInv'
  BY <1>1 DEF ExecuteWorkflowById, Goto, Labels
<1>2. ASSUME NEW r \in Runners, ReadWorkflow(r)
      PROVE  TypeInv'
  BY <1>2, BlankIsLocal DEF ReadWorkflow, Leave, Goto, Labels
<1>3. ASSUME NEW r \in Runners, LockWorkflow(r)
      PROVE  TypeInv'
  <2>1. row' \in Row
    BY <1>3, WrittenRows DEF LockWorkflow, Update
  <2>2. lapsed' \in SUBSET Runners
    BY <1>3 DEF LockWorkflow, NoteLapses
  <2>3. CASE CanLock
    <3>1. [call |-> local[r].call, currentStep |-> row.currentStep,
           retries |-> row.retries, results |-> row.results] \in Local
      BY DEF Row, Local
    <3>2. row.currentStep < NumSteps => row.currentStep \in Steps
      BY WorkflowAssumption DEF Row, Steps
    <3>3. local' \in [Runners -> Local] /\ local'[r].currentStep = row.currentStep
      BY <1>3, <2>3, <3>1 DEF LockWorkflow
    <3>4. /\ pc' = [pc EXCEPT ![r] = IF row.currentStep >= NumSteps
                                        THEN "finish" ELSE "handler"]
          /\ \A q \in Runners \ {r} : local'[q] = local[q]
      BY <1>3, <2>3 DEF LockWorkflow, Goto, AllDone
    <3>5. pc' \in [Runners -> Labels]
      BY <3>4 DEF Labels
    <3>6. row.currentStep \in Nat /\ NumSteps \in Nat
      BY WorkflowAssumption DEF Row
    <3>7. CursorInRange'
      BY <3>2, <3>3, <3>4, <3>6
    <3>8. QED
      BY <1>3, <2>1, <2>2, <3>3, <3>5, <3>7 DEF LockWorkflow
  <2>4. CASE ~CanLock
    BY <1>3, <2>1, <2>2, <2>4, BlankIsLocal DEF LockWorkflow, Goto, Labels
  <2>5. QED
    BY <2>3, <2>4
<1>4. ASSUME NEW r \in Runners, HandlerReturns(r)
      PROVE  TypeInv'
  BY <1>4 DEF HandlerReturns, Goto, Labels
<1>5. ASSUME NEW r \in Runners, HandlerThrows(r)
      PROVE  TypeInv'
  BY <1>5 DEF HandlerThrows, Goto, Labels
<1>6. ASSUME NEW r \in Runners, StoreResult(r)
      PROVE  TypeInv'
  <2>1. row' \in Row /\ lapsed' \in SUBSET Runners
    BY <1>6, WrittenRows DEF StoreResult, Update, NoteLapses
  <2>2. QED
    BY <1>6, <2>1, LeaveTyped DEF StoreResult
<1>7. ASSUME NEW r \in Runners, StoreFailure(r)
      PROVE  TypeInv'
  <2>1. row' \in Row /\ lapsed' \in SUBSET Runners
    BY <1>7, WrittenRows DEF StoreFailure, Update, NoteLapses
  <2>2. QED
    BY <1>7, <2>1, LeaveTyped DEF StoreFailure
<1>8. ASSUME NEW r \in Runners, FinishWorkflow(r)
      PROVE  TypeInv'
  <2>1. row' \in Row /\ lapsed' \in SUBSET Runners
    BY <1>8, WrittenRows DEF FinishWorkflow, Update, NoteLapses
  <2>2. QED
    BY <1>8, <2>1, LeaveTyped DEF FinishWorkflow
<1>9. ASSUME NEW r \in Runners, UnlockAfterError(r)
      PROVE  TypeInv'
  <2>1. row' \in Row /\ lapsed' \in SUBSET Runners
    BY <1>9, WrittenRows DEF UnlockAfterError, Update, NoteLapses
  <2>2. QED
    BY <1>9, <2>1, LeaveTyped DEF UnlockAfterError
<1>10. ASSUME NEW r \in Runners, StatementFails(r)
       PROVE  TypeInv'
  <2>1. Written(r) \in Row
    BY <1>10, WrittenRows DEF StatementFails, Written
  <2>2. row' \in Row /\ lapsed' \in SUBSET Runners
    BY <1>10, <2>1 DEF StatementFails, Update, NoteLapses
  <2>3. used' \in [crashes : Nat, dbErrors : Nat, resets : Nat]
    BY <1>10 DEF StatementFails
  <2>4. CASE pc[r] = "store" /\ Goto(r, "stepError") /\ UNCHANGED local
    BY <1>10, <2>2, <2>3, <2>4 DEF StatementFails, Goto, Labels
  <2>5. CASE pc[r] = "unlock" /\ Leave(r)
    BY <1>10, <2>2, <2>3, <2>5, LeaveTyped DEF StatementFails
  <2>6. CASE /\ Goto(r, "unlock")
             /\ local' = [local EXCEPT ![r] = Blank]
    BY <1>10, <2>2, <2>3, <2>6, BlankIsLocal DEF StatementFails, Goto, Labels
  <2>7. QED
    BY <1>10, <2>4, <2>5, <2>6 DEF StatementFails
<1>11. ASSUME NEW r \in Runners, Crash(r)
       PROVE  TypeInv'
  <2>1. used' \in [crashes : Nat, dbErrors : Nat, resets : Nat]
    BY <1>11 DEF Crash
  <2>2. QED
    BY <1>11, <2>1, LeaveTyped DEF Crash
<1>12. ASSUME NEW c \in Clients, ConfigureRead(c)
       PROVE  TypeInv'
  BY <1>12 DEF ConfigureRead, Row
<1>13. ASSUME NEW c \in Clients, ConfigureWrite(c)
       PROVE  TypeInv'
  <2>1. [row EXCEPT !.results = request[c].results] \in Row
    BY DEF Row
  <2>2. request' \in [Clients -> [active : BOOLEAN, results : SUBSET Steps]]
    BY <1>13 DEF ConfigureWrite, NoRequest
  <2>3. QED
    BY <1>13, <2>1, <2>2 DEF ConfigureWrite, Update
<1>14. CASE TimePasses
  <2>1. PICK at \in Ages : row' = [row EXCEPT !.lockedAt = at]
    BY <1>14 DEF TimePasses, Row, Ages
  <2>2. row' \in Row
    BY <2>1 DEF Row
  <2>3. QED
    BY <1>14, <2>2 DEF TimePasses
<1>15. CASE ResetWorkflow
  <2>1. row' \in Row
    <3>1. 0 \in 0 .. NumSteps
      BY WorkflowAssumption
    <3>2. QED
      BY <1>15, <3>1 DEF ResetWorkflow, Row, Statuses
  <2>2. used' \in [crashes : Nat, dbErrors : Nat, resets : Nat]
    BY <1>15 DEF ResetWorkflow
  <2>3. performed' \in SUBSET Steps
    BY <1>15 DEF ResetWorkflow
  <2>4. QED
    BY <1>15, <2>1, <2>2, <2>3 DEF ResetWorkflow, NoteLapses
<1>16. CASE DeleteWorkflow
  BY <1>16 DEF DeleteWorkflow, NoteLapses
<1>17. CASE UNCHANGED vars
  BY <1>17 DEF vars
<1>18. QED
  BY <1>1, <1>2, <1>3, <1>4, <1>5, <1>6, <1>7, <1>8, <1>9, <1>10, <1>11,
     <1>12, <1>13, <1>14, <1>15, <1>16, <1>17 DEF Next, RunnerStep

LEMMA InitTyped == Init => TypeInv
<1>1. 0 \in 0 .. NumSteps /\ [s \in Steps |-> 0] \in [Steps -> Nat]
  BY WorkflowAssumption
<1>2. CreatedRow \in Row
  BY <1>1 DEF CreatedRow, Row, Statuses, Ages
<1>3. ASSUME Init PROVE used \in [crashes : Nat, dbErrors : Nat, resets : Nat]
  BY <1>3 DEF Init
<1>4. ASSUME Init
      PROVE  request \in [Clients -> [active : BOOLEAN, results : SUBSET Steps]]
  BY <1>4 DEF Init, NoRequest
<1>5. QED
  BY <1>2, <1>3, <1>4, BlankIsLocal DEF Init, TypeInv, TypeOK, CursorInRange, Labels

(* In every behaviour every variable keeps its type.                        *)
THEOREM TypeCorrect == Spec => []TypeOK
<1>1. TypeInv /\ [Next]_vars => TypeInv'
  BY TypeStep
<1>2. TypeInv => TypeOK
  BY DEF TypeInv
<1>3. QED
  BY InitTyped, <1>1, <1>2, PTL DEF Spec

-----------------------------------------------------------------------------
(* The lock.                                                                *)

(* A statement after which the row is unlocked, or gone, leaves nobody who  *)
(* still holds the lock.                                                    *)
LEMMA ReleaseProtects ==
    ASSUME TypeInv, LockProtects, NoteLapses,
           ~row'.locked \/ ~exists',
           \A q \in Runners : pc'[q] \in AtWork => pc[q] \in AtWork
    PROVE  LockProtects'
<1>1. SUFFICES ASSUME NEW q \in Runners, HoldsLock(q)'
               PROVE  FALSE
  BY DEF LockProtects
<1>2. /\ pc'[q] \in AtWork /\ q \notin lapsed
      /\ ~(row.locked /\ ~row'.locked) /\ ~(exists /\ ~exists')
  BY <1>1 DEF HoldsLock, NoteLapses, AtWork
<1>3. HoldsLock(q)
  BY <1>2 DEF HoldsLock
<1>4. exists /\ row.locked
  BY <1>3 DEF LockProtects
<1>5. QED
  BY <1>2, <1>4

(* A step that leaves the lock, the cursor and the retries alone and gives  *)
(* nobody the lock keeps it protecting.                                     *)
LEMMA QuietStepProtects ==
    ASSUME LockProtects, exists' = exists,
           row'.locked = row.locked, row'.status = row.status,
           row'.currentStep = row.currentStep, row'.retries = row.retries,
           \A q \in Runners : HoldsLock(q)' => HoldsLock(q) /\ local'[q] = local[q]
    PROVE  LockProtects'
<1>1. SUFFICES ASSUME NEW r \in Runners, HoldsLock(r)'
               PROVE  /\ exists' /\ row'.locked /\ row'.status = "running"
                      /\ SnapshotIsCurrent(r)'
                      /\ \A q \in Runners : HoldsLock(q)' => q = r
  BY DEF LockProtects
<1>2. HoldsLock(r) /\ local'[r] = local[r]
  BY <1>1
<1>3. QED
  BY <1>2 DEF LockProtects, SnapshotIsCurrent

\* What each statement but the one that takes the lock leaves in the column.
LEMMA ReleasingRows ==
    ASSUME TypeInv, NEW r \in Runners
    PROVE  /\ ~StoredRow(r).locked /\ ~FailedRow(r).locked
           /\ ~FinishedRow.locked /\ ~UnlockedRow.locked
  BY DEF TypeInv, TypeOK, Row, StoredRow, FailedRow, FinishedRow, UnlockedRow

(* The statements that end a runner's work, or its error handling.          *)
LEMMA ReleasingStep ==
    ASSUME TypeInv, LockProtects, NEW r \in Runners,
           StoreResult(r) \/ StoreFailure(r) \/ FinishWorkflow(r) \/ UnlockAfterError(r)
    PROVE  LockProtects'
<1>1. NoteLapses /\ exists' = exists
  BY DEF StoreResult, StoreFailure, FinishWorkflow, UnlockAfterError
<1>2. exists => ~row'.locked
  BY ReleasingRows
  DEF StoreResult, StoreFailure, FinishWorkflow, UnlockAfterError, Update
<1>3. Leave(r) \/ \E status : AfterCall(r, status)
  BY DEF StoreResult, StoreFailure, FinishWorkflow, UnlockAfterError
<1>4. \A q \in Runners : pc'[q] \in AtWork => pc[q] \in AtWork
  BY <1>3, LeaveTyped DEF AtWork
<1>5. QED
  BY <1>1, <1>2, <1>4, ReleaseProtects

LEMMA LockStep ==
    ASSUME TypeInv, LockProtects, [Next]_vars
    PROVE  LockProtects'
<1>1. ASSUME NEW r \in Runners, ExecuteWorkflowById(r)
      PROVE  LockProtects'
  <2>1. \A q \in Runners : HoldsLock(q)' => HoldsLock(q) /\ local'[q] = local[q]
    BY <1>1 DEF ExecuteWorkflowById, Goto, HoldsLock, AtWork, TypeInv, TypeOK
  <2>2. QED
    BY <1>1, <2>1, QuietStepProtects DEF ExecuteWorkflowById
<1>2. ASSUME NEW r \in Runners, ReadWorkflow(r)
      PROVE  LockProtects'
  <2>1. \A q \in Runners : HoldsLock(q)' => HoldsLock(q) /\ local'[q] = local[q]
    BY <1>2 DEF ReadWorkflow, Leave, Goto, HoldsLock, AtWork, TypeInv, TypeOK
  <2>2. QED
    BY <1>2, <2>1, QuietStepProtects DEF ReadWorkflow
<1>3. ASSUME NEW r \in Runners, LockWorkflow(r)
      PROVE  LockProtects'
  <2> USE DEF CanLock
  <2>1. CASE CanLock
    <3>1. \A q \in Runners : ~HoldsLock(q)
      BY <2>1 DEF LockProtects
    <3>2. row' = LockedRow /\ exists'
      BY <1>3, <2>1 DEF LockWorkflow, Update, LockStatement
    <3>3. /\ row'.locked /\ row'.status = "running"
          /\ row'.currentStep = row.currentStep /\ row'.retries = row.retries
      BY <3>2 DEF LockedRow, TypeInv, TypeOK, Row
    <3>4. SnapshotIsCurrent(r)'
      BY <1>3, <2>1, <3>3 DEF LockWorkflow, SnapshotIsCurrent, TypeInv, TypeOK
    <3>5. \A q \in Runners \ {r} : ~HoldsLock(q)'
      BY <1>3, <2>1, <3>1
      DEF LockWorkflow, NoteLapses, Goto, HoldsLock, TypeInv, TypeOK
    <3>6. QED
      BY <3>2, <3>3, <3>4, <3>5 DEF LockProtects
  <2>2. CASE ~CanLock
    <3>1. row' = row /\ exists' = exists
      BY <1>3, <2>2 DEF LockWorkflow, Update, LockStatement
    <3>2. \A q \in Runners : HoldsLock(q)' => HoldsLock(q) /\ local'[q] = local[q]
      BY <1>3, <2>2
      DEF LockWorkflow, NoteLapses, Goto, HoldsLock, AtWork, TypeInv, TypeOK
    <3>3. QED
      BY <3>1, <3>2, QuietStepProtects
  <2>3. QED
    BY <2>1, <2>2
<1>4. ASSUME NEW r \in Runners, HandlerReturns(r) \/ HandlerThrows(r)
      PROVE  LockProtects'
  <2>1. \A q \in Runners : HoldsLock(q)' => HoldsLock(q) /\ local'[q] = local[q]
    BY <1>4 DEF HandlerReturns, HandlerThrows, Goto, HoldsLock, AtWork, TypeInv, TypeOK
  <2>2. QED
    BY <1>4, <2>1, QuietStepProtects DEF HandlerReturns, HandlerThrows
<1>5. ASSUME NEW r \in Runners,
             StoreResult(r) \/ StoreFailure(r) \/ FinishWorkflow(r) \/ UnlockAfterError(r)
      PROVE  LockProtects'
  BY <1>5, ReleasingStep
<1>6. ASSUME NEW r \in Runners, StatementFails(r)
      PROVE  LockProtects'
  <2>1. exists' = exists /\ NoteLapses
    BY <1>6 DEF StatementFails
  <2>2. \A q \in Runners : pc'[q] \in AtWork =>
            /\ pc[q] \in AtWork
            /\ local'[q] = local[q]
    BY <1>6 DEF StatementFails, Leave, Goto, AtWork, TypeInv, TypeOK
  <2>3. CASE row' = row
    BY <2>1, <2>2, <2>3, QuietStepProtects DEF HoldsLock, NoteLapses
  <2>4. CASE exists /\ row' = Written(r) /\ pc[r] = "lock"
    <3>1. CASE row.locked
      BY <2>1, <2>2, <2>3, <2>4, <3>1, QuietStepProtects
      DEF HoldsLock, NoteLapses, Written, LockStatement, CanLock
    <3>2. CASE ~row.locked
      BY <2>1, <2>2, <2>4, <3>2 DEF HoldsLock, NoteLapses, LockProtects
    <3>3. QED
      BY <3>1, <3>2
  <2>5. CASE exists /\ row' = Written(r) /\ pc[r] \notin {"lock", "read"}
    <3>1. ~row'.locked
      BY <1>6, <2>5, ReleasingRows DEF Written, StatementFails
    <3>2. QED
      BY <2>1, <2>2, <3>1, ReleaseProtects
  <2>6. CASE exists /\ row' = Written(r) /\ pc[r] = "read"
    <3>1. row' = row
      BY <2>6 DEF Written
    <3>2. QED
      BY <2>3, <3>1
  <2>7. QED
    BY <1>6, <2>3, <2>4, <2>5, <2>6 DEF StatementFails, Update
<1>7. ASSUME NEW r \in Runners, Crash(r)
      PROVE  LockProtects'
  <2>1. \A q \in Runners : HoldsLock(q)' => HoldsLock(q) /\ local'[q] = local[q]
    BY <1>7 DEF Crash, Leave, Goto, HoldsLock, AtWork, TypeInv, TypeOK
  <2>2. QED
    BY <1>7, <2>1, QuietStepProtects DEF Crash
<1>8. ASSUME NEW c \in Clients, ConfigureRead(c) \/ ConfigureWrite(c)
      PROVE  LockProtects'
  <2>1. \A q \in Runners : HoldsLock(q)' => HoldsLock(q) /\ local'[q] = local[q]
    BY <1>8 DEF ConfigureRead, ConfigureWrite, HoldsLock
  <2>2. /\ row'.locked = row.locked /\ row'.status = row.status
        /\ row'.currentStep = row.currentStep /\ row'.retries = row.retries
    BY <1>8 DEF ConfigureRead, ConfigureWrite, Update, TypeInv, TypeOK, Row
  <2>3. QED
    BY <1>8, <2>1, <2>2, QuietStepProtects DEF ConfigureRead, ConfigureWrite
<1>9. CASE TimePasses
  <2>1. \A q \in Runners : HoldsLock(q)' => HoldsLock(q) /\ local'[q] = local[q]
    BY <1>9 DEF TimePasses, HoldsLock
  <2>2. /\ row'.locked = row.locked /\ row'.status = row.status
        /\ row'.currentStep = row.currentStep /\ row'.retries = row.retries
    BY <1>9 DEF TimePasses, TypeInv, TypeOK, Row
  <2>3. QED
    BY <1>9, <2>1, <2>2, QuietStepProtects DEF TimePasses
<1>10. CASE ResetWorkflow
  <2>1. ~row'.locked
    BY <1>10 DEF ResetWorkflow, TypeInv, TypeOK, Row
  <2>2. QED
    BY <1>10, <2>1, ReleaseProtects DEF ResetWorkflow
<1>11. CASE DeleteWorkflow
  BY <1>11, ReleaseProtects DEF DeleteWorkflow
<1>12. CASE UNCHANGED vars
  BY <1>12 DEF vars, LockProtects, HoldsLock, SnapshotIsCurrent
<1>13. QED
  BY <1>1, <1>2, <1>3, <1>4, <1>5, <1>6, <1>7, <1>8, <1>9, <1>10, <1>11, <1>12
  DEF Next, RunnerStep

(* Whatever jobs, faults and resets do, a runner whose lock nobody cleared  *)
(* is alone at work and works from the row's own cursor and retry counts.   *)
THEOREM LockProtectsOwner == Spec => []LockProtects
<1>1. Init => TypeInv /\ LockProtects
  BY InitTyped DEF Init, LockProtects, HoldsLock, AtWork
<1>2. TypeInv /\ LockProtects /\ [Next]_vars => (TypeInv /\ LockProtects)'
  BY TypeStep, LockStep
<1>3. QED
  BY <1>1, <1>2, PTL DEF Spec

(* The cursor moves only by a reset, by the one step a runner has done, or  *)
(* under a runner whose lock had been cleared.                              *)
THEOREM CursorDiscipline == Spec => CursorMovesUnderLock
<1> DEFINE Disciplined ==
             row'.currentStep # row.currentStep =>
               \/ used'.resets = used.resets + 1 /\ row'.currentStep = 0
               \/ row'.currentStep = row.currentStep + 1 /\ row.status = "running"
               \/ \E r \in lapsed : pc[r] = "store" /\ pc'[r] # "store"
<1>1. ASSUME TypeInv, LockProtects, Next, row'.currentStep # row.currentStep
      PROVE  \/ ResetWorkflow
             \/ \E r \in Runners :
                   /\ pc[r] = "store" /\ pc'[r] # "store"
                   /\ row'.currentStep = local[r].currentStep + 1
  <2> USE DEF TypeInv, TypeOK, Row
  <2>1. ASSUME NEW r \in Runners, StoreResult(r)
        PROVE  /\ pc[r] = "store" /\ pc'[r] # "store"
               /\ row'.currentStep = local[r].currentStep + 1
    BY <1>1, <2>1, LeaveTyped DEF StoreResult, Update, StoredRow
  <2>2. ASSUME NEW r \in Runners, StatementFails(r)
        PROVE  /\ pc[r] = "store" /\ pc'[r] # "store"
               /\ row'.currentStep = local[r].currentStep + 1
    <3>1. exists /\ row' = Written(r)
      BY <1>1, <2>2 DEF StatementFails, Update
    <3>2. pc[r] = "store"
      BY <1>1, <3>1
      DEF Written, LockStatement, LockedRow, FailedRow, FinishedRow, UnlockedRow
    <3>3. pc'[r] # "store"
      BY <1>1, <2>2, <3>2 DEF StatementFails, Goto
    <3>4. row'.currentStep = local[r].currentStep + 1
      BY <1>1, <3>1, <3>2 DEF Written, StoredRow
    <3>5. QED
      BY <3>2, <3>3, <3>4
  <2>3. ASSUME NEW r \in Runners,
               RunnerStep(r), ~StoreResult(r)
        PROVE  FALSE
    BY <1>1, <2>3
    DEF RunnerStep, ExecuteWorkflowById, ReadWorkflow, LockWorkflow, HandlerReturns,
        HandlerThrows, StoreFailure, FinishWorkflow, UnlockAfterError, Update,
        LockStatement, LockedRow, FailedRow, FinishedRow, UnlockedRow
  <2>4. ASSUME NEW r \in Runners, Crash(r)
        PROVE  FALSE
    BY <1>1, <2>4 DEF Crash
  <2>5. ASSUME NEW c \in Clients, ConfigureRead(c) \/ ConfigureWrite(c)
        PROVE  FALSE
    BY <1>1, <2>5 DEF ConfigureRead, ConfigureWrite, Update
  <2>6. ASSUME TimePasses \/ DeleteWorkflow
        PROVE  FALSE
    BY <1>1, <2>6 DEF TimePasses, DeleteWorkflow
  <2>7. QED
    BY <1>1, <2>1, <2>2, <2>3, <2>4, <2>5, <2>6 DEF Next
<1>2. TypeInv /\ LockProtects /\ [Next]_vars => [Disciplined]_vars
  <2>1. SUFFICES ASSUME TypeInv, LockProtects, Next, row'.currentStep # row.currentStep
                 PROVE  Disciplined
    BY DEF vars
  <2>2. CASE ResetWorkflow
    BY <2>2 DEF ResetWorkflow, TypeInv, TypeOK, Row
  <2>3. CASE \E r \in Runners : /\ pc[r] = "store" /\ pc'[r] # "store"
                                /\ row'.currentStep = local[r].currentStep + 1
    <3>1. PICK r \in Runners : /\ pc[r] = "store" /\ pc'[r] # "store"
                               /\ row'.currentStep = local[r].currentStep + 1
      BY <2>3
    <3>2. CASE r \in lapsed
      BY <3>1, <3>2
    <3>3. CASE r \notin lapsed
      <4>1. row.status = "running" /\ local[r].currentStep = row.currentStep
        BY <2>1, <3>1, <3>3 DEF LockProtects, HoldsLock, AtWork, SnapshotIsCurrent
      <4>2. QED
        BY <3>1, <4>1
    <3>4. QED
      BY <3>2, <3>3
  <2>4. QED
    BY <1>1, <2>1, <2>2, <2>3
<1>3. Init => TypeInv /\ LockProtects
  BY InitTyped DEF Init, LockProtects, HoldsLock, AtWork
<1>4. TypeInv /\ LockProtects /\ [Next]_vars => (TypeInv /\ LockProtects)'
  BY TypeStep, LockStep
<1>5. QED
  BY <1>2, <1>3, <1>4, PTL DEF Spec, CursorMovesUnderLock

-----------------------------------------------------------------------------
(* Progress: what the cursors and the status say has been done was done.    *)

\* The handlers of the first n steps have each succeeded at least once.
Performed(n) == \A s \in Steps : s < n => s \in performed

\* The inductive form: it holds of every cursor, in the row and in every
\* runner's variables, however old.
ProgressInv ==
    /\ Performed(row.currentStep)
    /\ row.status = "completed" => Performed(NumSteps)
    /\ \A r \in Runners :
          /\ Performed(local[r].currentStep)
          /\ pc[r] = "store" => local[r].currentStep \in performed
          /\ pc[r] = "finish" => local[r].currentStep = NumSteps

(* A success is never forgotten.                                            *)
LEMMA PerformedStays ==
    ASSUME TypeInv, [Next]_vars, NEW s \in Steps, s \in performed
    PROVE  s \in performed'
  BY DEF TypeInv, TypeOK, CursorInRange, Next, vars, RunnerStep, ExecuteWorkflowById,
         ReadWorkflow, LockWorkflow, HandlerReturns, HandlerThrows, StoreResult,
         StoreFailure, FinishWorkflow, UnlockAfterError, StatementFails, Crash,
         TimePasses, ResetWorkflow, DeleteWorkflow, ConfigureRead, ConfigureWrite

(* Whatever a runner writes claims only what was performed.                 *)
LEMMA WrittenProgress ==
    ASSUME TypeInv, ProgressInv, NEW r \in Runners, NEW new,
           new \in {row, Written(r)}
    PROVE  /\ Performed(new.currentStep)
           /\ new.status = "completed" => Performed(NumSteps)
<1> USE DEF TypeInv, TypeOK, Row
<1>1. CASE new = row
  BY <1>1 DEF ProgressInv
<1>2. CASE pc[r] = "store" /\ new = StoredRow(r)
  <2> DEFINE step == local[r].currentStep
  <2>1. step \in Steps /\ step \in performed /\ Performed(step)
    BY <1>2 DEF ProgressInv, CursorInRange
  <2>2. /\ new.currentStep = step + 1
        /\ new.status = IF step + 1 >= NumSteps THEN "completed" ELSE "paused"
    BY <1>2 DEF StoredRow, AllDone
  <2> HIDE DEF step, TypeInv
  <2>3. \A s \in Steps : s < step + 1 => s = step \/ s < step
    BY <2>1, WorkflowAssumption DEF Steps
  <2>4. Performed(step + 1)
    BY <2>1, <2>3 DEF Performed
  <2>5. \A s \in Steps : step + 1 >= NumSteps => s < step + 1
    BY <2>1, WorkflowAssumption DEF Steps
  <2>6. step + 1 >= NumSteps => Performed(NumSteps)
    BY <2>4, <2>5 DEF Performed
  <2>7. QED
    BY <2>2, <2>4, <2>6
<1>3. CASE pc[r] = "finish" /\ new = FinishedRow
  BY <1>3 DEF ProgressInv, FinishedRow
<1>4. CASE pc[r] = "stepError" /\ new = FailedRow(r)
  BY <1>4 DEF ProgressInv, FailedRow
<1>5. CASE pc[r] = "unlock" /\ new = UnlockedRow
  BY <1>5 DEF ProgressInv, UnlockedRow
<1>6. CASE pc[r] = "lock" /\ new = LockStatement
  BY <1>6 DEF ProgressInv, LockStatement, LockedRow
<1>7. QED
  BY <1>1, <1>2, <1>3, <1>4, <1>5, <1>6 DEF Written

LEMMA ProgressStep ==
    ASSUME TypeInv, ProgressInv, [Next]_vars
    PROVE  ProgressInv'
<1> USE WorkflowAssumption DEF AllDone
<1>1. ASSUME NEW n, Performed(n) PROVE Performed(n)'
  BY <1>1, PerformedStays DEF Performed
<1>2. /\ Performed(row'.currentStep)
      /\ row'.status = "completed" => Performed(NumSteps)
  <2>1. ASSUME NEW r \in Runners, RunnerStep(r) \/ StatementFails(r) \/ Crash(r)
        PROVE  row' \in {row, Written(r)}
    BY <2>1 DEF RunnerStep, ExecuteWorkflowById, ReadWorkflow, LockWorkflow,
                HandlerReturns, HandlerThrows, StoreResult, StoreFailure,
                FinishWorkflow, UnlockAfterError, StatementFails, Crash, Update, Written
  <2>2. CASE \E r \in Runners : RunnerStep(r) \/ StatementFails(r) \/ Crash(r)
    BY <2>1, <2>2, WrittenProgress
  <2>3. CASE ResetWorkflow
    BY <2>3 DEF ResetWorkflow, Performed, Steps, TypeInv, TypeOK, Row
  <2>4. CASE \/ TimePasses \/ DeleteWorkflow \/ UNCHANGED vars
             \/ \E c \in Clients : ConfigureRead(c) \/ ConfigureWrite(c)
    <3>1. row'.currentStep = row.currentStep /\ row'.status = row.status
      BY <2>4 DEF TimePasses, DeleteWorkflow, ConfigureRead, ConfigureWrite, Update,
                  vars, TypeInv, TypeOK, Row
    <3>2. QED
      BY <3>1 DEF ProgressInv
  <2>5. QED
    BY <2>2, <2>3, <2>4 DEF Next
<1>3. ASSUME NEW r \in Runners
      PROVE  /\ Performed(local'[r].currentStep)
             /\ pc'[r] = "store" => local'[r].currentStep \in performed'
             /\ pc'[r] = "finish" => local'[r].currentStep = NumSteps
  <2>1. Performed(0) /\ Blank.currentStep = 0 /\ [Blank EXCEPT !.call = 2].currentStep = 0
    BY DEF Performed, Steps, Blank
  <2>2. CASE local'[r] = local[r] /\ pc'[r] \notin {"store", "finish"}
    BY <2>2 DEF ProgressInv
  <2>3. CASE local'[r] = local[r] /\ pc'[r] = pc[r]
    <3>1. pc[r] = "store" => local[r].currentStep \in Steps
      BY DEF TypeInv, CursorInRange
    <3>2. QED
      BY <2>3, <3>1, PerformedStays DEF ProgressInv
  <2>4. CASE local'[r].currentStep = 0 /\ pc'[r] \notin {"store", "finish"}
    BY <2>1, <2>4
  <2>5. CASE HandlerReturns(r)
    <3>1. local'[r] = local[r] /\ pc'[r] = "store" /\ local[r].currentStep \in Steps
      BY <2>5 DEF HandlerReturns, Goto, TypeInv, TypeOK, CursorInRange
    <3>2. local[r].currentStep \in performed'
      BY <2>5, <3>1 DEF HandlerReturns, TypeInv, TypeOK
    <3>3. QED
      BY <3>1, <3>2 DEF ProgressInv
  <2>6. CASE LockWorkflow(r) /\ CanLock
    <3>1. /\ local'[r].currentStep = row.currentStep
          /\ pc'[r] = IF row.currentStep >= NumSteps THEN "finish" ELSE "handler"
      BY <2>6 DEF LockWorkflow, Goto, TypeInv, TypeOK
    <3>2. row.currentStep >= NumSteps => row.currentStep = NumSteps
      BY DEF TypeInv, TypeOK, Row
    <3>3. QED
      BY <3>1, <3>2 DEF ProgressInv
  <2>7. CASE /\ local' = [local EXCEPT ![r] = Blank]
             /\ Goto(r, "unlock") \/ Goto(r, "idle")
    BY <2>1, <2>4, <2>7 DEF Goto, TypeInv, TypeOK
  <2>8. CASE \E status : AfterCall(r, status)
    <3>1. CASE /\ local' = [local EXCEPT ![r] = [Blank EXCEPT !.call = 2]]
               /\ Goto(r, "read")
      BY <2>1, <2>4, <3>1 DEF Goto, TypeInv, TypeOK
    <3>2. QED
      BY <2>7, <2>8, <3>1 DEF AfterCall, Leave
  <2>9. ASSUME NEW q \in Runners, RunnerStep(q) \/ StatementFails(q) \/ Crash(q), q # r
        PROVE  local'[r] = local[r] /\ pc'[r] = pc[r]
    BY <2>9 DEF RunnerStep, ExecuteWorkflowById, ReadWorkflow, LockWorkflow,
                HandlerReturns, HandlerThrows, StoreResult, StoreFailure,
                FinishWorkflow, UnlockAfterError, StatementFails, Crash, Goto,
                Leave, AfterCall, TypeInv, TypeOK
  <2>10. CASE RunnerStep(r)
    <3>1. CASE ExecuteWorkflowById(r) \/ HandlerThrows(r)
      BY <2>2, <3>1 DEF ExecuteWorkflowById, HandlerThrows, Goto, TypeInv, TypeOK
    <3>2. CASE ReadWorkflow(r)
      BY <2>2, <2>7, <3>2 DEF ReadWorkflow, Leave, Goto, TypeInv, TypeOK
    <3>3. CASE LockWorkflow(r)
      BY <2>6, <2>7, <3>3 DEF LockWorkflow
    <3>4. CASE StoreResult(r) \/ StoreFailure(r)
      BY <2>8, <3>4 DEF StoreResult, StoreFailure
    <3>5. CASE FinishWorkflow(r) \/ UnlockAfterError(r)
      BY <2>7, <3>5 DEF FinishWorkflow, UnlockAfterError, Leave
    <3>6. QED
      BY <2>5, <2>10, <3>1, <3>2, <3>3, <3>4, <3>5 DEF RunnerStep
  <2>11. CASE StatementFails(r)
    BY <2>2, <2>7, <2>11 DEF StatementFails, Leave, Goto, TypeInv, TypeOK
  <2>12. CASE Crash(r)
    BY <2>7, <2>12 DEF Crash, Leave
  <2>13. CASE \/ TimePasses \/ ResetWorkflow \/ DeleteWorkflow \/ UNCHANGED vars
              \/ \E c \in Clients : ConfigureRead(c) \/ ConfigureWrite(c)
    BY <2>3, <2>13 DEF TimePasses, ResetWorkflow, DeleteWorkflow, ConfigureRead,
                       ConfigureWrite, vars
  <2>14. QED
    BY <2>3, <2>9, <2>10, <2>11, <2>12, <2>13 DEF Next
<1>4. QED
  BY <1>1, <1>2, <1>3 DEF ProgressInv

LEMMA ProgressAlways == Spec => [](TypeInv /\ ProgressInv)
<1>1. Init => TypeInv /\ ProgressInv
  BY WorkflowAssumption, InitTyped
  DEF Init, ProgressInv, Performed, CreatedRow, Blank, Steps
<1>2. TypeInv /\ ProgressInv /\ [Next]_vars => (TypeInv /\ ProgressInv)'
  BY TypeStep, ProgressStep
<1>3. QED
  BY <1>1, <1>2, PTL DEF Spec

(* No handler starts before every earlier step has succeeded once.          *)
THEOREM StepsInOrder == Spec => []NoStepSkipped
<1>1. TypeInv /\ ProgressInv => NoStepSkipped
  BY WorkflowAssumption
  DEF ProgressInv, Performed, NoStepSkipped, TypeInv, TypeOK, Local, Steps
<1>2. QED
  BY <1>1, ProgressAlways, PTL

(* A workflow reported completed has had every one of its steps performed.  *)
THEOREM CompletedMeansPerformed == Spec => []CompletedOnlyWhenPerformed
<1>1. TypeInv /\ ProgressInv => CompletedOnlyWhenPerformed
  BY WorkflowAssumption
  DEF ProgressInv, Performed, CompletedOnlyWhenPerformed, Steps
<1>2. QED
  BY <1>1, ProgressAlways, PTL

-----------------------------------------------------------------------------
(* Retries.                                                                 *)

\* The bound holds of the row's counts and of every runner's copy of them.
RetryInv == /\ RetriesBounded
            /\ \A r \in Runners, s \in Steps : local[r].retries[s] <= MaxRetries[s]

LEMMA RetryStep ==
    ASSUME TypeInv, RetryInv, [Next]_vars
    PROVE  RetryInv'
<1> USE WorkflowAssumption DEF TypeInv, TypeOK
<1>1. ASSUME NEW r \in Runners, NEW s \in Steps, pc[r] = "stepError"
      PROVE  FailedRow(r).retries[s] <= MaxRetries[s]
  BY <1>1 DEF RetryInv, RetriesBounded, FailedRow, MayRetry, CursorInRange, Row, Local
<1>2. ASSUME NEW r \in Runners
      PROVE  /\ StoredRow(r).retries = row.retries /\ LockStatement.retries = row.retries
             /\ FinishedRow.retries = row.retries /\ UnlockedRow.retries = row.retries
  BY DEF StoredRow, LockStatement, LockedRow, FinishedRow, UnlockedRow, Row
<1>3. ASSUME NEW r \in Runners, RunnerStep(r) \/ StatementFails(r) \/ Crash(r)
      PROVE  \/ row'.retries = row.retries
             \/ pc[r] = "stepError" /\ row' = FailedRow(r)
  <2>1. row' \in {row, Written(r)}
    BY <1>3 DEF RunnerStep, ExecuteWorkflowById, ReadWorkflow, LockWorkflow,
                HandlerReturns, HandlerThrows, StoreResult, StoreFailure,
                FinishWorkflow, UnlockAfterError, StatementFails, Crash, Update, Written
  <2>2. QED
    BY <1>2, <2>1 DEF Written
<1>4. RetriesBounded'
  <2>1. CASE \E r \in Runners : RunnerStep(r) \/ StatementFails(r) \/ Crash(r)
    BY <1>1, <1>3, <2>1 DEF RetryInv, RetriesBounded
  <2>2. CASE \/ TimePasses \/ ResetWorkflow \/ DeleteWorkflow \/ UNCHANGED vars
             \/ \E c \in Clients : ConfigureRead(c) \/ ConfigureWrite(c)
    <3>1. row'.retries = row.retries
      BY <2>2 DEF TimePasses, ResetWorkflow, DeleteWorkflow, ConfigureRead,
                  ConfigureWrite, Update, vars, Row
    <3>2. QED
      BY <3>1 DEF RetryInv, RetriesBounded
  <2>3. QED
    BY <2>1, <2>2 DEF Next
<1>5. ASSUME NEW r \in Runners, NEW s \in Steps
      PROVE  local'[r].retries[s] <= MaxRetries[s]
  <2>1. /\ Blank.retries[s] <= MaxRetries[s]
        /\ [Blank EXCEPT !.call = 2].retries[s] <= MaxRetries[s]
    BY DEF Blank
  <2> DEFINE Known == \/ local'[r] \in {local[r], Blank, [Blank EXCEPT !.call = 2]}
                      \/ local'[r].retries = row.retries
  <2>2. ASSUME NEW q \in Runners, LockWorkflow(q) PROVE Known
    BY <2>2 DEF LockWorkflow
  <2>3. ASSUME NEW q \in Runners, RunnerStep(q), ~LockWorkflow(q) PROVE Known
    BY <2>3 DEF RunnerStep, ExecuteWorkflowById, ReadWorkflow, HandlerReturns,
                HandlerThrows, StoreResult, StoreFailure, FinishWorkflow,
                UnlockAfterError, Leave, AfterCall
  <2>4. ASSUME NEW q \in Runners, StatementFails(q) \/ Crash(q) PROVE Known
    BY <2>4 DEF StatementFails, Crash, Leave
  <2>5. ASSUME \/ TimePasses \/ ResetWorkflow \/ DeleteWorkflow \/ UNCHANGED vars
               \/ \E c \in Clients : ConfigureRead(c) \/ ConfigureWrite(c)
        PROVE  Known
    BY <2>5 DEF TimePasses, ResetWorkflow, DeleteWorkflow, ConfigureRead,
                ConfigureWrite, vars
  <2> HIDE DEF Known
  <2>6. Known
    BY <2>2, <2>3, <2>4, <2>5 DEF Next
  <2>7. QED
    BY <2>1, <2>6 DEF Known, RetryInv, RetriesBounded
<1>6. QED
  BY <1>4, <1>5 DEF RetryInv

(* No step's retry count ever exceeds its maxRetries.                       *)
THEOREM RetriesNeverExceeded == Spec => []RetriesBounded
<1>1. Init => TypeInv /\ RetryInv
  BY WorkflowAssumption, InitTyped
  DEF Init, RetryInv, RetriesBounded, CreatedRow, Blank
<1>2. TypeInv /\ RetryInv /\ [Next]_vars => (TypeInv /\ RetryInv)'
  BY TypeStep, RetryStep
<1>3. RetryInv => RetriesBounded
  BY DEF RetryInv
<1>4. QED
  BY <1>1, <1>2, <1>3, PTL DEF Spec

-----------------------------------------------------------------------------
(* Inputs.                                                                  *)

\* A cursor and the context kept with it agree, in the row and in every
\* runner's snapshot of it: each statement writes both from one snapshot.
InputsInv ==
    /\ 0 .. row.currentStep - 1 \subseteq row.results
    /\ \A r \in Runners : 0 .. local[r].currentStep - 1 \subseteq local[r].results

LEMMA InputsStep ==
    ASSUME Clients = {}, TypeInv, InputsInv, [Next]_vars
    PROVE  InputsInv'
<1> USE DEF TypeInv, TypeOK
<1>1. ASSUME NEW r \in Runners
      PROVE  LET new == Written(r)
             IN  0 .. new.currentStep - 1 \subseteq new.results
  <2>1. 0 .. row.currentStep - 1 \subseteq row.results
    BY DEF InputsInv
  <2>2. /\ LockStatement.currentStep = row.currentStep
        /\ LockStatement.results = row.results
        /\ FailedRow(r).currentStep = row.currentStep
        /\ FailedRow(r).results = row.results
        /\ FinishedRow.currentStep = row.currentStep
        /\ FinishedRow.results = row.results
        /\ UnlockedRow.currentStep = row.currentStep
        /\ UnlockedRow.results = row.results
    BY DEF LockStatement, LockedRow, FailedRow, FinishedRow, UnlockedRow, Row
  <2>3. /\ StoredRow(r).currentStep = local[r].currentStep + 1
        /\ StoredRow(r).results = local[r].results \cup {local[r].currentStep}
    BY DEF StoredRow, Row
  <2>4. 0 .. StoredRow(r).currentStep - 1 \subseteq StoredRow(r).results
    <3>1. local[r].currentStep \in Int
      BY WorkflowAssumption DEF Local
    <3>2. 0 .. local[r].currentStep - 1 \subseteq local[r].results
      BY DEF InputsInv
    <3> DEFINE step == local[r].currentStep
               results == local[r].results
    <3> HIDE DEF step, results
    <3>3. step \in Int /\ 0 .. step - 1 \subseteq results
      BY <3>1, <3>2 DEF step, results
    <3>4. 0 .. (step + 1) - 1 \subseteq results \cup {step}
      BY <3>3
    <3>5. QED
      BY <2>3, <3>4 DEF step, results
  <2>5. QED
    BY <2>1, <2>2, <2>4 DEF Written
<1>2. 0 .. row'.currentStep - 1 \subseteq row'.results
  <2>1. ASSUME NEW r \in Runners, RunnerStep(r) \/ StatementFails(r) \/ Crash(r)
        PROVE  row' \in {row, Written(r)}
    BY <2>1 DEF RunnerStep, ExecuteWorkflowById, ReadWorkflow, LockWorkflow,
                HandlerReturns, HandlerThrows, StoreResult, StoreFailure,
                FinishWorkflow, UnlockAfterError, StatementFails, Crash, Update, Written
  <2>2. CASE \E r \in Runners : RunnerStep(r) \/ StatementFails(r) \/ Crash(r)
    BY <1>1, <2>1, <2>2 DEF InputsInv
  <2>3. CASE ResetWorkflow
    <3>1. row'.currentStep = 0
      BY <2>3 DEF ResetWorkflow, Row
    <3>2. QED
      BY <3>1
  <2>4. CASE TimePasses \/ DeleteWorkflow \/ UNCHANGED vars
    <3>1. row'.currentStep = row.currentStep /\ row'.results = row.results
      BY <2>4 DEF TimePasses, DeleteWorkflow, vars, Row
    <3>2. QED
      BY <3>1 DEF InputsInv
  <2>5. QED
    BY <2>2, <2>3, <2>4 DEF Next
<1>3. ASSUME NEW r \in Runners
      PROVE  0 .. local'[r].currentStep - 1 \subseteq local'[r].results
  <2> DEFINE Known == \/ local'[r] \in {local[r], Blank, [Blank EXCEPT !.call = 2]}
                      \/ /\ local'[r].currentStep = row.currentStep
                         /\ local'[r].results = row.results
  <2>1. ASSUME NEW q \in Runners, LockWorkflow(q) PROVE Known
    BY <2>1 DEF LockWorkflow
  <2>2. ASSUME NEW q \in Runners, RunnerStep(q), ~LockWorkflow(q) PROVE Known
    BY <2>2 DEF RunnerStep, ExecuteWorkflowById, ReadWorkflow, HandlerReturns,
                HandlerThrows, StoreResult, StoreFailure, FinishWorkflow,
                UnlockAfterError, Leave, AfterCall
  <2>3. ASSUME NEW q \in Runners, StatementFails(q) \/ Crash(q) PROVE Known
    BY <2>3 DEF StatementFails, Crash, Leave
  <2>4. ASSUME TimePasses \/ ResetWorkflow \/ DeleteWorkflow \/ UNCHANGED vars
        PROVE  Known
    BY <2>4 DEF TimePasses, ResetWorkflow, DeleteWorkflow, vars
  <2> HIDE DEF Known
  <2>5. Known
    BY <2>1, <2>2, <2>3, <2>4 DEF Next
  <2>6. Blank.currentStep = 0 /\ [Blank EXCEPT !.call = 2].currentStep = 0
    BY DEF Blank
  <2>7. CASE local'[r] \in {Blank, [Blank EXCEPT !.call = 2]}
    <3>1. local'[r].currentStep = 0
      BY <2>6, <2>7
    <3>2. QED
      BY <3>1
  <2>8. CASE local'[r] = local[r]
    BY <2>8 DEF InputsInv
  <2>9. CASE /\ local'[r].currentStep = row.currentStep
             /\ local'[r].results = row.results
    BY <2>9 DEF InputsInv
  <2>10. QED
    BY <2>5, <2>7, <2>8, <2>9 DEF Known
<1>4. QED
  BY <1>2, <1>3 DEF InputsInv

(* When nobody configures notifications, a step is only ever started with   *)
(* the results of all the earlier steps in its context: jobs that steal     *)
(* each other's locks, faults and resets do not lose one.                   *)
THEOREM InputsNeverLost ==
    ASSUME Clients = {}
    PROVE  Spec => []InputsComplete
<1>1. Init => TypeInv /\ InputsInv
  BY InitTyped DEF Init, InputsInv, CreatedRow, Blank
<1>2. TypeInv /\ InputsInv /\ [Next]_vars => (TypeInv /\ InputsInv)'
  BY TypeStep, InputsStep
<1>3. TypeInv /\ InputsInv => InputsComplete
  BY DEF InputsInv, InputsComplete
<1>4. QED
  BY <1>1, <1>2, <1>3, PTL DEF Spec

-----------------------------------------------------------------------------
(* Locks left behind.                                                       *)

(* A step that takes no lock and sends nobody away from work leaves none.   *)
LEMMA WorkersStay ==
    ASSUME LockHasWorker, exists' => exists, row'.locked => row.locked,
           used'.crashes = used.crashes, used'.dbErrors = used.dbErrors,
           \A q \in Runners : pc[q] \in AtWork => pc'[q] \in AtWork
    PROVE  LockHasWorker'
  BY DEF LockHasWorker, AtWork

LEMMA LockWorkerStep ==
    ASSUME TypeInv, LockHasWorker, [Next]_vars
    PROVE  LockHasWorker'
<1>1. ASSUME NEW r \in Runners,
             \/ ExecuteWorkflowById(r) \/ ReadWorkflow(r)
             \/ HandlerReturns(r) \/ HandlerThrows(r)
      PROVE  LockHasWorker'
  <2>1. UNCHANGED <<exists, row, used>>
    BY <1>1 DEF ExecuteWorkflowById, ReadWorkflow, HandlerReturns, HandlerThrows
  <2>2. \A q \in Runners : pc[q] \in AtWork => pc'[q] \in AtWork
    BY <1>1 DEF ExecuteWorkflowById, ReadWorkflow, HandlerReturns, HandlerThrows,
                Leave, Goto, AtWork, TypeInv, TypeOK
  <2>3. QED
    BY <2>1, <2>2, WorkersStay
<1>2. ASSUME NEW r \in Runners, LockWorkflow(r)
      PROVE  LockHasWorker'
  <2>1. CASE CanLock
    <3>1. pc'[r] \in AtWork
      BY <1>2, <2>1 DEF LockWorkflow, Goto, AtWork, TypeInv, TypeOK
    <3>2. QED
      BY <3>1 DEF LockHasWorker, AtWork
  <2>2. CASE ~CanLock
    <3>1. row' = row /\ exists' = exists /\ used' = used
      BY <1>2, <2>2 DEF LockWorkflow, Update, LockStatement
    <3>2. \A q \in Runners : pc[q] \in AtWork => pc'[q] \in AtWork
      BY <1>2, <2>2 DEF LockWorkflow, Goto, AtWork, TypeInv, TypeOK
    <3>3. QED
      BY <3>1, <3>2, WorkersStay
  <2>3. QED
    BY <2>1, <2>2
<1>3. ASSUME NEW r \in Runners,
             StoreResult(r) \/ StoreFailure(r) \/ FinishWorkflow(r) \/ UnlockAfterError(r)
      PROVE  LockHasWorker'
  <2>1. exists' = exists /\ (exists => ~row'.locked)
    BY <1>3, ReleasingRows
    DEF StoreResult, StoreFailure, FinishWorkflow, UnlockAfterError, Update
  <2>2. QED
    BY <2>1 DEF LockHasWorker
<1>4. ASSUME NEW r \in Runners, StatementFails(r) \/ Crash(r)
      PROVE  LockHasWorker'
  <2>1. used'.crashes > 0 \/ used'.dbErrors > 0
    BY <1>4 DEF StatementFails, Crash, TypeInv, TypeOK
  <2>2. QED
    BY <2>1 DEF LockHasWorker
<1>5. CASE \/ TimePasses \/ UNCHANGED vars
           \/ \E c \in Clients : ConfigureRead(c) \/ ConfigureWrite(c)
  <2>1. /\ exists' = exists /\ pc' = pc /\ used' = used
        /\ row'.locked = row.locked
    BY <1>5 DEF TimePasses, ConfigureRead, ConfigureWrite, Update, vars,
                TypeInv, TypeOK, Row
  <2>2. QED
    BY <2>1, WorkersStay
<1>6. CASE ResetWorkflow \/ DeleteWorkflow
  <2>1. ~exists' \/ ~row'.locked
    BY <1>6 DEF ResetWorkflow, DeleteWorkflow, TypeInv, TypeOK, Row
  <2>2. QED
    BY <2>1 DEF LockHasWorker
<1>7. QED
  BY <1>1, <1>2, <1>3, <1>4, <1>5, <1>6 DEF Next, RunnerStep

(* Until a process crashes or a statement fails, a locked row always has a  *)
(* runner that is still to unlock it: no job returns and leaves it locked.  *)
THEOREM LocksHaveWorkers == Spec => []LockHasWorker
<1>1. Init => TypeInv /\ LockHasWorker
  BY InitTyped DEF Init, LockHasWorker, CreatedRow
<1>2. TypeInv /\ LockHasWorker /\ [Next]_vars => (TypeInv /\ LockHasWorker)'
  BY TypeStep, LockWorkerStep
<1>3. QED
  BY <1>1, <1>2, PTL DEF Spec

=============================================================================
