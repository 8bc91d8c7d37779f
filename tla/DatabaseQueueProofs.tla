------------------------ MODULE DatabaseQueueProofs ------------------------
(***************************************************************************)
(* Theorems about the database queue under any number of workers, jobs,    *)
(* permits and attempts, and for every choice of faults.                   *)
(***************************************************************************)
EXTENDS DatabaseQueue, WorkerProofs

-----------------------------------------------------------------------------
(* Type correctness.                                                       *)

\* Updates of one row keep the type of the table.
LEMMA SetRowType ==
    ASSUME row \in [Jobs -> Row], NEW j \in Jobs, NEW r \in Row, SetRow(j, r)
    PROVE  row' \in [Jobs -> Row]
BY DEF SetRow

\* The initial state has its type,
LEMMA TypeInit == Init => TypeOK
BY ConcurrencyAssumption
   DEF Init, WorkerInit, TypeOK, WorkerTypeOK, LoopState, AbsentRow, Row, Status

\* and every step keeps it.
LEMMA TypeStep == TypeOK /\ [Next]_vars => TypeOK'
<1> SUFFICES ASSUME TypeOK, [Next]_vars PROVE TypeOK'
  OBVIOUS
<1> USE DEF TypeOK, WorkerTypeOK
<1>1. ASSUME NEW j \in Jobs, NEW limit \in AttemptLimits, NEW at \in 0 .. MaxTime,
             Enqueue(j, limit, at)
      PROVE  TypeOK'
  <2>1. [status |-> "pending", attempts |-> 0, max_attempts |-> limit,
         run_at |-> at] \in Row
    BY LimitsAssumption, TimeAssumption DEF Row, Status
  <2> QED
    BY <1>1, <2>1, SetRowType DEF Enqueue, workerVars, historyVars
<1>2. ASSUME NEW w \in Workers, SeeShutdown(w), UNCHANGED <<row, lock>>
      PROVE  TypeOK'
  BY <1>2 DEF SeeShutdown, GoTo, historyVars, LoopState
<1>3. ASSUME NEW w \in Workers, TakePermit(w), UNCHANGED <<row, lock>>
      PROVE  TypeOK'
  BY <1>3 DEF TakePermit, GoTo, historyVars, LoopState
<1>4. ASSUME NEW w \in Workers, DrainDone(w), UNCHANGED <<row, lock>>
      PROVE  TypeOK'
  BY <1>4 DEF DrainDone, GoTo, historyVars, LoopState
<1>5. ASSUME NEW w \in Workers, NEW j \in Jobs, SelectRow(w, j)
      PROVE  TypeOK'
  BY <1>5 DEF SelectRow, workerVars, historyVars
<1>6. ASSUME NEW w \in Workers, NothingDequeued(w)
      PROVE  WorkerTypeOK'
  BY <1>6 DEF NothingDequeued, ReleasePermit, GoTo, historyVars, LoopState
<1>7. ASSUME NEW w \in Workers, MarkRunning(w)
      PROVE  row' \in [Jobs -> Row] /\ lock' \in [Workers -> Jobs \cup {NoRow}]
  <2> DEFINE j == lock[w]
  <2>1. j \in Jobs /\ SetRow(j, [row[j] EXCEPT !.status = "running",
                                          !.attempts = row[j].attempts + 1])
    BY <1>7 DEF MarkRunning
  <2>2. [row[j] EXCEPT !.status = "running",
                       !.attempts = row[j].attempts + 1] \in Row
    <3>1. row[j] \in Row /\ row[j].attempts + 1 \in Nat
      BY <2>1 DEF Row
    <3> QED
      BY <3>1 DEF Row, Status
  <2> QED
    BY <1>7, <2>1, <2>2, SetRowType DEF MarkRunning
<1>8. ASSUME NEW w \in Workers, CommitDequeue(w)
      PROVE  TypeOK'
  <2>1. lock[w] \in Jobs /\ row[lock[w]] \in Row
    BY <1>8 DEF CommitDequeue, MarkRunning
  <2>2. [worker |-> w, job |-> lock[w], attempts |-> row[lock[w]].attempts + 1,
         max_attempts |-> row[lock[w]].max_attempts,
         stage |-> "execute", retry_at |-> 0] \in Task
    BY <2>1 DEF Row, Task, Stage
  <2>3. WorkerTypeOK'
    BY <1>8, <2>1, <2>2
       DEF CommitDequeue, SpawnTask, GoTo, LoopState
  <2> QED
    BY <1>7, <1>8, <2>3 DEF CommitDequeue
<1>9. ASSUME NEW t \in tasks, HandlerOk(t) \/ HandlerErr(t),
             UNCHANGED <<row, lock>>
      PROVE  TypeOK'
  <2>1. t \in Task /\ t.job \in Jobs /\ t.attempts \in Nat
    BY DEF Task
  <2>2. now + Backoff(t.attempts) \in Nat
    BY <2>1, BackoffNat
  <2>3. CASE HandlerOk(t)
    BY <1>9, <2>1, <2>3, AdvanceType
       DEF HandlerOk, Advance, Stage
  <2>4. CASE HandlerErr(t)
    <3>1. PICK stage \in Stage, at \in Nat : Advance(t, stage, at)
      BY <2>2, <2>4 DEF HandlerErr, Stage
    <3>2. tasks' \subseteq Task
      BY <2>1, <3>1, AdvanceType DEF Advance
    <3> QED
      BY <1>9, <2>4, <3>2 DEF HandlerErr, historyVars
  <2> QED
    BY <1>9, <2>3, <2>4
<1>10. ASSUME NEW t \in tasks, FinishTask(t)
       PROVE  WorkerTypeOK'
  BY <1>10 DEF FinishTask, ReleasePermit, historyVars, Task
<1>11. ASSUME NEW t \in tasks, Acknowledge(t) \/ FailRetry(t) \/ FailPermanently(t)
       PROVE  TypeOK'
  <2>1. t.job \in Jobs /\ t.retry_at \in Nat /\ row[t.job] \in Row
    BY DEF Task
  <2>2. row' \in [Jobs -> Row]
    <3>1. CASE Acknowledge(t)
      BY <2>1, <3>1 DEF Acknowledge, SetStatus, Row, Status
    <3>2. CASE FailRetry(t)
      <4>1. [row[t.job] EXCEPT !.status = "retrying",
                               !.run_at = t.retry_at] \in Row
        BY <2>1 DEF Row, Status
      <4> QED
        BY <2>1, <3>2, <4>1 DEF FailRetry, SetRow
    <3>3. CASE FailPermanently(t)
      BY <2>1, <3>3 DEF FailPermanently, SetStatus, Row, Status
    <3> QED
      BY <1>11, <3>1, <3>2, <3>3
  <2> QED
    BY <1>10, <1>11, <2>2 DEF Acknowledge, FailRetry, FailPermanently
<1>12. ASSUME NEW w \in Workers, DequeueError(w) \/ SelectNone(w)
       PROVE  TypeOK'
  BY <1>6, <1>12 DEF DequeueError, SelectNone
<1>13. ASSUME NEW w \in Workers, CommitWithoutEnvelope(w)
       PROVE  TypeOK'
  BY <1>6, <1>7, <1>13 DEF CommitWithoutEnvelope
<1>14. ASSUME NEW w \in Workers, ProcessGone(w), Abort(w)
       PROVE  TypeOK'
  BY <1>14 DEF ProcessGone, Abort, GoTo, TasksOf, historyVars, LoopState
<1>15. ASSUME NEW t \in tasks, FinishTask(t), UNCHANGED <<row, lock>>
       PROVE  TypeOK'
  BY <1>10, <1>15
<1>16. ASSUME NEW w \in Workers, SignalShutdown(w), UNCHANGED <<row, lock>>
       PROVE  TypeOK'
  BY <1>16 DEF SignalShutdown, historyVars
<1>17. ASSUME NEW w \in Workers, Restart(w), UNCHANGED <<row, lock>>
       PROVE  TypeOK'
  BY <1>17, ConcurrencyAssumption DEF Restart, GoTo, historyVars, LoopState
<1>18. CASE Tick /\ UNCHANGED <<row, lock>>
  BY <1>18 DEF Tick, historyVars
<1>19. CASE UNCHANGED vars
  BY <1>19 DEF vars, workerVars, historyVars
<1> HIDE DEF TypeOK, WorkerTypeOK
<1>20. ASSUME NEW w \in Workers, LoopStep(w) \/ LoopFault(w) \/ ProcessStep(w)
       PROVE  TypeOK'
  <2>1. CASE LoopStep(w)
    BY <1>2, <1>3, <1>4, <1>5, <1>8, <1>12, <2>1 DEF LoopStep
  <2>2. CASE LoopFault(w)
    BY <1>12, <1>13, <1>14, <2>2 DEF LoopFault, Crash
  <2>3. CASE ProcessStep(w)
    BY <1>14, <1>16, <1>17, <2>3 DEF ProcessStep, InlineExit
  <2> QED
    BY <1>20, <2>1, <2>2, <2>3
<1>21. ASSUME NEW t \in tasks, TaskStep(t) \/ TaskFault(t)
       PROVE  TypeOK'
  <2>1. CASE TaskStep(t)
    BY <1>9, <1>11, <2>1 DEF TaskStep
  <2>2. CASE TaskFault(t)
    BY <1>15, <2>2 DEF TaskFault, ReportError, HandlerPanic
  <2> QED
    BY <1>21, <2>1, <2>2
<1> QED
  BY <1>1, <1>18, <1>19, <1>20, <1>21 DEF Next

\* Every reachable state has the types the code declares.
THEOREM TypeCorrect == Spec => []TypeOK
<1> QED
  BY TypeInit, TypeStep, PTL DEF Spec

-----------------------------------------------------------------------------
(***************************************************************************)
(* The inductive invariant, without the permits.  A row has one owner at a *)
(* time: the transaction that has it locked while it waits, or the task    *)
(* that was spawned for it while it runs.  Everything else follows a row   *)
(* through these owners.                                                   *)
(***************************************************************************)

\* A transaction holds a lock only across the loop's dequeue, on a row that is
\* still due, and no row is locked twice.
LockInv ==
    /\ \A w \in Workers : lock[w] # NoRow => loop[w] = "dequeue" /\ Due(lock[w])
    /\ \A v, w \in Workers : lock[v] # NoRow /\ lock[v] = lock[w] => v = w

\* What a task was handed is what its row says, and its decision to retry or to
\* give up agrees with the row's counters.
TaskInv ==
    \A t \in tasks :
        /\ row[t.job].status = "running"
        /\ row[t.job].attempts = t.attempts
        /\ row[t.job].max_attempts = t.max_attempts
        /\ row[t.job].run_at <= now
        /\ t.stage = "retry" => t.attempts < t.max_attempts
        /\ t.stage = "fail" => t.attempts >= t.max_attempts
        /\ t.stage # "resend"

\* A row that waits has an attempt left, and counts every start of its handler.
Limit(j) == IF row[j].max_attempts = 0 THEN 1 ELSE row[j].max_attempts

CountInv ==
    \A j \in Jobs :
        /\ starts[j] <= row[j].attempts
        /\ row[j].attempts <= Limit(j)
        /\ row[j].status = "absent" => row[j].attempts = 0
        /\ Waiting(j) => row[j].attempts < Limit(j)

\* A job whose handler succeeded is never waiting again.
DoneInv == \A j \in succeeded : row[j].status \in {"running", "completed"}

RowInv ==
    /\ LockInv
    /\ TaskInv
    /\ ExclusiveExecution
    /\ CountInv
    /\ DoneInv
    /\ SucceededNeverReruns

\* At the start nothing is locked and no task runs.
LEMMA RowInvInit == Init => RowInv
<1> SUFFICES ASSUME Init PROVE RowInv
  OBVIOUS
<1>1. LockInv
  BY NoRowAssumption DEF Init, LockInv
<1>2. CountInv
  BY DEF Init, WorkerInit, CountInv, Limit, AbsentRow, Waiting
<1> QED
  BY <1>1, <1>2 DEF Init, WorkerInit, RowInv, TaskInv, ExclusiveExecution,
                    DoneInv, SucceededNeverReruns

\* What a step of the loop that touches neither rows nor tasks keeps.
LEMMA LoopFrame ==
    ASSUME RowInv, UNCHANGED <<row, tasks, succeeded, starts, now>>
    PROVE  /\ TaskInv'
           /\ ExclusiveExecution'
           /\ CountInv'
           /\ DoneInv'
           /\ SucceededNeverReruns'
BY DEF RowInv, TaskInv, ExclusiveExecution, CountInv, Limit, Waiting, DoneInv,
       SucceededNeverReruns

\* A loop that holds no lock may go anywhere.
LEMMA LoopMove ==
    ASSUME TypeOK, RowInv, NEW w \in Workers, NEW state, lock[w] = NoRow,
           GoTo(w, state), UNCHANGED <<row, lock, now>>
    PROVE  LockInv'
BY DEF TypeOK, WorkerTypeOK, RowInv, LockInv, GoTo, Due, Waiting

\* A transaction may let go of its lock at any time.
LEMMA LockDrop ==
    ASSUME TypeOK, RowInv, NEW w \in Workers, NEW state,
           GoTo(w, state), lock' = [lock EXCEPT ![w] = NoRow],
           UNCHANGED <<row, now>>
    PROVE  LockInv'
BY DEF TypeOK, WorkerTypeOK, RowInv, LockInv, GoTo, Due, Waiting

\* A finishing task takes nothing from the others.
LEMMA TasksShrink ==
    ASSUME RowInv, tasks' \subseteq tasks, UNCHANGED <<row, now, succeeded>>
    PROVE  TaskInv' /\ ExclusiveExecution' /\ SucceededNeverReruns' /\ DoneInv'
BY DEF RowInv, TaskInv, ExclusiveExecution, SucceededNeverReruns, DoneInv

\* The counts agree as long as neither side is written.
LEMMA CountFrame ==
    ASSUME RowInv, UNCHANGED <<row, starts>>
    PROVE  CountInv'
BY DEF RowInv, CountInv, Limit, Waiting

\* A lock stays good as long as no row is written and time stands still.
LEMMA LockFrame ==
    ASSUME RowInv, UNCHANGED <<loop, lock, row, now>>
    PROVE  LockInv'
BY DEF RowInv, LockInv, Due, Waiting

\* The row a transaction has locked waits: no task works on it, and its handler
\* has not succeeded.
LEMMA LockedIsWaiting ==
    ASSUME TypeOK, RowInv, NEW w \in Workers, lock[w] \in Jobs
    PROVE  /\ loop[w] = "dequeue"
           /\ row[lock[w]] \in Row
           /\ row[lock[w]].run_at <= now
           /\ row[lock[w]].attempts < Limit(lock[w])
           /\ lock[w] \notin succeeded
           /\ \A t \in tasks : t.job # lock[w]
           /\ \A v \in Workers : v # w => lock[v] # lock[w]
<1> DEFINE j == lock[w]
<1>1. lock[w] # NoRow /\ row[j] \in Row
  BY NoRowAssumption DEF TypeOK
<1>2. loop[w] = "dequeue" /\ Due(j) /\ \A v \in Workers : v # w => lock[v] # j
  BY <1>1 DEF RowInv, LockInv
<1>3. row[j].status \in {"pending", "retrying"} /\ row[j].run_at <= now
  BY <1>2 DEF Due, Waiting
<1>4. row[j].attempts < Limit(j)
  BY <1>2 DEF RowInv, CountInv, Due
<1>5. j \notin succeeded
  BY <1>3 DEF RowInv, DoneInv
<1>6. \A t \in tasks : t.job # j
  BY <1>3 DEF RowInv, TaskInv
<1> QED
  BY <1>1, <1>2, <1>3, <1>4, <1>5, <1>6

\* The committed UPDATE moves one unowned row from waiting to running.
LEMMA MarkRunningKeeps ==
    ASSUME TypeOK, RowInv, NEW w \in Workers, NEW state, MarkRunning(w),
           GoTo(w, state), UNCHANGED <<now, succeeded>>
    PROVE  /\ LockInv'
           /\ DoneInv'
           /\ \A t \in tasks : row'[t.job] = row[t.job]
           /\ \A i \in Jobs : i # lock[w] => row'[i] = row[i]
           /\ row'[lock[w]].status = "running"
           /\ row'[lock[w]].attempts = row[lock[w]].attempts + 1
           /\ row'[lock[w]].max_attempts = row[lock[w]].max_attempts
           /\ row'[lock[w]].run_at = row[lock[w]].run_at
<1> DEFINE j == lock[w]
<1>1. j \in Jobs
  BY DEF MarkRunning
<1>2. /\ row' = [row EXCEPT ![j] = [row[j] EXCEPT !.status = "running",
                                    !.attempts = row[j].attempts + 1]]
      /\ lock' = [lock EXCEPT ![w] = NoRow]
  BY DEF MarkRunning, SetRow
<1>3. /\ row[j] \in Row
      /\ j \notin succeeded
      /\ \A t \in tasks : t.job # j
      /\ \A v \in Workers : v # w => lock[v] # j
  BY <1>1, LockedIsWaiting
<1>4. /\ row'[j].status = "running"
      /\ row'[j].attempts = row[j].attempts + 1
      /\ row'[j].max_attempts = row[j].max_attempts
      /\ row'[j].run_at = row[j].run_at
  BY <1>1, <1>2, <1>3 DEF TypeOK, Row
<1>5. \A i \in Jobs : i # j => row'[i] = row[i]
  BY <1>2 DEF TypeOK
<1>6. \A t \in tasks : t.job \in Jobs /\ row'[t.job] = row[t.job]
  BY <1>3, <1>5 DEF TypeOK, WorkerTypeOK, Task
<1>7. ASSUME NEW v \in Workers, lock'[v] # NoRow
      PROVE  v # w /\ lock'[v] = lock[v] /\ lock[v] \in Jobs
             /\ loop'[v] = "dequeue" /\ Due(lock[v])'
  <2>1. v # w /\ lock'[v] = lock[v] /\ lock[v] \in Jobs /\ lock[v] # NoRow
    BY <1>2, <1>7 DEF TypeOK
  <2>2. loop[v] = "dequeue" /\ Due(lock[v])
    BY <2>1 DEF RowInv, LockInv
  <2>3. row'[lock[v]] = row[lock[v]] /\ loop'[v] = loop[v]
    BY <1>3, <1>5, <2>1 DEF GoTo, TypeOK, WorkerTypeOK
  <2> QED
    BY <2>1, <2>2, <2>3 DEF Due, Waiting
<1>8. LockInv'
  <2>1. \A v \in Workers :
           lock'[v] # NoRow => loop'[v] = "dequeue" /\ Due(lock[v])'
    BY <1>7
  <2>2. \A u, v \in Workers : lock'[u] # NoRow /\ lock'[u] = lock'[v] => u = v
    BY <1>7 DEF RowInv, LockInv
  <2> QED
    BY <2>1, <2>2 DEF LockInv
<1>9. DoneInv'
  BY <1>3, <1>5 DEF RowInv, DoneInv, TypeOK, WorkerTypeOK
<1> QED
  BY <1>4, <1>5, <1>6, <1>8, <1>9

\* The last write of a task, of its own row, is seen by no lock and by no other
\* task.
LEMMA TaskWriteKeeps ==
    ASSUME TypeOK, RowInv, NEW t \in tasks, NEW r \in Row,
           SetRow(t.job, r), FinishTask(t), UNCHANGED lock
    PROVE  /\ LockInv'
           /\ TaskInv'
           /\ ExclusiveExecution'
           /\ SucceededNeverReruns'
           /\ row'[t.job] = r
           /\ \A j \in Jobs : j # t.job => row'[j] = row[j]
<1>1. t.job \in Jobs /\ row[t.job].status = "running"
  BY DEF TypeOK, WorkerTypeOK, Task, RowInv, TaskInv
<1>2. row'[t.job] = r /\ \A j \in Jobs : j # t.job => row'[j] = row[j]
  BY <1>1 DEF SetRow, TypeOK
<1>3. /\ UNCHANGED <<loop, now, succeeded, starts>>
      /\ tasks' = tasks \ {t}
  BY DEF FinishTask, historyVars
<1>4. LockInv'
  <2>1. ASSUME NEW w \in Workers, lock[w] # NoRow
        PROVE  loop[w] = "dequeue" /\ Due(lock[w]) /\ row'[lock[w]] = row[lock[w]]
    <3>1. loop[w] = "dequeue" /\ Due(lock[w]) /\ lock[w] \in Jobs
      BY <2>1 DEF RowInv, LockInv, TypeOK
    <3> QED
      BY <1>1, <1>2, <3>1 DEF Due, Waiting
  <2> QED
    BY <1>3, <2>1 DEF RowInv, LockInv, Due, Waiting
<1>5. \A u \in tasks' : u \in tasks /\ u.job \in Jobs /\ u.job # t.job
  BY <1>3 DEF RowInv, ExclusiveExecution, TypeOK, WorkerTypeOK, Task
<1>6. TaskInv'
  BY <1>2, <1>3, <1>5 DEF RowInv, TaskInv
<1>7. ExclusiveExecution' /\ SucceededNeverReruns'
  BY <1>3 DEF RowInv, ExclusiveExecution, SucceededNeverReruns
<1> QED
  BY <1>2, <1>4, <1>6, <1>7

\* A handler's return changes the stage of one task and no row.
LEMMA AdvanceKeeps ==
    ASSUME TypeOK, RowInv, NEW t \in tasks, NEW stage \in Stage, NEW at \in Nat,
           Advance(t, stage, at), t.stage = "execute", stage # "resend",
           stage = "retry" => t.attempts < t.max_attempts,
           stage = "fail" => t.attempts >= t.max_attempts,
           UNCHANGED <<row, now>>
    PROVE  TaskInv' /\ ExclusiveExecution'
<1> DEFINE n == [t EXCEPT !.stage = stage, !.retry_at = at]
<1>1. t \in Task
  BY DEF TypeOK, WorkerTypeOK
<1>2. /\ n.job = t.job /\ n.attempts = t.attempts
      /\ n.max_attempts = t.max_attempts /\ n.stage = stage
  BY <1>1 DEF Task
<1>3. tasks' = (tasks \ {t}) \cup {n}
  BY DEF Advance
<1> HIDE DEF n
<1>4. TaskInv'
  BY <1>2, <1>3 DEF RowInv, TaskInv
<1>5. ExclusiveExecution'
  BY <1>2, <1>3 DEF RowInv, ExclusiveExecution
<1> QED
  BY <1>4, <1>5

\* Every step keeps the tie between rows, locks and tasks.
LEMMA RowInvStep == TypeOK /\ RowInv /\ [Next]_vars => RowInv'
<1> SUFFICES ASSUME TypeOK, RowInv, [Next]_vars PROVE RowInv'
  OBVIOUS
<1>0. \A w \in Workers : loop[w] # "dequeue" => lock[w] = NoRow
  BY DEF RowInv, LockInv
<1>1. ASSUME NEW j \in Jobs, NEW limit \in AttemptLimits, NEW at \in 0 .. MaxTime,
             Enqueue(j, limit, at)
      PROVE  RowInv'
  <2>1. row[j].status = "absent"
    BY <1>1 DEF Enqueue
  <2>2. /\ row'[j] = [status |-> "pending", attempts |-> 0,
                      max_attempts |-> limit, run_at |-> at]
        /\ \A i \in Jobs : i # j => row'[i] = row[i]
        /\ UNCHANGED <<workerVars, lock>>
    BY <1>1 DEF Enqueue, SetRow, TypeOK
  <2>3. UNCHANGED <<now, loop, tasks, succeeded, starts, lock>>
    BY <2>2 DEF workerVars, historyVars
  <2>4. LockInv'
    BY <2>1, <2>2, <2>3 DEF RowInv, LockInv, Due, Waiting, TypeOK
  <2>5. TaskInv'
    BY <2>1, <2>2, <2>3
       DEF RowInv, TaskInv, TypeOK, WorkerTypeOK, Task
  <2>6. CountInv'
    <3>1. limit \in Nat /\ starts[j] = 0
      BY <2>1, LimitsAssumption
         DEF RowInv, CountInv, TypeOK, WorkerTypeOK
    <3> QED
      BY <2>2, <2>3, <3>1 DEF RowInv, CountInv, Limit, Waiting
  <2>7. DoneInv' /\ SucceededNeverReruns' /\ ExclusiveExecution'
    BY <2>1, <2>2, <2>3
       DEF RowInv, DoneInv, SucceededNeverReruns, ExclusiveExecution,
           TypeOK, WorkerTypeOK
  <2> QED
    BY <2>4, <2>5, <2>6, <2>7 DEF RowInv
<1>2. ASSUME NEW w \in Workers, SeeShutdown(w) \/ TakePermit(w) \/ DrainDone(w),
             UNCHANGED <<row, lock>>
      PROVE  RowInv'
  <2>1. /\ lock[w] = NoRow
        /\ \E state : GoTo(w, state)
        /\ UNCHANGED <<now, tasks, succeeded, starts>>
    BY <1>0, <1>2 DEF SeeShutdown, TakePermit, DrainDone, historyVars
  <2>2. LockInv'
    BY <1>2, <2>1, LoopMove
  <2> QED
    BY <1>2, <2>1, <2>2, LoopFrame DEF RowInv
<1>3. ASSUME NEW w \in Workers, NEW j \in Jobs, SelectRow(w, j)
      PROVE  RowInv'
  <2>1. /\ loop[w] = "dequeue" /\ Due(j) /\ \A v \in Workers : lock[v] # j
        /\ lock' = [lock EXCEPT ![w] = j]
        /\ UNCHANGED <<now, loop, tasks, succeeded, starts, row>>
    BY <1>3 DEF SelectRow, Selectable, Locked, workerVars, historyVars
  <2>2. LockInv'
    BY <2>1 DEF RowInv, LockInv, Due, Waiting, TypeOK
  <2> QED
    BY <2>1, <2>2, LoopFrame DEF RowInv
<1>4. ASSUME NEW w \in Workers, NothingDequeued(w), UNCHANGED row,
             lock' = [lock EXCEPT ![w] = NoRow]
      PROVE  RowInv'
  <2>1. GoTo(w, "top") /\ UNCHANGED <<now, tasks, succeeded, starts>>
    BY <1>4 DEF NothingDequeued, historyVars
  <2>2. LockInv'
    BY <1>4, <2>1, LockDrop
  <2> QED
    BY <1>4, <2>1, <2>2, LoopFrame DEF RowInv
<1>5. ASSUME NEW w \in Workers, SelectNone(w)
      PROVE  RowInv'
  <2>1. lock' = [lock EXCEPT ![w] = NoRow]
    BY <1>5 DEF SelectNone, TypeOK
  <2> QED
    BY <1>4, <1>5, <2>1 DEF SelectNone
<1>6. ASSUME NEW w \in Workers, CommitDequeue(w)
      PROVE  RowInv'
  <2>0. PICK j \in Jobs : j = lock[w]
    BY <1>6 DEF CommitDequeue, MarkRunning
  <2> DEFINE new == [worker |-> w, job |-> j, attempts |-> row[j].attempts + 1,
                     max_attempts |-> row[j].max_attempts,
                     stage |-> "execute", retry_at |-> 0]
  <2>1. /\ MarkRunning(w)
        /\ GoTo(w, "top")
        /\ tasks' = tasks \cup {new}
        /\ starts' = [starts EXCEPT ![j] = @ + 1]
        /\ UNCHANGED <<now, succeeded>>
    BY <1>6, <2>0 DEF CommitDequeue, SpawnTask
  <2>2. /\ row[j] \in Row
        /\ row[j].run_at <= now
        /\ row[j].attempts < Limit(j)
        /\ j \notin succeeded
        /\ \A t \in tasks : t.job # j
    BY <2>0, LockedIsWaiting
  <2>3. /\ LockInv'
        /\ DoneInv'
        /\ \A t \in tasks : row'[t.job] = row[t.job]
        /\ \A i \in Jobs : i # j => row'[i] = row[i]
        /\ row'[j].status = "running"
        /\ row'[j].attempts = row[j].attempts + 1
        /\ row'[j].max_attempts = row[j].max_attempts
        /\ row'[j].run_at = row[j].run_at
    BY <2>0, <2>1, MarkRunningKeeps
  <2>4. /\ new.job = j /\ new.attempts = row[j].attempts + 1
        /\ new.max_attempts = row[j].max_attempts /\ new.stage = "execute"
    OBVIOUS
  <2> HIDE DEF new
  <2>5. TaskInv'
    BY <2>1, <2>2, <2>3, <2>4 DEF RowInv, TaskInv
  <2>6. ExclusiveExecution'
    BY <2>1, <2>2, <2>4 DEF RowInv, ExclusiveExecution
  <2>7. CountInv'
    <3>1. starts[j] <= row[j].attempts /\ starts[j] \in Nat
          /\ row[j].attempts \in Nat /\ row[j].max_attempts \in Nat
      BY <2>1, <2>2 DEF RowInv, CountInv, TypeOK, WorkerTypeOK, Row
    <3>2. starts'[j] = starts[j] + 1
          /\ \A i \in Jobs : i # j => starts'[i] = starts[i]
      BY <2>1 DEF TypeOK, WorkerTypeOK
    <3>3. ASSUME NEW i \in Jobs, i # j
          PROVE  /\ starts'[i] <= row'[i].attempts
                 /\ row'[i].attempts <= Limit(i)'
                 /\ row'[i].status = "absent" => row'[i].attempts = 0
                 /\ Waiting(i)' => row'[i].attempts < Limit(i)'
      BY <2>3, <3>2, <3>3 DEF RowInv, CountInv, Limit, Waiting
    <3>4. /\ starts'[j] <= row'[j].attempts
          /\ row'[j].attempts <= Limit(j)'
          /\ row'[j].status # "absent" /\ ~Waiting(j)'
      BY <2>2, <2>3, <3>1, <3>2 DEF Limit, Waiting
    <3> QED
      BY <3>3, <3>4 DEF CountInv
  <2>8. SucceededNeverReruns'
    BY <2>1, <2>2, <2>4 DEF RowInv, SucceededNeverReruns
  <2> QED
    BY <2>3, <2>5, <2>6, <2>7, <2>8 DEF RowInv
<1>7. ASSUME NEW w \in Workers, CommitWithoutEnvelope(w)
      PROVE  RowInv'
  <2>0. PICK j \in Jobs : j = lock[w]
    BY <1>7 DEF CommitWithoutEnvelope, MarkRunning
  <2>1. /\ MarkRunning(w)
        /\ GoTo(w, "top")
        /\ UNCHANGED <<now, tasks, succeeded, starts>>
    BY <1>7 DEF CommitWithoutEnvelope, NothingDequeued, historyVars
  <2>2. row[j] \in Row /\ row[j].attempts < Limit(j)
    BY <2>0, LockedIsWaiting
  <2>3. /\ LockInv'
        /\ DoneInv'
        /\ \A t \in tasks : row'[t.job] = row[t.job]
        /\ \A i \in Jobs : i # j => row'[i] = row[i]
        /\ row'[j].status = "running"
        /\ row'[j].attempts = row[j].attempts + 1
        /\ row'[j].max_attempts = row[j].max_attempts
    BY <2>0, <2>1, MarkRunningKeeps
  <2>4. TaskInv'
    BY <2>1, <2>3 DEF RowInv, TaskInv
  <2>5. CountInv'
    <3>1. starts[j] <= row[j].attempts /\ starts[j] \in Nat
          /\ row[j].attempts \in Nat /\ row[j].max_attempts \in Nat
      BY <2>1, <2>2 DEF RowInv, CountInv, TypeOK, WorkerTypeOK, Row
    <3>2. ASSUME NEW i \in Jobs, i # j
          PROVE  /\ starts'[i] <= row'[i].attempts
                 /\ row'[i].attempts <= Limit(i)'
                 /\ row'[i].status = "absent" => row'[i].attempts = 0
                 /\ Waiting(i)' => row'[i].attempts < Limit(i)'
      BY <2>1, <2>3, <3>2 DEF RowInv, CountInv, Limit, Waiting
    <3>3. /\ starts'[j] <= row'[j].attempts
          /\ row'[j].attempts <= Limit(j)'
          /\ row'[j].status # "absent" /\ ~Waiting(j)'
      BY <2>1, <2>2, <2>3, <3>1 DEF Limit, Waiting
    <3> QED
      BY <3>2, <3>3 DEF CountInv
  <2> QED
    BY <2>1, <2>3, <2>4, <2>5
       DEF RowInv, ExclusiveExecution, SucceededNeverReruns
<1>8. ASSUME NEW t \in tasks, HandlerOk(t), UNCHANGED <<row, lock>>
      PROVE  RowInv'
  <2>1. /\ t.stage = "execute" /\ t \in Task /\ t.job \in Jobs
        /\ Advance(t, "ack", 0)
        /\ succeeded' = succeeded \cup {t.job}
        /\ UNCHANGED <<now, loop, starts>>
    BY <1>8 DEF HandlerOk, TypeOK, WorkerTypeOK, Task
  <2>2. TaskInv' /\ ExclusiveExecution'
    BY <1>8, <2>1, AdvanceKeeps DEF Stage
  <2>3. DoneInv'
    BY <1>8, <2>1 DEF RowInv, DoneInv, TaskInv
  <2>4. SucceededNeverReruns'
    <3> DEFINE n == [t EXCEPT !.stage = "ack", !.retry_at = 0]
    <3>1. n.stage = "ack" /\ tasks' = (tasks \ {t}) \cup {n}
      BY <2>1 DEF Advance, Task
    <3> HIDE DEF n
    <3> QED
      BY <2>1, <3>1 DEF RowInv, SucceededNeverReruns, ExclusiveExecution
  <2> QED
    BY <1>8, <2>1, <2>2, <2>3, <2>4, LockFrame, CountFrame DEF RowInv
<1>9. ASSUME NEW t \in tasks, HandlerErr(t), UNCHANGED <<row, lock>>
      PROVE  RowInv'
  <2>1. /\ t.stage = "execute" /\ t \in Task
        /\ t.attempts \in Nat /\ t.max_attempts \in Nat
        /\ UNCHANGED <<now, loop, succeeded, starts>>
    BY <1>9 DEF HandlerErr, historyVars, TypeOK, WorkerTypeOK, Task
  <2>2. PICK stage \in {"retry", "fail"}, at \in Nat :
           /\ Advance(t, stage, at)
           /\ stage = "retry" => t.attempts < t.max_attempts
           /\ stage = "fail" => t.attempts >= t.max_attempts
    <3>1. now + Backoff(t.attempts) \in Nat
      BY <2>1, BackoffNat DEF TypeOK, WorkerTypeOK
    <3> QED
      BY <1>9, <2>1, <3>1 DEF HandlerErr
  <2>3. TaskInv' /\ ExclusiveExecution'
    BY <1>9, <2>1, <2>2, AdvanceKeeps DEF Stage
  <2>4. SucceededNeverReruns'
    <3> DEFINE n == [t EXCEPT !.stage = stage, !.retry_at = at]
    <3>1. n.job = t.job /\ tasks' = (tasks \ {t}) \cup {n}
      BY <2>1, <2>2 DEF Advance, Task
    <3>2. t.job \notin succeeded
      BY <2>1 DEF RowInv, SucceededNeverReruns
    <3> HIDE DEF n
    <3> QED
      BY <2>1, <3>1, <3>2 DEF RowInv, SucceededNeverReruns
  <2> QED
    BY <1>9, <2>1, <2>3, <2>4, LockFrame, CountFrame DEF RowInv, DoneInv
<1>10. ASSUME NEW t \in tasks, Acknowledge(t)
       PROVE  RowInv'
  <2> DEFINE r == [row[t.job] EXCEPT !.status = "completed"]
  <2>1. t.job \in Jobs /\ row[t.job] \in Row /\ t.stage = "ack"
    BY <1>10 DEF TypeOK, WorkerTypeOK, Task, Acknowledge
  <2>2. r \in Row /\ SetRow(t.job, r)
    BY <1>10, <2>1 DEF Acknowledge, SetStatus, SetRow, Row, Status, TypeOK
  <2>3. /\ r.status = "completed" /\ r.attempts = row[t.job].attempts
        /\ r.max_attempts = row[t.job].max_attempts
    BY <2>1 DEF Row
  <2> HIDE DEF r
  <2>4. FinishTask(t) /\ UNCHANGED <<lock, succeeded, starts>>
    BY <1>10 DEF Acknowledge, FinishTask, historyVars
  <2>5. /\ LockInv' /\ TaskInv' /\ ExclusiveExecution' /\ SucceededNeverReruns'
        /\ row'[t.job] = r
        /\ \A j \in Jobs : j # t.job => row'[j] = row[j]
    BY <2>2, <2>4, TaskWriteKeeps
  <2>6. CountInv' /\ DoneInv'
    BY <2>3, <2>4, <2>5
       DEF RowInv, CountInv, Limit, Waiting, DoneInv, TypeOK, WorkerTypeOK
  <2> QED
    BY <2>5, <2>6 DEF RowInv
<1>11. ASSUME NEW t \in tasks, FailRetry(t)
       PROVE  RowInv'
  <2> DEFINE r == [row[t.job] EXCEPT !.status = "retrying",
                                     !.run_at = t.retry_at]
  <2>1. /\ t.job \in Jobs /\ row[t.job] \in Row /\ t.stage = "retry"
        /\ t.attempts \in Nat /\ t.max_attempts \in Nat /\ t.retry_at \in Nat
    BY <1>11 DEF TypeOK, WorkerTypeOK, Task, FailRetry
  <2>2. r \in Row /\ SetRow(t.job, r)
    BY <1>11, <2>1 DEF FailRetry, Row, Status
  <2>3. /\ r.status = "retrying" /\ r.attempts = row[t.job].attempts
        /\ r.max_attempts = row[t.job].max_attempts
    BY <2>1 DEF Row
  <2> HIDE DEF r
  <2>4. FinishTask(t) /\ UNCHANGED <<lock, succeeded, starts>>
    BY <1>11 DEF FailRetry, FinishTask, historyVars
  <2>5. /\ LockInv' /\ TaskInv' /\ ExclusiveExecution' /\ SucceededNeverReruns'
        /\ row'[t.job] = r
        /\ \A j \in Jobs : j # t.job => row'[j] = row[j]
    BY <2>2, <2>4, TaskWriteKeeps
  <2>6. t.job \notin succeeded /\ row[t.job].attempts < Limit(t.job)
    BY <2>1 DEF RowInv, SucceededNeverReruns, TaskInv, Limit
  <2>7. CountInv'
    BY <2>3, <2>4, <2>5, <2>6 DEF RowInv, CountInv, Limit, Waiting
  <2>8. DoneInv'
    BY <2>4, <2>5, <2>6 DEF RowInv, DoneInv, TypeOK, WorkerTypeOK
  <2> QED
    BY <2>5, <2>7, <2>8 DEF RowInv
<1>12. ASSUME NEW t \in tasks, FailPermanently(t)
       PROVE  RowInv'
  <2> DEFINE r == [row[t.job] EXCEPT !.status = "failed"]
  <2>1. t.job \in Jobs /\ row[t.job] \in Row /\ t.stage = "fail"
    BY <1>12 DEF TypeOK, WorkerTypeOK, Task, FailPermanently
  <2>2. r \in Row /\ SetRow(t.job, r)
    BY <1>12, <2>1 DEF FailPermanently, SetStatus, SetRow, Row, Status, TypeOK
  <2>3. /\ r.status = "failed" /\ r.attempts = row[t.job].attempts
        /\ r.max_attempts = row[t.job].max_attempts
    BY <2>1 DEF Row
  <2> HIDE DEF r
  <2>4. FinishTask(t) /\ UNCHANGED <<lock, succeeded, starts>>
    BY <1>12 DEF FailPermanently, FinishTask, historyVars
  <2>5. /\ LockInv' /\ TaskInv' /\ ExclusiveExecution' /\ SucceededNeverReruns'
        /\ row'[t.job] = r
        /\ \A j \in Jobs : j # t.job => row'[j] = row[j]
    BY <2>2, <2>4, TaskWriteKeeps
  <2>6. CountInv'
    BY <2>3, <2>4, <2>5 DEF RowInv, CountInv, Limit, Waiting
  <2>7. DoneInv'
    BY <2>1, <2>4, <2>5
       DEF RowInv, DoneInv, SucceededNeverReruns, TypeOK, WorkerTypeOK
  <2> QED
    BY <2>5, <2>6, <2>7 DEF RowInv
<1>13. ASSUME NEW t \in tasks, FinishTask(t), UNCHANGED <<row, lock>>
       PROVE  RowInv'
  <2>1. tasks' \subseteq tasks /\ UNCHANGED <<now, loop, succeeded, starts>>
    BY <1>13 DEF FinishTask, historyVars
  <2> QED
    BY <1>13, <2>1, TasksShrink, CountFrame, LockFrame DEF RowInv
<1>14. ASSUME NEW w \in Workers, ProcessGone(w), Abort(w)
       PROVE  RowInv'
  <2>1. /\ tasks' \subseteq tasks
        /\ GoTo(w, "down")
        /\ lock' = [lock EXCEPT ![w] = NoRow]
        /\ UNCHANGED <<now, succeeded, starts, row>>
    BY <1>14 DEF ProcessGone, Abort, historyVars
  <2> QED
    BY <2>1, TasksShrink, CountFrame, LockDrop DEF RowInv
<1>15. ASSUME NEW w \in Workers, SignalShutdown(w), UNCHANGED <<row, lock>>
       PROVE  RowInv'
  <2>1. UNCHANGED <<now, loop, tasks, succeeded, starts>>
    BY <1>15 DEF SignalShutdown, historyVars
  <2> QED
    BY <1>15, <2>1, LockFrame, LoopFrame DEF RowInv
<1>16. ASSUME NEW w \in Workers, Restart(w), UNCHANGED <<row, lock>>
       PROVE  RowInv'
  <2>1. lock[w] = NoRow /\ GoTo(w, "top")
        /\ UNCHANGED <<now, tasks, succeeded, starts>>
    BY <1>0, <1>16 DEF Restart, Running, historyVars
  <2> QED
    BY <1>16, <2>1, LoopMove, LoopFrame DEF RowInv
<1>17. CASE Tick /\ UNCHANGED <<row, lock>>
  <2>1. now < now' /\ UNCHANGED <<loop, tasks, succeeded, starts, row, lock>>
        /\ now \in Nat /\ now' \in Nat
    BY <1>17 DEF Tick, historyVars, TypeOK, WorkerTypeOK
  <2>2. LockInv'
    BY <2>1 DEF RowInv, LockInv, Due, Waiting, TypeOK, Row
  <2>3. TaskInv'
    BY <2>1 DEF RowInv, TaskInv, TypeOK, WorkerTypeOK, Task, Row
  <2> QED
    BY <2>1, <2>2, <2>3, CountFrame
       DEF RowInv, ExclusiveExecution, DoneInv, SucceededNeverReruns
<1>18. CASE UNCHANGED vars
  <2>1. UNCHANGED <<now, loop, tasks, succeeded, starts, row, lock>>
    BY <1>18 DEF vars, workerVars, historyVars
  <2> QED
    BY <2>1, LockFrame, LoopFrame DEF RowInv
<1>19. ASSUME NEW w \in Workers, LoopStep(w) \/ LoopFault(w) \/ ProcessStep(w)
       PROVE  RowInv'
  <2>1. CASE LoopStep(w)
    BY <1>2, <1>3, <1>5, <1>6, <2>1 DEF LoopStep
  <2>2. CASE LoopFault(w)
    BY <1>4, <1>7, <1>14, <2>2 DEF LoopFault, DequeueError, Crash
  <2>3. CASE ProcessStep(w)
    BY <1>14, <1>15, <1>16, <2>3 DEF ProcessStep, InlineExit
  <2> QED
    BY <1>19, <2>1, <2>2, <2>3
<1>20. ASSUME NEW t \in tasks, TaskStep(t) \/ TaskFault(t)
       PROVE  RowInv'
  <2>1. CASE TaskStep(t)
    BY <1>8, <1>9, <1>10, <1>11, <1>12, <2>1 DEF TaskStep
  <2>2. CASE TaskFault(t)
    BY <1>13, <2>2 DEF TaskFault, ReportError, HandlerPanic
  <2> QED
    BY <1>20, <2>1, <2>2
<1> QED
  BY <1>1, <1>17, <1>18, <1>19, <1>20 DEF Next

-----------------------------------------------------------------------------
(***************************************************************************)
(* Permits.                                                                *)
(***************************************************************************)
LEMMA PermitStep == TypeOK /\ RowInv /\ PermitInv /\ [Next]_vars => PermitInv'
<1> SUFFICES ASSUME TypeOK, RowInv, PermitInv, [Next]_vars PROVE PermitInv'
  OBVIOUS
<1>0. WorkerTypeOK /\ ExclusiveExecution
  BY DEF TypeOK, RowInv
<1>1. ASSUME NEW j \in Jobs, NEW limit \in AttemptLimits, NEW at \in 0 .. MaxTime,
             Enqueue(j, limit, at)
      PROVE  PermitInv'
  BY <1>1, PermitFrame DEF Enqueue, workerVars
<1>2. ASSUME NEW w \in Workers, LoopStep(w)
      PROVE  PermitInv'
  <2>1. ASSUME NEW j \in Jobs, SelectRow(w, j)
        PROVE  PermitInv'
    BY <2>1, PermitFrame DEF SelectRow, workerVars
  <2>2. CASE CommitDequeue(w)
    <3>1. lock[w] \in Jobs
      BY <2>2 DEF CommitDequeue, MarkRunning
    <3>2. \A t \in tasks : t.job # lock[w]
      BY <3>1, LockedIsWaiting
    <3> QED
      BY <1>0, <2>2, <3>2, SpawnKeepsPermits DEF CommitDequeue
  <2>3. CASE SelectNone(w)
    BY <1>0, <2>3, LoopKeepsPermits DEF SelectNone
  <2>4. CASE SeeShutdown(w) \/ TakePermit(w) \/ DrainDone(w)
    BY <1>0, <2>4, LoopKeepsPermits
  <2> QED
    BY <1>2, <2>1, <2>2, <2>3, <2>4 DEF LoopStep
<1>3. ASSUME NEW w \in Workers, LoopFault(w)
      PROVE  PermitInv'
  <2>1. CASE DequeueError(w) \/ CommitWithoutEnvelope(w)
    BY <1>0, <2>1, LoopKeepsPermits DEF DequeueError, CommitWithoutEnvelope
  <2>2. CASE Crash(w)
    BY <1>0, <2>2, GoneKeepsPermits DEF Crash
  <2> QED
    BY <1>3, <2>1, <2>2 DEF LoopFault
<1>4. ASSUME NEW w \in Workers, ProcessStep(w)
      PROVE  PermitInv'
  <2>1. CASE SignalShutdown(w)
    BY <2>1, PermitFrame DEF SignalShutdown
  <2>2. CASE InlineExit(w)
    BY <1>0, <2>2, GoneKeepsPermits DEF InlineExit
  <2>3. CASE Restart(w)
    BY <1>0, <2>3, RestartKeepsPermits
  <2> QED
    BY <1>4, <2>1, <2>2, <2>3 DEF ProcessStep
<1>5. ASSUME NEW t \in tasks, FinishTask(t)
      PROVE  PermitInv'
  BY <1>0, <1>5, FinishKeepsPermits
<1>6. ASSUME NEW t \in tasks, TaskStep(t)
      PROVE  PermitInv'
  <2>1. CASE HandlerOk(t)
    BY <1>0, <2>1, AdvanceKeepsPermits DEF HandlerOk
  <2>2. CASE HandlerErr(t)
    <3>1. PICK stage, at : Advance(t, stage, at)
      BY <2>2 DEF HandlerErr
    <3> QED
      BY <1>0, <2>2, <3>1, AdvanceKeepsPermits DEF HandlerErr
  <2>3. CASE Acknowledge(t) \/ FailRetry(t) \/ FailPermanently(t)
    BY <1>5, <2>3 DEF Acknowledge, FailRetry, FailPermanently
  <2> QED
    BY <1>6, <2>1, <2>2, <2>3 DEF TaskStep
<1>7. ASSUME NEW t \in tasks, TaskFault(t)
      PROVE  PermitInv'
  BY <1>5, <1>7 DEF TaskFault, ReportError, HandlerPanic
<1>8. CASE Tick
  BY <1>8, PermitFrame DEF Tick
<1>9. CASE UNCHANGED vars
  BY <1>9, PermitFrame DEF vars, workerVars
<1>10. ASSUME NEW w \in Workers, LoopStep(w) \/ LoopFault(w) \/ ProcessStep(w)
       PROVE  PermitInv'
  BY <1>2, <1>3, <1>4, <1>10
<1>11. ASSUME NEW t \in tasks, TaskStep(t) \/ TaskFault(t)
       PROVE  PermitInv'
  BY <1>6, <1>7, <1>11
<1> QED
  BY <1>1, <1>8, <1>9, <1>10, <1>11 DEF Next

-----------------------------------------------------------------------------
(***************************************************************************)
(* The theorems.                                                           *)
(***************************************************************************)

\* The three parts of the inductive invariant together.
IInv == TypeOK /\ RowInv /\ PermitInv

\* Every reachable state satisfies the inductive invariant.
THEOREM Invariant == Spec => []IInv
<1>1. Init => IInv
  BY TypeInit, RowInvInit, PermitInit DEF IInv, Init
<1>2. IInv /\ [Next]_vars => IInv'
  BY TypeStep, RowInvStep, PermitStep DEF IInv
<1> QED
  BY <1>1, <1>2, PTL DEF Spec

\* No two tasks work on the same job at once, for any number of processes that
\* dequeue from the table: the row locks and SKIP LOCKED keep them apart.
THEOREM ExclusiveExecutionHolds == Spec => []ExclusiveExecution
<1>1. IInv => ExclusiveExecution
  BY DEF IInv, RowInv
<1> QED
  BY <1>1, Invariant, PTL

\* acknowledge and fail may write by id alone: the row of a task stays its own.
THEOREM TaskOwnsItsRowHolds == Spec => []TaskOwnsItsRow
<1>1. IInv => TaskOwnsItsRow
  BY DEF IInv, RowInv, TaskInv, TaskOwnsItsRow
<1> QED
  BY <1>1, Invariant, PTL

\* A job whose handler returned Ok is never executed again.
THEOREM SucceededNeverRerunsHolds == Spec => []SucceededNeverReruns
<1>1. IInv => SucceededNeverReruns
  BY DEF IInv, RowInv
<1> QED
  BY <1>1, Invariant, PTL

\* A handler is started at most max_attempts times, and once when that is 0.
THEOREM AttemptsBoundedHolds == Spec => []AttemptsBounded
<1>1. IInv => AttemptsBounded
  <2> SUFFICES ASSUME IInv, NEW j \in Jobs
               PROVE  starts[j] <= Limit(j)
    BY DEF AttemptsBounded, Limit
  <2>1. /\ starts[j] \in Nat /\ row[j].attempts \in Nat
        /\ row[j].max_attempts \in Nat
    BY DEF IInv, TypeOK, WorkerTypeOK, Row
  <2>2. starts[j] <= row[j].attempts /\ row[j].attempts <= Limit(j)
    BY DEF IInv, RowInv, CountInv
  <2> QED
    BY <2>1, <2>2 DEF Limit
<1> QED
  BY <1>1, Invariant, PTL

\* No handler runs before the run_at of its job.
THEOREM NeverEarlyHolds == Spec => []NeverEarly
<1>1. IInv => NeverEarly
  BY DEF IInv, RowInv, TaskInv, NeverEarly
<1> QED
  BY <1>1, Invariant, PTL

\* No path of the loop or of a task leaks a permit or returns it twice.
THEOREM PermitsConservedHolds == Spec => []PermitsConserved
<1>1. IInv => PermitsConserved
  BY DEF IInv, PermitInv
<1> QED
  BY <1>1, Invariant, PTL

\* A worker whose run has returned has no task left.
THEOREM StoppedIsDrainedHolds == Spec => []StoppedIsDrained
<1>1. IInv => StoppedIsDrained
  BY DEF IInv, PermitInv, StoppedIsDrained
<1> QED
  BY <1>1, Invariant, PTL

-----------------------------------------------------------------------------
(* The backend under its workers implements the abstract JobQueue and never *)
(* changes a settled row.  Both follow from the few steps that write a row  *)
(* at all.                                                                  *)

\* Writing one row changes the view of that job only.
LEMMA ViewWrite ==
    ASSUME NEW j \in Jobs, \A i \in Jobs : i # j => row'[i] = row[i]
    PROVE  QueueView' = [QueueView EXCEPT ![j] = ViewOf(j)']
<1>1. \A i \in Jobs : i # j => ViewOf(i)' = ViewOf(i)
  BY DEF ViewOf, PhaseOf, Counted, Waiting
<1> QED
  BY <1>1 DEF QueueView

\* What writes no row changes no view.
LEMMA ViewFrame == UNCHANGED row => UNCHANGED QueueView
BY DEF QueueView, ViewOf, PhaseOf, Counted, Waiting

-----------------------------------------------------------------------------
(* The steps that write a row.                                             *)

\* The insert of enqueue,
LEMMA EnqueueWrites ==
    ASSUME TypeOK, NEW j \in Jobs, NEW limit \in AttemptLimits,
           NEW at \in 0 .. MaxTime, Enqueue(j, limit, at)
    PROVE  Queue!enqueue(j, limit) /\ ~Settled(j)
           /\ \A i \in Jobs : i # j => row'[i] = row[i]
<1>1. /\ row[j].status = "absent"
      /\ row'[j] = [status |-> "pending", attempts |-> 0,
                    max_attempts |-> limit, run_at |-> at]
      /\ \A i \in Jobs : i # j => row'[i] = row[i]
  BY DEF Enqueue, SetRow, TypeOK
<1>2. ViewOf(j)' = [phase |-> "waiting", attempts |-> 0, max_attempts |-> limit]
  BY <1>1 DEF ViewOf, PhaseOf, Counted, Waiting
<1>3. QueueView[j].phase = "new"
  BY <1>1 DEF QueueView, ViewOf, PhaseOf, Waiting
<1>4. QueueView' = [QueueView EXCEPT ![j] = ViewOf(j)']
  BY <1>1, ViewWrite
<1>5. Queue!enqueue(j, limit)
  <2> HIDE DEF QueueView, ViewOf
  <2> QED
    BY <1>2, <1>3, <1>4 DEF Queue!enqueue, Queue!Become
<1> QED
  BY <1>1, <1>5 DEF Settled

\* the update of dequeue,
LEMMA MarkRunningWrites ==
    ASSUME TypeOK, RowInv, NEW w \in Workers, NEW state, MarkRunning(w),
           GoTo(w, state), UNCHANGED <<now, succeeded>>
    PROVE  /\ lock[w] \in Jobs
           /\ Queue!dequeue(lock[w]) /\ ~Settled(lock[w])
           /\ \A i \in Jobs : i # lock[w] => row'[i] = row[i]
<1>0. PICK j \in Jobs : j = lock[w]
  BY DEF MarkRunning
<1>1. Waiting(j)
  BY <1>0, NoRowAssumption DEF RowInv, LockInv, Due
<1>2. /\ \A i \in Jobs : i # j => row'[i] = row[i]
      /\ row'[j].status = "running"
      /\ row'[j].attempts = row[j].attempts + 1
      /\ row'[j].max_attempts = row[j].max_attempts
  BY <1>0, MarkRunningKeeps
<1>3. QueueView[j] = [phase |-> "waiting", attempts |-> row[j].attempts,
                      max_attempts |-> row[j].max_attempts]
  BY <1>1 DEF QueueView, ViewOf, PhaseOf, Counted, Waiting
<1>4. ViewOf(j)' = [phase |-> "running", attempts |-> row[j].attempts + 1,
                    max_attempts |-> row[j].max_attempts]
  BY <1>2 DEF ViewOf, PhaseOf, Counted, Waiting
<1>5. QueueView' = [QueueView EXCEPT ![j] = ViewOf(j)']
  BY <1>2, ViewWrite
<1>6. Queue!dequeue(j)
  <2> HIDE DEF QueueView, ViewOf
  <2> QED
    BY <1>3, <1>4, <1>5 DEF Queue!dequeue, Queue!Become
<1> QED
  BY <1>0, <1>1, <1>2, <1>6 DEF Settled, Waiting

\* A task writes the row of its own job, which is running and not settled.
LEMMA TaskWrites ==
    ASSUME TypeOK, RowInv, NEW t \in tasks, NEW r \in Row, SetRow(t.job, r)
    PROVE  /\ t.job \in Jobs /\ ~Settled(t.job)
           /\ \A i \in Jobs : i # t.job => row'[i] = row[i]
           /\ row'[t.job] = r
           /\ QueueView[t.job] = [phase |-> "running", attempts |-> t.attempts,
                                  max_attempts |-> t.max_attempts]
           /\ QueueView' = [QueueView EXCEPT ![t.job] = ViewOf(t.job)']
<1>1. /\ t.job \in Jobs
      /\ row[t.job].status = "running" /\ row[t.job].attempts = t.attempts
      /\ row[t.job].max_attempts = t.max_attempts
  BY DEF TypeOK, WorkerTypeOK, Task, RowInv, TaskInv
<1>2. row'[t.job] = r /\ \A i \in Jobs : i # t.job => row'[i] = row[i]
  BY <1>1 DEF SetRow, TypeOK
<1>3. QueueView[t.job] = [phase |-> "running", attempts |-> t.attempts,
                          max_attempts |-> t.max_attempts]
  BY <1>1 DEF QueueView, ViewOf, PhaseOf, Counted, Waiting
<1> QED
  BY <1>1, <1>2, <1>3, ViewWrite DEF Settled

\* that of acknowledge,
LEMMA AcknowledgeWrites ==
    ASSUME TypeOK, RowInv, NEW t \in tasks, Acknowledge(t)
    PROVE  /\ t.job \in Jobs /\ Queue!acknowledge(t.job) /\ ~Settled(t.job)
           /\ \A i \in Jobs : i # t.job => row'[i] = row[i]
<1> DEFINE r == [row[t.job] EXCEPT !.status = "completed"]
<1>1. r \in Row /\ SetRow(t.job, r)
  BY DEF Acknowledge, SetStatus, SetRow, Row, Status, TypeOK, WorkerTypeOK, Task
<1>2. r.status = "completed"
  BY DEF TypeOK, WorkerTypeOK, Task, Row
<1> HIDE DEF r
<1>3. /\ t.job \in Jobs /\ ~Settled(t.job)
      /\ \A i \in Jobs : i # t.job => row'[i] = row[i]
      /\ row'[t.job] = r
      /\ QueueView[t.job] = [phase |-> "running", attempts |-> t.attempts,
                             max_attempts |-> t.max_attempts]
      /\ QueueView' = [QueueView EXCEPT ![t.job] = ViewOf(t.job)']
  BY <1>1, TaskWrites
<1>4. ViewOf(t.job)' = [phase |-> "completed", attempts |-> 0, max_attempts |-> 0]
  BY <1>2, <1>3 DEF ViewOf, PhaseOf, Counted, Waiting
<1>5. Queue!acknowledge(t.job)
  <2> HIDE DEF QueueView, ViewOf
  <2> QED
    BY <1>3, <1>4 DEF Queue!acknowledge, Queue!Blank
<1> QED
  BY <1>3, <1>5

\* of fail with a retry_at,
LEMMA RetryWrites ==
    ASSUME TypeOK, RowInv, NEW t \in tasks, FailRetry(t)
    PROVE  /\ t.job \in Jobs /\ Queue!reschedule(t.job) /\ ~Settled(t.job)
           /\ \A i \in Jobs : i # t.job => row'[i] = row[i]
<1> DEFINE r == [row[t.job] EXCEPT !.status = "retrying", !.run_at = t.retry_at]
<1>1. r \in Row /\ SetRow(t.job, r)
  BY DEF FailRetry, Row, Status, TypeOK, WorkerTypeOK, Task
<1>2. /\ r.status = "retrying" /\ r.attempts = t.attempts
      /\ r.max_attempts = t.max_attempts
  BY DEF TypeOK, WorkerTypeOK, Task, Row, RowInv, TaskInv
<1>3. t.attempts < t.max_attempts
  BY DEF FailRetry, RowInv, TaskInv
<1> HIDE DEF r
<1>4. /\ t.job \in Jobs /\ ~Settled(t.job)
      /\ \A i \in Jobs : i # t.job => row'[i] = row[i]
      /\ row'[t.job] = r
      /\ QueueView[t.job] = [phase |-> "running", attempts |-> t.attempts,
                             max_attempts |-> t.max_attempts]
      /\ QueueView' = [QueueView EXCEPT ![t.job] = ViewOf(t.job)']
  BY <1>1, TaskWrites
<1>5. ViewOf(t.job)' = [phase |-> "waiting", attempts |-> t.attempts,
                        max_attempts |-> t.max_attempts]
  BY <1>2, <1>4 DEF ViewOf, PhaseOf, Counted, Waiting
<1>6. Queue!reschedule(t.job)
  <2> HIDE DEF QueueView, ViewOf
  <2> QED
    BY <1>3, <1>4, <1>5 DEF Queue!reschedule, Queue!Become
<1> QED
  BY <1>4, <1>6

\* and of fail without one.
LEMMA GiveUpWrites ==
    ASSUME TypeOK, RowInv, NEW t \in tasks, FailPermanently(t)
    PROVE  /\ t.job \in Jobs /\ Queue!giveUp(t.job) /\ ~Settled(t.job)
           /\ \A i \in Jobs : i # t.job => row'[i] = row[i]
<1> DEFINE r == [row[t.job] EXCEPT !.status = "failed"]
<1>1. r \in Row /\ SetRow(t.job, r)
  BY DEF FailPermanently, SetStatus, SetRow, Row, Status, TypeOK, WorkerTypeOK, Task
<1>2. r.status = "failed"
  BY DEF TypeOK, WorkerTypeOK, Task, Row
<1>3. t.attempts >= t.max_attempts
  BY DEF FailPermanently, RowInv, TaskInv
<1> HIDE DEF r
<1>4. /\ t.job \in Jobs /\ ~Settled(t.job)
      /\ \A i \in Jobs : i # t.job => row'[i] = row[i]
      /\ row'[t.job] = r
      /\ QueueView[t.job] = [phase |-> "running", attempts |-> t.attempts,
                             max_attempts |-> t.max_attempts]
      /\ QueueView' = [QueueView EXCEPT ![t.job] = ViewOf(t.job)']
  BY <1>1, TaskWrites
<1>5. ViewOf(t.job)' = [phase |-> "failed", attempts |-> 0, max_attempts |-> 0]
  BY <1>2, <1>4 DEF ViewOf, PhaseOf, Counted, Waiting
<1>6. Queue!giveUp(t.job)
  <2> HIDE DEF QueueView, ViewOf
  <2> QED
    BY <1>3, <1>4, <1>5 DEF Queue!giveUp, Queue!Blank
<1> QED
  BY <1>4, <1>6

-----------------------------------------------------------------------------
(* Every step.                                                             *)

\* A step of the queue that writes at most the row of one unsettled job.
Write ==
    \E j \in Jobs :
        /\ \/ \E limit \in AttemptLimits : Queue!enqueue(j, limit)
           \/ Queue!dequeue(j)
           \/ Queue!acknowledge(j)
           \/ Queue!reschedule(j)
           \/ Queue!giveUp(j)
        /\ ~Settled(j)
        /\ \A i \in Jobs : i # j => row'[i] = row[i]

\* No other step writes a row.
LEMMA StepWrites == IInv /\ [Next]_vars => Write \/ UNCHANGED row
<1> SUFFICES ASSUME IInv, [Next]_vars PROVE Write \/ UNCHANGED row
  OBVIOUS
<1>0. TypeOK /\ RowInv
  BY DEF IInv
<1>1. ASSUME NEW j \in Jobs, NEW limit \in AttemptLimits, NEW at \in 0 .. MaxTime,
             Enqueue(j, limit, at)
      PROVE  Write
  <2>1. Queue!enqueue(j, limit) /\ ~Settled(j)
        /\ \A i \in Jobs : i # j => row'[i] = row[i]
    BY <1>0, <1>1, EnqueueWrites
  <2> QED
    BY <2>1 DEF Write
<1>2. ASSUME NEW w \in Workers, NEW state, MarkRunning(w), GoTo(w, state),
             UNCHANGED <<now, succeeded>>
      PROVE  Write
  <2>1. /\ lock[w] \in Jobs
        /\ Queue!dequeue(lock[w]) /\ ~Settled(lock[w])
        /\ \A i \in Jobs : i # lock[w] => row'[i] = row[i]
    BY <1>0, <1>2, MarkRunningWrites
  <2> QED
    BY <2>1 DEF Write
<1>3. ASSUME NEW w \in Workers, LoopStep(w)
      PROVE  Write \/ UNCHANGED row
  <2>1. CASE CommitDequeue(w)
    BY <1>2, <2>1 DEF CommitDequeue, SpawnTask
  <2>2. CASE SelectNone(w)
    BY <2>2 DEF SelectNone
  <2>3. ASSUME NEW j \in Jobs, SelectRow(w, j) PROVE UNCHANGED row
    BY <2>3 DEF SelectRow
  <2> QED
    BY <1>3, <2>1, <2>2, <2>3 DEF LoopStep
<1>4. ASSUME NEW w \in Workers, LoopFault(w)
      PROVE  Write \/ UNCHANGED row
  <2>1. CASE CommitWithoutEnvelope(w)
    BY <1>2, <2>1 DEF CommitWithoutEnvelope, NothingDequeued, historyVars
  <2> QED
    BY <1>4, <2>1 DEF LoopFault, DequeueError, Abort
<1>5. ASSUME NEW w \in Workers, ProcessStep(w)
      PROVE  UNCHANGED row
  BY <1>5 DEF ProcessStep, Abort
<1>6. ASSUME NEW t \in tasks, TaskStep(t)
      PROVE  Write \/ UNCHANGED row
  <2>1. CASE Acknowledge(t)
    BY <1>0, <2>1, AcknowledgeWrites DEF Write
  <2>2. CASE FailRetry(t)
    BY <1>0, <2>2, RetryWrites DEF Write
  <2>3. CASE FailPermanently(t)
    BY <1>0, <2>3, GiveUpWrites DEF Write
  <2> QED
    BY <1>6, <2>1, <2>2, <2>3 DEF TaskStep
<1>7. ASSUME NEW t \in tasks, TaskFault(t)
      PROVE  UNCHANGED row
  BY <1>7 DEF TaskFault, ReportError
<1>8. UNCHANGED vars => UNCHANGED row
  BY DEF vars
<1> QED
  BY <1>1, <1>3, <1>4, <1>5, <1>6, <1>7, <1>8 DEF Next

\* A row that is completed or failed is never written again, whatever tasks,
\* processes and statements fail: the writes of acknowledge and fail, which
\* name their row by id alone, only ever reach a running row.
THEOREM SettledIsFinalHolds == Spec => SettledIsFinal
<1>1. IInv /\ [Next]_vars
      => [\A j \in Jobs : Settled(j) => row'[j] = row[j]]_vars
  BY StepWrites DEF Write
<1> QED
  BY <1>1, Invariant, PTL DEF Spec, SettledIsFinal

\* The database backend under any number of worker processes, with every
\* fault, is a durable job queue: each step takes one job along the arrows of
\* JobQueue, or is invisible to it.
THEOREM Refinement == Spec => ImplementsJobQueue
<1>1. Init => Queue!Init
  BY DEF Init, AbsentRow, QueueView, ViewOf, PhaseOf, Counted, Waiting,
         Queue!Init, Queue!Blank
<1>2. IInv /\ [Next]_vars => [Queue!Next]_QueueView
  <2>1. Write => Queue!Next
    BY DEF Write, Queue!Next
  <2> QED
    BY <2>1, StepWrites, ViewFrame
<1> QED
  BY <1>1, <1>2, Invariant, PTL DEF Spec, ImplementsJobQueue, Queue!Spec
=============================================================================
