--------------------------- MODULE DatabaseQueue ---------------------------
(***************************************************************************)
(* The MySQL queue backend (infra/queue/backends/database.rs) under any    *)
(* number of worker processes.  Workers share nothing but the jobs table   *)
(* and its row locks; a dequeue is a transaction of several statements.    *)
(***************************************************************************)
EXTENDS Worker

CONSTANT NoRow      \* the absence of a locked row

ASSUME NoRowAssumption == NoRow \notin Jobs

VARIABLES
    row,    \* the jobs table: one row per job ever inserted
    lock    \* the row a dequeue transaction of each process has locked

vars == <<workerVars, row, lock>>

Status == {"absent", "pending", "running", "completed", "failed", "retrying"}
Row == [status: Status, attempts: Nat, max_attempts: Nat, run_at: Nat]

AbsentRow == [status |-> "absent", attempts |-> 0,
              max_attempts |-> 0, run_at |-> 0]

\* Mutant: the SELECT leaves the retries out.
WaitingUnlessRetried(j) == row[j].status = "pending"

Waiting(j) == row[j].status \in {"pending", "retrying"}
Settled(j) == row[j].status \in {"completed", "failed"}
Locked(j) == \E w \in Workers : lock[w] = j

SetRow(j, r) == row' = [row EXCEPT ![j] = r]
SetStatus(j, s) == row' = [row EXCEPT ![j].status = s]

Init ==
    /\ WorkerInit
    /\ row = [j \in Jobs |-> AbsentRow]
    /\ lock = [w \in Workers |-> NoRow]

-----------------------------------------------------------------------------
(* Dispatcher and enqueue: dispatch and dispatch_with_retries set run_at   *)
(* to the current time, dispatch_at to any time the caller likes.          *)

Enqueue(j, limit, at) ==
    /\ row[j].status = "absent"
    /\ SetRow(j, [status |-> "pending", attempts |-> 0,
                  max_attempts |-> limit, run_at |-> at])
    /\ UNCHANGED <<workerVars, lock>>

-----------------------------------------------------------------------------
(* dequeue: SELECT .. FOR UPDATE SKIP LOCKED, UPDATE, COMMIT.              *)

\* Mutant: the SELECT does not compare run_at.
DueAnyTime(j) == Waiting(j)

Due(j) == Waiting(j) /\ row[j].run_at <= now

\* Mutant: the SELECT neither locks nor skips locked rows.
SelectableUnlocked(j) == Due(j)

Selectable(j) == Due(j) /\ ~Locked(j)

\* the SELECT returns the earliest due row nobody has locked, and locks it
SelectRow(w, j) ==
    /\ loop[w] = "dequeue"
    /\ lock[w] = NoRow
    /\ Selectable(j)
    /\ \A k \in Jobs : Selectable(k) => row[j].run_at <= row[k].run_at
    /\ lock' = [lock EXCEPT ![w] = j]
    /\ UNCHANGED <<workerVars, row>>

\* the SELECT returns no row: rollback, Ok(None)
SelectNone(w) ==
    /\ lock[w] = NoRow
    /\ \A j \in Jobs : ~Selectable(j)
    /\ NothingDequeued(w)
    /\ UNCHANGED <<row, lock>>

\* Mutant: the UPDATE does not store the new attempt number.
MarkRunningUncounted(w) ==
    LET j == lock[w] IN
    /\ j \in Jobs
    /\ SetStatus(j, "running")
    /\ lock' = [lock EXCEPT ![w] = NoRow]

\* what the committed UPDATE leaves in the table
MarkRunning(w) ==
    LET j == lock[w] IN
    /\ j \in Jobs
    /\ SetRow(j, [row[j] EXCEPT !.status = "running",
                                !.attempts = row[j].attempts + 1])
    /\ lock' = [lock EXCEPT ![w] = NoRow]

\* UPDATE and COMMIT succeed and the row decodes: Ok(Some(envelope))
CommitDequeue(w) ==
    /\ MarkRunning(w)
    /\ SpawnTask(w, lock[w], row[lock[w]].attempts + 1,
                 row[lock[w]].max_attempts)

\* a statement of the transaction fails before it commits: rolled back, Err
DequeueError(w) ==
    /\ "db_error" \in Faults
    /\ lock' = [lock EXCEPT ![w] = NoRow]
    /\ NothingDequeued(w)
    /\ UNCHANGED row

\* the transaction commits, but its reply is lost or the row read before the
\* commit does not decode (job_type, payload, id): dequeue returns Err
CommitWithoutEnvelope(w) ==
    /\ "db_error" \in Faults
    /\ MarkRunning(w)
    /\ NothingDequeued(w)

-----------------------------------------------------------------------------
(* acknowledge and fail: one UPDATE by id, whatever the row's status.  The *)
(* worker only logs an error; an UPDATE whose reply is lost looks to the   *)
(* rest of the system like one that succeeded.                             *)

Acknowledge(t) ==
    /\ t.stage = "ack"
    /\ SetStatus(t.job, "completed")
    /\ FinishTask(t)
    /\ UNCHANGED lock

\* Mutant: a retry starts counting its attempts again.
FailRetryRecounts(t) ==
    /\ t.stage = "retry"
    /\ SetRow(t.job, [row[t.job] EXCEPT !.status = "retrying",
                                        !.attempts = 0,
                                        !.run_at = t.retry_at])
    /\ FinishTask(t)
    /\ UNCHANGED lock

FailRetry(t) ==
    /\ t.stage = "retry"
    /\ SetRow(t.job, [row[t.job] EXCEPT !.status = "retrying",
                                        !.run_at = t.retry_at])
    /\ FinishTask(t)
    /\ UNCHANGED lock

FailPermanently(t) ==
    /\ t.stage = "fail"
    /\ SetStatus(t.job, "failed")
    /\ FinishTask(t)
    /\ UNCHANGED lock

\* the UPDATE is not executed; the task logs the error and ends
ReportError(t) ==
    /\ "db_error" \in Faults
    /\ t.stage # "execute"
    /\ FinishTask(t)
    /\ UNCHANGED <<row, lock>>

-----------------------------------------------------------------------------
\* Mutant: the jobs a lost process was running are put back in the queue.
AbortRequeues(w) ==
    /\ lock' = [lock EXCEPT ![w] = NoRow]
    /\ row' = [j \in Jobs |->
                  IF \E t \in TasksOf(w) : t.job = j
                  THEN [row[j] EXCEPT !.status = "pending"] ELSE row[j]]

\* a process that goes away loses its connection, and with it its transaction
Abort(w) ==
    /\ lock' = [lock EXCEPT ![w] = NoRow]
    /\ UNCHANGED row

LoopStep(w) ==
    \/ (SeeShutdown(w) \/ TakePermit(w) \/ DrainDone(w)) /\ UNCHANGED <<row, lock>>
    \/ \E j \in Jobs : SelectRow(w, j)
    \/ SelectNone(w)
    \/ CommitDequeue(w)

TaskStep(t) ==
    \/ (HandlerOk(t) \/ HandlerErr(t)) /\ UNCHANGED <<row, lock>>
    \/ Acknowledge(t)
    \/ FailRetry(t)
    \/ FailPermanently(t)

LoopFault(w) ==
    \/ DequeueError(w)
    \/ CommitWithoutEnvelope(w)
    \/ Crash(w) /\ Abort(w)

TaskFault(t) ==
    \/ ReportError(t)
    \/ HandlerPanic(t) /\ UNCHANGED <<row, lock>>

ProcessStep(w) ==
    \/ SignalShutdown(w) /\ UNCHANGED <<row, lock>>
    \/ InlineExit(w) /\ Abort(w)
    \/ Restart(w) /\ UNCHANGED <<row, lock>>

Next ==
    \/ \E j \in Jobs, limit \in AttemptLimits, at \in 0 .. MaxTime :
          Enqueue(j, limit, at)
    \/ \E w \in Workers : LoopStep(w) \/ LoopFault(w) \/ ProcessStep(w)
    \/ \E t \in tasks : TaskStep(t) \/ TaskFault(t)
    \/ Tick /\ UNCHANGED <<row, lock>>

(***************************************************************************)
(* tokio keeps polling the loop and the job tasks, handlers return, time   *)
(* passes and a process that went away is started again.  Nothing obliges  *)
(* callers to enqueue, operators to stop a process, or faults to happen.   *)
(***************************************************************************)
Fairness ==
    /\ \A w \in Workers : WF_vars(LoopStep(w))
    /\ \A w \in Workers : WF_vars(Restart(w) /\ UNCHANGED <<row, lock>>)
    /\ \A j \in Jobs : WF_vars(\E t \in tasks : t.job = j /\ TaskStep(t))
    /\ WF_vars(Tick /\ UNCHANGED <<row, lock>>)

Spec == Init /\ [][Next]_vars
FairSpec == Spec /\ Fairness

-----------------------------------------------------------------------------
TypeOK ==
    /\ WorkerTypeOK
    /\ row \in [Jobs -> Row]
    /\ lock \in [Workers -> Jobs \cup {NoRow}]

\* The row of every task is still 'running' with the attempt number the task
\* was given.  acknowledge and fail rely on it: they write by id alone, with
\* no check of the row's status.
TaskOwnsItsRow ==
    \A t \in tasks : /\ row[t.job].status = "running"
                     /\ row[t.job].attempts = t.attempts

\* The handler of a job is started at most max_attempts times, and once when
\* the limit is 0, whatever statements, handlers and processes fail meanwhile.
AttemptsBounded ==
    \A j \in Jobs :
        starts[j] <= IF row[j].max_attempts = 0
                     THEN 1 ELSE row[j].max_attempts

\* No handler runs before the run_at of its job, be it the time the caller
\* asked for or the back-off of a retry.
NeverEarly == \A t \in tasks : t.stage = "execute" => row[t.job].run_at <= now

\* A row that reached 'completed' or 'failed' never changes again, in
\* particular no late write of another task overwrites it.
SettledIsFinal == [][\A j \in Jobs : Settled(j) => row'[j] = row[j]]_vars

\* Without faults every job that was enqueued ends completed or failed, unless
\* its next attempt lies beyond the modelled time.
EventuallySettled ==
    \A j \in Jobs : Waiting(j) ~> Settled(j) \/ row[j].run_at > MaxTime

\* "Jobs survive process restarts": a job whose worker died while it ran is
\* finished, one way or the other, by a later process.
Orphaned(j) ==
    row[j].status = "running" /\ \A t \in tasks : t.job # j

JobsSurviveRestarts == \A j \in Jobs : Orphaned(j) ~> Settled(j)

(***************************************************************************)
(* The table is a durable job queue in the sense of JobQueue.              *)
(***************************************************************************)
PhaseOf(j) ==
    CASE row[j].status = "absent" -> "new"
      [] Waiting(j)               -> "waiting"
      [] OTHER                    -> row[j].status

Counted(j) == Waiting(j) \/ row[j].status = "running"

ViewOf(j) ==
    [phase        |-> PhaseOf(j),
     attempts     |-> IF Counted(j) THEN row[j].attempts ELSE 0,
     max_attempts |-> IF Counted(j) THEN row[j].max_attempts ELSE 0]

QueueView == [j \in Jobs |-> ViewOf(j)]

Queue == INSTANCE JobQueue WITH Durable <- TRUE, job <- QueueView

\* Every step of the database backend under its workers, faults included, is a
\* step of the abstract queue or leaves it unchanged.
ImplementsJobQueue == Queue!Spec
=============================================================================
