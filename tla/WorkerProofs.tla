---------------------------- MODULE WorkerProofs ----------------------------
(***************************************************************************)
(* Lemmas about the worker's half of each step, for the proofs about the   *)
(* queue backends: the types of a task, and the accounting of permits.     *)
(***************************************************************************)
EXTENDS Worker, FiniteSetTheorems, TLAPS

\* The back-off is a number of seconds, whatever the power of two amounts to.
LEMMA BackoffNat == \A n \in Nat : Backoff(n) \in Nat
<1>1. \A d : (IF d \in 0 .. MaxDelay THEN d ELSE MaxDelay) \in Nat
  BY DelayAssumption
<1> QED
  BY <1>1 DEF Backoff

\* A job task that moves on to reporting keeps its type.
LEMMA AdvanceType ==
    ASSUME NEW t \in Task, NEW stage \in Stage, NEW at \in Nat
    PROVE  [t EXCEPT !.stage = stage, !.retry_at = at] \in Task
BY DEF Task

-----------------------------------------------------------------------------
(***************************************************************************)
(* Permits.  The accounting needs the tasks of a worker to be finitely     *)
(* many, and a worker that has returned or does not exist to have none: it *)
(* starts again with a full semaphore.                                     *)
(***************************************************************************)

PermitInv ==
    /\ IsFiniteSet(tasks)
    /\ PermitsConserved
    /\ \A w \in Workers : loop[w] \in {"stopped", "down"} => TasksOf(w) = {}

\* The tasks of one worker can be counted.
LEMMA TasksOfFinite ==
    ASSUME IsFiniteSet(tasks), NEW w \in Workers
    PROVE  IsFiniteSet(TasksOf(w)) /\ Cardinality(TasksOf(w)) \in Nat
<1>1. TasksOf(w) \subseteq tasks
  BY DEF TasksOf
<1> QED
  BY <1>1, FS_Subset, FS_CardinalityType

\* At the start every permit is free.
LEMMA PermitInit == WorkerInit => PermitInv
<1> SUFFICES ASSUME WorkerInit PROVE PermitInv
  OBVIOUS
<1>1. \A w \in Workers : TasksOf(w) = {}
  BY DEF WorkerInit, TasksOf
<1>2. IsFiniteSet(tasks) /\ Cardinality({}) = 0
  BY FS_EmptySet DEF WorkerInit
<1> QED
  BY <1>1, <1>2, ConcurrencyAssumption
     DEF WorkerInit, PermitInv, PermitsConserved, PermitHolders

\* A step that leaves permits, loops and tasks alone.
LEMMA PermitFrame ==
    ASSUME PermitInv, UNCHANGED <<permits, loop, tasks>>
    PROVE  PermitInv'
BY DEF PermitInv, PermitsConserved, PermitHolders, TasksOf

\* A step of one loop that leaves the tasks alone: what matters is that it
\* moves its own permit with it.
LEMMA LoopStepKeepsPermits ==
    ASSUME WorkerTypeOK, PermitInv, NEW w \in Workers, NEW state \in LoopState,
           GoTo(w, state), UNCHANGED tasks,
           \A v \in Workers : v # w => permits'[v] = permits[v],
           state # "down" =>
               permits'[w] + Cardinality(TasksOf(w))
                   + (IF state = "dequeue" THEN 1 ELSE 0) = Concurrency,
           state \in {"stopped", "down"} => TasksOf(w) = {},
           permits' \in [Workers -> Nat]
    PROVE  PermitInv'
<1>1. /\ loop'[w] = state
      /\ \A v \in Workers : v # w => loop'[v] = loop[v]
      /\ \A v \in Workers : TasksOf(v)' = TasksOf(v)
  BY DEF GoTo, WorkerTypeOK, TasksOf
<1>2. \A v \in Workers : Cardinality(TasksOf(v)) \in Nat
  BY TasksOfFinite DEF PermitInv
<1>3. PermitsConserved'
  BY <1>1, <1>2
     DEF PermitInv, PermitsConserved, PermitHolders, WorkerTypeOK
<1> QED
  BY <1>1, <1>3 DEF PermitInv

\* The turns of the loop that spawn no task keep the count.
LEMMA LoopKeepsPermits ==
    ASSUME WorkerTypeOK, PermitInv, NEW w \in Workers,
           \/ SeeShutdown(w) \/ TakePermit(w)
           \/ NothingDequeued(w) \/ DrainDone(w)
    PROVE  PermitInv'
<1> DEFINE n == Cardinality(TasksOf(w))
<1>1. /\ n \in Nat /\ permits[w] \in Nat
      /\ TasksOf(w) = {} <=> n = 0
  <2>1. TasksOf(w) = {} <=> n = 0
    BY TasksOfFinite, FS_EmptySet DEF PermitInv
  <2> QED
    BY <2>1, TasksOfFinite DEF PermitInv, WorkerTypeOK
<1>2. loop[w] # "down" =>
         permits[w] + n + (IF loop[w] = "dequeue" THEN 1 ELSE 0) = Concurrency
  BY <1>1 DEF PermitInv, PermitsConserved, PermitHolders
<1> HIDE DEF n
<1>3. CASE SeeShutdown(w)
  BY <1>1, <1>2, <1>3, LoopStepKeepsPermits
     DEF SeeShutdown, WorkerTypeOK, LoopState, n
<1>4. CASE TakePermit(w)
  BY <1>1, <1>2, <1>4, LoopStepKeepsPermits
     DEF TakePermit, WorkerTypeOK, LoopState, n
<1>5. CASE NothingDequeued(w)
  BY <1>1, <1>2, <1>5, LoopStepKeepsPermits
     DEF NothingDequeued, ReleasePermit, WorkerTypeOK, LoopState, n
<1>6. CASE DrainDone(w)
  BY <1>1, <1>2, <1>6, LoopStepKeepsPermits
     DEF DrainDone, WorkerTypeOK, LoopState, n
<1> QED
  BY <1>3, <1>4, <1>5, <1>6

\* The spawned task owns the permit the loop held: this needs the task to be a
\* new one.
LEMMA SpawnKeepsPermits ==
    ASSUME WorkerTypeOK, PermitInv, NEW w \in Workers, NEW j, NEW a, NEW m,
           SpawnTask(w, j, a, m), \A t \in tasks : t.job # j
    PROVE  PermitInv'
<1> DEFINE new == [worker |-> w, job |-> j, attempts |-> a, max_attempts |-> m,
                   stage |-> "execute", retry_at |-> 0]
<1>1. /\ new.worker = w /\ new.job = j
      /\ tasks' = tasks \cup {new}
      /\ loop[w] = "dequeue" /\ GoTo(w, "top") /\ UNCHANGED permits
  BY DEF SpawnTask
<1> HIDE DEF new
<1>2. /\ TasksOf(w)' = TasksOf(w) \cup {new} /\ new \notin TasksOf(w)
      /\ \A v \in Workers : v # w => TasksOf(v)' = TasksOf(v)
  BY <1>1 DEF TasksOf
<1>3. IsFiniteSet(TasksOf(w)) /\ Cardinality(TasksOf(w)) \in Nat
  BY TasksOfFinite DEF PermitInv
<1>4. Cardinality(TasksOf(w)') = Cardinality(TasksOf(w)) + 1
  BY <1>2, <1>3, FS_AddElement
<1>5. IsFiniteSet(tasks')
  BY <1>1, FS_AddElement DEF PermitInv
<1>6. loop'[w] = "top" /\ \A v \in Workers : v # w => loop'[v] = loop[v]
  BY <1>1 DEF GoTo, WorkerTypeOK
<1>7. ASSUME NEW v \in Workers, loop'[v] # "down"
      PROVE  permits'[v] + PermitHolders(v)' = Concurrency
  <2>1. CASE v = w
    BY <1>1, <1>3, <1>4, <1>6, <2>1
       DEF PermitInv, PermitsConserved, PermitHolders, WorkerTypeOK
  <2>2. CASE v # w
    BY <1>1, <1>2, <1>6, <1>7, <2>2
       DEF PermitInv, PermitsConserved, PermitHolders
  <2> QED
    BY <2>1, <2>2
<1>8. \A v \in Workers : loop'[v] \in {"stopped", "down"} => TasksOf(v)' = {}
  BY <1>2, <1>6 DEF PermitInv
<1> QED
  BY <1>5, <1>7, <1>8 DEF PermitInv, PermitsConserved

\* A task that moves on is still one task.
LEMMA AdvanceKeepsPermits ==
    ASSUME WorkerTypeOK, PermitInv, ExclusiveExecution,
           NEW t \in tasks, NEW stage, NEW at,
           Advance(t, stage, at), UNCHANGED <<permits, loop>>
    PROVE  PermitInv'
<1> DEFINE n == [t EXCEPT !.stage = stage, !.retry_at = at]
           w == t.worker
<1>1. w \in Workers /\ n.worker = w /\ n.job = t.job
  BY DEF WorkerTypeOK, Task
<1>2. tasks' = (tasks \ {t}) \cup {n}
  BY DEF Advance
<1> HIDE DEF n
<1>3. n \notin tasks \ {t}
  BY <1>1 DEF ExclusiveExecution
<1>4. /\ TasksOf(w)' = (TasksOf(w) \ {t}) \cup {n}
      /\ t \in TasksOf(w) /\ n \notin TasksOf(w) \ {t}
      /\ \A v \in Workers : v # w => TasksOf(v)' = TasksOf(v)
  BY <1>1, <1>2, <1>3 DEF TasksOf
<1>5. IsFiniteSet(TasksOf(w)) /\ Cardinality(TasksOf(w)) \in Nat
  BY <1>1, TasksOfFinite DEF PermitInv
<1>6. Cardinality(TasksOf(w)') = Cardinality(TasksOf(w))
  <2>1. /\ IsFiniteSet(TasksOf(w) \ {t})
        /\ Cardinality(TasksOf(w) \ {t}) = Cardinality(TasksOf(w)) - 1
    BY <1>4, <1>5, FS_RemoveElement
  <2>2. Cardinality((TasksOf(w) \ {t}) \cup {n})
           = Cardinality(TasksOf(w) \ {t}) + 1
    BY <1>4, <2>1, FS_AddElement
  <2> QED
    BY <1>4, <1>5, <2>1, <2>2
<1>7. IsFiniteSet(tasks')
  BY <1>2, FS_AddElement, FS_RemoveElement DEF PermitInv
<1>8. \A v \in Workers : PermitHolders(v)' = PermitHolders(v)
  BY <1>4, <1>6 DEF PermitHolders
<1>9. \A v \in Workers : loop'[v] \in {"stopped", "down"} => TasksOf(v)' = {}
  BY <1>1, <1>4 DEF PermitInv
<1> QED
  BY <1>7, <1>8, <1>9 DEF PermitInv, PermitsConserved

\* A finished task returns the one permit it held.
LEMMA FinishKeepsPermits ==
    ASSUME WorkerTypeOK, PermitInv, NEW t \in tasks, FinishTask(t)
    PROVE  PermitInv'
<1> DEFINE w == t.worker
<1>1. w \in Workers
  BY DEF WorkerTypeOK, Task
<1>2. /\ tasks' = tasks \ {t} /\ UNCHANGED loop
      /\ permits'[w] = permits[w] + 1
      /\ \A v \in Workers : v # w => permits'[v] = permits[v]
  BY <1>1 DEF FinishTask, ReleasePermit, WorkerTypeOK
<1>3. /\ TasksOf(w)' = TasksOf(w) \ {t} /\ t \in TasksOf(w)
      /\ \A v \in Workers : v # w => TasksOf(v)' = TasksOf(v)
  BY <1>1, <1>2 DEF TasksOf
<1>4. IsFiniteSet(TasksOf(w)) /\ Cardinality(TasksOf(w)) \in Nat
  BY <1>1, TasksOfFinite DEF PermitInv
<1>5. Cardinality(TasksOf(w)') = Cardinality(TasksOf(w)) - 1
  BY <1>3, <1>4, FS_RemoveElement
<1>6. IsFiniteSet(tasks')
  BY <1>2, FS_RemoveElement DEF PermitInv
<1>7. ASSUME NEW v \in Workers, loop'[v] # "down"
      PROVE  permits'[v] + PermitHolders(v)' = Concurrency
  <2>1. permits[v] \in Nat /\ permits[v] + PermitHolders(v) = Concurrency
    BY <1>2, <1>7 DEF PermitInv, PermitsConserved, WorkerTypeOK
  <2>2. CASE v = w
    BY <1>2, <1>4, <1>5, <2>1, <2>2 DEF PermitHolders
  <2>3. CASE v # w
    BY <1>2, <1>3, <2>1, <2>3 DEF PermitHolders
  <2> QED
    BY <2>2, <2>3
<1>8. \A v \in Workers : loop'[v] \in {"stopped", "down"} => TasksOf(v)' = {}
  BY <1>2 DEF PermitInv, TasksOf
<1> QED
  BY <1>6, <1>7, <1>8 DEF PermitInv, PermitsConserved

\* A process that goes away takes its tasks with it, and no others.
LEMMA GoneKeepsPermits ==
    ASSUME WorkerTypeOK, PermitInv, NEW w \in Workers, ProcessGone(w)
    PROVE  PermitInv'
<1>1. /\ tasks' = tasks \ TasksOf(w) /\ UNCHANGED permits
      /\ loop'[w] = "down"
      /\ \A v \in Workers : v # w => loop'[v] = loop[v]
  BY DEF ProcessGone, GoTo, WorkerTypeOK
<1>2. /\ TasksOf(w)' = {}
      /\ \A v \in Workers : v # w => TasksOf(v)' = TasksOf(v)
  BY <1>1 DEF TasksOf
<1>3. IsFiniteSet(tasks')
  BY <1>1, FS_Subset DEF PermitInv
<1>4. PermitsConserved'
  BY <1>1, <1>2 DEF PermitInv, PermitsConserved, PermitHolders
<1> QED
  BY <1>1, <1>2, <1>3, <1>4 DEF PermitInv

\* A process starts with a full semaphore, which is right because it has no
\* task from its former life.
LEMMA RestartKeepsPermits ==
    ASSUME WorkerTypeOK, PermitInv, NEW w \in Workers, Restart(w)
    PROVE  PermitInv'
<1>1. TasksOf(w) = {} /\ Cardinality(TasksOf(w)) = 0
  BY FS_EmptySet DEF Restart, Running, PermitInv, WorkerTypeOK, LoopState
<1>2. /\ GoTo(w, "top") /\ UNCHANGED tasks
      /\ permits' = [permits EXCEPT ![w] = Concurrency]
  BY DEF Restart
<1> QED
  BY <1>1, <1>2, LoopStepKeepsPermits, ConcurrencyAssumption
     DEF WorkerTypeOK, LoopState
=============================================================================
