------------------------------- MODULE Worker -------------------------------
(***************************************************************************)
(* The job worker (infra/queue/worker.rs): a polling loop per process that *)
(* takes a semaphore permit, asks the backend for a job and hands permit   *)
(* and envelope to a spawned task, which runs the handler and reports the  *)
(* result to the backend.                                                  *)
(*                                                                         *)
(* The operators below are the worker's half of each step.  A backend      *)
(* module EXTENDS this one and conjoins the half that touches its storage, *)
(* so that a step of the system is one action.                             *)
(***************************************************************************)
EXTENDS Integers, FiniteSets

CONSTANTS
    Jobs,           \* identities a JobEnvelope may carry (Uuid)
    Workers,        \* operating system processes that run the worker loop
    Inline,         \* those where main.rs runs it beside the HTTP server
    Stoppable,      \* those that may get a ctrl-c
    Concurrency,    \* worker.concurrency: permits of one worker
    RetryDelay,     \* queue.retry_delay_seconds
    MaxDelay,       \* cap of the exponential back-off (3600 s)
    AttemptLimits,  \* values of max_attempts that dispatchers pass
    MaxTime,        \* bound: the clock of the model stops here
    Faults          \* faults that may happen: see FaultKinds

FaultKinds == {"crash", "panic", "db_error"}

ASSUME ConcurrencyAssumption == Concurrency \in Nat \ {0}
ASSUME DelayAssumption == RetryDelay \in Nat /\ MaxDelay \in Nat
ASSUME LimitsAssumption == AttemptLimits \subseteq Nat
ASSUME TimeAssumption == MaxTime \in Nat
ASSUME InlineAssumption == Inline \subseteq Workers /\ Stoppable \subseteq Workers
ASSUME FaultsAssumption == Faults \subseteq FaultKinds

VARIABLES
    now,        \* the wall clock, which the processes and the database share
    loop,       \* where Worker::run of each process is
    permits,    \* free permits of each process' semaphore
    shutdown,   \* the shutdown message is in the process' broadcast channel
    tasks,      \* spawned job tasks that have not finished
    succeeded,  \* history: jobs whose handler has returned Ok
    starts      \* history: how often the handler of each job was started

historyVars == <<succeeded, starts>>
workerVars == <<now, loop, permits, shutdown, tasks, historyVars>>

(***************************************************************************)
(* "top"      head of the loop: about to look at the shutdown channel      *)
(* "dequeue"  holds a permit, awaiting backend.dequeue()                   *)
(* "drain"    shutdown seen, awaiting acquire_many(concurrency)            *)
(* "stopped"  run has returned                                             *)
(* "down"     the process does not exist                                   *)
(***************************************************************************)
LoopState == {"top", "dequeue", "drain", "stopped", "down"}

(***************************************************************************)
(* "execute"  in the handler                                               *)
(* "ack"      handler returned Ok, awaiting backend.acknowledge            *)
(* "retry"    it returned Err, awaiting backend.fail(.., Some(retry_at))   *)
(* "fail"     it returned Err, awaiting backend.fail(.., None)             *)
(* "resend"   inside fail, awaiting the re-enqueue (channel backend only)  *)
(***************************************************************************)
Stage == {"execute", "ack", "retry", "fail", "resend"}

Task == [worker: Workers, job: Jobs, attempts: Nat, max_attempts: Nat,
         stage: Stage, retry_at: Nat]

WorkerTypeOK ==
    /\ now \in Nat
    /\ loop \in [Workers -> LoopState]
    /\ permits \in [Workers -> Nat]
    /\ shutdown \in [Workers -> BOOLEAN]
    /\ tasks \subseteq Task
    /\ succeeded \subseteq Jobs
    /\ starts \in [Jobs -> Nat]

WorkerInit ==
    /\ now = 0
    /\ loop = [w \in Workers |-> "top"]
    /\ permits = [w \in Workers |-> Concurrency]
    /\ shutdown = [w \in Workers |-> FALSE]
    /\ tasks = {}
    /\ succeeded = {}
    /\ starts = [j \in Jobs |-> 0]

TasksOf(w) == {t \in tasks : t.worker = w}

(***************************************************************************)
(* Back-off before the next attempt: retry_delay * 2^(attempts - 1), at    *)
(* most MaxDelay.  The source saturates at 2^64 - 1, far above the cap.    *)
(***************************************************************************)
Backoff(attempts) ==
    LET delay == RetryDelay * 2^(attempts - 1)
    IN  IF delay \in 0 .. MaxDelay THEN delay ELSE MaxDelay

-----------------------------------------------------------------------------
(* The polling loop.  A turn that finds every permit taken sleeps and      *)
(* changes nothing, so it is no action.                                    *)

GoTo(w, state) == loop' = [loop EXCEPT ![w] = state]

\* drop(permit), also when the task that owns it finishes or unwinds
ReleasePermit(w) == permits' = [permits EXCEPT ![w] = @ + 1]

SeeShutdown(w) ==
    /\ loop[w] = "top"
    /\ shutdown[w]
    /\ GoTo(w, "drain")
    /\ UNCHANGED <<now, permits, shutdown, tasks, historyVars>>

\* Mutant: the loop does not check that a permit is free.
TakePermitUnchecked(w) ==
    /\ loop[w] = "top"
    /\ ~shutdown[w]
    /\ permits' = [permits EXCEPT ![w] = @ - 1]
    /\ GoTo(w, "dequeue")
    /\ UNCHANGED <<now, shutdown, tasks, historyVars>>

TakePermit(w) ==
    /\ loop[w] = "top"
    /\ ~shutdown[w]
    /\ permits[w] > 0
    /\ permits' = [permits EXCEPT ![w] = @ - 1]
    /\ GoTo(w, "dequeue")
    /\ UNCHANGED <<now, shutdown, tasks, historyVars>>

\* Mutant: the permit is forgotten instead of dropped.
NothingDequeuedLeaks(w) ==
    /\ loop[w] = "dequeue"
    /\ GoTo(w, "top")
    /\ UNCHANGED <<now, permits, shutdown, tasks, historyVars>>

\* dequeue answered Ok(None) or Err: release the permit and sleep
NothingDequeued(w) ==
    /\ loop[w] = "dequeue"
    /\ ReleasePermit(w)
    /\ GoTo(w, "top")
    /\ UNCHANGED <<now, shutdown, tasks, historyVars>>

\* dequeue answered Ok(Some(envelope)): the spawned task takes the permit over
SpawnTask(w, j, attempts, max_attempts) ==
    /\ loop[w] = "dequeue"
    /\ tasks' = tasks \cup {[worker |-> w, job |-> j, attempts |-> attempts,
                             max_attempts |-> max_attempts,
                             stage |-> "execute", retry_at |-> 0]}
    /\ starts' = [starts EXCEPT ![j] = @ + 1]
    /\ GoTo(w, "top")
    /\ UNCHANGED <<now, permits, shutdown, succeeded>>

\* Mutant: run returns without waiting for the permits.
DrainAtOnce(w) ==
    /\ loop[w] = "drain"
    /\ GoTo(w, "stopped")
    /\ UNCHANGED <<now, permits, shutdown, tasks, historyVars>>

\* acquire_many has every permit: no task of this process is left
DrainDone(w) ==
    /\ loop[w] = "drain"
    /\ permits[w] = Concurrency
    /\ GoTo(w, "stopped")
    /\ UNCHANGED <<now, permits, shutdown, tasks, historyVars>>

-----------------------------------------------------------------------------
(* A job task.                                                             *)

Advance(t, stage, retry_at) ==
    tasks' = (tasks \ {t})
             \cup {[t EXCEPT !.stage = stage, !.retry_at = retry_at]}

HandlerOk(t) ==
    /\ t.stage = "execute"
    /\ Advance(t, "ack", 0)
    /\ succeeded' = succeeded \cup {t.job}
    /\ UNCHANGED <<now, loop, permits, shutdown, starts>>

\* the handler failed, its payload did not parse, or no handler is registered
HandlerErr(t) ==
    /\ t.stage = "execute"
    /\ IF t.attempts < t.max_attempts
       THEN Advance(t, "retry", now + Backoff(t.attempts))
       ELSE Advance(t, "fail", 0)
    /\ UNCHANGED <<now, loop, permits, shutdown, historyVars>>

\* the task is over and drops its permit
FinishTask(t) ==
    /\ tasks' = tasks \ {t}
    /\ ReleasePermit(t.worker)
    /\ UNCHANGED <<now, loop, shutdown, historyVars>>

\* Mutant: the permit is released by hand, which a panic skips.
HandlerPanicLeaks(t) ==
    /\ "panic" \in Faults
    /\ t.stage = "execute"
    /\ tasks' = tasks \ {t}
    /\ UNCHANGED <<now, loop, permits, shutdown, historyVars>>

\* the handler panics: tokio ends the task, neither acknowledge nor fail runs
HandlerPanic(t) ==
    /\ "panic" \in Faults
    /\ t.stage = "execute"
    /\ FinishTask(t)

-----------------------------------------------------------------------------
(* Process life cycle and clock.                                           *)

Running(w) == loop[w] \notin {"stopped", "down"}

\* ctrl-c: the broadcast reaches the loop's receiver
SignalShutdown(w) ==
    /\ w \in Stoppable
    /\ Running(w)
    /\ ~shutdown[w]
    /\ shutdown' = [shutdown EXCEPT ![w] = TRUE]
    /\ UNCHANGED <<now, loop, permits, tasks, historyVars>>

\* the process disappears with everything it was doing
ProcessGone(w) ==
    /\ GoTo(w, "down")
    /\ tasks' = tasks \ TasksOf(w)
    /\ UNCHANGED <<now, permits, shutdown, historyVars>>

Crash(w) ==
    /\ "crash" \in Faults
    /\ Running(w)
    /\ ProcessGone(w)

\* main.rs returns once the HTTP server has shut down; the inline worker is a
\* spawned task nobody awaits
InlineExit(w) ==
    /\ w \in Inline
    /\ shutdown[w]
    /\ loop[w] # "down"
    /\ ProcessGone(w)

\* the process is started again
Restart(w) ==
    /\ ~Running(w)
    /\ GoTo(w, "top")
    /\ permits' = [permits EXCEPT ![w] = Concurrency]
    /\ shutdown' = [shutdown EXCEPT ![w] = FALSE]
    /\ UNCHANGED <<now, tasks, historyVars>>

Tick ==
    /\ now < MaxTime
    /\ now' = now + 1
    /\ UNCHANGED <<loop, permits, shutdown, tasks, historyVars>>

-----------------------------------------------------------------------------
(* Properties of the worker that hold over either backend.                 *)

PermitHolders(w) ==
    Cardinality(TasksOf(w)) + (IF loop[w] = "dequeue" THEN 1 ELSE 0)

\* Every permit of a live worker is free, held by the loop across its dequeue,
\* or owned by exactly one task: no path of the loop or of a task (error,
\* panic, empty queue) leaks a permit or returns it twice.
PermitsConserved ==
    \A w \in Workers :
        loop[w] # "down" => permits[w] + PermitHolders(w) = Concurrency

\* A worker whose run has returned left no job of its own half-way: the drain
\* by acquire_many really waited for every task.
StoppedIsDrained == \A w \in Workers : loop[w] = "stopped" => TasksOf(w) = {}

\* No two tasks, in one process or in two, work on the same job at once.
ExclusiveExecution ==
    \A t1, t2 \in tasks : t1.job = t2.job => t1 = t2

\* A job whose handler has returned Ok is never executed again, even when its
\* acknowledge fails or its process dies before sending it.
SucceededNeverReruns ==
    \A t \in tasks : t.job \in succeeded => t.stage = "ack"

\* Once the loop has seen the shutdown signal its run returns: every task
\* still in flight gives its permit back.
DrainTerminates ==
    \A w \in Workers : loop[w] = "drain" ~> loop[w] # "drain"
=============================================================================
