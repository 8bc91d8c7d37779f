------------------------- MODULE ChannelQueueProofs --------------------------
(***************************************************************************)
(* Theorems about the in-memory queue and the scheduler that feeds it, for *)
(* any jobs, limits, faults, capacity, entries and occurrences: every job  *)
(* is in one place, attempts are bounded, the channel implements JobQueue, *)
(* and the scheduler sends an entry at most once per occurrence and skips  *)
(* occurrences only while it is blocked.                                   *)
(***************************************************************************)
EXTENDS Scheduler, WorkerProofs, SequenceTheorems

-----------------------------------------------------------------------------
(* The channel.                                                            *)

\* No job is in the channel twice.
OneEach ==
    \A i, k \in DOMAIN channel : channel[i].job = channel[k].job => i = k

\* A send adds one envelope, at the end.
LEMMA ChannelSend ==
    ASSUME channel \in Seq(Envelope), NEW e \in Envelope,
           channel' = Append(channel, e)
    PROVE  /\ channel' \in Seq(Envelope) /\ Len(channel') = Len(channel) + 1
           /\ ToSet(channel)' = ToSet(channel) \cup {e}
           /\ OneEach /\ Queued(e.job) = {} => OneEach'
<1>1. /\ channel' \in Seq(Envelope) /\ Len(channel') = Len(channel) + 1
      /\ \A i \in 1 .. Len(channel) : channel'[i] = channel[i]
      /\ channel'[Len(channel) + 1] = e
  BY AppendProperties
<1>2. /\ Len(channel) \in Nat
      /\ DOMAIN channel = 1 .. Len(channel)
      /\ DOMAIN channel' = 1 .. Len(channel) + 1
  BY <1>1, LenProperties
<1>3. ToSet(channel)' = ToSet(channel) \cup {e}
  BY <1>1, <1>2 DEF ToSet
<1>4. ASSUME OneEach, Queued(e.job) = {} PROVE OneEach'
  <2>1. \A i \in 1 .. Len(channel) : channel[i].job # e.job
    BY <1>2, <1>4 DEF Queued, ToSet
  <2> QED
    BY <1>1, <1>2, <1>4, <2>1 DEF OneEach
<1> QED
  BY <1>1, <1>3, <1>4

\* A receive takes away the oldest envelope, and with it its job.
LEMMA ChannelReceive ==
    ASSUME channel \in Seq(Envelope), channel # <<>>, channel' = Tail(channel),
           OneEach
    PROVE  /\ Head(channel) \in Envelope /\ Head(channel) \in ToSet(channel)
           /\ channel' \in Seq(Envelope) /\ Len(channel') = Len(channel) - 1
           /\ ToSet(channel)' = ToSet(channel) \ Queued(Head(channel).job)
           /\ OneEach'
<1> DEFINE e == Head(channel)
<1>1. /\ channel' \in Seq(Envelope) /\ Len(channel') = Len(channel) - 1
      /\ \A i \in 1 .. Len(channel') : channel'[i] = channel[i + 1]
      /\ e \in Envelope
  BY HeadTailProperties
<1>2. /\ Len(channel) \in Nat \ {0}
      /\ DOMAIN channel = 1 .. Len(channel)
      /\ DOMAIN channel' = 1 .. Len(channel) - 1
      /\ e = channel[1]
  BY <1>1, LenProperties, EmptySeq
<1>3. \A i \in 2 .. Len(channel) : channel[i].job # e.job
  BY <1>2 DEF OneEach
<1>4. ToSet(channel)' = ToSet(channel) \ Queued(e.job)
  <2>1. ASSUME NEW i \in 1 .. Len(channel) - 1
        PROVE  channel'[i] \in ToSet(channel) /\ channel'[i] \notin Queued(e.job)
    <3>1. i + 1 \in 2 .. Len(channel) /\ channel'[i] = channel[i + 1]
      BY <1>1, <1>2
    <3> QED
      BY <1>2, <1>3, <3>1 DEF Queued, ToSet
  <2>2. ASSUME NEW i \in 1 .. Len(channel), channel[i] \notin Queued(e.job)
        PROVE  channel[i] \in ToSet(channel)'
    <3>1. i # 1
      BY <1>2, <2>2 DEF Queued, ToSet
    <3>2. i - 1 \in 1 .. Len(channel) - 1 /\ channel'[i - 1] = channel[i]
      BY <1>1, <1>2, <3>1
    <3> QED
      BY <1>2, <3>2 DEF ToSet
  <2> QED
    BY <1>2, <2>1, <2>2 DEF ToSet
<1>5. OneEach'
  <2> SUFFICES ASSUME NEW i \in 1 .. Len(channel) - 1, NEW k \in 1 .. Len(channel) - 1,
                      channel'[i].job = channel'[k].job
               PROVE  i = k
    BY <1>2 DEF OneEach
  <2>1. /\ channel'[i] = channel[i + 1] /\ channel'[k] = channel[k + 1]
        /\ i + 1 \in DOMAIN channel /\ k + 1 \in DOMAIN channel
    BY <1>1, <1>2
  <2> QED
    BY <2>1 DEF OneEach
<1> QED
  BY <1>1, <1>2, <1>4, <1>5 DEF ToSet

-----------------------------------------------------------------------------
(***************************************************************************)
(* The inductive invariant.  Each job is in one of six places; which one   *)
(* says what the map of envelopes, the counters and the outcome hold.      *)
(***************************************************************************)
SendersOf(j) == {e \in sending : e.job = j}
TasksOn(j) == {t \in tasks : t.job = j}

At(j, senders, queued, held, tasksOn) ==
    /\ SendersOf(j) = senders /\ Queued(j) = queued
    /\ EnvelopesOf(j) = held /\ TasksOn(j) = tasksOn

\* an enqueue awaits room
Enqueuing(j) ==
    /\ outcome[j] = "sending" /\ starts[j] = 0
    /\ \E e \in Envelope : /\ At(j, {e}, {}, {}, {})
                           /\ e.attempts = 0 /\ e.max_attempts \in AttemptLimits

\* in the channel, with an attempt left
Waits(j) ==
    /\ outcome[j] = "open"
    /\ \E e \in Envelope : /\ At(j, {}, {e}, {}, {})
                           /\ e.attempts = starts[j]
                           /\ e.attempts = 0 \/ e.attempts < e.max_attempts

\* what a task may be about to do
TaskFits(t) ==
    /\ t.attempts = starts[t.job] /\ t.attempts >= 1
    /\ t.attempts = 1 \/ t.attempts <= t.max_attempts
    /\ t.stage \in {"retry", "resend"} => t.attempts < t.max_attempts
    /\ t.stage = "fail" => t.attempts >= t.max_attempts

\* in the hands of a task, and in the map
Executes(j) ==
    /\ outcome[j] = "open"
    /\ \E e \in Envelope, t \in Task :
          /\ At(j, {}, {}, {e}, {t})
          /\ e.attempts = t.attempts /\ e.max_attempts = t.max_attempts
          /\ TaskFits(t) /\ t.stage # "resend"

\* a task awaits room for its retry
Resends(j) ==
    /\ outcome[j] = "open"
    /\ \E t \in Task : At(j, {}, {}, {}, {t}) /\ TaskFits(t) /\ t.stage = "resend"

\* its handler panicked and only the map remembers it
Orphaned(j) ==
    /\ outcome[j] = "open" /\ "panic" \in Faults
    /\ \E e \in Envelope : At(j, {}, {}, {e}, {})

Nowhere(j) ==
    /\ outcome[j] \notin {"sending", "open"}
    /\ outcome[j] = "new" => starts[j] = 0
    /\ At(j, {}, {}, {}, {})

JobInv(j) ==
    Enqueuing(j) \/ Waits(j) \/ Executes(j) \/ Resends(j) \/ Orphaned(j) \/ Nowhere(j)

IInv ==
    /\ TypeOK
    /\ PermitInv
    /\ OneEach
    /\ \A j \in Jobs : JobInv(j)

\* A step leaves a job alone when it leaves its places, counter and outcome.
Undisturbed(j) ==
    UNCHANGED <<SendersOf(j), Queued(j), EnvelopesOf(j), TasksOn(j), outcome[j], starts[j]>>

\* A job that is left alone stays in its place.
LEMMA UndisturbedKeeps ==
    ASSUME NEW j \in Jobs, JobInv(j), Undisturbed(j)
    PROVE  JobInv(j)'
<1> USE DEF Undisturbed, At
<1>1. CASE Enqueuing(j)
  BY <1>1 DEF JobInv, Enqueuing
<1>2. CASE Waits(j)
  BY <1>2 DEF JobInv, Waits
<1>3. CASE Executes(j)
  <2>1. PICK e \in Envelope, t \in Task :
          /\ At(j, {}, {}, {e}, {t})
          /\ e.attempts = t.attempts /\ e.max_attempts = t.max_attempts
          /\ TaskFits(t) /\ t.stage # "resend"
    BY <1>3 DEF Executes
  <2>2. t.job = j
    BY <2>1 DEF TasksOn
  <2>3. TaskFits(t)'
    BY <2>1, <2>2 DEF TaskFits
  <2> QED
    BY <1>3, <2>1, <2>3 DEF JobInv, Executes
<1>4. CASE Resends(j)
  <2>1. PICK t \in Task : At(j, {}, {}, {}, {t}) /\ TaskFits(t) /\ t.stage = "resend"
    BY <1>4 DEF Resends
  <2>2. t.job = j
    BY <2>1 DEF TasksOn
  <2>3. TaskFits(t)'
    BY <2>1, <2>2 DEF TaskFits
  <2> QED
    BY <1>4, <2>1, <2>3 DEF JobInv, Resends
<1>5. CASE Orphaned(j)
  BY <1>5 DEF JobInv, Orphaned
<1>6. CASE Nowhere(j)
  BY <1>6 DEF JobInv, Nowhere
<1> QED
  BY <1>1, <1>2, <1>3, <1>4, <1>5, <1>6 DEF JobInv

\* At the start no job is anywhere.
LEMMA InvInit == Init => IInv
<1> SUFFICES ASSUME Init PROVE IInv
  OBVIOUS
<1>1. TypeOK
  <2>1. channel \in Seq(Envelope) /\ Len(channel) = 0
    BY EmptySeq, LenProperties DEF Init
  <2>2. WorkerTypeOK
    BY ConcurrencyAssumption DEF Init, WorkerInit, WorkerTypeOK, LoopState
  <2> QED
    BY <2>1, <2>2, CapacityAssumption DEF Init, TypeOK, Outcome
<1>2. ToSet(channel) = {} /\ OneEach
  BY DEF Init, ToSet, OneEach
<1>3. ASSUME NEW j \in Jobs PROVE Nowhere(j)
  BY <1>2 DEF Init, WorkerInit, Nowhere, At, SendersOf, Queued, EnvelopesOf, TasksOn
<1> QED
  BY <1>1, <1>2, <1>3, PermitInit DEF Init, IInv, JobInv

-----------------------------------------------------------------------------
(* Where the actors of a step find the jobs.                               *)

\* A task works on a job that is nowhere else, and a task that reports finds
\* its envelope.
LEMMA TaskPlace ==
    ASSUME IInv, NEW t \in tasks
    PROVE  /\ t \in Task /\ t.job \in Jobs /\ outcome[t.job] = "open" /\ TaskFits(t)
           /\ SendersOf(t.job) = {} /\ Queued(t.job) = {} /\ TasksOn(t.job) = {t}
           /\ t.stage = "resend" => EnvelopesOf(t.job) = {}
           /\ t.stage # "resend" =>
                 \E e \in Envelope : /\ EnvelopesOf(t.job) = {e}
                                    /\ e.attempts = t.attempts
                                    /\ e.max_attempts = t.max_attempts
<1>1. t \in Task /\ t.job \in Jobs
  BY DEF IInv, TypeOK, WorkerTypeOK, Task
<1>2. t \in TasksOn(t.job) /\ JobInv(t.job)
  BY <1>1 DEF TasksOn, IInv
<1>3. Executes(t.job) \/ Resends(t.job)
  BY <1>2 DEF JobInv, Enqueuing, Waits, Orphaned, Nowhere, At
<1>4. CASE Executes(t.job)
  <2>1. PICK e \in Envelope, u \in Task :
          /\ At(t.job, {}, {}, {e}, {u})
          /\ e.attempts = u.attempts /\ e.max_attempts = u.max_attempts
          /\ TaskFits(u) /\ u.stage # "resend"
    BY <1>4 DEF Executes
  <2>2. u = t
    BY <1>2, <2>1 DEF At
  <2> QED
    BY <1>1, <1>4, <2>1, <2>2 DEF At, Executes
<1>5. CASE Resends(t.job)
  <2>1. PICK u \in Task : At(t.job, {}, {}, {}, {u}) /\ TaskFits(u) /\ u.stage = "resend"
    BY <1>5 DEF Resends
  <2>2. u = t
    BY <1>2, <2>1 DEF At
  <2> QED
    BY <1>1, <1>5, <2>1, <2>2 DEF At, Resends
<1> QED
  BY <1>3, <1>4, <1>5

\* Two tasks never share a job.
LEMMA Exclusive == IInv => ExclusiveExecution
<1> SUFFICES ASSUME IInv, NEW t1 \in tasks, NEW t2 \in tasks, t1.job = t2.job
             PROVE  t1 = t2
  BY DEF ExclusiveExecution
<1>1. t1 \in TasksOn(t1.job) /\ t2 \in TasksOn(t1.job)
  BY DEF TasksOn
<1> QED
  BY <1>1, TaskPlace

\* An enqueue that awaits room is all there is of its job.
LEMMA SenderPlace ==
    ASSUME IInv, NEW e \in sending
    PROVE  /\ e \in Envelope /\ e.job \in Jobs /\ outcome[e.job] = "sending"
           /\ At(e.job, {e}, {}, {}, {})
           /\ starts[e.job] = 0 /\ e.attempts = 0 /\ e.max_attempts \in AttemptLimits
<1>1. e \in Envelope /\ e.job \in Jobs /\ e \in SendersOf(e.job)
  BY DEF IInv, TypeOK, Envelope, SendersOf
<1>2. Enqueuing(e.job)
  BY <1>1 DEF IInv, JobInv, Waits, Executes, Resends, Orphaned, Nowhere, At
<1>3. PICK f \in Envelope : /\ At(e.job, {f}, {}, {}, {})
                            /\ f.attempts = 0 /\ f.max_attempts \in AttemptLimits
  BY <1>2 DEF Enqueuing
<1>4. f = e
  BY <1>1, <1>3 DEF At
<1> QED
  BY <1>1, <1>2, <1>3, <1>4 DEF Enqueuing

\* So is an envelope in the channel.
LEMMA QueuedPlace ==
    ASSUME IInv, NEW e \in ToSet(channel)
    PROVE  /\ e \in Envelope /\ e.job \in Jobs /\ outcome[e.job] = "open"
           /\ At(e.job, {}, {e}, {}, {})
           /\ e.attempts = starts[e.job] /\ (e.attempts = 0 \/ e.attempts < e.max_attempts)
<1>1. e \in Envelope
  <2>1. channel \in Seq(Envelope)
    BY DEF IInv, TypeOK
  <2> QED
    BY <2>1, ElementOfSeq, LenProperties DEF ToSet
<1>2. e.job \in Jobs /\ e \in Queued(e.job)
  BY <1>1 DEF Envelope, Queued
<1>3. Waits(e.job)
  BY <1>2 DEF IInv, JobInv, Enqueuing, Executes, Resends, Orphaned, Nowhere, At
<1>4. PICK f \in Envelope : /\ At(e.job, {}, {f}, {}, {}) /\ f.attempts = starts[e.job]
                            /\ f.attempts = 0 \/ f.attempts < f.max_attempts
  BY <1>3 DEF Waits
<1>5. f = e
  BY <1>2, <1>4 DEF At
<1> QED
  BY <1>1, <1>2, <1>3, <1>4, <1>5 DEF Waits

\* A job that was never enqueued is nowhere.
LEMMA NewPlace ==
    ASSUME IInv, NEW j \in Jobs, outcome[j] = "new"
    PROVE  At(j, {}, {}, {}, {}) /\ starts[j] = 0
BY DEF IInv, JobInv, Enqueuing, Waits, Executes, Resends, Orphaned, Nowhere

-----------------------------------------------------------------------------
(* Type correctness of a step.                                             *)

\* The type is kept by a task that ends,
LEMMA FinishType ==
    ASSUME WorkerTypeOK, NEW t \in tasks, FinishTask(t)
    PROVE  WorkerTypeOK'
BY DEF FinishTask, ReleasePermit, historyVars, WorkerTypeOK, Task

\* by every turn of the loop that spawns no task,
LEMMA LoopType ==
    ASSUME WorkerTypeOK, NEW w \in Workers,
           \/ SeeShutdown(w) \/ TakePermit(w) \/ DrainDone(w) \/ NothingDequeued(w)
    PROVE  WorkerTypeOK'
<1> USE DEF WorkerTypeOK, GoTo, LoopState, historyVars
<1>1. CASE SeeShutdown(w)
  BY <1>1 DEF SeeShutdown
<1>2. CASE TakePermit(w)
  BY <1>2 DEF TakePermit
<1>3. CASE DrainDone(w)
  BY <1>3 DEF DrainDone
<1>4. CASE NothingDequeued(w)
  BY <1>4 DEF NothingDequeued, ReleasePermit
<1> QED
  BY <1>1, <1>2, <1>3, <1>4

\* by the life cycle of the process,
LEMMA ProcessType ==
    ASSUME WorkerTypeOK, NEW w \in Workers,
           SignalShutdown(w) \/ ProcessGone(w) \/ Restart(w)
    PROVE  WorkerTypeOK'
<1> USE DEF WorkerTypeOK, GoTo, LoopState, historyVars
<1>1. CASE SignalShutdown(w)
  BY <1>1 DEF SignalShutdown
<1>2. CASE ProcessGone(w)
  BY <1>2 DEF ProcessGone, TasksOf
<1>3. CASE Restart(w)
  BY <1>3, ConcurrencyAssumption DEF Restart
<1> QED
  BY <1>1, <1>2, <1>3

\* by a handler that returns,
LEMMA HandlerType ==
    ASSUME WorkerTypeOK, NEW t \in tasks, HandlerOk(t) \/ HandlerErr(t)
    PROVE  WorkerTypeOK'
<1> USE DEF WorkerTypeOK, historyVars
<1>1. t \in Task /\ t.job \in Jobs /\ now + Backoff(t.attempts) \in Nat
  BY BackoffNat DEF Task
<1>2. CASE HandlerOk(t)
  BY <1>1, <1>2, AdvanceType DEF HandlerOk, Advance, Stage
<1>3. CASE HandlerErr(t)
  <2>1. PICK stage \in Stage, at \in Nat : Advance(t, stage, at)
    BY <1>1, <1>3 DEF HandlerErr, Stage
  <2>2. tasks' \subseteq Task
    BY <1>1, <2>1, AdvanceType DEF Advance
  <2> QED
    BY <1>3, <2>2 DEF HandlerErr
<1> QED
  BY <1>2, <1>3

\* An envelope that is retried, or received, is one again.
LEMMA EnvelopeType ==
    ASSUME NEW j \in Jobs, NEW a \in Nat, NEW m \in Nat, NEW at \in Nat
    PROVE  [job |-> j, attempts |-> a, max_attempts |-> m, run_at |-> at] \in Envelope
BY DEF Envelope

\* and so by every step.
LEMMA TypeStep == IInv /\ [Next]_vars => TypeOK'
<1> SUFFICES ASSUME IInv, [Next]_vars PROVE TypeOK'
  OBVIOUS
<1> USE DEF SetOutcome, Outcome, workerVars, historyVars, backendVars
<1>t. /\ WorkerTypeOK /\ channel \in Seq(Envelope) /\ Len(channel) <= Capacity
      /\ in_flight \subseteq Envelope /\ sending \subseteq Envelope
      /\ outcome \in [Jobs -> Outcome]
  BY DEF IInv, TypeOK
<1>w. UNCHANGED workerVars => WorkerTypeOK'
  BY <1>t DEF WorkerTypeOK
<1>u. Len(channel) \in Nat /\ Capacity \in Nat
  BY <1>t, LenProperties, CapacityAssumption
<1>1. ASSUME NEW j \in Jobs, NEW limit \in AttemptLimits, NEW at \in 0 .. MaxTime,
             Enqueue(j, limit, at)
      PROVE  TypeOK'
  <2>1. [job |-> j, attempts |-> 0, max_attempts |-> limit, run_at |-> at] \in Envelope
    BY LimitsAssumption, TimeAssumption, EnvelopeType
  <2> QED
    BY <1>1, <1>t, <1>w, <2>1 DEF Enqueue, TypeOK
<1>2. ASSUME NEW e \in sending, EnqueueSends(e) PROVE TypeOK'
  <2>1. e \in Envelope /\ channel' = Append(channel, e)
    BY <1>2, <1>t DEF EnqueueSends
  <2>2. channel' \in Seq(Envelope) /\ Len(channel') = Len(channel) + 1
    BY <1>t, <2>1, ChannelSend
  <2>3. e.job \in Jobs
    BY <2>1 DEF Envelope
  <2> QED
    BY <1>2, <1>t, <1>u, <1>w, <2>2, <2>3 DEF EnqueueSends, HasRoom, TypeOK
<1>3. ASSUME NEW w \in Workers, ReceiveJob(w) PROVE TypeOK'
  <2> DEFINE e == [Head(channel) EXCEPT !.attempts = @ + 1]
  <2>1. /\ Head(channel) \in Envelope
        /\ channel' \in Seq(Envelope) /\ Len(channel') = Len(channel) - 1
    BY <1>3, <1>t, ChannelReceive DEF ReceiveJob, IInv
  <2>2. e \in Envelope /\ e.job \in Jobs /\ e.attempts \in Nat /\ e.max_attempts \in Nat
    BY <2>1 DEF Envelope
  <2>3. in_flight' = in_flight \cup {e} /\ SpawnTask(w, e.job, e.attempts, e.max_attempts)
    BY <1>3 DEF ReceiveJob
  <2> HIDE DEF e
  <2>4. [worker |-> w, job |-> e.job, attempts |-> e.attempts,
         max_attempts |-> e.max_attempts, stage |-> "execute", retry_at |-> 0] \in Task
    BY <2>2 DEF Task, Stage
  <2>5. WorkerTypeOK'
    BY <1>t, <2>2, <2>3, <2>4 DEF SpawnTask, GoTo, WorkerTypeOK, LoopState
  <2> QED
    BY <1>3, <1>t, <1>u, <2>1, <2>2, <2>3, <2>5 DEF ReceiveJob, TypeOK
<1>4. ASSUME WorkerTypeOK', UNCHANGED backendVars PROVE TypeOK'
  BY <1>4, <1>t DEF TypeOK
<1>5. ASSUME NEW t \in tasks, Acknowledge(t) \/ FailPermanently(t) PROVE TypeOK'
  <2>1. t.job \in Jobs /\ FinishTask(t) /\ UNCHANGED <<channel, sending>>
        /\ in_flight' \subseteq in_flight
    BY <1>5, <1>t DEF Acknowledge, FailPermanently, WorkerTypeOK, Task
  <2>2. outcome' \in [Jobs -> Outcome]
    BY <1>5, <1>t, <2>1 DEF Acknowledge, FailPermanently
  <2> QED
    BY <1>t, <2>1, <2>2, FinishType DEF TypeOK
<1>6. ASSUME NEW t \in tasks, FailRetry(t) PROVE TypeOK'
  <2>1. PICK at \in Nat : Advance(t, "resend", at)
    BY <1>6, <1>t DEF FailRetry, EnvelopesOf, Envelope
  <2>2. tasks' \subseteq Task
    <3>1. t \in Task /\ "resend" \in Stage /\ tasks \subseteq Task
      BY <1>t DEF WorkerTypeOK, Stage
    <3>2. [t EXCEPT !.stage = "resend", !.retry_at = at] \in Task
      BY <2>1, <3>1, AdvanceType
    <3> QED
      BY <2>1, <3>1, <3>2 DEF Advance
  <2>3. /\ UNCHANGED <<now, loop, permits, shutdown, succeeded, starts>>
        /\ UNCHANGED <<channel, sending, outcome>> /\ in_flight' \subseteq in_flight
    BY <1>6 DEF FailRetry
  <2>4. WorkerTypeOK'
    BY <1>t, <2>2, <2>3 DEF WorkerTypeOK
  <2> QED
    BY <1>t, <2>3, <2>4 DEF TypeOK
<1>7. ASSUME NEW t \in tasks, ResendRetry(t) PROVE TypeOK'
  <2> DEFINE e == [job |-> t.job, attempts |-> t.attempts,
                   max_attempts |-> t.max_attempts, run_at |-> t.retry_at]
  <2>1. e \in Envelope /\ channel' = Append(channel, e)
    BY <1>7, <1>t, EnvelopeType DEF ResendRetry, WorkerTypeOK, Task
  <2>2. channel' \in Seq(Envelope) /\ Len(channel') = Len(channel) + 1
    BY <1>t, <2>1, ChannelSend
  <2> QED
    BY <1>7, <1>t, <1>u, <2>2, FinishType DEF ResendRetry, HasRoom, TypeOK
<1>8. ASSUME WorkerTypeOK', Forget PROVE TypeOK'
  <2>1. channel' \in Seq(Envelope) /\ Len(channel') = 0
    BY <1>8, EmptySeq, LenProperties DEF Forget
  <2> QED
    BY <1>8, <1>t, <1>u, <2>1 DEF Forget, TypeOK
<1>9. ASSUME NEW w \in Workers, LoopStep(w) \/ ProcessStep(w) PROVE TypeOK'
  <2>1. CASE LoopStep(w)
    BY <1>3, <1>4, <1>t, <2>1, LoopType DEF LoopStep, ReceiveNone
  <2>2. CASE ProcessStep(w)
    BY <1>4, <1>8, <1>t, <2>2, ProcessType DEF ProcessStep, Crash, InlineExit
  <2> QED
    BY <1>9, <2>1, <2>2
<1>10. ASSUME NEW t \in tasks, TaskStep(t) \/ (HandlerPanic(t) /\ UNCHANGED backendVars)
       PROVE  TypeOK'
  <2>1. CASE TaskStep(t)
    BY <1>4, <1>5, <1>6, <1>7, <1>t, <2>1, HandlerType DEF TaskStep
  <2>2. CASE HandlerPanic(t) /\ UNCHANGED backendVars
    BY <1>4, <1>t, <2>2, FinishType DEF HandlerPanic
  <2> QED
    BY <1>10, <2>1, <2>2
<1>11. CASE Tick /\ UNCHANGED backendVars
  <2>1. WorkerTypeOK'
    BY <1>11, <1>t DEF Tick, WorkerTypeOK
  <2> QED
    BY <1>4, <1>11, <2>1
<1>12. CASE UNCHANGED vars
  BY <1>4, <1>12, <1>w DEF vars
<1> QED
  BY <1>1, <1>2, <1>9, <1>10, <1>11, <1>12 DEF Next

-----------------------------------------------------------------------------
(* The permits of a step, from the worker's lemmas.                        *)

\* No step leaks a permit or returns it twice.
LEMMA PermitStep == IInv /\ [Next]_vars => PermitInv'
<1> SUFFICES ASSUME IInv, [Next]_vars PROVE PermitInv'
  OBVIOUS
<1> USE DEF workerVars
<1>t. WorkerTypeOK /\ PermitInv /\ ExclusiveExecution
  BY Exclusive DEF IInv, TypeOK
<1>1. ASSUME NEW w \in Workers, LoopStep(w) PROVE PermitInv'
  <2>1. CASE ReceiveJob(w)
    <3>1. Head(channel) \in ToSet(channel)
      BY <2>1, ChannelReceive DEF ReceiveJob, IInv, TypeOK
    <3>2. TasksOn(Head(channel).job) = {}
      BY <3>1, QueuedPlace DEF At
    <3>3. \A t \in tasks : t.job # Head(channel).job
      BY <3>2 DEF TasksOn
    <3>4. Head(channel) \in Envelope
      BY <3>1, QueuedPlace
    <3>5. [Head(channel) EXCEPT !.attempts = @ + 1].job = Head(channel).job
      BY <3>4 DEF Envelope
    <3> QED
      BY <1>t, <2>1, <3>3, <3>5, SpawnKeepsPermits DEF ReceiveJob
  <2>2. CASE \/ SeeShutdown(w) \/ TakePermit(w) \/ DrainDone(w) \/ NothingDequeued(w)
    BY <1>t, <2>2, LoopKeepsPermits
  <2> QED
    BY <1>1, <2>1, <2>2 DEF LoopStep, ReceiveNone
<1>2. ASSUME NEW w \in Workers, ProcessStep(w) PROVE PermitInv'
  <2>1. CASE SignalShutdown(w)
    BY <1>t, <2>1, PermitFrame DEF SignalShutdown
  <2>2. CASE ProcessGone(w)
    BY <1>t, <2>2, GoneKeepsPermits
  <2>3. CASE Restart(w)
    BY <1>t, <2>3, RestartKeepsPermits
  <2> QED
    BY <1>2, <2>1, <2>2, <2>3 DEF ProcessStep, Crash, InlineExit
<1>3. ASSUME NEW t \in tasks, TaskStep(t) \/ HandlerPanic(t) PROVE PermitInv'
  <2>1. CASE HandlerOk(t) \/ HandlerErr(t)
    <3>1. PICK stage, at : Advance(t, stage, at)
      BY <2>1 DEF HandlerOk, HandlerErr
    <3> QED
      BY <1>t, <2>1, <3>1, AdvanceKeepsPermits DEF HandlerOk, HandlerErr
  <2>2. CASE FailRetry(t)
    <3>1. PICK at : Advance(t, "resend", at)
      BY <2>2 DEF FailRetry
    <3> QED
      BY <1>t, <2>2, <3>1, AdvanceKeepsPermits DEF FailRetry
  <2>3. CASE FinishTask(t)
    BY <1>t, <2>3, FinishKeepsPermits
  <2> QED
    BY <1>3, <2>1, <2>2, <2>3
       DEF TaskStep, Acknowledge, ResendRetry, FailPermanently, HandlerPanic
<1>4. CASE UNCHANGED <<permits, loop, tasks>>
  BY <1>t, <1>4, PermitFrame
<1> QED
  BY <1>1, <1>2, <1>3, <1>4 DEF Next, vars, Enqueue, EnqueueSends, Tick

-----------------------------------------------------------------------------
(***************************************************************************)
(* Where each step takes its job.  Every other job stays where it is.      *)
(***************************************************************************)
OthersUndisturbed(j) == \A i \in Jobs : i # j => Undisturbed(i)

\* enqueue: the job begins to wait for room.
LEMMA EnqueuePlaces ==
    ASSUME IInv, NEW j \in Jobs, NEW limit \in AttemptLimits,
           NEW at \in 0 .. MaxTime, Enqueue(j, limit, at)
    PROVE  outcome[j] = "new" /\ Enqueuing(j)' /\ OneEach' /\ OthersUndisturbed(j)
<1> DEFINE e == [job |-> j, attempts |-> 0, max_attempts |-> limit, run_at |-> at]
<1>1. e \in Envelope /\ e.job = j /\ e.attempts = 0 /\ e.max_attempts = limit
  BY LimitsAssumption, TimeAssumption, EnvelopeType
<1>2. /\ sending' = sending \cup {e} /\ outcome[j] = "new"
      /\ UNCHANGED <<channel, in_flight, tasks, starts>>
      /\ outcome' = [outcome EXCEPT ![j] = "sending"]
  BY DEF Enqueue, SetOutcome, workerVars, historyVars
<1>3. At(j, {}, {}, {}, {}) /\ starts[j] = 0
  BY <1>2, NewPlace
<1> HIDE DEF e
<1>4. SendersOf(j)' = {e} /\ \A i \in Jobs : i # j => SendersOf(i)' = SendersOf(i)
  BY <1>1, <1>2, <1>3 DEF SendersOf, At
<1>5. \A i \in Jobs : UNCHANGED <<Queued(i), EnvelopesOf(i), TasksOn(i), starts[i]>>
  BY <1>2 DEF Queued, EnvelopesOf, TasksOn, ToSet
<1>6. outcome'[j] = "sending" /\ \A i \in Jobs : i # j => outcome'[i] = outcome[i]
  BY <1>2 DEF IInv, TypeOK
<1>7. Enqueuing(j)'
  BY <1>1, <1>3, <1>4, <1>5, <1>6 DEF Enqueuing, At
<1> QED
  BY <1>2, <1>4, <1>5, <1>6, <1>7 DEF OthersUndisturbed, Undisturbed, OneEach, IInv

\* Its send goes through: it is in the channel.
LEMMA EnqueueSendsPlaces ==
    ASSUME IInv, NEW e \in sending, EnqueueSends(e)
    PROVE  /\ e.job \in Jobs /\ Enqueuing(e.job) /\ Waits(e.job)' /\ OneEach'
           /\ OthersUndisturbed(e.job)
           /\ At(e.job, {}, {e}, {}, {})' /\ e.attempts = 0
           /\ e.max_attempts \in AttemptLimits
<1> DEFINE j == e.job
<1>1. /\ e \in Envelope /\ j \in Jobs /\ outcome[j] = "sending"
      /\ At(j, {e}, {}, {}, {})
      /\ starts[j] = 0 /\ e.attempts = 0 /\ e.max_attempts \in AttemptLimits
  BY SenderPlace
<1>2. Enqueuing(j)
  BY <1>1 DEF Enqueuing
<1>3. /\ sending' = sending \ {e} /\ channel' = Append(channel, e)
      /\ UNCHANGED <<in_flight, tasks, starts>>
      /\ outcome' = [outcome EXCEPT ![j] = "open"]
  BY DEF EnqueueSends, SetOutcome, workerVars, historyVars
<1>4. ToSet(channel)' = ToSet(channel) \cup {e} /\ OneEach'
  BY <1>1, <1>3, ChannelSend DEF IInv, TypeOK, At
<1>5. /\ SendersOf(j)' = {} /\ Queued(j)' = {e}
      /\ \A i \in Jobs : i # j => /\ SendersOf(i)' = SendersOf(i)
                                  /\ Queued(i)' = Queued(i)
  BY <1>1, <1>3, <1>4 DEF SendersOf, Queued, At
<1>6. \A i \in Jobs : UNCHANGED <<EnvelopesOf(i), TasksOn(i), starts[i]>>
  BY <1>3 DEF EnvelopesOf, TasksOn
<1>7. outcome'[j] = "open" /\ \A i \in Jobs : i # j => outcome'[i] = outcome[i]
  BY <1>1, <1>3 DEF IInv, TypeOK
<1>8. At(j, {}, {e}, {}, {})'
  BY <1>1, <1>5, <1>6 DEF At
<1>9. Waits(j)'
  BY <1>1, <1>6, <1>7, <1>8 DEF Waits
<1> QED
  BY <1>1, <1>2, <1>4, <1>5, <1>6, <1>7, <1>8, <1>9 DEF OthersUndisturbed, Undisturbed

\* dequeue: it is in the map and in the hands of a task, its attempt counted.
LEMMA ReceivePlaces ==
    ASSUME IInv, NEW w \in Workers, ReceiveJob(w)
    PROVE  \E e \in Envelope :
              /\ e \in ToSet(channel) /\ e.job \in Jobs /\ Waits(e.job)
              /\ Executes(e.job)' /\ OneEach' /\ OthersUndisturbed(e.job)
              /\ EnvelopesOf(e.job)' = {[e EXCEPT !.attempts = @ + 1]}
<1>0. PICK e \in Envelope : e = Head(channel)
  BY ChannelReceive DEF ReceiveJob, IInv, TypeOK
<1> DEFINE j == e.job
           r == [e EXCEPT !.attempts = @ + 1]
           t == [worker |-> w, job |-> r.job, attempts |-> r.attempts,
                 max_attempts |-> r.max_attempts, stage |-> "execute", retry_at |-> 0]
<1>1. /\ e \in ToSet(channel) /\ OneEach'
      /\ ToSet(channel)' = ToSet(channel) \ Queued(j)
  BY <1>0, ChannelReceive DEF ReceiveJob, IInv, TypeOK
<1>2. /\ e \in Envelope /\ j \in Jobs /\ outcome[j] = "open"
      /\ At(j, {}, {e}, {}, {})
      /\ e.attempts = starts[j] /\ (e.attempts = 0 \/ e.attempts < e.max_attempts)
  BY <1>1, QueuedPlace
<1>3. /\ r \in Envelope /\ r.job = j /\ r.attempts = e.attempts + 1
      /\ r.max_attempts = e.max_attempts
  BY <1>2 DEF Envelope
<1>4. /\ in_flight' = in_flight \cup {r} /\ tasks' = tasks \cup {t}
      /\ starts' = [starts EXCEPT ![j] = @ + 1]
      /\ UNCHANGED <<sending, outcome>>
  BY <1>0, <1>3 DEF ReceiveJob, SpawnTask
<1>5. /\ t \in Task /\ t.job = j /\ t.stage = "execute"
      /\ t.attempts = r.attempts /\ t.max_attempts = r.max_attempts
  BY <1>3 DEF Task, Stage, Envelope
<1>n. e.attempts \in Nat /\ e.max_attempts \in Nat
  BY <1>2 DEF Envelope
<1> HIDE DEF r, t
<1>6. /\ Queued(j)' = {} /\ EnvelopesOf(j)' = {r} /\ TasksOn(j)' = {t}
      /\ \A i \in Jobs : i # j => /\ Queued(i)' = Queued(i)
                                  /\ EnvelopesOf(i)' = EnvelopesOf(i)
                                  /\ TasksOn(i)' = TasksOn(i)
  BY <1>1, <1>2, <1>3, <1>4, <1>5 DEF Queued, EnvelopesOf, TasksOn, At
<1>7. \A i \in Jobs : UNCHANGED <<SendersOf(i), outcome[i]>>
  BY <1>4 DEF SendersOf
<1>8. starts'[j] = starts[j] + 1 /\ \A i \in Jobs : i # j => starts'[i] = starts[i]
  BY <1>2, <1>4 DEF IInv, TypeOK, WorkerTypeOK
<1>9. At(j, {}, {}, {r}, {t})'
  BY <1>2, <1>6, <1>7 DEF At
<1>10. Executes(j)'
  <2>1. TaskFits(t)'
    BY <1>2, <1>3, <1>5, <1>8, <1>n DEF TaskFits
  <2> QED
    BY <1>2, <1>3, <1>5, <1>7, <1>9, <2>1 DEF Executes
<1>11. Waits(j)
  BY <1>2 DEF Waits
<1>12. OthersUndisturbed(j)
  BY <1>6, <1>7, <1>8 DEF OthersUndisturbed, Undisturbed
<1>13. r = [e EXCEPT !.attempts = @ + 1]
  BY DEF r
<1> QED
  BY <1>1, <1>2, <1>6, <1>10, <1>11, <1>12, <1>13

\* What a step of a task does to the tasks, seen from each job.
LEMMA AdvanceTasksOn ==
    ASSUME IInv, NEW t \in tasks, NEW stage \in Stage, NEW at \in Nat,
           Advance(t, stage, at)
    PROVE  \E u \in Task :
              /\ u.job = t.job /\ u.stage = stage /\ u.retry_at = at
              /\ u.attempts = t.attempts /\ u.max_attempts = t.max_attempts
              /\ TasksOn(t.job)' = {u}
              /\ \A i \in Jobs : i # t.job => TasksOn(i)' = TasksOn(i)
<1> DEFINE u == [t EXCEPT !.stage = stage, !.retry_at = at]
<1>1. t \in Task /\ TasksOn(t.job) = {t}
  BY TaskPlace
<1>2. u \in Task
  BY <1>1, AdvanceType
<1>3. /\ u.job = t.job /\ u.stage = stage /\ u.retry_at = at
      /\ u.attempts = t.attempts /\ u.max_attempts = t.max_attempts
  BY <1>1 DEF Task
<1>4. tasks' = (tasks \ {t}) \cup {u}
  BY DEF Advance
<1> HIDE DEF u
<1> QED
  BY <1>1, <1>2, <1>3, <1>4 DEF TasksOn

\* A task that ends leaves its job without a task.
LEMMA FinishTasksOn ==
    ASSUME IInv, NEW t \in tasks, FinishTask(t)
    PROVE  /\ TasksOn(t.job)' = {}
           /\ \A i \in Jobs : i # t.job => TasksOn(i)' = TasksOn(i)
           /\ UNCHANGED starts
BY TaskPlace DEF FinishTask, TasksOn, historyVars

\* The handler returns: the job stays with its task.
LEMMA HandlerPlaces ==
    ASSUME IInv, NEW t \in tasks, HandlerOk(t) \/ HandlerErr(t), UNCHANGED backendVars
    PROVE  /\ t.job \in Jobs /\ Executes(t.job) /\ Executes(t.job)' /\ OneEach'
           /\ OthersUndisturbed(t.job) /\ UNCHANGED EnvelopesOf(t.job)
<1>1. /\ t \in Task /\ t.job \in Jobs /\ outcome[t.job] = "open" /\ TaskFits(t)
      /\ SendersOf(t.job) = {} /\ Queued(t.job) = {} /\ TasksOn(t.job) = {t}
      /\ t.stage = "execute"
  BY TaskPlace DEF HandlerOk, HandlerErr
<1>2. PICK e \in Envelope : /\ EnvelopesOf(t.job) = {e}
                            /\ e.attempts = t.attempts
                            /\ e.max_attempts = t.max_attempts
  BY <1>1, TaskPlace
<1>3. PICK stage \in Stage, at \in Nat :
        /\ Advance(t, stage, at)
        /\ stage = "retry" => t.attempts < t.max_attempts
        /\ stage = "fail" => t.attempts >= t.max_attempts
        /\ stage # "resend"
  <2>1. t.attempts \in Nat /\ t.max_attempts \in Nat /\ now \in Nat
    BY <1>1 DEF Task, IInv, TypeOK, WorkerTypeOK
  <2>2. now + Backoff(t.attempts) \in Nat
    BY <2>1, BackoffNat
  <2> QED
    BY <2>1, <2>2 DEF HandlerOk, HandlerErr, Stage
<1>4. PICK u \in Task :
        /\ u.job = t.job /\ u.stage = stage
        /\ u.attempts = t.attempts /\ u.max_attempts = t.max_attempts
        /\ TasksOn(t.job)' = {u}
        /\ \A i \in Jobs : i # t.job => TasksOn(i)' = TasksOn(i)
  BY <1>3, AdvanceTasksOn
<1>5. \A i \in Jobs : UNCHANGED <<SendersOf(i), Queued(i), EnvelopesOf(i), outcome[i], starts[i]>>
  BY DEF HandlerOk, HandlerErr, historyVars, backendVars,
         SendersOf, Queued, EnvelopesOf, ToSet
<1>6. TaskFits(u)'
  BY <1>1, <1>3, <1>4, <1>5 DEF TaskFits
<1>7. At(t.job, {}, {}, {e}, {u})'
  BY <1>1, <1>2, <1>4, <1>5 DEF At
<1>8. Executes(t.job)'
  BY <1>1, <1>2, <1>3, <1>4, <1>5, <1>6, <1>7 DEF Executes
<1>9. Executes(t.job)
  BY <1>1, <1>2 DEF Executes, At
<1> QED
  BY <1>1, <1>4, <1>5, <1>8, <1>9
     DEF OthersUndisturbed, Undisturbed, OneEach, backendVars, IInv

\* fail with attempts left: out of the map, waiting to be sent again.
LEMMA FailRetryPlaces ==
    ASSUME IInv, NEW t \in tasks, FailRetry(t)
    PROVE  \E e \in Envelope, u \in Task :
              /\ t.job \in Jobs /\ Executes(t.job) /\ EnvelopesOf(t.job) = {e}
              /\ Resends(t.job)' /\ TasksOn(t.job)' = {u}
              /\ u.attempts = e.attempts /\ u.max_attempts = e.max_attempts
              /\ OneEach' /\ OthersUndisturbed(t.job)
<1>1. /\ t \in Task /\ t.job \in Jobs /\ outcome[t.job] = "open" /\ TaskFits(t)
      /\ SendersOf(t.job) = {} /\ Queued(t.job) = {} /\ TasksOn(t.job) = {t}
      /\ t.stage = "retry"
  BY TaskPlace DEF FailRetry
<1>2. PICK e \in Envelope : /\ EnvelopesOf(t.job) = {e}
                            /\ e.attempts = t.attempts
                            /\ e.max_attempts = t.max_attempts
  BY <1>1, TaskPlace
<1>3. PICK at \in Nat : Advance(t, "resend", at)
  BY <1>2 DEF FailRetry, Envelope
<1>4. PICK u \in Task :
        /\ u.job = t.job /\ u.stage = "resend"
        /\ u.attempts = t.attempts /\ u.max_attempts = t.max_attempts
        /\ TasksOn(t.job)' = {u}
        /\ \A i \in Jobs : i # t.job => TasksOn(i)' = TasksOn(i)
  <2>1. "resend" \in Stage
    BY DEF Stage
  <2> QED
    BY <1>3, <2>1, AdvanceTasksOn
<1>5. in_flight' = in_flight \ EnvelopesOf(t.job)
      /\ UNCHANGED <<channel, sending, outcome, starts>>
  BY DEF FailRetry, historyVars
<1>6. \A i \in Jobs : UNCHANGED <<SendersOf(i), Queued(i), outcome[i], starts[i]>>
  BY <1>5 DEF SendersOf, Queued, ToSet
<1>7. EnvelopesOf(t.job)' = {}
      /\ \A i \in Jobs : i # t.job => EnvelopesOf(i)' = EnvelopesOf(i)
  BY <1>5 DEF EnvelopesOf
<1>8. TaskFits(u)'
  BY <1>1, <1>4, <1>6 DEF TaskFits
<1>9. At(t.job, {}, {}, {}, {u})'
  BY <1>1, <1>4, <1>6, <1>7 DEF At
<1>10. Resends(t.job)' /\ Executes(t.job)
  BY <1>1, <1>2, <1>4, <1>6, <1>8, <1>9 DEF Resends, Executes, At
<1> QED
  BY <1>1, <1>2, <1>4, <1>5, <1>6, <1>7, <1>10
     DEF OthersUndisturbed, Undisturbed, OneEach, IInv

\* The retry is sent: the job is in the channel, its count unchanged.
LEMMA ResendRetryPlaces ==
    ASSUME IInv, NEW t \in tasks, ResendRetry(t)
    PROVE  \E e \in Envelope :
              /\ t.job \in Jobs /\ Resends(t.job) /\ TasksOn(t.job) = {t}
              /\ t.attempts < t.max_attempts
              /\ Waits(t.job)' /\ Queued(t.job)' = {e}
              /\ e.attempts = t.attempts /\ e.max_attempts = t.max_attempts
              /\ OneEach' /\ OthersUndisturbed(t.job)
<1> DEFINE e == [job |-> t.job, attempts |-> t.attempts,
                 max_attempts |-> t.max_attempts, run_at |-> t.retry_at]
<1>1. /\ t \in Task /\ t.job \in Jobs /\ outcome[t.job] = "open" /\ TaskFits(t)
      /\ SendersOf(t.job) = {} /\ Queued(t.job) = {} /\ TasksOn(t.job) = {t}
      /\ EnvelopesOf(t.job) = {} /\ t.stage = "resend"
  BY TaskPlace DEF ResendRetry
<1>2. /\ e \in Envelope /\ e.job = t.job /\ e.attempts = t.attempts
      /\ e.max_attempts = t.max_attempts
  BY <1>1, EnvelopeType DEF Task
<1>3. /\ channel' = Append(channel, e) /\ FinishTask(t)
      /\ UNCHANGED <<in_flight, sending, outcome>>
  BY DEF ResendRetry
<1> HIDE DEF e
<1>4. /\ TasksOn(t.job)' = {} /\ UNCHANGED starts
      /\ \A i \in Jobs : i # t.job => TasksOn(i)' = TasksOn(i)
  BY <1>3, FinishTasksOn
<1>5. ToSet(channel)' = ToSet(channel) \cup {e} /\ OneEach'
  BY <1>1, <1>2, <1>3, ChannelSend DEF IInv, TypeOK
<1>6. /\ Queued(t.job)' = {e}
      /\ \A i \in Jobs : i # t.job => Queued(i)' = Queued(i)
  BY <1>1, <1>2, <1>5 DEF Queued
<1>7. \A i \in Jobs : UNCHANGED <<SendersOf(i), EnvelopesOf(i), outcome[i], starts[i]>>
  BY <1>3, <1>4 DEF SendersOf, EnvelopesOf
<1>8. At(t.job, {}, {e}, {}, {})'
  BY <1>1, <1>4, <1>6, <1>7 DEF At
<1>9. t.attempts < t.max_attempts /\ t.attempts = starts[t.job]
  BY <1>1 DEF TaskFits
<1>10. Waits(t.job)' /\ Resends(t.job)
  BY <1>1, <1>2, <1>7, <1>8, <1>9 DEF Waits, Resends, At
<1> QED
  BY <1>1, <1>2, <1>4, <1>5, <1>6, <1>7, <1>9, <1>10 DEF OthersUndisturbed, Undisturbed

\* A task that reports for good takes its job out of everything.
LEMMA ReportPlaces ==
    ASSUME IInv, NEW t \in tasks, Acknowledge(t) \/ FailPermanently(t)
    PROVE  \E e \in Envelope :
              /\ t.job \in Jobs /\ Executes(t.job) /\ EnvelopesOf(t.job) = {e}
              /\ Nowhere(t.job)'
              /\ \/ Acknowledge(t) /\ outcome'[t.job] = "completed"
                 \/ /\ FailPermanently(t) /\ outcome'[t.job] = "failed"
                    /\ e.attempts >= e.max_attempts
              /\ OneEach' /\ OthersUndisturbed(t.job)
<1>1. /\ t \in Task /\ t.job \in Jobs /\ outcome[t.job] = "open" /\ TaskFits(t)
      /\ SendersOf(t.job) = {} /\ Queued(t.job) = {} /\ TasksOn(t.job) = {t}
      /\ t.stage # "resend"
  BY TaskPlace DEF Acknowledge, FailPermanently
<1>2. PICK e \in Envelope : /\ EnvelopesOf(t.job) = {e}
                            /\ e.attempts = t.attempts
                            /\ e.max_attempts = t.max_attempts
  BY <1>1, TaskPlace
<1>3. /\ FinishTask(t) /\ UNCHANGED <<channel, sending>>
      /\ in_flight' = in_flight \ EnvelopesOf(t.job)
  BY DEF Acknowledge, FailPermanently
<1>4. /\ TasksOn(t.job)' = {} /\ UNCHANGED starts
      /\ \A i \in Jobs : i # t.job => TasksOn(i)' = TasksOn(i)
  BY <1>3, FinishTasksOn
<1>5. EnvelopesOf(t.job)' = {}
      /\ \A i \in Jobs : i # t.job => EnvelopesOf(i)' = EnvelopesOf(i)
  BY <1>3 DEF EnvelopesOf
<1>6. \A i \in Jobs : UNCHANGED <<SendersOf(i), Queued(i), starts[i]>>
  BY <1>3, <1>4 DEF SendersOf, Queued, ToSet
<1>7. /\ \A i \in Jobs : i # t.job => outcome'[i] = outcome[i]
      /\ \/ Acknowledge(t) /\ outcome'[t.job] = "completed"
         \/ /\ FailPermanently(t) /\ outcome'[t.job] = "failed"
            /\ e.attempts >= e.max_attempts
  <2>1. outcome \in [Jobs -> Outcome]
    BY DEF IInv, TypeOK
  <2>2. CASE Acknowledge(t)
    BY <1>1, <2>1, <2>2 DEF Acknowledge, SetOutcome
  <2>3. CASE FailPermanently(t)
    <3>1. outcome' = [outcome EXCEPT ![t.job] = "failed"]
      BY <1>2, <2>3 DEF FailPermanently, SetOutcome
    <3>2. e.attempts >= e.max_attempts
      BY <1>1, <1>2, <2>3 DEF FailPermanently, TaskFits
    <3> QED
      BY <1>1, <2>1, <2>3, <3>1, <3>2
  <2> QED
    BY <2>2, <2>3
<1>8. Nowhere(t.job)' /\ Executes(t.job)
  BY <1>1, <1>2, <1>4, <1>5, <1>6, <1>7 DEF Nowhere, Executes, At
<1> QED
  BY <1>1, <1>2, <1>3, <1>4, <1>5, <1>6, <1>7, <1>8
     DEF OthersUndisturbed, Undisturbed, OneEach, IInv

\* The handler panics: only the map remembers the job.
LEMMA PanicPlaces ==
    ASSUME IInv, NEW t \in tasks, HandlerPanic(t), UNCHANGED backendVars
    PROVE  /\ t.job \in Jobs /\ Executes(t.job) /\ Orphaned(t.job)' /\ OneEach'
           /\ OthersUndisturbed(t.job) /\ UNCHANGED EnvelopesOf(t.job)
<1>1. /\ t \in Task /\ t.job \in Jobs /\ outcome[t.job] = "open" /\ TaskFits(t)
      /\ SendersOf(t.job) = {} /\ Queued(t.job) = {} /\ TasksOn(t.job) = {t}
      /\ t.stage # "resend"
  BY TaskPlace DEF HandlerPanic
<1>2. PICK e \in Envelope : /\ EnvelopesOf(t.job) = {e}
                            /\ e.attempts = t.attempts
                            /\ e.max_attempts = t.max_attempts
  BY <1>1, TaskPlace
<1>3. /\ TasksOn(t.job)' = {} /\ UNCHANGED starts
      /\ \A i \in Jobs : i # t.job => TasksOn(i)' = TasksOn(i)
  BY FinishTasksOn DEF HandlerPanic
<1>4. \A i \in Jobs : UNCHANGED <<SendersOf(i), Queued(i), EnvelopesOf(i), outcome[i], starts[i]>>
  BY <1>3 DEF backendVars, SendersOf, Queued, EnvelopesOf, ToSet
<1>5. Orphaned(t.job)' /\ Executes(t.job)
  BY <1>1, <1>2, <1>3, <1>4 DEF HandlerPanic, Orphaned, Executes, At
<1> QED
  BY <1>1, <1>3, <1>4, <1>5
     DEF OthersUndisturbed, Undisturbed, OneEach, backendVars, IInv

\* A process that goes, or comes back, leaves nothing behind.
LEMMA ForgetPlaces ==
    ASSUME IInv, NEW w \in Workers, ProcessGone(w) \/ Restart(w), Forget
    PROVE  OneEach' /\ \A j \in Jobs : Nowhere(j)'
<1>1. tasks' = {}
  <2>1. tasks = TasksOf(w)
    BY OneProcessAssumption DEF TasksOf, IInv, TypeOK, WorkerTypeOK, Task
  <2>2. CASE ProcessGone(w)
    BY <2>1, <2>2 DEF ProcessGone
  <2>3. CASE Restart(w)
    BY <2>1, <2>3 DEF Restart, Running, IInv, PermitInv, TypeOK, WorkerTypeOK, LoopState
  <2> QED
    BY <2>2, <2>3
<1>2. /\ channel' = <<>> /\ in_flight' = {} /\ sending' = {} /\ UNCHANGED starts
      /\ outcome' = [j \in Jobs |-> CASE outcome[j] = "sending" -> "dropped"
                                      [] outcome[j] = "open"    -> "lost"
                                      [] OTHER                  -> outcome[j]]
  BY DEF Forget, ProcessGone, Restart, historyVars
<1>3. OneEach' /\ ToSet(channel)' = {}
  BY <1>2 DEF OneEach, ToSet
<1>4. ASSUME NEW j \in Jobs PROVE Nowhere(j)'
  <2>1. At(j, {}, {}, {}, {})'
    BY <1>1, <1>2, <1>3 DEF At, SendersOf, Queued, EnvelopesOf, TasksOn
  <2>2. /\ outcome'[j] \notin {"sending", "open"}
        /\ outcome'[j] = "new" => outcome[j] = "new"
    BY <1>2
  <2>3. outcome[j] = "new" => starts[j] = 0
    BY NewPlace
  <2> QED
    BY <1>2, <2>1, <2>2, <2>3 DEF Nowhere
<1> QED
  BY <1>3, <1>4

\* Everything else leaves every job where it is.
LEMMA Frame ==
    ASSUME IInv, UNCHANGED <<backendVars, tasks, starts>>
    PROVE  OneEach' /\ \A j \in Jobs : Undisturbed(j)
BY DEF IInv, backendVars, OneEach, Undisturbed, SendersOf, Queued, EnvelopesOf,
       TasksOn, ToSet

-----------------------------------------------------------------------------
(* The invariant.                                                          *)

\* Every step leaves every job in one of its places.
LEMMA PlaceStep ==
    ASSUME IInv, [Next]_vars
    PROVE  OneEach' /\ \A j \in Jobs : JobInv(j)'
<1>1. ASSUME NEW j \in Jobs, JobInv(j)', OthersUndisturbed(j)
      PROVE  \A i \in Jobs : JobInv(i)'
  BY <1>1, UndisturbedKeeps DEF OthersUndisturbed, IInv
<1>2. ASSUME UNCHANGED <<backendVars, tasks, starts>>
      PROVE  OneEach' /\ \A j \in Jobs : JobInv(j)'
  BY <1>2, Frame, UndisturbedKeeps DEF IInv
<1>3. ASSUME NEW j \in Jobs, NEW limit \in AttemptLimits, NEW at \in 0 .. MaxTime,
             Enqueue(j, limit, at)
      PROVE  OneEach' /\ \A i \in Jobs : JobInv(i)'
  BY <1>1, <1>3, EnqueuePlaces DEF JobInv
<1>4. ASSUME NEW e \in sending, EnqueueSends(e)
      PROVE  OneEach' /\ \A i \in Jobs : JobInv(i)'
  BY <1>1, <1>4, EnqueueSendsPlaces DEF JobInv
<1>5. ASSUME NEW w \in Workers, LoopStep(w)
      PROVE  OneEach' /\ \A i \in Jobs : JobInv(i)'
  <2>1. CASE ReceiveJob(w)
    BY <1>1, <2>1, ReceivePlaces DEF JobInv
  <2> QED
    BY <1>2, <1>5, <2>1 DEF LoopStep, ReceiveNone, SeeShutdown, TakePermit, DrainDone,
                            NothingDequeued, historyVars
<1>6. ASSUME NEW w \in Workers, ProcessStep(w)
      PROVE  OneEach' /\ \A i \in Jobs : JobInv(i)'
  <2>1. CASE SignalShutdown(w) /\ UNCHANGED backendVars
    BY <1>2, <2>1 DEF SignalShutdown, historyVars
  <2>2. CASE (ProcessGone(w) \/ Restart(w)) /\ Forget
    BY <2>2, ForgetPlaces DEF JobInv
  <2> QED
    BY <1>6, <2>1, <2>2 DEF ProcessStep, Crash, InlineExit
<1>7. ASSUME NEW t \in tasks, TaskStep(t)
      PROVE  OneEach' /\ \A i \in Jobs : JobInv(i)'
  <2>1. CASE (HandlerOk(t) \/ HandlerErr(t)) /\ UNCHANGED backendVars
    BY <1>1, <2>1, HandlerPlaces DEF JobInv
  <2>2. CASE Acknowledge(t) \/ FailPermanently(t)
    BY <1>1, <2>2, ReportPlaces DEF JobInv
  <2>3. CASE FailRetry(t)
    BY <1>1, <2>3, FailRetryPlaces DEF JobInv
  <2>4. CASE ResendRetry(t)
    BY <1>1, <2>4, ResendRetryPlaces DEF JobInv
  <2> QED
    BY <1>7, <2>1, <2>2, <2>3, <2>4 DEF TaskStep
<1>8. ASSUME NEW t \in tasks, HandlerPanic(t), UNCHANGED backendVars
      PROVE  OneEach' /\ \A i \in Jobs : JobInv(i)'
  BY <1>1, <1>8, PanicPlaces DEF JobInv
<1>9. CASE Tick /\ UNCHANGED backendVars
  BY <1>2, <1>9 DEF Tick, historyVars
<1>10. CASE UNCHANGED vars
  BY <1>2, <1>10 DEF vars, workerVars, historyVars
<1> QED
  BY <1>3, <1>4, <1>5, <1>6, <1>7, <1>8, <1>9, <1>10 DEF Next

\* Every job is in one of its six places after any steps of the process, its
\* callers, its tasks and its crashes.
THEOREM Invariant == Spec => []IInv
<1>1. IInv /\ [Next]_vars => IInv'
  BY TypeStep, PermitStep, PlaceStep DEF IInv
<1> QED
  BY <1>1, InvInit, PTL DEF Spec

\* The state keeps its type; in particular the channel never holds more than
\* CHANNEL_CAPACITY envelopes, although retries are sent from inside fail.
THEOREM TypeCorrect == Spec => []TypeOK
<1>1. IInv => TypeOK
  BY DEF IInv
<1> QED
  BY <1>1, Invariant, PTL

\* A job that is open or being enqueued has exactly one holder (a waiting
\* sender, a slot of the channel, a task), or lost it to a panic, and the map
\* of in-flight envelopes agrees with the tasks: acknowledge and fail always
\* find what they remove, and nothing is enqueued twice or dropped.
THEOREM JobsAccountedForHolds == Spec => []JobsAccountedFor
<1>1. ASSUME IInv PROVE JobsAreLinear
  <2> SUFFICES ASSUME NEW j \in Jobs
               PROVE  LET places == Cardinality({e \in sending : e.job = j})
                            + Cardinality({i \in DOMAIN channel : channel[i].job = j})
                            + Cardinality({t \in tasks : t.job = j})
                      IN  /\ outcome[j] \in {"sending", "open"} =>
                                places = 1 \/ (places = 0 /\ j \in JobsIn(in_flight)
                                               /\ "panic" \in Faults)
                          /\ outcome[j] \notin {"sending", "open"} => places = 0
    BY DEF JobsAreLinear
  <2> DEFINE S == {e \in sending : e.job = j}
             C == {i \in DOMAIN channel : channel[i].job = j}
             T == {t \in tasks : t.job = j}
  <2>1. SendersOf(j) = S /\ TasksOn(j) = T
    BY DEF SendersOf, TasksOn
  <2>2. Cardinality({}) = 0 /\ \A x : Cardinality({x}) = 1
    BY FS_EmptySet, FS_Singleton
  <2>3. Queued(j) = {} => C = {}
    BY DEF Queued, ToSet
  <2>4. ASSUME NEW e, Queued(j) = {e} PROVE \E i : C = {i}
    <3>1. PICK i \in DOMAIN channel : channel[i] = e /\ e.job = j
      BY <2>4 DEF Queued, ToSet
    <3>2. C = {i}
      BY <1>1, <3>1 DEF IInv, OneEach
    <3> QED
      BY <3>2
  <2>5. JobInv(j)
    BY <1>1 DEF IInv
  <2> HIDE DEF S, C, T
  <2>6. CASE Enqueuing(j)
    <3>1. /\ outcome[j] = "sending" /\ Cardinality(S) = 1
          /\ Cardinality(C) = 0 /\ Cardinality(T) = 0
      BY <2>1, <2>2, <2>3, <2>6 DEF Enqueuing, At
    <3> QED
      BY <3>1 DEF S, C, T
  <2>7. CASE Waits(j)
    <3>1. /\ outcome[j] = "open" /\ Cardinality(S) = 0
          /\ Cardinality(C) = 1 /\ Cardinality(T) = 0
      BY <2>1, <2>2, <2>4, <2>7 DEF Waits, At
    <3> QED
      BY <3>1 DEF S, C, T
  <2>8. CASE Executes(j) \/ Resends(j)
    <3>1. /\ outcome[j] = "open" /\ Cardinality(S) = 0
          /\ Cardinality(C) = 0 /\ Cardinality(T) = 1
      BY <2>1, <2>2, <2>3, <2>8 DEF Executes, Resends, At
    <3> QED
      BY <3>1 DEF S, C, T
  <2>9. CASE Orphaned(j)
    <3>1. /\ outcome[j] = "open" /\ Cardinality(S) = 0
          /\ Cardinality(C) = 0 /\ Cardinality(T) = 0
          /\ "panic" \in Faults /\ j \in JobsIn(in_flight)
      BY <2>1, <2>2, <2>3, <2>9 DEF Orphaned, At, EnvelopesOf, JobsIn
    <3> QED
      BY <3>1 DEF S, C, T
  <2>10. CASE Nowhere(j)
    <3>1. /\ outcome[j] \notin {"sending", "open"} /\ Cardinality(S) = 0
          /\ Cardinality(C) = 0 /\ Cardinality(T) = 0
      BY <2>1, <2>2, <2>3, <2>10 DEF Nowhere, At
    <3> QED
      BY <3>1 DEF S, C, T
  <2> QED
    BY <2>5, <2>6, <2>7, <2>8, <2>9, <2>10 DEF JobInv
<1>2. ASSUME IInv PROVE InFlightTracksTasks
  <2> SUFFICES ASSUME NEW t \in tasks
               PROVE  IF t.stage = "resend" THEN t.job \notin JobsIn(in_flight)
                      ELSE \E e \in in_flight : /\ e.job = t.job
                                                /\ e.attempts = t.attempts
                                                /\ e.max_attempts = t.max_attempts
    BY DEF InFlightTracksTasks
  <2>1. /\ t.stage = "resend" => EnvelopesOf(t.job) = {}
        /\ t.stage # "resend" =>
              \E e \in Envelope : /\ EnvelopesOf(t.job) = {e}
                                  /\ e.attempts = t.attempts
                                  /\ e.max_attempts = t.max_attempts
    BY <1>2, TaskPlace
  <2> QED
    BY <2>1 DEF EnvelopesOf, JobsIn
<1>3. IInv => JobsAccountedFor
  BY <1>1, <1>2 DEF JobsAccountedFor
<1> QED
  BY <1>3, Invariant, PTL

\* No handler is started more often than max_attempts allows, although the
\* count travels in the envelope, through the map and the task, and back.
THEOREM AttemptsBoundedHolds == Spec => []AttemptsBounded
<1>1. ASSUME IInv, NEW t \in tasks
      PROVE  starts[t.job] <= IF t.max_attempts = 0 THEN 1 ELSE t.max_attempts
  BY <1>1, TaskPlace DEF TaskFits, Task
<1>2. IInv => AttemptsBounded
  BY <1>1 DEF AttemptsBounded
<1> QED
  BY <1>2, Invariant, PTL

\* Permits are conserved: a task that waits for room in the channel keeps the
\* one permit it holds, and returns it once.
THEOREM PermitsConservedHolds == Spec => []PermitsConserved
<1>1. IInv => PermitsConserved
  BY DEF IInv, PermitInv
<1> QED
  BY <1>1, Invariant, PTL

-----------------------------------------------------------------------------
(* The channel implements the abstract queue.                              *)

\* Writing one job changes the view of that job only.
LEMMA ViewWrite ==
    ASSUME NEW j \in Jobs, OthersUndisturbed(j)
    PROVE  QueueView' = [QueueView EXCEPT ![j] = ViewOf(j)']
<1>1. ASSUME NEW i \in Jobs, i # j PROVE ViewOf(i)' = ViewOf(i)
  <2>1. /\ UNCHANGED <<Queued(i), EnvelopesOf(i), TasksOn(i), outcome[i]>>
        /\ Resent(i) = {t \in TasksOn(i) : t.stage = "resend"}
        /\ Resent(i)' = {t \in TasksOn(i)' : t.stage = "resend"}
    BY <1>1 DEF OthersUndisturbed, Undisturbed, Resent, TasksOn
  <2> QED
    BY <2>1 DEF ViewOf, Opened
<1> QED
  BY <1>1 DEF QueueView

\* What leaves every job alone leaves the view alone.
LEMMA ViewFrame ==
    ASSUME \A j \in Jobs : Undisturbed(j)
    PROVE  UNCHANGED QueueView
<1>1. ASSUME NEW i \in Jobs PROVE ViewOf(i)' = ViewOf(i)
  <2>1. /\ UNCHANGED <<Queued(i), EnvelopesOf(i), TasksOn(i), outcome[i]>>
        /\ Resent(i) = {t \in TasksOn(i) : t.stage = "resend"}
        /\ Resent(i)' = {t \in TasksOn(i)' : t.stage = "resend"}
    BY DEF Undisturbed, Resent, TasksOn
  <2> QED
    BY <2>1 DEF ViewOf, Opened
<1> QED
  BY <1>1 DEF QueueView

\* The view of a job in each of its places.
LEMMA ViewWaits ==
    ASSUME NEW j, NEW e, outcome[j] = "open", Queued(j) = {e}
    PROVE  ViewOf(j) = Record("waiting", e)
BY DEF ViewOf, Opened

\* a job in the map or about to be sent again runs,
LEMMA ViewHeld ==
    ASSUME NEW j, NEW e, outcome[j] = "open", Queued(j) = {},
           EnvelopesOf(j) \cup Resent(j) = {e}
    PROVE  ViewOf(j) = Record("running", e)
BY DEF ViewOf, Opened

\* as does one whose task is not over,
LEMMA ViewExecutes ==
    ASSUME NEW j, NEW e, Executes(j), EnvelopesOf(j) = {e}
    PROVE  /\ ViewOf(j) = Record("running", e)
           /\ outcome[j] = "open" /\ Queued(j) = {} /\ Resent(j) = {}
<1>1. outcome[j] = "open" /\ Queued(j) = {} /\ Resent(j) = {}
  BY DEF Executes, At, Resent, TasksOn
<1> QED
  BY <1>1, ViewHeld

\* and one that never entered the channel is new.
LEMMA ViewUnopened ==
    ASSUME NEW j \in Jobs, outcome[j] \in {"new", "sending"}
    PROVE  ViewOf(j) = Queue!Blank("new")
BY DEF ViewOf, Queue!Blank

\* A step that takes one job from a view to a view.
LEMMA ViewMove ==
    ASSUME NEW j \in Jobs, OthersUndisturbed(j), NEW r, ViewOf(j)' = r
    PROVE  /\ QueueView[j] = ViewOf(j)
           /\ QueueView' = [QueueView EXCEPT ![j] = r]
           /\ r = ViewOf(j) => UNCHANGED QueueView
<1>1. QueueView[j] = ViewOf(j) /\ QueueView = [i \in Jobs |-> QueueView[i]]
  BY DEF QueueView
<1>2. QueueView' = [QueueView EXCEPT ![j] = r]
  BY ViewWrite
<1> QED
  BY <1>1, <1>2

\* A send that goes through is the enqueue of the abstract queue,
LEMMA SendMaps ==
    ASSUME IInv, NEW e \in sending, EnqueueSends(e)
    PROVE  \E j \in Jobs, limit \in AttemptLimits : Queue!enqueue(j, limit)
<1>1. /\ e.job \in Jobs /\ Enqueuing(e.job) /\ Waits(e.job)'
      /\ OthersUndisturbed(e.job)
      /\ At(e.job, {}, {e}, {}, {})' /\ e.attempts = 0
      /\ e.max_attempts \in AttemptLimits
  BY EnqueueSendsPlaces
<1>2. ViewOf(e.job) = Queue!Blank("new")
  BY <1>1, ViewUnopened DEF Enqueuing
<1>3. ViewOf(e.job)' = Record("waiting", e)
  BY <1>1 DEF Waits, At, ViewOf, Opened
<1>4. /\ QueueView[e.job] = ViewOf(e.job)
      /\ QueueView' = [QueueView EXCEPT ![e.job] = Record("waiting", e)]
  BY <1>1, <1>3, ViewMove
<1>5. Queue!enqueue(e.job, e.max_attempts)
  <2> HIDE DEF QueueView, ViewOf
  <2> QED
    BY <1>1, <1>2, <1>4 DEF Queue!enqueue, Queue!Become, Queue!Blank, Record
<1> QED
  BY <1>1, <1>5

\* a receive its dequeue,
LEMMA ReceiveMaps ==
    ASSUME IInv, NEW w \in Workers, ReceiveJob(w)
    PROVE  \E j \in Jobs : Queue!dequeue(j)
<1>1. PICK e \in Envelope :
        /\ e \in ToSet(channel) /\ e.job \in Jobs /\ Waits(e.job)
        /\ Executes(e.job)' /\ OthersUndisturbed(e.job)
        /\ EnvelopesOf(e.job)' = {[e EXCEPT !.attempts = @ + 1]}
  BY ReceivePlaces
<1> DEFINE j == e.job
           r == [e EXCEPT !.attempts = @ + 1]
<1>2. /\ r.attempts = e.attempts + 1 /\ r.max_attempts = e.max_attempts
      /\ EnvelopesOf(j)' = {r}
  BY <1>1 DEF Envelope
<1> HIDE DEF r
<1>3. ViewOf(j) = Record("waiting", e)
  <2>1. e \in Queued(j)
    BY <1>1 DEF Queued
  <2> QED
    BY <1>1, <2>1, ViewWaits DEF Waits, At
<1>4. ViewOf(j)' = Record("running", r)
  <2>1. outcome'[j] = "open" /\ Queued(j)' = {} /\ Resent(j)' = {}
    BY <1>1 DEF Executes, At, Resent, TasksOn
  <2> QED
    BY <1>2, <2>1 DEF ViewOf, Opened
<1>5. /\ QueueView[j] = ViewOf(j)
      /\ QueueView' = [QueueView EXCEPT ![j] = Record("running", r)]
  BY <1>1, <1>4, ViewMove
<1>6. Queue!dequeue(j)
  <2> HIDE DEF QueueView, ViewOf
  <2> QED
    BY <1>2, <1>3, <1>5 DEF Queue!dequeue, Queue!Become, Record
<1> QED
  BY <1>1, <1>6

\* the send of a retry its reschedule,
LEMMA ResendMaps ==
    ASSUME IInv, NEW t \in tasks, ResendRetry(t)
    PROVE  \E j \in Jobs : Queue!reschedule(j)
<1>1. PICK e \in Envelope :
        /\ t.job \in Jobs /\ Resends(t.job) /\ TasksOn(t.job) = {t}
        /\ t.attempts < t.max_attempts
        /\ Waits(t.job)' /\ Queued(t.job)' = {e}
        /\ e.attempts = t.attempts /\ e.max_attempts = t.max_attempts
        /\ OthersUndisturbed(t.job)
  BY ResendRetryPlaces
<1>2. ViewOf(t.job) = Record("running", t)
  <2>1. /\ outcome[t.job] = "open" /\ Queued(t.job) = {} /\ EnvelopesOf(t.job) = {}
        /\ Resent(t.job) = {t}
    BY <1>1 DEF Resends, At, Resent, TasksOn
  <2> QED
    BY <2>1, ViewHeld
<1>3. ViewOf(t.job)' = Record("waiting", e)
  BY <1>1 DEF Waits, ViewOf, Opened
<1>4. /\ QueueView[t.job] = ViewOf(t.job)
      /\ QueueView' = [QueueView EXCEPT ![t.job] = Record("waiting", e)]
  BY <1>1, <1>3, ViewMove
<1>5. Queue!reschedule(t.job)
  <2> HIDE DEF QueueView, ViewOf
  <2> QED
    BY <1>1, <1>2, <1>4 DEF Queue!reschedule, Queue!Become, Record
<1> QED
  BY <1>1, <1>5

\* a report for good its acknowledge or giveUp,
LEMMA ReportMaps ==
    ASSUME IInv, NEW t \in tasks, Acknowledge(t) \/ FailPermanently(t)
    PROVE  \E j \in Jobs : Queue!acknowledge(j) \/ Queue!giveUp(j)
<1>1. PICK e \in Envelope :
        /\ t.job \in Jobs /\ Executes(t.job) /\ EnvelopesOf(t.job) = {e}
        /\ \/ outcome'[t.job] = "completed"
           \/ outcome'[t.job] = "failed" /\ e.attempts >= e.max_attempts
        /\ OthersUndisturbed(t.job)
  BY ReportPlaces
<1>2. ViewOf(t.job) = Record("running", e)
  BY <1>1, ViewExecutes
<1>3. CASE outcome'[t.job] = "completed"
  <2>1. ViewOf(t.job)' = Queue!Blank("completed")
    BY <1>3 DEF ViewOf, Queue!Blank
  <2>2. /\ QueueView[t.job] = ViewOf(t.job)
        /\ QueueView' = [QueueView EXCEPT ![t.job] = Queue!Blank("completed")]
    BY <1>1, <2>1, ViewMove
  <2>3. Queue!acknowledge(t.job)
    <3> HIDE DEF QueueView, ViewOf
    <3> QED
      BY <1>2, <2>2 DEF Queue!acknowledge, Record
  <2> QED
    BY <1>1, <2>3
<1>4. CASE outcome'[t.job] = "failed" /\ e.attempts >= e.max_attempts
  <2>1. ViewOf(t.job)' = Queue!Blank("failed")
    BY <1>4 DEF ViewOf, Queue!Blank
  <2>2. /\ QueueView[t.job] = ViewOf(t.job)
        /\ QueueView' = [QueueView EXCEPT ![t.job] = Queue!Blank("failed")]
    BY <1>1, <2>1, ViewMove
  <2>3. Queue!giveUp(t.job)
    <3> HIDE DEF QueueView, ViewOf
    <3> QED
      BY <1>2, <1>4, <2>2 DEF Queue!giveUp, Record
  <2> QED
    BY <1>1, <2>3
<1> QED
  BY <1>1, <1>3, <1>4

\* and the end of the process its loss.
LEMMA ForgetMaps ==
    ASSUME IInv, Forget
    PROVE  Queue!lose
<1>1. outcome' = [j \in Jobs |-> CASE outcome[j] = "sending" -> "dropped"
                                   [] outcome[j] = "open"    -> "lost"
                                   [] OTHER                  -> outcome[j]]
  BY DEF Forget
<1>2. ASSUME NEW j \in Jobs
      PROVE  ViewOf(j)' = IF ViewOf(j).phase \in {"waiting", "running"}
                          THEN Queue!Blank("lost") ELSE ViewOf(j)
  <2>1. CASE outcome[j] = "open"
    <3>1. ViewOf(j).phase \in {"waiting", "running"}
      BY <2>1 DEF ViewOf, Opened, Record
    <3>2. ViewOf(j)' = Queue!Blank("lost")
      BY <1>1, <2>1 DEF ViewOf, Queue!Blank
    <3> QED
      BY <3>1, <3>2
  <2>2. CASE outcome[j] # "open"
    <3>1. ViewOf(j).phase \notin {"waiting", "running"}
      BY <2>2 DEF ViewOf, IInv, TypeOK, Outcome
    <3>2. ViewOf(j)' = ViewOf(j)
      BY <1>1, <2>2 DEF ViewOf
    <3> QED
      BY <3>1, <3>2
  <2> QED
    BY <2>1, <2>2
<1>3. /\ \A j \in Jobs : QueueView[j] = ViewOf(j)
      /\ QueueView' = [j \in Jobs |-> ViewOf(j)']
  BY DEF QueueView
<1> HIDE DEF QueueView, ViewOf
<1> QED
  BY <1>2, <1>3 DEF Queue!lose

\* The steps the abstract queue does not see.
LEMMA Unseen ==
    ASSUME IInv, NEW j \in Jobs, OthersUndisturbed(j),
           \/ outcome[j] \in {"new", "sending"} /\ outcome'[j] \in {"new", "sending"}
           \/ /\ Executes(j) /\ (Executes(j)' \/ Orphaned(j)')
              /\ UNCHANGED EnvelopesOf(j)
           \/ \E e \in Envelope, u \in Task :
                /\ Executes(j) /\ EnvelopesOf(j) = {e}
                /\ Resends(j)' /\ TasksOn(j)' = {u}
                /\ u.attempts = e.attempts /\ u.max_attempts = e.max_attempts
    PROVE  UNCHANGED QueueView
<1> SUFFICES ViewOf(j)' = ViewOf(j)
  BY ViewMove
<1>1. CASE outcome[j] \in {"new", "sending"} /\ outcome'[j] \in {"new", "sending"}
  BY <1>1 DEF ViewOf
<1>2. CASE Executes(j) /\ (Executes(j)' \/ Orphaned(j)') /\ UNCHANGED EnvelopesOf(j)
  <2>1. PICK e \in Envelope : EnvelopesOf(j) = {e}
    BY <1>2 DEF Executes, At
  <2>2. ViewOf(j) = Record("running", e)
    BY <1>2, <2>1, ViewExecutes
  <2>3. outcome'[j] = "open" /\ Queued(j)' = {} /\ Resent(j)' = {}
    BY <1>2 DEF Executes, Orphaned, At, Resent, TasksOn
  <2>4. ViewOf(j)' = Record("running", e)
    BY <1>2, <2>1, <2>3 DEF ViewOf, Opened
  <2> QED
    BY <2>2, <2>4
<1>3. ASSUME NEW e \in Envelope, NEW u \in Task,
             Executes(j), EnvelopesOf(j) = {e}, Resends(j)', TasksOn(j)' = {u},
             u.attempts = e.attempts, u.max_attempts = e.max_attempts
      PROVE  ViewOf(j)' = ViewOf(j)
  <2>1. ViewOf(j) = Record("running", e)
    BY <1>3, ViewExecutes
  <2>2. /\ outcome'[j] = "open" /\ Queued(j)' = {} /\ EnvelopesOf(j)' = {}
        /\ Resent(j)' = {u}
    BY <1>3 DEF Resends, At, Resent, TasksOn
  <2>3. ViewOf(j)' = Record("running", u)
    BY <2>2 DEF ViewOf, Opened
  <2> QED
    BY <1>3, <2>1, <2>3 DEF Record
<1> QED
  BY <1>1, <1>2, <1>3

\* Every step is a step of the abstract queue or invisible to it.
LEMMA StepMaps == IInv /\ [Next]_vars => Queue!Next \/ UNCHANGED QueueView
<1> SUFFICES ASSUME IInv, [Next]_vars PROVE Queue!Next \/ UNCHANGED QueueView
  OBVIOUS
<1>1. UNCHANGED <<backendVars, tasks, starts>> => UNCHANGED QueueView
  BY Frame, ViewFrame
<1>2. ASSUME NEW j \in Jobs, NEW limit \in AttemptLimits, NEW at \in 0 .. MaxTime,
             Enqueue(j, limit, at)
      PROVE  UNCHANGED QueueView
  BY <1>2, EnqueuePlaces, Unseen DEF Enqueuing
<1>3. ASSUME NEW e \in sending, EnqueueSends(e) PROVE Queue!Next
  BY <1>3, SendMaps DEF Queue!Next
<1>4. ASSUME NEW w \in Workers, LoopStep(w) PROVE Queue!Next \/ UNCHANGED QueueView
  <2>1. CASE ReceiveJob(w)
    BY <2>1, ReceiveMaps DEF Queue!Next
  <2> QED
    BY <1>1, <1>4, <2>1 DEF LoopStep, ReceiveNone, SeeShutdown, TakePermit, DrainDone,
                            NothingDequeued, historyVars
<1>5. ASSUME NEW w \in Workers, ProcessStep(w) PROVE Queue!Next \/ UNCHANGED QueueView
  <2>1. CASE SignalShutdown(w) /\ UNCHANGED backendVars
    BY <1>1, <2>1 DEF SignalShutdown, historyVars
  <2>2. CASE Forget
    BY <2>2, ForgetMaps DEF Queue!Next
  <2> QED
    BY <1>5, <2>1, <2>2 DEF ProcessStep
<1>6. ASSUME NEW t \in tasks, TaskStep(t) PROVE Queue!Next \/ UNCHANGED QueueView
  <2>1. CASE (HandlerOk(t) \/ HandlerErr(t)) /\ UNCHANGED backendVars
    BY <2>1, HandlerPlaces, Unseen
  <2>2. CASE Acknowledge(t) \/ FailPermanently(t)
    BY <2>2, ReportMaps DEF Queue!Next
  <2>3. CASE FailRetry(t)
    BY <2>3, FailRetryPlaces, Unseen
  <2>4. CASE ResendRetry(t)
    BY <2>4, ResendMaps DEF Queue!Next
  <2> QED
    BY <1>6, <2>1, <2>2, <2>3, <2>4 DEF TaskStep
<1>7. ASSUME NEW t \in tasks, HandlerPanic(t), UNCHANGED backendVars
      PROVE  UNCHANGED QueueView
  BY <1>7, PanicPlaces, Unseen
<1>8. CASE Tick /\ UNCHANGED backendVars
  BY <1>1, <1>8 DEF Tick, historyVars
<1>9. CASE UNCHANGED vars
  BY <1>1, <1>9 DEF vars, workerVars, historyVars
<1> QED
  BY <1>2, <1>3, <1>4, <1>5, <1>6, <1>7, <1>8, <1>9 DEF Next

\* The channel under its worker is a volatile job queue: a job is handed out
\* to one task at a time and again only after a failure that leaves it an
\* attempt, what is over stays over, and only the end of the process loses it.
THEOREM Refinement == Spec => ImplementsJobQueue
<1>1. Init => Queue!Init
  <2> SUFFICES ASSUME Init PROVE \A j \in Jobs : ViewOf(j) = Queue!Blank("new")
    BY DEF QueueView, Queue!Init
  <2> QED
    BY ViewUnopened DEF Init
<1>2. IInv /\ [Next]_vars => [Queue!Next]_QueueView
  BY StepMaps
<1> QED
  BY <1>1, <1>2, Invariant, PTL DEF Spec, ImplementsJobQueue, Queue!Spec

-----------------------------------------------------------------------------
(***************************************************************************)
(* What the channel inherits from JobQueue: the view is taken as it is, and*)
(* only the steps of the abstract queue are used.                          *)
(***************************************************************************)
ViewLimit(j) == IF QueueView[j].max_attempts = 0 THEN 1 ELSE QueueView[j].max_attempts

\* A job that waits has an attempt left: this is what dequeue relies on, and
\* what the guards of reschedule and enqueue provide.
AttemptInv ==
    \A j \in Jobs :
        /\ QueueView[j].attempts <= ViewLimit(j)
        /\ QueueView[j].phase = "waiting" => QueueView[j].attempts < ViewLimit(j)

QueueInv == Queue!QueueTypeOK /\ AttemptInv

\* What one step makes of one job.
Turn(j) ==
    \/ QueueView'[j] = QueueView[j]
    \/ QueueView[j].phase = "new" /\ \E limit \in AttemptLimits :
          QueueView'[j] = [phase |-> "waiting", attempts |-> 0, max_attempts |-> limit]
    \/ QueueView[j].phase = "waiting"
       /\ QueueView'[j] = [phase |-> "running", attempts |-> QueueView[j].attempts + 1,
                           max_attempts |-> QueueView[j].max_attempts]
    \/ QueueView[j].phase = "running"
       /\ QueueView[j].attempts < QueueView[j].max_attempts
       /\ QueueView'[j] = [phase |-> "waiting", attempts |-> QueueView[j].attempts,
                           max_attempts |-> QueueView[j].max_attempts]
    \/ QueueView[j].phase \in {"waiting", "running"}
       /\ \E phase \in {"completed", "failed", "lost"} : QueueView'[j] = Queue!Blank(phase)

\* Every step gives each job one of these turns, or none.
LEMMA OneTurn ==
    ASSUME Queue!QueueTypeOK, [Queue!Next]_QueueView
    PROVE  /\ \A j \in Jobs : Turn(j)
           /\ \E f : QueueView' = [j \in Jobs |-> f[j]]
<1>0. QueueView = [j \in Jobs |-> QueueView[j]]
  BY DEF Queue!QueueTypeOK
<1>1. ASSUME NEW i \in Jobs, NEW r, QueueView' = [QueueView EXCEPT ![i] = r]
      PROVE  /\ QueueView'[i] = r /\ \A j \in Jobs : j # i => QueueView'[j] = QueueView[j]
             /\ \E f : QueueView' = [j \in Jobs |-> f[j]]
  <2>1. QueueView' = [j \in Jobs |-> QueueView'[j]]
    BY <1>0, <1>1
  <2> QED
    BY <1>0, <1>1, <2>1
<1>2. ASSUME NEW i \in Jobs, NEW limit \in AttemptLimits, Queue!enqueue(i, limit)
      PROVE  /\ \A j \in Jobs : Turn(j)
             /\ \E f : QueueView' = [j \in Jobs |-> f[j]]
  <2> DEFINE r == [phase |-> "waiting", attempts |-> 0, max_attempts |-> limit]
  <2>1. QueueView[i].phase = "new" /\ QueueView' = [QueueView EXCEPT ![i] = r]
    BY <1>2 DEF Queue!enqueue, Queue!Become
  <2>2. /\ QueueView'[i] = r /\ \A j \in Jobs : j # i => QueueView'[j] = QueueView[j]
        /\ \E f : QueueView' = [j \in Jobs |-> f[j]]
    BY <1>1, <2>1, Zenon
  <2>3. Turn(i)
    BY <2>1, <2>2 DEF Turn
  <2>4. \A j \in Jobs : j # i => Turn(j)
    BY <2>2 DEF Turn
  <2> QED
    BY <2>2, <2>3, <2>4
<1>3. ASSUME NEW i \in Jobs, Queue!dequeue(i)
      PROVE  /\ \A j \in Jobs : Turn(j)
             /\ \E f : QueueView' = [j \in Jobs |-> f[j]]
  BY <1>1, <1>3 DEF Queue!dequeue, Queue!Become, Turn
<1>4. ASSUME NEW i \in Jobs, Queue!acknowledge(i) \/ Queue!giveUp(i)
      PROVE  /\ \A j \in Jobs : Turn(j)
             /\ \E f : QueueView' = [j \in Jobs |-> f[j]]
  BY <1>1, <1>4 DEF Queue!acknowledge, Queue!giveUp, Turn
<1>5. ASSUME NEW i \in Jobs, Queue!reschedule(i)
      PROVE  /\ \A j \in Jobs : Turn(j)
             /\ \E f : QueueView' = [j \in Jobs |-> f[j]]
  <2> DEFINE r == [phase |-> "waiting", attempts |-> QueueView[i].attempts,
                   max_attempts |-> QueueView[i].max_attempts]
  <2>1. /\ QueueView[i].phase = "running"
        /\ QueueView[i].attempts < QueueView[i].max_attempts
        /\ QueueView' = [QueueView EXCEPT ![i] = r]
    BY <1>5 DEF Queue!reschedule, Queue!Become
  <2>2. /\ QueueView'[i] = r /\ \A j \in Jobs : j # i => QueueView'[j] = QueueView[j]
        /\ \E f : QueueView' = [j \in Jobs |-> f[j]]
    BY <1>1, <2>1, Zenon
  <2>3. Turn(i)
    BY <2>1, <2>2 DEF Turn
  <2>4. \A j \in Jobs : j # i => Turn(j)
    BY <2>2 DEF Turn
  <2> QED
    BY <2>2, <2>3, <2>4
<1>6. CASE Queue!lose
  <2>1. QueueView' = [j \in Jobs |-> QueueView'[j]]
    BY <1>6 DEF Queue!lose
  <2>2. \A j \in Jobs : Turn(j)
    BY <1>6 DEF Queue!lose, Turn
  <2> QED
    BY <2>1, <2>2
<1>7. CASE UNCHANGED QueueView
  BY <1>0, <1>7 DEF Turn
<1> QED
  BY <1>2, <1>3, <1>4, <1>5, <1>6, <1>7 DEF Queue!Next

\* Every step keeps the invariant.
LEMMA QueueInvStep == QueueInv /\ [Queue!Next]_QueueView => QueueInv'
<1> SUFFICES ASSUME QueueInv, [Queue!Next]_QueueView PROVE QueueInv'
  OBVIOUS
<1>1. /\ \A j \in Jobs : Turn(j)
      /\ \E f : QueueView' = [j \in Jobs |-> f[j]]
  BY OneTurn DEF QueueInv
<1>2. ASSUME NEW j \in Jobs
      PROVE  /\ QueueView'[j] \in [phase: Queue!Phase, attempts: Nat, max_attempts: Nat]
             /\ QueueView'[j].attempts <= ViewLimit(j)'
             /\ QueueView'[j].phase = "waiting" => QueueView'[j].attempts < ViewLimit(j)'
  <2>1. /\ QueueView[j] \in [phase: Queue!Phase, attempts: Nat, max_attempts: Nat]
        /\ QueueView[j].attempts <= ViewLimit(j)
        /\ QueueView[j].phase = "waiting" => QueueView[j].attempts < ViewLimit(j)
    BY DEF QueueInv, Queue!QueueTypeOK, AttemptInv
  <2>2. PICK phase \in Queue!Phase, a \in Nat, m \in Nat :
           /\ QueueView'[j] = [phase |-> phase, attempts |-> a, max_attempts |-> m]
           /\ a <= IF m = 0 THEN 1 ELSE m
           /\ phase = "waiting" => a < IF m = 0 THEN 1 ELSE m
    <3>1. CASE QueueView'[j] = QueueView[j]
      BY <2>1, <3>1 DEF ViewLimit
    <3>2. CASE \E limit \in AttemptLimits :
                  QueueView'[j] = [phase |-> "waiting", attempts |-> 0,
                                   max_attempts |-> limit]
      BY <3>2, LimitsAssumption DEF Queue!Phase
    <3>3. CASE /\ QueueView[j].phase = "waiting"
               /\ QueueView'[j] = [phase |-> "running", attempts |-> QueueView[j].attempts + 1,
                                   max_attempts |-> QueueView[j].max_attempts]
      <4> DEFINE a == QueueView[j].attempts
                 m == QueueView[j].max_attempts
      <4>1. a \in Nat /\ m \in Nat /\ a < IF m = 0 THEN 1 ELSE m
        BY <2>1, <3>3 DEF ViewLimit
      <4>2. a + 1 \in Nat /\ a + 1 <= IF m = 0 THEN 1 ELSE m
        <5> HIDE DEF a, m
        <5> QED
          BY <4>1
      <4>3. "running" \in Queue!Phase /\ "running" # "waiting"
        BY DEF Queue!Phase
      <4> HIDE DEF a, m
      <4>4. QueueView'[j] = [phase |-> "running", attempts |-> a + 1, max_attempts |-> m]
        BY <3>3 DEF a, m
      <4> QED
        BY <4>1, <4>2, <4>3, <4>4
    <3>4. CASE /\ QueueView[j].attempts < QueueView[j].max_attempts
               /\ QueueView'[j] = [phase |-> "waiting", attempts |-> QueueView[j].attempts,
                                   max_attempts |-> QueueView[j].max_attempts]
      BY <2>1, <3>4 DEF ViewLimit, Queue!Phase
    <3>5. CASE \E phase \in {"completed", "failed", "lost"} :
                  QueueView'[j] = Queue!Blank(phase)
      BY <3>5 DEF Queue!Blank, Queue!Phase
    <3> QED
      BY <1>1, <3>1, <3>2, <3>3, <3>4, <3>5 DEF Turn
  <2> QED
    BY <2>2 DEF ViewLimit
<1> QED
  BY <1>1, <1>2 DEF QueueInv, Queue!QueueTypeOK, AttemptInv

\* The invariant holds of every queue that implements JobQueue, this one too.
LEMMA QueueInvariant == Queue!Spec => []QueueInv
<1>1. Queue!Init => QueueInv
  BY DEF Queue!Init, QueueInv, Queue!QueueTypeOK, AttemptInv, ViewLimit,
         Queue!Blank, Queue!Phase
<1> QED
  BY <1>1, QueueInvStep, PTL DEF Queue!Spec

\* Whatever the handlers do, the channel hands a job out at most max_attempts
\* times, and once when max_attempts is 0; the proof uses only that the
\* channel implements JobQueue.
THEOREM AttemptsWithinLimitHolds == Spec => []Queue!AttemptsWithinLimit
<1>1. QueueInv => Queue!AttemptsWithinLimit
  BY DEF QueueInv, AttemptInv, ViewLimit, Queue!AttemptsWithinLimit
<1> QED
  BY <1>1, QueueInvariant, Refinement, PTL DEF ImplementsJobQueue

\* A job that is completed, failed or lost stays so: no late report, retry or
\* restart brings it back. This too follows from JobQueue alone.
THEOREM OverIsFinalHolds == Spec => Queue!OverIsFinal
<1>1. QueueInv /\ [Queue!Next]_QueueView
      => [\A j \in Jobs : QueueView[j].phase \in {"completed", "failed", "lost"}
                          => QueueView'[j] = QueueView[j]]_QueueView
  BY OneTurn DEF QueueInv, Turn
<1> QED
  BY <1>1, QueueInvariant, Refinement, PTL
  DEF ImplementsJobQueue, Queue!Spec, Queue!OverIsFinal

-----------------------------------------------------------------------------
(***************************************************************************)
(* The scheduler in the process of the queue.  Its inductive invariant     *)
(* accounts for every occurrence of an entry: before next_run, at it, and  *)
(* between it and the present.                                             *)
(***************************************************************************)
ClockInv == now <= MaxTime /\ turn \in 0 .. now

PlanInv ==
    /\ sched \in SchedulerState
    /\ \E n \in 0 .. Len(Entries) : todo = SubSeq(Entries, n + 1, Len(Entries))
    /\ next_run \in [Names -> 1 .. Never]
    /\ fired \in [Names -> SUBSET (1 .. MaxTime)]
    /\ excused \in [Names -> SUBSET (1 .. MaxTime)]

LivesWithProcess == sched = "down" <=> loop[Host] = "down"

\* what is behind next_run was dispatched or excused; what came after it, only
\* while the scheduler could not look, and a process that is down misses all
Missed(e, s) ==
    \/ s < next_run[e]
    \/ next_run[e] < s /\ s <= now
    \/ sched = "down" /\ s <= now

SlotInv ==
    \A e \in Names : \A s \in Occurrences[e] :
        Missed(e, s) => s \in fired[e] \cup excused[e]

Sending(e) == sched = "send" /\ e = Head(todo)

FiredInv ==
    \A e \in Names : \A s \in fired[e] :
        /\ s <= next_run[e] /\ s <= now
        /\ s = next_run[e] => sched = "down" \/ Sending(e)

SendInv ==
    sched = "send" =>
        /\ todo # <<>> /\ DueInTurn(Head(todo))
        /\ next_run[Head(todo)] \in fired[Head(todo)]

SchedInv ==
    /\ ClockInv /\ PlanInv /\ LivesWithProcess
    /\ SlotInv /\ FiredInv /\ SendInv

\* A set of natural numbers that is not empty has a least element.
LEMMA MinOfNaturals ==
    ASSUME NEW S \in SUBSET Nat, S # {}
    PROVE  Min(S) \in S /\ \A y \in S : Min(S) <= y
<1> DEFINE F == {0 .. x : x \in S}
<1>1. ASSUME NEW x \in S PROVE 0 .. x \in FiniteSubsetsOf(Nat)
  <2>1. IsFiniteSet(0 .. x)
    BY FS_Interval
  <2>2. 0 .. x \subseteq Nat
    OBVIOUS
  <2> QED
    BY <2>1, <2>2 DEF FiniteSubsetsOf
<1>2. PICK X \in F : \A Y \in F : <<Y, X>> \notin StrictSubsetOrdering(Nat)
  <2>1. F \subseteq FiniteSubsetsOf(Nat) /\ F # {}
    BY <1>1
  <2> QED
    BY <2>1, FS_StrictSubsetOrderingWellFounded, WFMin
<1>3. PICK x \in S : X = 0 .. x
  BY <1>2
<1>4. ASSUME NEW y \in S, y < x PROVE FALSE
  <2>1. 0 .. y \subseteq 0 .. x /\ x \in 0 .. x /\ x \notin 0 .. y
    BY <1>4
  <2>2. <<0 .. y, X>> \in StrictSubsetOrdering(Nat)
    BY <1>3, <2>1 DEF StrictSubsetOrdering
  <2> QED
    BY <1>2, <2>2
<1>5. \A y \in S : x <= y
  BY <1>4
<1> QED
  BY <1>5 DEF Min

\* The next occurrence after t is later than t, and none lies in between.
LEMMA AfterIsNext ==
    ASSUME NEW e \in Names, NEW t \in 0 .. MaxTime
    PROVE  /\ After(e, t) \in 1 .. Never /\ After(e, t) > t
           /\ \A s \in Occurrences[e] : s < After(e, t) => s <= t
<1> DEFINE S == {s \in Occurrences[e] : s > t} \cup {Never}
<1>1. Occurrences[e] \subseteq 1 .. MaxTime /\ MaxTime \in Nat
  BY SchedulerConstantsAssumption, TimeAssumption DEF Names
<1>2. /\ S \in SUBSET Nat /\ S # {} /\ Never \in S
      /\ \A s \in S : s > t /\ s \in 1 .. Never
      /\ \A s \in Occurrences[e] : s > t => s \in S
  BY <1>1 DEF Never
<1>3. After(e, t) = Min(S)
  BY DEF After
<1>4. After(e, t) \in S /\ \A y \in S : After(e, t) <= y
  BY <1>2, <1>3, MinOfNaturals
<1> QED
  BY <1>1, <1>2, <1>4

\* Every step of scheduler, worker and process is one of the queue under its
\* worker, or none: the scheduler only enqueues.
LEMMA SchedulerEnqueues ==
    ASSUME TypeOK, ClockInv, [SchedNext]_allVars
    PROVE  [Next]_vars
<1>1. CASE SchedulerStep
  <2>1. CASE Dispatch
    <3>1. now \in 0 .. MaxTime
      BY TimeAssumption DEF ClockInv, TypeOK, WorkerTypeOK
    <3>2. PICK j \in Jobs, limit \in AttemptLimits : Enqueue(j, limit, now)
      BY <2>1 DEF Dispatch
    <3> QED
      BY <3>1, <3>2 DEF Next
  <2>2. CASE UNCHANGED vars
    BY <2>2
  <2> QED
    BY <1>1, <2>1, <2>2 DEF SchedulerStep, SeeSignal, Wake, TurnOver, NotDue, BuildFails,
                            Dispatched
<1>2. CASE QueueStep
  BY <1>2 DEF QueueStep, Next, ProcessStep
<1>3. CASE ProcessEnds \/ ProcessStarts
  BY <1>3, SchedulerConstantsAssumption DEF ProcessEnds, ProcessStarts, Next, ProcessStep
<1>4. CASE ClockTick
  BY <1>4 DEF ClockTick, Next
<1>5. CASE UNCHANGED allVars
  BY <1>5 DEF allVars
<1> QED
  BY <1>1, <1>2, <1>3, <1>4, <1>5 DEF SchedNext

\* The queue and its worker take no scheduler away.
LEMMA QueueStepKeeps ==
    ASSUME TypeOK, QueueStep
    PROVE  /\ UNCHANGED <<schedulerVars, now>>
           /\ loop'[Host] = "down" <=> loop[Host] = "down"
<1> USE DEF historyVars
<1>1. UNCHANGED schedulerVars
  BY DEF QueueStep
<1>2. CASE \E e \in sending : EnqueueSends(e)
  BY <1>1, <1>2 DEF EnqueueSends, workerVars
<1>3. ASSUME NEW w \in Workers, LoopStep(w)
      PROVE  now' = now /\ (loop'[Host] = "down" <=> loop[Host] = "down")
  <2>1. now' = now /\ \E state \in LoopState \ {"down"} :
            loop[w] # "down" /\ loop' = [loop EXCEPT ![w] = state]
    BY <1>3 DEF LoopStep, SeeShutdown, TakePermit, DrainDone, ReceiveJob, ReceiveNone,
                NothingDequeued, SpawnTask, GoTo, LoopState
  <2> QED
    BY <2>1, SchedulerConstantsAssumption DEF TypeOK, WorkerTypeOK
<1>4. ASSUME NEW w \in Workers, SignalShutdown(w)
      PROVE  now' = now /\ loop' = loop
  BY <1>4 DEF SignalShutdown
<1>5. ASSUME NEW t \in tasks, TaskStep(t)
      PROVE  now' = now /\ loop' = loop
  BY <1>5 DEF TaskStep, HandlerOk, HandlerErr, Acknowledge, FailRetry, ResendRetry,
              FailPermanently, FinishTask
<1> QED
  BY <1>1, <1>2, <1>3, <1>4, <1>5 DEF QueueStep

\* What is left of a turn is an end of the list of entries.
LEMMA TodoIs ==
    ASSUME PlanInv, todo # <<>>
    PROVE  /\ Head(todo) \in Names
           /\ \E n \in 0 .. Len(Entries) :
                Tail(todo) = SubSeq(Entries, n + 1, Len(Entries))
<1>1. PICK n \in 0 .. Len(Entries) : todo = SubSeq(Entries, n + 1, Len(Entries))
  BY DEF PlanInv
<1>2. Entries \in Seq(Names) /\ Len(Entries) \in Nat
  BY SchedulerConstantsAssumption, LenProperties DEF Names
<1>3. n + 1 \in 1 .. Len(Entries)
  <2>1. n # Len(Entries)
    BY <1>1, <1>2, SubSeqEmpty
  <2> QED
    BY <1>2, <2>1
<1>4. /\ Head(todo) = Entries[n + 1]
      /\ Tail(todo) = SubSeq(Entries, n + 1 + 1, Len(Entries))
  <2>1. Len(Entries) \in n + 1 .. Len(Entries)
    BY <1>2, <1>3
  <2> QED
    BY <1>1, <1>2, <1>3, <2>1, HeadTailOfSubSeq
<1>5. Entries[n + 1] \in Names
  BY <1>2, <1>3, ElementOfSeq
<1> QED
  BY <1>2, <1>3, <1>4, <1>5

\* Occurrences are positive times within the bound.
LEMMA OccurrencesType ==
    \A e \in Names : \A s \in Occurrences[e] : s \in 1 .. MaxTime
BY SchedulerConstantsAssumption DEF Names

\* At the start every occurrence lies ahead.
LEMMA SchedInvInit == SchedInit => SchedInv
<1> SUFFICES ASSUME SchedInit PROVE SchedInv
  OBVIOUS
<1>1. now = 0 /\ loop[Host] = "top" /\ MaxTime \in Nat
  BY SchedulerConstantsAssumption, TimeAssumption DEF SchedInit, Init, WorkerInit
<1>2. \A e \in Names : next_run[e] \in 1 .. Never
  BY <1>1, AfterIsNext DEF SchedInit
<1>3. ClockInv /\ LivesWithProcess /\ SendInv
  BY <1>1 DEF SchedInit, ClockInv, LivesWithProcess, SendInv
<1>4. PlanInv
  <2>1. Len(Entries) \in Nat /\ todo = SubSeq(Entries, Len(Entries) + 1, Len(Entries))
    BY SchedulerConstantsAssumption, LenProperties, SubSeqEmpty DEF SchedInit
  <2>2. next_run \in [Names -> 1 .. Never]
    BY <1>2 DEF SchedInit
  <2> QED
    BY <2>1, <2>2 DEF PlanInv, SchedInit, SchedulerState
<1>5. SlotInv
  <2> SUFFICES ASSUME NEW e \in Names, NEW s \in Occurrences[e], Missed(e, s)
               PROVE  FALSE
    BY DEF SlotInv
  <2>1. s \in 1 .. MaxTime /\ s > 0
    BY OccurrencesType
  <2>2. s < After(e, 0) => s <= 0
    BY <1>1, AfterIsNext
  <2> QED
    BY <1>1, <2>1, <2>2 DEF Missed, SchedInit
<1>6. FiredInv
  BY DEF FiredInv, SchedInit
<1> QED
  BY <1>3, <1>4, <1>5, <1>6 DEF SchedInv

\* Going to sleep, waking up, seeing the signal and passing over an entry that
\* is not due move no slot.
LEMMA QuietSteps ==
    ASSUME TypeOK, SchedInv, SeeSignal \/ Wake \/ TurnOver \/ NotDue
    PROVE  SchedInv'
<1>1. /\ UNCHANGED <<vars, next_run, fired, excused>>
      /\ sched \in {"sleep", "turn"} /\ sched' \in {"sleep", "turn", "stopped"}
      /\ turn' \in {turn, now, 0}
  BY DEF SeeSignal, Wake, TurnOver, NotDue, scheduleVars
<1>2. UNCHANGED <<now, loop>>
  BY <1>1 DEF vars, workerVars
<1>3. ClockInv'
  BY <1>1, <1>2 DEF SchedInv, ClockInv, TypeOK, WorkerTypeOK
<1>4. PlanInv'
  <2>1. \E n \in 0 .. Len(Entries) : todo' = SubSeq(Entries, n + 1, Len(Entries))
    <3>1. CASE todo' = todo
      BY <3>1 DEF SchedInv, PlanInv
    <3>2. CASE todo' = Entries
      <4>1. Entries \in Seq(Names) /\ Len(Entries) \in Nat
        BY SchedulerConstantsAssumption, LenProperties DEF Names
      <4>2. Entries = SubSeq(Entries, 0 + 1, Len(Entries))
        BY <4>1, SubSeqFull
      <4> QED
        BY <3>2, <4>1, <4>2
    <3>3. CASE NotDue
      BY <3>3, TodoIs DEF NotDue, SchedInv
    <3> QED
      BY <3>1, <3>2, <3>3 DEF SeeSignal, Wake, TurnOver, scheduleVars
  <2> QED
    BY <1>1, <2>1 DEF SchedInv, PlanInv, SchedulerState
<1>5. LivesWithProcess'
  BY <1>1, <1>2 DEF SchedInv, LivesWithProcess
<1>6. SlotInv'
  BY <1>1, <1>2 DEF SchedInv, SlotInv, Missed
<1>7. FiredInv'
  BY <1>1, <1>2 DEF SchedInv, FiredInv, Sending
<1>8. SendInv'
  BY <1>1 DEF SendInv
<1> QED
  BY <1>3, <1>4, <1>5, <1>6, <1>7, <1>8 DEF SchedInv

\* A dispatch or a payload that cannot be built moves next_run past the present
\* turn: the slot itself was fired or is excused now, and the ones between it
\* and the turn came while nothing could be dispatched.
LEMMA SlotMoves ==
    ASSUME TypeOK, SchedInv, NEW e \in Names, e = Head(todo), DueInTurn(e), todo # <<>>,
           UNCHANGED <<vars, turn>>, todo' = Tail(todo),
           sched # "down", sched' = "turn",
           next_run' = [next_run EXCEPT ![e] = After(e, turn)],
           fired' = fired,
           (excused' = excused /\ Sending(e))
           \/ (excused' = [excused EXCEPT ![e] = @ \cup {next_run[e]}] /\ ~Sending(e))
    PROVE  SchedInv'
<1>0. UNCHANGED <<now, loop>>
  BY DEF vars, workerVars
<1>1. /\ now \in 0 .. MaxTime /\ turn \in 0 .. now /\ turn \in 0 .. MaxTime
      /\ MaxTime \in Nat
  BY TimeAssumption DEF SchedInv, ClockInv, TypeOK, WorkerTypeOK
<1>2. /\ next_run \in [Names -> 1 .. Never]
      /\ fired \in [Names -> SUBSET (1 .. MaxTime)]
      /\ excused \in [Names -> SUBSET (1 .. MaxTime)]
  BY DEF SchedInv, PlanInv
<1>3. next_run[e] \in 1 .. MaxTime /\ next_run[e] <= turn
  BY <1>1, <1>2 DEF DueInTurn
<1>4. /\ After(e, turn) \in 1 .. Never /\ After(e, turn) > turn
      /\ \A s \in Occurrences[e] : s < After(e, turn) => s <= turn
  BY <1>1, AfterIsNext
<1>5. /\ next_run' \in [Names -> 1 .. Never] /\ next_run'[e] = After(e, turn)
      /\ \A i \in Names \ {e} : next_run'[i] = next_run[i]
  BY <1>2, <1>4
<1>6. /\ excused' \in [Names -> SUBSET (1 .. MaxTime)]
      /\ \A i \in Names : excused[i] \subseteq excused'[i]
      /\ Sending(e) \/ next_run[e] \in excused'[e]
  <2>1. CASE excused' = excused /\ Sending(e)
    BY <1>2, <2>1
  <2>2. CASE excused' = [excused EXCEPT ![e] = @ \cup {next_run[e]}]
    BY <1>2, <1>3, <2>2
  <2> QED
    BY <2>1, <2>2
<1>7. ClockInv' /\ LivesWithProcess' /\ SendInv'
  BY <1>0 DEF SchedInv, ClockInv, LivesWithProcess, SendInv
<1>8. PlanInv'
  BY <1>2, <1>5, <1>6, TodoIs DEF SchedInv, PlanInv, SchedulerState
<1>9. SlotInv'
  <2> SUFFICES ASSUME NEW i \in Names, NEW s \in Occurrences[i], Missed(i, s)'
               PROVE  s \in fired[i] \cup excused'[i]
    BY DEF SlotInv
  <2>1. s \in 1 .. MaxTime
    BY OccurrencesType
  <2>2. CASE i # e
    BY <1>0, <1>5, <1>6, <2>2 DEF SchedInv, SlotInv, Missed
  <2>3. CASE i = e
    <3>1. s <= now
      BY <1>0, <1>1, <1>4, <1>5, <2>1, <2>3 DEF Missed
    <3>2. CASE s = next_run[e]
      BY <1>6, <2>3, <3>2 DEF SchedInv, SendInv, Sending
    <3>3. CASE s # next_run[e]
      <4>1. Missed(e, s)
        BY <1>2, <2>1, <3>1, <3>3 DEF Missed
      <4> QED
        BY <1>6, <2>3, <4>1 DEF SchedInv, SlotInv
    <3> QED
      BY <3>2, <3>3
  <2> QED
    BY <2>2, <2>3
<1>10. FiredInv'
  <2> SUFFICES ASSUME NEW i \in Names, NEW s \in fired[i]
               PROVE  s <= next_run'[i] /\ s <= now /\ s # next_run'[i]
    BY <1>0 DEF FiredInv
  <2>1. /\ s \in 1 .. MaxTime /\ s <= next_run[i] /\ s <= now
        /\ s = next_run[i] => i = e
    BY <1>2 DEF SchedInv, FiredInv, Sending
  <2>2. CASE i # e
    BY <1>5, <2>1, <2>2
  <2>3. CASE i = e
    BY <1>1, <1>2, <1>3, <1>4, <1>5, <2>1, <2>3
  <2> QED
    BY <2>2, <2>3
<1> QED
  BY <1>7, <1>8, <1>9, <1>10 DEF SchedInv

\* A dispatch begins: the slot counts as fired, and no earlier dispatch was for
\* the same one.
LEMMA DispatchStep ==
    ASSUME TypeOK, SchedInv, Dispatch
    PROVE  SchedInv'
<1>1. UNCHANGED <<now, loop>>
  BY DEF Dispatch, Enqueue, workerVars
<1>2. PICK e \in Names : e = Head(todo)
  BY TodoIs DEF Dispatch, SchedInv
<1>3. /\ now \in 0 .. MaxTime /\ turn \in 0 .. now /\ MaxTime \in Nat
      /\ next_run \in [Names -> 1 .. Never]
      /\ fired \in [Names -> SUBSET (1 .. MaxTime)]
  BY TimeAssumption DEF SchedInv, ClockInv, PlanInv, TypeOK, WorkerTypeOK
<1>4. /\ sched = "turn" /\ sched' = "send" /\ todo # <<>> /\ next_run[e] <= turn
      /\ UNCHANGED <<turn, todo, next_run, excused>>
      /\ fired' = [fired EXCEPT ![e] = @ \cup {next_run[e]}]
  BY <1>2 DEF Dispatch, DueInTurn
<1>5. /\ next_run[e] \in 1 .. now /\ next_run[e] \in 1 .. MaxTime
      /\ fired' \in [Names -> SUBSET (1 .. MaxTime)]
      /\ fired'[e] = fired[e] \cup {next_run[e]}
      /\ \A i \in Names \ {e} : fired'[i] = fired[i]
  BY <1>3, <1>4
<1>6. ClockInv' /\ LivesWithProcess'
  BY <1>1, <1>4 DEF SchedInv, ClockInv, LivesWithProcess
<1>7. PlanInv'
  BY <1>4, <1>5 DEF SchedInv, PlanInv, SchedulerState
<1>8. SlotInv'
  BY <1>1, <1>4, <1>5 DEF SchedInv, SlotInv, Missed
<1>9. FiredInv'
  <2> SUFFICES ASSUME NEW i \in Names, NEW s \in fired'[i]
               PROVE  s <= next_run[i] /\ s <= now /\ (s = next_run[i] => i = e)
    BY <1>1, <1>2, <1>4 DEF FiredInv, Sending
  <2>1. CASE s \in fired[i]
    BY <1>4, <2>1 DEF SchedInv, FiredInv, Sending
  <2>2. CASE i = e /\ s = next_run[e]
    BY <1>5, <2>2
  <2> QED
    BY <1>5, <2>1, <2>2
<1>10. SendInv'
  BY <1>2, <1>3, <1>4, <1>5 DEF SendInv, DueInTurn
<1> QED
  BY <1>6, <1>7, <1>8, <1>9, <1>10 DEF SchedInv

\* The process ends: all that came so far and was not dispatched is excused.
LEMMA EndStep ==
    ASSUME TypeOK, SchedInv, ProcessEnds
    PROVE  SchedInv'
<1>1. /\ now' = now /\ loop' = [loop EXCEPT ![Host] = "down"]
      /\ sched' = "down" /\ turn' = 0 /\ todo' = <<>>
      /\ UNCHANGED <<next_run, fired>>
  BY DEF ProcessEnds, Crash, InlineExit, ProcessGone, GoTo, historyVars
<1>2. /\ now \in 0 .. MaxTime /\ MaxTime \in Nat
      /\ next_run \in [Names -> 1 .. Never]
      /\ fired \in [Names -> SUBSET (1 .. MaxTime)]
      /\ excused \in [Names -> SUBSET (1 .. MaxTime)]
  BY TimeAssumption DEF SchedInv, ClockInv, PlanInv, TypeOK, WorkerTypeOK
<1>3. \A e \in Names : excused'[e] = excused[e] \cup (Occurrences[e] \cap (next_run[e] .. now))
  BY DEF ProcessEnds
<1>4. ClockInv' /\ SendInv'
  BY <1>1, <1>2 DEF ClockInv, SendInv
<1>5. LivesWithProcess'
  BY <1>1, SchedulerConstantsAssumption DEF LivesWithProcess, TypeOK, WorkerTypeOK
<1>6. PlanInv'
  <2>1. Len(Entries) \in Nat /\ <<>> = SubSeq(Entries, Len(Entries) + 1, Len(Entries))
    BY SchedulerConstantsAssumption, LenProperties, SubSeqEmpty
  <2>2. excused' \in [Names -> SUBSET (1 .. MaxTime)]
    BY <1>2, OccurrencesType DEF ProcessEnds
  <2>3. \E n \in 0 .. Len(Entries) : todo' = SubSeq(Entries, n + 1, Len(Entries))
    BY <1>1, <2>1
  <2> QED
    BY <1>1, <1>2, <2>2, <2>3 DEF PlanInv, SchedulerState
<1>7. SlotInv'
  <2> SUFFICES ASSUME NEW e \in Names, NEW s \in Occurrences[e], Missed(e, s)'
               PROVE  s \in fired[e] \cup excused'[e]
    BY <1>1 DEF SlotInv
  <2>1. s \in 1 .. MaxTime /\ next_run[e] \in 1 .. Never
    BY <1>2, OccurrencesType
  <2>2. CASE s \in next_run[e] .. now
    BY <1>3, <2>2
  <2>3. CASE s \notin next_run[e] .. now
    <3>1. s < next_run[e]
      BY <1>1, <1>2, <2>1, <2>3 DEF Missed
    <3> QED
      BY <1>3, <3>1 DEF SchedInv, SlotInv, Missed
  <2> QED
    BY <2>2, <2>3
<1>8. FiredInv'
  BY <1>1 DEF SchedInv, FiredInv
<1> QED
  BY <1>4, <1>5, <1>6, <1>7, <1>8 DEF SchedInv

\* It starts again and plans from now on.
LEMMA StartStep ==
    ASSUME TypeOK, SchedInv, ProcessStarts
    PROVE  SchedInv'
<1>1. /\ now' = now /\ loop' = [loop EXCEPT ![Host] = "top"] /\ loop[Host] = "down"
      /\ sched' = "sleep" /\ next_run' = [e \in Names |-> After(e, now)]
      /\ UNCHANGED <<turn, todo, fired, excused>>
  BY DEF ProcessStarts, Restart, GoTo, Alive, historyVars
<1>2. /\ now \in 0 .. MaxTime /\ MaxTime \in Nat /\ sched = "down"
      /\ fired \in [Names -> SUBSET (1 .. MaxTime)]
  BY <1>1, TimeAssumption DEF SchedInv, ClockInv, PlanInv, LivesWithProcess, TypeOK,
                              WorkerTypeOK
<1>3. \A e \in Names :
         /\ next_run'[e] \in 1 .. Never /\ next_run'[e] > now
         /\ \A s \in Occurrences[e] : s < next_run'[e] => s <= now
  BY <1>1, <1>2, AfterIsNext
<1>4. ClockInv' /\ SendInv'
  BY <1>1 DEF SchedInv, ClockInv, SendInv
<1>5. LivesWithProcess'
  BY <1>1, SchedulerConstantsAssumption DEF LivesWithProcess, TypeOK, WorkerTypeOK
<1>6. PlanInv'
  BY <1>1, <1>3 DEF SchedInv, PlanInv, SchedulerState
<1>7. SlotInv'
  <2> SUFFICES ASSUME NEW e \in Names, NEW s \in Occurrences[e], Missed(e, s)'
               PROVE  s \in fired[e] \cup excused[e]
    BY <1>1 DEF SlotInv
  <2>1. s \in 1 .. MaxTime
    BY OccurrencesType
  <2>2. s <= now
    BY <1>1, <1>2, <1>3, <2>1 DEF Missed
  <2> QED
    BY <1>2, <2>2 DEF SchedInv, SlotInv, Missed
<1>8. FiredInv'
  <2> SUFFICES ASSUME NEW e \in Names, NEW s \in fired[e]
               PROVE  s <= next_run'[e] /\ s <= now /\ s # next_run'[e]
    BY <1>1 DEF FiredInv
  <2>1. s <= now /\ s \in 1 .. MaxTime
    BY <1>2 DEF SchedInv, FiredInv
  <2> QED
    BY <1>2, <1>3, <2>1 DEF Never
<1> QED
  BY <1>4, <1>5, <1>6, <1>7, <1>8 DEF SchedInv

\* The clock advances while the scheduler can do nothing: asleep, with every
\* entry still ahead, or unable to look, which excuses what comes now.
LEMMA ClockStep ==
    ASSUME TypeOK, SchedInv, ClockTick
    PROVE  SchedInv'
<1>1. /\ now < MaxTime /\ now' = now + 1 /\ ~Ready
      /\ UNCHANGED <<loop, sched, turn, todo, next_run, fired>>
  BY DEF ClockTick, Tick
<1>2. /\ now \in 0 .. MaxTime /\ MaxTime \in Nat /\ turn \in 0 .. now
      /\ next_run \in [Names -> 1 .. Never]
      /\ excused \in [Names -> SUBSET (1 .. MaxTime)]
  BY TimeAssumption DEF SchedInv, ClockInv, PlanInv, TypeOK, WorkerTypeOK
<1>3. /\ excused' \in [Names -> SUBSET (1 .. MaxTime)]
      /\ \A e \in Names :
            /\ excused[e] \subseteq excused'[e]
            /\ sched # "sleep" => Occurrences[e] \cap {now'} \subseteq excused'[e]
  <2>1. CASE sched = "sleep"
    BY <1>2, <2>1 DEF ClockTick
  <2>2. CASE sched # "sleep"
    <3>1. excused' = [e \in Names |-> excused[e] \cup (Occurrences[e] \cap {now'})]
      BY <2>2 DEF ClockTick
    <3> QED
      BY <1>2, <3>1, OccurrencesType
  <2> QED
    BY <2>1, <2>2
<1>4. ClockInv' /\ LivesWithProcess' /\ SendInv'
  BY <1>1, <1>2 DEF SchedInv, ClockInv, LivesWithProcess, SendInv, DueInTurn
<1>5. PlanInv'
  BY <1>1, <1>3 DEF SchedInv, PlanInv
<1>6. SlotInv'
  <2> SUFFICES ASSUME NEW e \in Names, NEW s \in Occurrences[e], Missed(e, s)'
               PROVE  s \in fired[e] \cup excused'[e]
    BY <1>1 DEF SlotInv
  <2>1. s \in 1 .. MaxTime /\ next_run[e] \in 1 .. Never
    BY <1>2, OccurrencesType
  <2>2. CASE s # now'
    <3>1. Missed(e, s)
      BY <1>1, <1>2, <2>1, <2>2 DEF Missed
    <3> QED
      BY <1>3, <3>1 DEF SchedInv, SlotInv
  <2>3. CASE s = now' /\ sched # "sleep"
    BY <1>3, <2>3
  <2>4. CASE s = now' /\ sched = "sleep"
    <3>1. next_run[e] > now
      BY <1>1, <1>2, <2>1, <2>4 DEF Ready, Due
    <3>2. s < next_run[e]
      BY <1>1, <1>2, <2>1, <2>4, <3>1 DEF Missed
    <3>3. Missed(e, s)
      BY <3>2 DEF Missed
    <3> QED
      BY <1>3, <3>3 DEF SchedInv, SlotInv
  <2> QED
    BY <2>2, <2>3, <2>4
<1>7. FiredInv'
  <2> SUFFICES ASSUME NEW e \in Names, NEW s \in fired[e]
               PROVE  /\ s <= next_run[e] /\ s <= now'
                      /\ s = next_run[e] => sched = "down" \/ Sending(e)
    BY <1>1 DEF FiredInv, Sending
  <2>1. s \in 1 .. MaxTime
    BY DEF SchedInv, PlanInv
  <2> QED
    BY <1>1, <1>2, <2>1 DEF SchedInv, FiredInv
<1> QED
  BY <1>4, <1>5, <1>6, <1>7 DEF SchedInv

\* Every step keeps the invariant of the scheduler.
LEMMA SchedInvStep ==
    ASSUME TypeOK, SchedInv, [SchedNext]_allVars
    PROVE  SchedInv'
<1>1. ASSUME UNCHANGED <<schedulerVars, now>>, loop'[Host] = "down" <=> loop[Host] = "down"
      PROVE  SchedInv'
  <2>1. UNCHANGED <<sched, turn, todo, next_run, fired, excused, now>>
    BY <1>1 DEF schedulerVars, scheduleVars
  <2>2. ClockInv' /\ PlanInv' /\ SendInv'
    BY <2>1 DEF SchedInv, ClockInv, PlanInv, SendInv, DueInTurn
  <2>3. LivesWithProcess'
    BY <1>1, <2>1 DEF SchedInv, LivesWithProcess
  <2>4. SlotInv' /\ FiredInv'
    BY <2>1 DEF SchedInv, SlotInv, FiredInv, Missed, Sending
  <2> QED
    BY <2>2, <2>3, <2>4 DEF SchedInv
<1>2. CASE SchedulerStep
  <2>1. CASE BuildFails
    <3>1. Head(todo) \in Names
      BY <2>1, TodoIs DEF BuildFails, SchedInv
    <3>2. /\ DueInTurn(Head(todo)) /\ todo # <<>> /\ todo' = Tail(todo)
          /\ UNCHANGED <<vars, turn>> /\ sched # "down" /\ sched' = "turn"
          /\ next_run' = [next_run EXCEPT ![Head(todo)] = After(Head(todo), turn)]
          /\ fired' = fired
          /\ excused' = [excused EXCEPT ![Head(todo)] = @ \cup {next_run[Head(todo)]}]
          /\ ~Sending(Head(todo))
      BY <2>1 DEF BuildFails, Sending
    <3> QED
      BY <3>1, <3>2, SlotMoves
  <2>2. CASE Dispatched
    <3>1. Head(todo) \in Names
      BY <2>2, TodoIs DEF Dispatched, Sent, SchedInv, SendInv
    <3>2. /\ DueInTurn(Head(todo)) /\ todo # <<>> /\ todo' = Tail(todo)
          /\ UNCHANGED <<vars, turn>> /\ sched # "down" /\ sched' = "turn"
          /\ next_run' = [next_run EXCEPT ![Head(todo)] = After(Head(todo), turn)]
          /\ fired' = fired /\ excused' = excused /\ Sending(Head(todo))
      BY <2>2 DEF Dispatched, Sent, SchedInv, SendInv, Sending
    <3> QED
      BY <3>1, <3>2, SlotMoves
  <2> QED
    BY <1>2, <2>1, <2>2, QuietSteps, DispatchStep DEF SchedulerStep
<1>3. CASE QueueStep
  BY <1>1, <1>3, QueueStepKeeps
<1>4. CASE UNCHANGED allVars
  BY <1>1, <1>4 DEF allVars, vars, workerVars
<1> QED
  BY <1>2, <1>3, <1>4, EndStep, StartStep, ClockStep DEF SchedNext

\* The scheduler, the queue and the worker in one process: every behaviour of
\* the three is one of the channel queue, whose theorems hold here as well.
THEOREM SchedulerRunsTheQueue == SchedSpec => Spec
<1>1. SchedInit => Init /\ IInv /\ SchedInv
  BY InvInit, SchedInvInit DEF SchedInit
<1>2. IInv /\ SchedInv /\ [SchedNext]_allVars => [Next]_vars
  BY SchedulerEnqueues DEF IInv, SchedInv
<1>3. IInv /\ [Next]_vars => IInv'
  BY TypeStep, PermitStep, PlaceStep DEF IInv
<1>4. IInv /\ SchedInv /\ [SchedNext]_allVars => SchedInv'
  BY SchedInvStep DEF IInv
<1> QED
  BY <1>1, <1>2, <1>3, <1>4, PTL DEF SchedSpec, Spec

\* The invariant of the scheduler: each occurrence that is behind it was
\* dispatched or has an excuse, and next_run is ahead of all it dispatched.
THEOREM SchedulerInvariant == SchedSpec => []SchedInv
<1>1. IInv /\ SchedInv /\ [SchedNext]_allVars => SchedInv'
  BY SchedInvStep DEF IInv
<1>2. SchedInit => SchedInv
  BY SchedInvInit
<1>3. SchedSpec => []IInv
  BY SchedulerRunsTheQueue, Invariant, PTL
<1> QED
  BY <1>1, <1>2, <1>3, PTL DEF SchedSpec

\* The state of queue, worker and scheduler keeps its type.
THEOREM SchedulerTypeCorrect == SchedSpec => []SchedTypeOK
<1>1. IInv /\ SchedInv => SchedTypeOK
  <2> SUFFICES ASSUME IInv, SchedInv PROVE SchedTypeOK
    OBVIOUS
  <2>1. TypeOK /\ turn \in 0 .. MaxTime
    BY TimeAssumption DEF IInv, SchedInv, ClockInv, TypeOK, WorkerTypeOK
  <2>2. next_run \in [Names -> 0 .. Never]
    BY DEF SchedInv, PlanInv
  <2> QED
    BY <2>1, <2>2 DEF SchedInv, PlanInv, SchedTypeOK
<1>2. SchedSpec => []IInv
  BY SchedulerRunsTheQueue, Invariant, PTL
<1> QED
  BY <1>1, <1>2, SchedulerInvariant, PTL

\* The loop never passes over an occurrence but one that came while a dispatch
\* waited for room or no scheduler ran, or whose payload could not be built.
THEOREM SkippedOnlyWhenBlockedHolds == SchedSpec => []SkippedOnlyWhenBlocked
<1>1. SchedInv => SkippedOnlyWhenBlocked
  BY DEF SchedInv, SlotInv, Missed, SkippedOnlyWhenBlocked
<1> QED
  BY <1>1, SchedulerInvariant, PTL

\* No occurrence is dispatched twice or too early, and none after a later one.
THEOREM NoSlotTwiceHolds == SchedSpec => NoSlotTwice
<1>1. SchedInv /\ TypeOK /\ [SchedNext]_allVars
      => [Dispatch => LET e == Head(todo) IN
             next_run[e] <= now /\ \A s \in fired[e] : s < next_run[e]]_allVars
  <2> SUFFICES ASSUME SchedInv, TypeOK, Dispatch
               PROVE  /\ next_run[Head(todo)] <= now
                      /\ \A s \in fired[Head(todo)] : s < next_run[Head(todo)]
    OBVIOUS
  <2>1. PICK e \in Names : e = Head(todo)
    BY TodoIs DEF Dispatch, SchedInv
  <2>2. /\ sched = "turn" /\ next_run[e] <= turn /\ turn \in 0 .. now /\ now \in Nat
        /\ next_run[e] \in 1 .. Never /\ fired[e] \subseteq 1 .. MaxTime
        /\ MaxTime \in Nat
    BY <2>1, TimeAssumption DEF Dispatch, DueInTurn, SchedInv, ClockInv, PlanInv, TypeOK,
                                WorkerTypeOK
  <2>3. \A s \in fired[e] : s <= next_run[e] /\ s # next_run[e]
    BY <2>2 DEF SchedInv, FiredInv, Sending
  <2> QED
    BY <2>1, <2>2, <2>3 DEF Never
<1>2. IInv => TypeOK
  BY DEF IInv
<1>3. SchedSpec => []IInv
  BY SchedulerRunsTheQueue, Invariant, PTL
<1> QED
  BY <1>1, <1>2, <1>3, SchedulerInvariant, PTL DEF SchedSpec, NoSlotTwice
=============================================================================
