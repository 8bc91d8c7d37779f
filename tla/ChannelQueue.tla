---------------------------- MODULE ChannelQueue ----------------------------
(***************************************************************************)
(* The in-memory queue backend (infra/queue/backends/channel.rs) under the *)
(* worker of the process that owns it.  The channel is bounded: a send     *)
(* that finds it full waits, and a retry is sent from inside the job task, *)
(* which keeps its permit while it waits.                                  *)
(***************************************************************************)
EXTENDS Worker, SequencesExt

CONSTANT Capacity   \* CHANNEL_CAPACITY, 1024 in bootstrap/worker.rs

ASSUME CapacityAssumption == Capacity \in Nat \ {0}
\* the channel lives in the memory of one process
ASSUME OneProcessAssumption == \A v, w \in Workers : v = w

VARIABLES
    channel,    \* envelopes in the channel, oldest first
    in_flight,  \* envelopes dequeued but neither acknowledged nor failed
    sending,    \* envelopes of enqueue calls that await room in the channel
    outcome     \* history: how far each job got

backendVars == <<channel, in_flight, sending, outcome>>
vars == <<workerVars, backendVars>>

Envelope == [job: Jobs, attempts: Nat, max_attempts: Nat, run_at: Nat]
Outcome == {"new", "sending", "dropped", "open", "completed", "failed", "lost"}

JobsIn(envelopes) == {e.job : e \in envelopes}
\* Mutant: the channel takes one envelope too many.
HasRoomOffByOne == Len(channel) <= Capacity

HasRoom == Len(channel) < Capacity

Init ==
    /\ WorkerInit
    /\ channel = <<>>
    /\ in_flight = {}
    /\ sending = {}
    /\ outcome = [j \in Jobs |-> "new"]

SetOutcome(j, o) == outcome' = [outcome EXCEPT ![j] = o]

-----------------------------------------------------------------------------
(* enqueue: sender.send(envelope).await                                    *)

Enqueue(j, limit, at) ==
    /\ outcome[j] = "new"
    /\ \E w \in Workers : loop[w] # "down"
    /\ sending' = sending \cup {[job |-> j, attempts |-> 0,
                                 max_attempts |-> limit, run_at |-> at]}
    /\ SetOutcome(j, "sending")
    /\ UNCHANGED <<workerVars, channel, in_flight>>

\* the send goes through; senders that wait are not served in order
EnqueueSends(e) ==
    /\ HasRoom
    /\ channel' = Append(channel, e)
    /\ sending' = sending \ {e}
    /\ SetOutcome(e.job, "open")
    /\ UNCHANGED <<workerVars, in_flight>>

-----------------------------------------------------------------------------
(* dequeue: try_recv, which never waits and does not look at run_at.       *)

\* Mutant: the attempt is not counted.
ReceiveJobUncounted(w) ==
    /\ channel # <<>>
    /\ LET e == Head(channel) IN
          /\ in_flight' = in_flight \cup {e}
          /\ SpawnTask(w, e.job, e.attempts, e.max_attempts)
    /\ channel' = Tail(channel)
    /\ UNCHANGED <<sending, outcome>>

ReceiveJob(w) ==
    /\ channel # <<>>
    /\ LET e == [Head(channel) EXCEPT !.attempts = @ + 1] IN
          /\ in_flight' = in_flight \cup {e}
          /\ SpawnTask(w, e.job, e.attempts, e.max_attempts)
    /\ channel' = Tail(channel)
    /\ UNCHANGED <<sending, outcome>>

ReceiveNone(w) ==
    /\ channel = <<>>
    /\ NothingDequeued(w)
    /\ UNCHANGED backendVars

-----------------------------------------------------------------------------
(* acknowledge and fail: both first take the envelope out of in_flight.    *)

EnvelopesOf(j) == {e \in in_flight : e.job = j}

Acknowledge(t) ==
    /\ t.stage = "ack"
    /\ in_flight' = in_flight \ EnvelopesOf(t.job)
    /\ SetOutcome(t.job, "completed")
    /\ FinishTask(t)
    /\ UNCHANGED <<channel, sending>>

\* Mutant: the envelope of a retry is not sent again.
FailRetryDrops(t) ==
    /\ t.stage = "retry"
    /\ in_flight' = in_flight \ EnvelopesOf(t.job)
    /\ FinishTask(t)
    /\ UNCHANGED <<channel, sending, outcome>>

\* the envelope leaves in_flight and its send begins; the permit stays taken
FailRetry(t) ==
    /\ t.stage = "retry"
    /\ in_flight' = in_flight \ EnvelopesOf(t.job)
    /\ \E e \in EnvelopesOf(t.job) :
          /\ e.attempts < e.max_attempts
          /\ Advance(t, "resend", e.run_at)
    /\ UNCHANGED <<now, loop, permits, shutdown, historyVars,
                   channel, sending, outcome>>

\* Mutant: the retry starts counting its attempts again.
ResendRetryRecounts(t) ==
    /\ t.stage = "resend"
    /\ HasRoom
    /\ channel' = Append(channel, [job |-> t.job, attempts |-> 0,
                                   max_attempts |-> t.max_attempts,
                                   run_at |-> t.retry_at])
    /\ FinishTask(t)
    /\ UNCHANGED <<in_flight, sending, outcome>>

\* the send of a retry goes through: the envelope still carries its old run_at
ResendRetry(t) ==
    /\ t.stage = "resend"
    /\ HasRoom
    /\ channel' = Append(channel, [job |-> t.job, attempts |-> t.attempts,
                                   max_attempts |-> t.max_attempts,
                                   run_at |-> t.retry_at])
    /\ FinishTask(t)
    /\ UNCHANGED <<in_flight, sending, outcome>>

\* no retry_at, or no attempt left; without an envelope fail does nothing
FailPermanently(t) ==
    /\ \/ t.stage = "fail"
       \/ t.stage = "retry" /\ \A e \in EnvelopesOf(t.job) :
                                  e.attempts >= e.max_attempts
    /\ in_flight' = in_flight \ EnvelopesOf(t.job)
    /\ IF EnvelopesOf(t.job) = {} THEN UNCHANGED outcome
       ELSE SetOutcome(t.job, "failed")
    /\ FinishTask(t)
    /\ UNCHANGED <<channel, sending>>

-----------------------------------------------------------------------------
\* the channel, its map and every waiting send go with the process
Forget ==
    /\ channel' = <<>>
    /\ in_flight' = {}
    /\ sending' = {}
    /\ outcome' = [j \in Jobs |-> CASE outcome[j] = "sending" -> "dropped"
                                    [] outcome[j] = "open"    -> "lost"
                                    [] OTHER                  -> outcome[j]]

LoopStep(w) ==
    \/ (SeeShutdown(w) \/ TakePermit(w) \/ DrainDone(w)) /\ UNCHANGED backendVars
    \/ ReceiveJob(w)
    \/ ReceiveNone(w)

TaskStep(t) ==
    \/ (HandlerOk(t) \/ HandlerErr(t)) /\ UNCHANGED backendVars
    \/ Acknowledge(t)
    \/ FailRetry(t)
    \/ ResendRetry(t)
    \/ FailPermanently(t)

ProcessStep(w) ==
    \/ SignalShutdown(w) /\ UNCHANGED backendVars
    \/ (Crash(w) \/ InlineExit(w)) /\ Forget
    \/ Restart(w) /\ Forget

Next ==
    \/ \E j \in Jobs, limit \in AttemptLimits, at \in 0 .. MaxTime :
          Enqueue(j, limit, at)
    \/ \E e \in sending : EnqueueSends(e)
    \/ \E w \in Workers : LoopStep(w) \/ ProcessStep(w)
    \/ \E t \in tasks : TaskStep(t) \/ (HandlerPanic(t) /\ UNCHANGED backendVars)
    \/ Tick /\ UNCHANGED backendVars

(***************************************************************************)
(* tokio keeps polling the loop, the job tasks and the callers of enqueue, *)
(* and handlers return.                                                    *)
(***************************************************************************)
Fairness ==
    /\ \A w \in Workers : WF_vars(LoopStep(w))
    /\ \A j \in Jobs : WF_vars(\E t \in tasks : t.job = j /\ TaskStep(t))
    /\ \A j \in Jobs : WF_vars(\E e \in sending : e.job = j /\ EnqueueSends(e))

Spec == Init /\ [][Next]_vars
FairSpec == Spec /\ Fairness

-----------------------------------------------------------------------------
TypeOK ==
    /\ WorkerTypeOK
    /\ channel \in Seq(Envelope) /\ Len(channel) <= Capacity
    /\ in_flight \subseteq Envelope
    /\ sending \subseteq Envelope
    /\ outcome \in [Jobs -> Outcome]

\* Every job is in exactly one place: being enqueued, in the channel, or in
\* the hands of one task.  Nothing duplicates a job or drops it, unless its
\* handler panicked.
JobsAreLinear ==
    \A j \in Jobs :
        LET places == Cardinality({e \in sending : e.job = j})
                      + Cardinality({i \in DOMAIN channel : channel[i].job = j})
                      + Cardinality({t \in tasks : t.job = j})
        IN  /\ outcome[j] \in {"sending", "open"} =>
                  places = 1 \/ (places = 0 /\ j \in JobsIn(in_flight)
                                 /\ "panic" \in Faults)
            /\ outcome[j] \notin {"sending", "open"} => places = 0

\* in_flight tracks the jobs that were dequeued and not yet reported, and a
\* task that reports finds its envelope there: fail never ends without effect.
InFlightTracksTasks ==
    \A t \in tasks :
        IF t.stage = "resend" THEN t.job \notin JobsIn(in_flight)
        ELSE \E e \in in_flight : /\ e.job = t.job
                                  /\ e.attempts = t.attempts
                                  /\ e.max_attempts = t.max_attempts

\* Wherever a job is, it is there once, and the map agrees.
JobsAccountedFor == JobsAreLinear /\ InFlightTracksTasks

\* The handler of a job is started at most max_attempts times, and once when
\* the limit is 0.
AttemptsBounded ==
    \A t \in tasks :
        starts[t.job] <= IF t.max_attempts = 0 THEN 1 ELSE t.max_attempts

\* "retried jobs are re-enqueued immediately": a task that fails its job gets
\* it back into the channel.
RetriesAreReenqueued ==
    \A j \in Jobs :
        (\E t \in tasks : t.job = j /\ t.stage = "resend")
        ~> (\A t \in tasks : t.job = j => t.stage # "resend")

(***************************************************************************)
(* The channel is a job queue in the sense of JobQueue, a volatile one.    *)
(***************************************************************************)
Record(phase, e) == [phase |-> phase, attempts |-> e.attempts,
                     max_attempts |-> e.max_attempts]

Queued(j) == {e \in ToSet(channel) : e.job = j}
Resent(j) == {t \in tasks : t.job = j /\ t.stage = "resend"}

Opened(j) ==
    IF Queued(j) # {} THEN Record("waiting", CHOOSE e \in Queued(j) : TRUE)
    ELSE Record("running", CHOOSE e \in EnvelopesOf(j) \cup Resent(j) : TRUE)

ViewOf(j) ==
    IF outcome[j] = "open" THEN Opened(j)
    ELSE [phase |-> IF outcome[j] \in {"sending", "dropped"} THEN "new" ELSE outcome[j],
          attempts |-> 0, max_attempts |-> 0]

QueueView == [j \in Jobs |-> ViewOf(j)]

Queue == INSTANCE JobQueue WITH Durable <- FALSE, job <- QueueView

\* Every step of the channel backend under its worker is a step of the
\* abstract queue or leaves it unchanged.
ImplementsJobQueue == Queue!Spec
=============================================================================
