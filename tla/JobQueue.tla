------------------------------ MODULE JobQueue ------------------------------
(***************************************************************************)
(* What the QueueBackend trait (infra/queue/backend.rs) promises about one *)
(* job, with no storage, worker or clock: a job is handed out at most once *)
(* at a time, is handed out again only after a failure that leaves it an   *)
(* attempt, and what is completed or failed stays so.                      *)
(***************************************************************************)
EXTENDS Integers

CONSTANTS
    Jobs,
    AttemptLimits,  \* values of max_attempts, natural numbers
    Durable         \* FALSE when the queue forgets its jobs with its process

VARIABLE job

Phase == {"new", "waiting", "running", "completed", "failed", "lost"}

QueueTypeOK ==
    job \in [Jobs -> [phase: Phase, attempts: Nat, max_attempts: Nat]]

\* a record without counters: the job is not in the queue, or over
Blank(phase) == [phase |-> phase, attempts |-> 0, max_attempts |-> 0]

Init == job = [j \in Jobs |-> Blank("new")]

Become(j, phase, attempts, limit) ==
    job' = [job EXCEPT ![j] = [phase |-> phase, attempts |-> attempts,
                               max_attempts |-> limit]]

enqueue(j, limit) ==
    /\ job[j].phase = "new"
    /\ Become(j, "waiting", 0, limit)

dequeue(j) ==
    /\ job[j].phase = "waiting"
    /\ Become(j, "running", job[j].attempts + 1, job[j].max_attempts)

acknowledge(j) ==
    /\ job[j].phase = "running"
    /\ job' = [job EXCEPT ![j] = Blank("completed")]

\* fail with retry_at
reschedule(j) ==
    /\ job[j].phase = "running"
    /\ job[j].attempts < job[j].max_attempts
    /\ Become(j, "waiting", job[j].attempts, job[j].max_attempts)

\* fail without retry_at
giveUp(j) ==
    /\ job[j].phase = "running"
    /\ job[j].attempts >= job[j].max_attempts
    /\ job' = [job EXCEPT ![j] = Blank("failed")]

\* the process that holds an in-memory queue goes away
lose ==
    /\ ~Durable
    /\ job' = [j \in Jobs |-> IF job[j].phase \in {"waiting", "running"}
                              THEN Blank("lost") ELSE job[j]]

Next ==
    \/ \E j \in Jobs :
          \/ \E limit \in AttemptLimits : enqueue(j, limit)
          \/ dequeue(j) \/ acknowledge(j) \/ reschedule(j) \/ giveUp(j)
    \/ lose

Spec == Init /\ [][Next]_job

\* A job is never handed out more often than max_attempts allows, and once
\* when max_attempts is 0.
AttemptsWithinLimit ==
    \A j \in Jobs :
        job[j].attempts <= IF job[j].max_attempts = 0
                           THEN 1 ELSE job[j].max_attempts

\* What is over stays over: no step brings a completed, failed or lost job
\* back.
OverIsFinal ==
    [][\A j \in Jobs : job[j].phase \in {"completed", "failed", "lost"}
                       => job'[j] = job[j]]_job
=============================================================================
