----------------------------- MODULE Scheduler ------------------------------
(***************************************************************************)
(* The cron scheduler (infra/scheduler/runner.rs) in the process that runs *)
(* the channel backend and its worker: one task that sleeps until the next *)
(* entry is due and dispatches every due entry onto the job queue, one     *)
(* after the other.  A dispatch awaits room in the channel, outside the    *)
(* select that listens for the shutdown signal.                            *)
(***************************************************************************)
EXTENDS ChannelQueue

CONSTANTS
    Host,           \* the process
    Entries,        \* the registered entries, in order
    Occurrences,    \* per entry, the times its cron expression names
    Broken          \* entries whose payload may fail to build

ASSUME SchedulerConstantsAssumption ==
    /\ Host \in Workers
    /\ Entries \in Seq(ToSet(Entries))
    /\ Broken \subseteq ToSet(Entries)
    /\ Occurrences \in [ToSet(Entries) -> SUBSET (1 .. MaxTime)]

VARIABLES
    sched,      \* where Scheduler::run is
    turn,       \* the instant it read after waking up
    todo,       \* entries it has still to look at in this turn
    next_run,   \* of each entry
    fired,      \* history: the occurrences each entry was dispatched for
    excused     \* history: those that passed while nothing could be dispatched

scheduleVars == <<turn, todo, next_run, fired, excused>>
schedulerVars == <<sched, scheduleVars>>
allVars == <<vars, schedulerVars>>

(***************************************************************************)
(* "sleep"  in the select                                                  *)
(* "turn"   going through the entries                                      *)
(* "send"   awaiting the dispatch of the first of todo                     *)
(* "stopped", "down"  run has returned; the process does not exist         *)
(***************************************************************************)
SchedulerState == {"sleep", "turn", "send", "stopped", "down"}

Names == ToSet(Entries)
\* what schedule.after finds no more: next_run is put a century ahead
Never == MaxTime + 1

\* Mutant: the first occurrence that is not before t.
AfterOrAt(e, t) == Min({s \in Occurrences[e] : s >= t} \cup {Never})

\* Mutant: t is rounded up to the next second first.
AfterRounded(e, t) == Min({s \in Occurrences[e] : s > t + 1} \cup {Never})

\* schedule.after(t).next()
After(e, t) == Min({s \in Occurrences[e] : s > t} \cup {Never})

SchedInit ==
    /\ Init
    /\ sched = "sleep" /\ turn = 0 /\ todo = <<>>
    /\ next_run = [e \in Names |-> After(e, 0)]
    /\ fired = [e \in Names |-> {}]
    /\ excused = [e \in Names |-> {}]

Due(e) == next_run[e] <= now

-----------------------------------------------------------------------------
(* One turn of the loop.  A sleep that ends with nothing due changes       *)
(* nothing, so the hourly wake-up is no action.                            *)

\* Mutant: the signal is logged and the loop goes on.
SeeSignalLogged == sched = "sleep" /\ shutdown[Host] /\ UNCHANGED allVars

\* select: when both branches are ready either may be taken
SeeSignal ==
    /\ sched = "sleep" /\ shutdown[Host]
    /\ sched' = "stopped"
    /\ UNCHANGED <<vars, scheduleVars>>

Wake ==
    /\ sched = "sleep"
    /\ \E e \in Names : Due(e)
    /\ sched' = "turn" /\ turn' = now /\ todo' = Entries
    /\ UNCHANGED <<vars, next_run, fired, excused>>

TurnOver ==
    /\ sched = "turn" /\ todo = <<>>
    /\ sched' = "sleep" /\ turn' = 0
    /\ UNCHANGED <<vars, todo, next_run, fired, excused>>

DueInTurn(e) == next_run[e] <= turn

NotDue ==
    /\ sched = "turn" /\ todo # <<>> /\ ~DueInTurn(Head(todo))
    /\ todo' = Tail(todo)
    /\ UNCHANGED <<vars, sched, turn, next_run, fired, excused>>

\* the payload cannot be built: the run is skipped
BuildFails ==
    /\ sched = "turn" /\ todo # <<>>
    /\ LET e == Head(todo) IN
          /\ DueInTurn(e) /\ e \in Broken
          /\ excused' = [excused EXCEPT ![e] = @ \cup {next_run[e]}]
          /\ next_run' = [next_run EXCEPT ![e] = After(e, turn)]
    /\ todo' = Tail(todo)
    /\ UNCHANGED <<vars, sched, turn, fired>>

\* JobEnvelope::new: a fresh id, the default limit, to run at once
Dispatch ==
    /\ sched = "turn" /\ todo # <<>> /\ DueInTurn(Head(todo))
    /\ \E j \in Jobs, limit \in AttemptLimits :
          /\ j = CHOOSE k \in Jobs : outcome[k] = "new"
          /\ Enqueue(j, limit, now)
    /\ fired' = [fired EXCEPT ![Head(todo)] = @ \cup {next_run[Head(todo)]}]
    /\ sched' = "send"
    /\ UNCHANGED <<turn, todo, next_run, excused>>

Sent == sched = "send" /\ sending = {}

\* the next occurrence counts from the instant of the wake-up
Dispatched ==
    /\ Sent
    /\ next_run' = [next_run EXCEPT ![Head(todo)] = After(Head(todo), turn)]
    /\ todo' = Tail(todo)
    /\ sched' = "turn"
    /\ UNCHANGED <<vars, turn, fired, excused>>

SchedulerStep ==
    SeeSignal \/ Wake \/ TurnOver \/ NotDue \/ BuildFails \/ Dispatch \/ Dispatched

-----------------------------------------------------------------------------
(* The process, its worker, and the clock                                  *)

Blocked == sched = "send" /\ ~Sent

Alive == loop[Host] # "down"

\* the worker and the send of a dispatch; handlers that panic are left to the
\* channel queue's own run
QueueStep ==
    /\ \/ \E e \in sending : EnqueueSends(e)
       \/ \E w \in Workers : LoopStep(w) \/ (SignalShutdown(w) /\ UNCHANGED backendVars)
       \/ \E t \in tasks : TaskStep(t)
    /\ UNCHANGED schedulerVars

ProcessEnds ==
    /\ (Crash(Host) \/ InlineExit(Host)) /\ Forget
    /\ sched' = "down" /\ turn' = 0 /\ todo' = <<>>
    /\ excused' = [e \in Names |-> excused[e] \cup (Occurrences[e] \cap (next_run[e] .. now))]
    /\ UNCHANGED <<next_run, fired>>

\* Scheduler::new
ProcessStarts ==
    /\ ~Alive /\ now < MaxTime
    /\ Restart(Host) /\ Forget
    /\ sched' = "sleep"
    /\ next_run' = [e \in Names |-> After(e, now)]
    /\ UNCHANGED <<turn, todo, fired, excused>>

Ready ==
    \/ sched = "turn" \/ Sent
    \/ sched = "sleep" /\ (shutdown[Host] \/ \E e \in Names : Due(e))

\* a task that can go on does so before the clock advances; an occurrence that
\* comes while the scheduler does not run, or waits in a dispatch, may be missed
ClockTick ==
    /\ ~Ready
    /\ Tick
    /\ excused' = IF sched = "sleep" THEN excused
                  ELSE [e \in Names |-> excused[e] \cup (Occurrences[e] \cap {now'})]
    /\ UNCHANGED <<backendVars, sched, turn, todo, next_run, fired>>

SchedNext == SchedulerStep \/ QueueStep \/ ProcessEnds \/ ProcessStarts \/ ClockTick

(***************************************************************************)
(* As for the channel queue; tokio polls the scheduler, whose select takes *)
(* its ready branches in random order.                                     *)
(***************************************************************************)
SchedFairness ==
    /\ WF_allVars((\E w \in Workers : LoopStep(w)) /\ UNCHANGED schedulerVars)
    /\ WF_allVars((\E t \in tasks : TaskStep(t)) /\ UNCHANGED schedulerVars)
    /\ WF_allVars((\E e \in sending : EnqueueSends(e)) /\ UNCHANGED schedulerVars)
    /\ WF_allVars(SchedulerStep) /\ SF_allVars(SeeSignal)

SchedSpec == SchedInit /\ [][SchedNext]_allVars /\ SchedFairness

-----------------------------------------------------------------------------
SchedTypeOK ==
    /\ TypeOK
    /\ sched \in SchedulerState /\ turn \in 0 .. MaxTime
    /\ \E n \in 0 .. Len(Entries) : todo = SubSeq(Entries, n + 1, Len(Entries))
    /\ next_run \in [Names -> 0 .. Never]
    /\ fired \in [Names -> SUBSET (1 .. MaxTime)] /\ excused \in [Names -> SUBSET (1 .. MaxTime)]

\* "so we don't re-fire the same slot": an entry is dispatched at most once
\* for an occurrence, never before it, and never for an older one afterwards,
\* however long the dispatches take and across restarts.
NoSlotTwice ==
    [][Dispatch => LET e == Head(todo) IN
                   next_run[e] <= now /\ \A s \in fired[e] : s < next_run[e]]_allVars

\* An occurrence is passed over only when it came while a dispatch waited for
\* room, while no scheduler ran, or when its payload could not be built.
SkippedOnlyWhenBlocked ==
    sched = "sleep" =>
        \A e \in Names : \A s \in Occurrences[e] :
            s < next_run[e] => s \in fired[e] \cup excused[e]

\* The shutdown signal ends the scheduler, unless it waits forever for room in
\* a channel whose worker has stopped, or whose permits are all held by retries
\* that wait for room themselves.
StopsUnlessBlocked ==
    (Alive /\ shutdown[Host]) ~> (sched \in {"stopped", "down"} \/ []Blocked)

Jammed == ~HasRoom /\ permits[Host] = 0 /\ \A t \in tasks : t.stage = "resend"

\* Between occurrences the queue runs empty: no job stays in it for good,
\* unless its worker stops first or the queue jams.
EndsUnlessJammed ==
    []<>(\/ \A j \in Jobs : outcome[j] \notin {"sending", "open"}
         \/ Jammed \/ ~Running(Host))
=============================================================================
