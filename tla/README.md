# Verification of the API boilerplate

TLA+ models, TLC runs and TLAPS proofs for the Rust service in `src/`. The
service is an HTTP API (actix-web) with a background job queue, a cron
scheduler, a WebSocket hub that may span several instances, a user cache, a
self-updater and an installer. It is mostly tokio tasks that share maps, locks,
channels, files and a MySQL table, so what is hard about it is the order in
which those tasks act and what is left behind when one of them stops half-way.

Paths below are relative to `src/src/` unless they say otherwise.

## 1. Inventory

### Components, their state and what makes them correct

| component | state | operations | correct when |
|---|---|---|---|
| job worker (`infra/queue/worker.rs`, `bin/worker.rs`, `main.rs`) | a semaphore of `concurrency` permits, the position of the polling loop, one spawned task per job | poll, take a permit, dequeue, run the handler, acknowledge or fail with back-off, drain on shutdown | permits are neither leaked nor returned twice; a worker that returned left nothing half-way; a job is run by one task at a time, not after it succeeded, and not more than `max_attempts` times |
| queue contract (`infra/queue/backend.rs`, `job.rs`) | one status and one attempt counter per job | `enqueue`, `dequeue`, `acknowledge`, `fail` | a job is handed out once at a time, again only after a failure that leaves an attempt, and what is over stays over |
| database backend (`infra/queue/backends/database.rs`) | the `jobs` table and its row locks | `INSERT`; `SELECT .. FOR UPDATE SKIP LOCKED`, `UPDATE`, `COMMIT`; `UPDATE` by id | many processes share it as one queue; late writes reach only rows their task owns; every waiting row is served |
| channel backend (`infra/queue/backends/channel.rs`) | a bounded channel, the map `in_flight` | send, `try_recv`, remove, re-send | a job is in exactly one place; retries get back in |
| dispatcher (`infra/queue/dispatcher.rs`, `registry.rs`) | none | four ways to enqueue, handler lookup | run_at and limit are those of the caller |
| cron scheduler (`infra/scheduler/`, `bootstrap/scheduler.rs`) | next occurrence of each entry | sleep until the earliest, dispatch what is due, stop on shutdown | no occurrence is dispatched twice, none is skipped without a reason; shutdown is seen |
| WebSocket hub (`infra/ws/hub.rs`) | three concurrent maps: connections, topics, users; one bounded queue per connection | register, unregister, subscribe, unsubscribe, publish, deliver with eviction | the two indexes agree with the connections; nothing idle accumulates |
| WebSocket session (`infra/ws/session.rs`) | the socket, the last time the client was heard | forward frames, handle client messages, heart-beat, end | it ends when it is evicted, closed or silent, and unregisters |
| WebSocket policy and handshake (`infra/ws/policy.rs`, `app/ws/policy.rs`, `app/http/handlers/ws.rs`) | none | resolve identity, authorise topics | an anonymous client never reaches a private topic, nor a user another user's |
| cluster bridge (`infra/ws/cluster.rs`) | the relay queue, the subscription | relay local events to Redis, deliver remote ones, reconnect | an event reaches each instance at most once and in order, and local delivery never waits for Redis |
| self-updater, API side (`infra/updater/mod.rs`, `bootstrap/updater.rs`, `app/http/handlers/updater.rs`) | `UpdateStatus` behind a read-write lock | check, apply, background check | one update at a time; the flag is taken back when it fails |
| updater binary (`bin/updater.rs`) | files on disk | wait, unpack, replace, start | a failure or a kill leaves a target or something to recover it from |
| installer and uninstaller (`bin/installer.rs`, `bin/uninstaller.rs`) | binaries, configuration, the unit file | copy, write configuration, register, start; stop, deregister, remove | an install destroys nothing it finds; success means complete |
| user service and cache (`app/services/user_service.rs`, `infra/cache/local.rs`) | rows, and cached entries per process | create, read, list, update, delete | an outdated copy has a known cause and does not stay |
| observability middleware (`app/http/middleware/observability.rs`) | the body it has read | copy, put back, pass on (it masks nothing) | the handler sees the body the client sent, or none |
| pagination (`app/http/pagination.rs`) | none | clamp, offset, page count | pages partition the rows |

The rest is wiring or I/O: the configuration's values, database and Redis pools,
e-mail and HTTP clients, rate limits, log retention, routing, error mapping,
security headers. Section 6 gives the reasons, `PROJECT.json` lists each part.

### How they interact

- HTTP handlers and the scheduler call the dispatcher, which calls the backend.
  Workers call the same backend: over one table shared by all processes, or over
  a channel inside one process.
- `main.rs` may spawn the worker inline. It broadcasts ctrl-c to worker,
  scheduler and update checker, and returns when the HTTP server has stopped.
- A session task and any number of publishers (handlers, jobs, the cluster
  bridge) call the hub at once. The hub drops the sender of a connection it
  evicts; the session finds out by the end of its queue.
- A publish goes into the relay queue of the cluster bridge first and is then
  delivered locally. Redis hands frames to the bridges of all instances.
- The updater binary is started by the API process and waits for it to exit. The
  installer and the uninstaller change the same files, and the service manager
  kills the API and its updaters together.
- Requests for one user on several instances meet in the row; each instance has
  a cache of its own, which nobody else invalidates.

### What is hard to test

`PROJECT.json` ("hazards") lists each spot with its line and the properties
about it. In short:

- the window between two statements, awaits or map accesses: row locks until the
  commit, `subscribe` and `register` against an eviction, the limit check of
  `register`, `remove_if` after `get_mut`, the read of `in_progress` before it is
  set, a cache entry inserted after its invalidation;
- a task that reports on a job by id alone, perhaps after somebody else took it;
- everything that may fail between "handed out" and "reported": panics, database
  errors, a killed process, a shutdown; between "renamed away" and "renamed in";
- bounded buffers whose only consumer waits for a producer: the channel backend,
  the scheduler's dispatch, the socket of a session;
- endings: the drain of a worker, the end of an evicted session, the end of a
  client that vanished, a shutdown that falls into a dispatch;
- boundaries: the body limit, page numbers at both ends of their range.

## 2. Modules

| module | models | composed of |
|---|---|---|
| `JobQueue` | the `QueueBackend` trait as an abstract queue | |
| `Worker` | `Worker::run`, its job tasks and the life cycle of its process, over any backend | |
| `DatabaseQueue` | the MySQL backend | extends `Worker`, implements `JobQueue` |
| `ChannelQueue` | the in-memory backend | extends `Worker`, implements `JobQueue` |
| `Scheduler` | the cron loop in the process of the worker | extends `ChannelQueue` |
| `WsHub` | the hub, its sessions and publishers | |
| `WsSession` | handshake, policy and the session task, with its socket | |
| `EventBus` | what the cluster bridge promises, as an abstract bus | |
| `WsCluster` | the Redis bridge between the hubs of several instances | implements `EventBus` |
| `SelfUpdate` | the updater's API side and the updater processes | |
| `Deployment` | installer, uninstaller and the unit they write | extends `SelfUpdate` |
| `UserRequests` | the user endpoints, their caches, the logging middleware, pagination | |
| `WorkerProofs` | lemmas about permits and tasks | extends `Worker` |
| `DatabaseQueueProofs` | theorems: safety of the table, refinement of `JobQueue` | extends `DatabaseQueue`, `WorkerProofs` |
| `ChannelQueueProofs` | theorems: channel, its refinement of `JobQueue`, scheduler | extends `Scheduler`, `WorkerProofs` |
| `WsHubProofs`, `WsSessionProofs`, `WsClusterProofs` | theorems: hub, session, bridge and its refinement of `EventBus` | each extends its module |
| `SelfUpdateProofs` | theorems: self-updater, and installer and uninstaller beside it | extends `Deployment` |
| `UserRequestsProofs` | theorems: caches, bodies, pages | extends `UserRequests` |
| `MC...` | values for TLC | one per module that is run |

### Worker

`loop[w]` is where `Worker::run` of process `w` is: `"top"` before the shutdown
check and `try_acquire_owned`, `"dequeue"` while it awaits the backend with a
permit in hand, `"drain"` in `acquire_many`, `"stopped"` after `run` returned,
`"down"` when the process is gone. `permits[w]` counts the semaphore's free
permits. `tasks` holds a record per spawned task: its `stage` is `"execute"`
while the handler runs and then the call it is about to make, `"ack"`,
`"retry"` or `"fail"` (`"resend"` exists in the channel backend only).
`Backoff` is the capped doubling of lines 114 to 117; `now` is the clock that
`run_at` is compared with. Two history variables record which jobs' handlers
returned Ok (`succeeded`) and how often each was started (`starts`).

The sleeps of the loop have no action: they are the freedom of every other
process to act between two turns. Handlers are the choice between Ok, Err (the
same branch as an unknown job type and a payload that does not parse) and a
panic, which unwinds the task and drops its permit but calls neither
`acknowledge` nor `fail`. `Crash` removes a process at any point. `InlineExit`
is `main.rs` returning while its spawned worker may be busy. A process that
stopped or went down may be started again.

### DatabaseQueue

`row[j]` is the row of job `j` (`"absent"` before the INSERT), `lock[w]` the row
that the open transaction of process `w` has locked. `dequeue` is three steps:
`SelectRow` or `SelectNone`, then the `UPDATE` with its `COMMIT`
(`CommitDequeue`). Nothing of the transaction can be seen before the commit but
its lock, and other transactions skip locked rows, so the UPDATE needs no step
of its own. `DequeueError` is any error before the commit, and it rolls back;
`CommitWithoutEnvelope` is an error at or after it (the reply of the commit is
lost, or the row does not decode): the row is running and nobody was told.
`Acknowledge`, `FailRetry` and `FailPermanently` are UPDATEs by id, with no
condition on the row, exactly as in the code. `ReportError` is such an UPDATE
failing: the task logs it and ends.

### ChannelQueue

`channel` is the bounded queue, `sending` the envelopes whose `send` waits for
room (a set: senders of an `async_channel` are not served in order), `in_flight`
the map of dequeued envelopes. `fail` with a retry removes the envelope from the
map and begins to send it inside the job task (`FailRetry`), and the task ends,
with its permit, only when there was room (`ResendRetry`). Everything is
forgotten when the process goes away. There is one worker process per channel.

### Scheduler

`sched` is where `Scheduler::run` is: in its select, going through the entries,
or awaiting a dispatch. The dispatch is an `Enqueue` of `ChannelQueue`, so it
waits while the channel is full, and it is awaited outside the select.
`next_run` is that of each entry; as in the code it is computed from `turn`, the
instant read at the wake-up. A cron expression is the set of times it names
(`Occurrences`). Process exit and restart are those of the worker's process, as
both run in it. The clock advances only when the scheduler task cannot, which is
how `SkippedOnlyWhenBlocked` can demand a reason for each slot passed over.

### WsHub

Each map is a `DashMap`; an access locks one entry and no method holds two, so
each access is one action and everything may happen in between. `session[c]`
says which call of the hub the session task is in, `teardown[c]` how far the one
call of `unregister` that got the entry has come (it may be the session's own or
an evictor's, recorded in `by`), `todo[p]` and `slow[p]` are the locals of
`deliver`. Topics and users keep their sets and their keys apart, because an
empty set that is still in the map is what `remove_if` is about. A connection id
is a fresh Uuid and so is used once. Statistics counters and the content of
frames are left out; the relay to other instances is `WsCluster`'s.

### WsSession

One connection: `offer` holds the tokens of the request and the two settings that
decide about them, `stage` is where the session task is, `queue` the hub's queue
of the connection and `out` the channel of `actix_ws` to its socket. A write waits
while `out` is full, and meanwhile the task polls nothing (`Blocked`): neither
its heart-beat nor its queue nor the client. Each ready branch of the select is
an action. `client` may stop reading, vanish without a word or leave at any
step. Hub calls are atomic here; `WsHub` takes them apart. An eviction
(`Deliver` to a full queue) removes the connection and its subscriptions.
`Owner` says what the application's policy makes of a topic name. It may give a
user several topics, since `Uuid::parse_str` accepts several spellings of one
id; `OwnTopic` is the one a session is subscribed to when it starts.

### EventBus and WsCluster

`EventBus` knows two histories: what each node published, and what each node
showed its sockets. It shows an event at most once per node, after it was
published, and the events of one node in order; it may show nothing.
`WsCluster` has the queue from the hub to `publish_loop`, the frame in its hand,
the subscription and the frames in its stream. `Forward` is the `try_send` of
`forward_to_cluster` and comes before `DeliverLocally`, as in `publish`.
`PublishFrame` hands a frame to the subscriptions that exist at that moment, its
own included, and `Receive` drops what is its own. `Disconnect`, `Crash`,
`PublishFails` and `Noise` are what can go wrong. Each way of losing a frame
enters the lost pair into `excused`; `LostOnlyWithCause` says there is no other.

### SelfUpdate

`status` is `UpdateStatus` behind its lock, and each stretch under one guard is an
action: `ReadCheck` reads `in_progress` under the read lock, `MarkAndTrigger`
sets it later under the write lock, and so may a second actor. `actor` holds the
HTTP handlers and the background checker, `apply` the apply tasks and then the
updater process each has spawned. `file`, `archive` and `dir` are the disk:
`Partial` is a file that is being written or was left so. Every file operation
of `bin/updater.rs` is an action with its failure, so a kill may fall between any
two. `stale` and `found` remember what `RollbackIsExact` compares. `damage`
and `overlapped` record the situations in which a promise may not hold: a kill
inside a replacement (`"killed"`, and `"again"` after a second one), a rollback
after such a kill (`"undone"`), and two updaters at once, which share the
extracted file and the backup.

### Deployment

Adds the unit file, `config/default.yaml`, the control group of the unit and one
tool that runs: `tool.at` walks through `cmd_install` or `cmd_uninstall`, one
action per file operation or `systemctl` call. The source of an install is a
package, or the install directory itself when the installed copy is run. A copy
onto a binary that runs is refused (`TextBusy`), a copy of a file onto itself
leaves it empty. Stopping the unit, or the exit of its main process, kills the
updaters in its control group, since the unit does not set `KillMode`. Of the
binaries, `worker` and `uninstaller` are copied like the others and left out.

### UserRequests

`row` is how often each user was written, `cache` the copy each instance holds
and its age, `req[r]` a request at the await it takes next. `update` is a SELECT,
an UPDATE and, MySQL having no RETURNING, a second SELECT, and only then the
invalidation of the cache of its own instance. A body comes in chunks, the last
of which may be an error; `Kept` is what the middleware puts back after reading
it, `Seen` what the extractor then reads, and whether it parses depends on
whether it is whole. `Offset` wraps at `Modulus`, as u64 does at 2^64 in a release
build.

### Queue refinement

`JobQueue` knows no storage, worker or clock. Its `Durable` constant says
whether a queue may forget its jobs (`lose`). `DatabaseQueue!QueueView` maps a
row to a record of `JobQueue`: pending and retrying rows wait, the counters of a
settled row do not matter. A row left running by a crash stays running in the
abstract queue as well: the trait promises at most one hand-out at a time and
nothing about recovery, which is the subject of `JobsSurviveRestarts`. The map
of `ChannelQueue` looks for the job's envelope where it is: channel, `in_flight`
or the task that re-sends it.

## 3. Runs

| run | question | outcome |
|---|---|---|
| `database_queue` | Two processes, two jobs, every fault at every step: is a job run by one task at a time, no more than allowed, not before its time, not after success; does a task's row stay its own; are permits conserved; does the table implement the abstract queue? | holds |
| `database_queue_live` | Without faults, does every waiting job end although one worker may be shut down, and does a worker that is draining return? | holds |
| `database_queue_restart` | Do jobs survive restarts, as `database.rs:14` says? | violated |
| `channel_queue` | Three jobs and room for one, panics and exits: is each job in one place with `in_flight` right, are attempts bounded; does the channel implement the volatile abstract queue? | holds |
| `channel_queue_full` | Does a retry get back into the queue when there is no room? | violated |
| `ws_hub` | Two connections of a user, two topics, two publishers that evict: do the indexes agree with live connections, are idle topics dropped, is a stale entry always the trace of one particular race? | holds |
| `ws_session` | One connection from handshake to end, with a client that may stop, vanish or leave: who is admitted and to which topics; does every registration have its task; is a silent client reaped in time; does a dead or evicted connection end? | holds |
| `ws_cluster` | Two instances, three events, a relay queue of one, reconnects, crashes and errors: does the bridge implement the event bus, lose events only for a known cause, and never hold up local delivery? | holds |
| `scheduler` | Scheduler, channel backend and worker in one process that is stopped, killed and restarted: does no slot fire twice, is none skipped without a reason, does the scheduler end on shutdown, does the queue run empty? | holds, but for the jam of finding 2 |
| `self_update` | A request and the background checker, and two updaters, with every operation failing and kills anywhere: does the status flag tell the truth; is there always something to start or to recover from; does a rollback restore what was there? | holds, except where two updaters overlap, a rollback follows a kill, or two kills meet raced applies |
| `deployment` | Installer and uninstaller beside the self-updating service: does an install spare what it finds; is success complete? | holds |
| `user_requests` | Reads, writes, deletes and lists on two instances, bodies cut by the limit or by the connection: does each outdated copy have a cause and go away; do handlers get whole bodies; do the pages cover the table? | holds |

Each property of a passing run has a mutant: an operator beside the definition
it replaces ("Mutant:" in its comment) that a slip of the pen in the code could
amount to, and under which TLC finds the property violated. Some properties are
conjunctions of named parts (`JobsAccountedFor`, `NothingLeftBehind`,
`SessionInv`, `ClusterInv`, `StatusIsTruthful`, `AlwaysRecoverable`,
`InstallsSpareWhatIsThere`, `DoneIsDone`, `RequestInv`, `BodiesArriveWhole`);
their comments say what each part is about. The type invariants of
`ChannelQueue` and `SelfUpdate` are parts of those of `Scheduler` and
`Deployment`, which extend them.

Several properties carry an exception in their statement: `raced` in
`AppliesAreExclusive`, `overlapped`, `raced` and `damage` in `AlwaysRecoverable`,
`raced` in `DanglingOnlyAfterRace`, `excused` in four modules, `[]Blocked` and
`Jammed` in the liveness properties. Each names a situation the code really
gets into. They are what the properties say about it: nothing else can go wrong.

### Findings

1. **A job whose worker dies stays `running`** (`database_queue_restart`).
   `dequeue` selects pending and retrying rows only, and nothing else ever looks
   for a row that runs without a task. Lost replies of the commit and failed
   acknowledgements have the same effect.
2. **Retries can block the channel backend for ever** (`channel_queue_full`).
   One permit, room for one: while the only task runs a job a caller fills the
   channel; the job fails, its task waits for room and keeps the permit the
   loop needs to make some.

Met while modelling, and part of the models, but without a run of their own:

- the inline worker is not drained: `main.rs:57` awaits the HTTP server only,
  although `main.rs:28` promises the drain (`InlineExit`);
- the channel backend runs delayed jobs at once (`channel.rs:45`), although the
  dispatcher offers `dispatch_at`;
- a topic can outlive its subscribers (`hub.rs:228`): a publisher evicts the
  connection between the two halves of `subscribe`. `register` has the same
  window for the user index. `NothingLeftBehind` shows that these two are the
  only ways an entry stays behind;
- the connection limit can be exceeded (`hub.rs:142`): two handshakes both pass
  the check before either inserts;
- two applies may run at once (`handlers/updater.rs:132`): both read
  `in_progress` before either sets it;
- nothing makes the API exit after it has spawned an updater
  (`infra/updater/mod.rs:228`). Under the installed unit an updater that waits is
  killed with the service; it succeeds only if the service keeps running for
  30 seconds, and the flag then stays set until the process is restarted;
- an updater whose removal of an old backup failed restores that old backup when
  the replacement fails (`bin/updater.rs:61`, 268): the `stale` case of
  `RollbackIsExact`;
- two updaters share the extracted file, so one may move a half-written file of
  the other into place (`overlapped`); a rollback after an earlier kill may
  put that kill's half-copied target over a good one (`"undone"`); and if two
  applies raced, a second kill may catch the only whole copy while it is being
  extracted again (`"again"`);
- an install cut off inside `fs::write` leaves an empty configuration that later
  installs keep (`bin/installer.rs:321`); an installer run from the install
  directory truncates what it copies (`:605`);
- a reader may insert into the cache what it fetched before an update
  (`user_service.rs:130`); other instances are never told; a failure between the
  UPDATE and the second SELECT skips the invalidation (`:176`). All are bounded
  by the time to live (`StaleCopiesGo`);
- with request logging on, a body over 64 KiB becomes a 400, and an error of the
  connection after a complete document is hidden from the handler
  (`observability.rs:112`);
- after a stall a pong may wait unread when the heart-beat is due; the select may
  take either (`session.rs:90`).

### Bounds, and why they are enough

- Two processes and two jobs are the fewest for two transactions to compete for
  a row while another row is free to be selected, and for a late report to meet
  a re-dequeue. The proofs remove this bound for the safety properties.
- `AttemptLimits` is `{0, 2}` where attempts matter: the limit that still runs a
  handler once, and the smallest one with a retry. `MaxTime` bounds the clock
  and 2 is enough for one back-off to elapse and for a second one to lie beyond;
  the liveness property excuses a job whose next attempt lies beyond it.
- `Concurrency` is 1 in the safety run (a leaked permit then stops the loop at
  once) and 2 in the live one, so that a drain has several permits to collect.
- `channel_queue` uses `Capacity` 1 with three jobs and two permits, where sends
  wait for room.
- `scheduler`: capacity, concurrency and worker of one, so that a dispatch waits
  whenever the worker is busy; four jobs for three occurrences of one entry and
  one of another that falls together with the second, and whose payload may
  fail; `MaxTime` 3 lets one slot pass during a wait and another follow it.
- `ws_hub`: two connections, `SendBuffer` 1 and two publishers are the fewest for
  two evictions of one connection to race with each other and with a session
  that is in a call; with two topics an `unregister` has more than one to leave.
- `ws_session`: two users, and one topic of each kind the policy tells apart
  (public, members, the user's own, another's, malformed); both queues and the
  inbox hold two, so that they can be empty, partly filled and full; a heart-beat
  of 2 and a time-out of 3 fall due at different instants.
- `ws_cluster`: two nodes, two events of one node (order) and one of the other;
  relay queue of one, so that the second event finds it full; two faults, so
  that a reconnect can be followed by a crash.
- `self_update`: one request beside the checker is the least for the race of two
  applies; two slots let updaters overlap; two versions; one exit of the API, two
  faults (a kill and a later failure are what `damage` is about).
- `deployment`: two runs of a tool (a damaged install and the next one, an
  install and an uninstall), one updater, one fault, two versions.
- `user_requests`: two instances, two requests, one user with two writes, a time
  to live of 2; three more rows and pages of one to three rows give full, last,
  partial and empty pages. `Modulus` 8 makes 9 a page whose offset wraps. Bodies
  are whole, over the limit, broken before and after the end of the document.
- Bounds appear as guards: `MaxTime`, `MaxVersion`, `MaxExits`, `MaxFaults`,
  `MaxTools`, `MaxInbox`.
- Symmetry is used where no property is temporal beyond an action property or a
  refinement of a specification without fairness, and the sets appear in no
  ordered way.
- Deadlock is checked but where the system really may stop: a session ends,
  events and occurrences are finitely many, an update may leave nothing to start,
  tools are run a bounded number of times.

### Fairness, and why the code justifies it

- Weak fairness of `LoopStep(w)` and of a job's `TaskStep`: tokio polls every
  ready task, MySQL answers, and handlers return. A handler that never returns
  would block its permit, and the drain, for ever; the code sets no time limit.
- Weak fairness of `Tick`, and of `Restart` in the database model (a service
  manager restarts the process). `database_queue_restart` has both and fails
  nevertheless.
- `Scheduler`: the same, and weak fairness of the scheduler task, strong fairness
  of its shutdown branch: `tokio::select!` picks at random among ready branches.
- `WsSession`: weak fairness of the straight-line code, of writes that are not
  blocked and of the clock; strong fairness of the branches of the select. A
  client that does not read may block a write for ever, since the code sets no
  time limit: the liveness property says so.
- `WsCluster`: a publish is synchronous and finishes. Nothing is assumed of Redis.
- `UserRequests`: time passes.
- Nothing is assumed of callers, clients, operators or faults.

## 4. Proofs

Every safety invariant and action property that a run checks is also a theorem,
proved by TLAPS for every value of the constants: any numbers of jobs,
processes, connections, topics, users, nodes, events, updaters, releases and
requests, and any limits. So are the three refinements. `PROJECT.json`
("theorems") lists the results; the comment above each says what it is about.

What is assumed of the constants are the named ASSUMEs of the modules, which TLC
evaluates on every run. They say that counts, times and limits are natural
numbers (positive where the code divides by them or would do nothing), that the
values for "none" (`NoRow`, `Nothing`, `Nobody`, `NoTopic`, `Junk`) are not ones
of the set they are absent from, and otherwise:

- `OneProcessAssumption` (`ChannelQueue`): the channel belongs to one process;
- `SchedulerConstantsAssumption`: the entries form a finite list, and their
  occurrences lie between 1 and `MaxTime`;
- `SessionConstantsAssumption`: a user's own topic is one the policy gives to that
  user;
- `BodiesAssumption` (`UserRequests`): an unbroken body brings the document its
  client sent. The document itself, its chunks and the limit are arbitrary;
- `DeployConstantsAssumption`, `UpdateConstantsAssumption`: tools, exits and faults
  are bounded in number, by any bound.

None of the properties below is inductive by itself. Each proof strengthens it to
an invariant that says where everything is and what follows from its place.

**The table under its workers** (`DatabaseQueueProofs`). `IInv` joins

- `TypeOK`;
- `LockInv`: a locked row is due, is locked by one transaction, and its process
  is in `"dequeue"`. This is what `FOR UPDATE SKIP LOCKED` contributes;
- `TaskInv`: a task's row is running, with the attempt number, limit and time the
  task was handed, and a task about to retry has an attempt left. With
  `LockInv` it follows that the row of a task is never selected or locked, so a
  row has one owner: nobody, a transaction, or a task;
- `CountInv`: a row counts at least the starts of its handler, and a row that
  waits has an attempt left. `AttemptsBounded` follows;
- `DoneInv` and `SucceededNeverReruns`: what succeeded is never waiting again;
- `PermitInv` (`WorkerProofs`): free permits plus holders make `Concurrency`, and
  a worker that has returned has no tasks. It needs cardinalities of the set of
  tasks, hence its own lemmas.

Proved from it: `TypeOK`, `ExclusiveExecution`, `TaskOwnsItsRow`,
`SucceededNeverReruns`, `AttemptsBounded`, `NeverEarly`, `PermitsConserved`,
`StoppedIsDrained`. Lemma `StepWrites` says that each step writes no row, or one
row that is not settled and along an arrow of `JobQueue`; `SettledIsFinal` and
the refinement follow. The enabling conditions of the abstract actions (a task
retries only with an attempt left, and reports only on a running job) come from
`TaskInv`, since the code does not check them.

**The channel under its worker** (`ChannelQueueProofs`). `JobInv` puts each job
in one of six places: with a sender that waits, in the channel, with a task and
in the map, with a task that re-sends, in the map alone (its handler panicked),
or nowhere. The place fixes its envelopes, its counter and its outcome. `OneEach`
keeps the positions of the channel apart. A step disturbs one job, and the lemma
`UndisturbedKeeps` does the others. From it follow `JobsAccountedFor` (a
statement about cardinalities), `AttemptsBounded` and, place by place, the
refinement of `JobQueue`. That attempts stay within the limit and that what is
over stays over is then proved from the steps of `JobQueue` alone, as any other
implementation would inherit it.

**The scheduler** (`ChannelQueueProofs`). `SchedulerRunsTheQueue` shows that
scheduler, queue and worker together behave like the queue, so the theorems
above hold for them. `SchedInv` divides the occurrences of each entry at
`next_run`: those behind it, and those that passed while the scheduler could not
look, were dispatched or have an excuse (`SlotInv`); those dispatched are behind
it, or at it with their dispatch under way (`FiredInv`, `SendInv`).
`SkippedOnlyWhenBlocked` and `NoSlotTwice` are read off it. That the next
occurrence is the least later one needs the least element of a set of naturals:
`MinOfNaturals` gets it from the well-foundedness of inclusion on finite sets,
since the induction theorems of the library are out of the prover's reach.

**The hub** (`WsHubProofs`). `ConnInv` relates, for one connection, the place of
its session in its current call, the place of its removal, and what the maps
say: a live connection has no removal under way; before its insert it is in no
index; one that was removed inside `register` or `subscribe` is in `raced`.
`IndexesAgreeOnLive` and `NothingLeftBehind` need it and are parts of `IInv`.

**The session** (`WsSessionProofs`). `SessionInv` and `PrivateTopicsStayPrivate`
are nearly inductive: the bound on the subscriptions needs that they are
finitely many, and their privacy that there are none before `who` is set.
`ReapedInTime` needs `TickerInv`: while the ticker is not due, the client was
heard so recently that the next tick is not late. `AdmittedAsAuthenticated`
follows from the handshake's actions.

**The bridge** (`WsClusterProofs`). `order[n]` is the order in which a node
forwarded its events. `OrderInv` says that what one node holds of another, from
the sockets back to the origin (log, stream, frame in hand, relay queue), is
sorted by it, each place ahead of the next; `PublishedInv` that nothing is
anywhere before it was forwarded, and `StageInv` how far its publish call is.
The refinement of `EventBus` (no invention, no duplicate, no reordering) and
`ClusterInv` (no loss without a cause) follow. Broken streams and restarts drop
suffixes or everything, and so keep the order.

**The self-updater** (`SelfUpdateProofs`). `StatusInv` says who is alone past the
check of `in_progress` unless two requests raced. The disk is divided by
history: while no two updaters overlapped, each stage of a replacement has a
whole binary at hand (`HasWhole`); before any kill, what the target was is in
the target or the backup (`Intact`), which gives `RollbackIsExact`; after one,
target or backup is whole outside a replacement, and if neither is because a
second kill hit another replacement, the staged copy is, and nothing that could
overwrite it is left (`KilledInv`). The proof attempt found two cases that the
earlier statement of `AlwaysRecoverable` had missed: it counted the downloaded
archive as a copy to recover from, although another check may be writing it,
and two kills of raced applies can leave nothing whole. The property names both
now; TLC checks it as it stands.

**Installer and uninstaller** (`SelfUpdateProofs`). `DeployInv` keeps `StatusInv`
(`StatusIsTruthful` holds in service as well) and says at each stage of a tool
what it has found, copied and registered so far. `InstallsSpareWhatIsThere` and
`DoneIsDone` follow.

**Users, bodies, pages** (`UserRequestsProofs`). `RequestInv` is inductive: a
step that writes a row excuses the copies elsewhere and leaves its own to the
invalidation that follows (`WriteKeeps`), a step that sets or drops a copy
settles the account of that copy (`CopyKeeps`), and every other step leaves the
causes as they are. `PagesCoverTheTable` is arithmetic over any table, page and
size (`PageSize`). `BodiesArriveWhole` needs that the middleware puts back a
beginning of the body, so that the sums of beginnings grow (`PrefixesGrow`).
`Sum` is a recursive function; that it exists and what it returns is shown by
least counterexamples (`LeastNatural`, `AddsExist`, `AddsAgree`).

**Only model-checked.** What holds under fairness, since the prover has no
ENABLED: `EventuallySettled`, `DrainTerminates`, `DeadConnectionsEnd`,
`LocalDespiteRedis`, `StopsUnlessBlocked`, `EndsUnlessJammed`, `StaleCopiesGo`;
and the two violations, which are counterexamples.

## 5. Plan

Done: the models of all components with state of their own, and proofs of every
safety property and refinement that the runs check. What is left:

1. More that can be said about composed parts: `AlwaysRecoverable` beside an
   installer (`Deployment`), for what an install does to a backup.
2. The safety half of the liveness properties, where it is worth a theorem: what
   makes a drain end is that no task is without a permit (`StoppedIsDrained`);
   what lets the scheduler end is that it holds nothing while it waits.
3. Simplifying the longest proofs (`SelfUpdateProofs`, `ChannelQueueProofs`) by
   stating more of their frame conditions once.

## 6. Not modelled

- **Application jobs** (`app/jobs/`): a handler is the choice of its outcomes;
  what it sends or logs is I/O.
- **WebSocket messages** (`infra/ws/message.rs`): types and their JSON form.
- **Hub**: statistics, and `disconnect`, which calls `unregister` like an eviction
  does. `slow_clients_dropped` counts a client once per publisher that found it
  full (`hub.rs:369`), and nothing but a statistic depends on it.
- **Rate limits**: a lookup of rules built at start-up; the bucket is a library.
- **Log retention** (`bootstrap/logger.rs`): one sweep at start-up over files by
  modification time; nothing else depends on its outcome.
- **64-bit saturation of `Backoff`**: beyond any bound TLC can count to; the
  worker uses the capped value.
- **Log rows and their endpoints** (`handlers/observability.rs`): one INSERT of a
  detached task, and SELECTs.
- **Login and password hashes**, token signing: no state; that a token verifies
  or not is `WsSession`'s.
- **Configuration**: its values are the CONSTANTS; whether it can be loaded is
  part of `Deployment`.
- **Windows branches** of updater, installer and uninstaller, the `status`
  command, and a kill of an *uninstall* (a kill of an install and of an updater
  are modelled).
- **Clients and pools, routing, error mapping, security headers**: wrappers of
  third-party code, and static tables.
