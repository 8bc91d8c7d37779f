----------------------------- MODULE SelfUpdate -----------------------------
(***************************************************************************)
(* Self-update: the API process finds, downloads and hands over a new      *)
(* version (infra/updater/mod.rs, bootstrap/updater.rs and                 *)
(* handlers/updater.rs), and the updater binary, a process of its own,     *)
(* puts it in place of the running binary (bin/updater.rs).                *)
(*                                                                         *)
(* The status lock is held for one action at a time.  Every file operation *)
(* of the updater is an action, so that the process can be killed between  *)
(* any two of them, and each of them can fail.                             *)
(***************************************************************************)
EXTENDS Integers, FiniteSets

CONSTANTS
    Handlers,       \* HTTP requests to the update endpoints in flight
    Checker,        \* the background checker, with auto_update on
    Applies,        \* slots for apply tasks and the updaters they spawn
    MaxVersion,     \* bound: releases are numbered 1 .. MaxVersion
    MaxExits,       \* bound: how often the API process goes away
    MaxFaults       \* bound: how many operations fail or processes are killed

Actors == Handlers \cup {Checker}
Versions == 1 .. MaxVersion

ASSUME UpdateConstantsAssumption ==
    /\ MaxVersion \in Nat \ {0} /\ MaxExits \in Nat /\ MaxFaults \in Nat
    /\ Checker \notin Handlers

Absent == 0             \* no such file
Partial == 0 - 1        \* a file that is being written, or was left so

VARIABLES
    api,        \* the API process: running or not, and the version it runs
    status,     \* UpdateStatus of that process
    remote,     \* the version the remote manifest names
    actor,      \* where each handler and the checker is
    apply,      \* each apply task, and later the updater it spawned
    file,       \* the binaries on disk, by the version they hold
    archive,    \* the verified zip of each version in the temp directory
    dir,        \* the directory of the target exists
    restart,    \* updater.restart_mode
    exits,      \* bound: API processes gone so far
    faults,     \* bound: faults so far
    raced,      \* history: two actors were past the in_progress check at once
    overlapped, \* history: two updaters existed at once
    damage      \* history: what the faults have done to the target, see below

apiVars == <<api, status, remote, actor>>
diskVars == <<file, archive, dir>>
boundVars == <<exits, faults>>
historyVars == <<raced, overlapped, damage>>
updateVars == <<apiVars, apply, diskVars, restart, boundVars, historyVars>>

(***************************************************************************)
(* "api"      current_exe, the target the updater replaces                 *)
(* "backup"   target.bak                                                   *)
(* "staged"   {binary}.new beside the zip: one path for all updaters       *)
(* "updater"  the updater binary next to the API                           *)
(***************************************************************************)
Path == {"api", "backup", "staged", "updater"}

(***************************************************************************)
(* Stages of an apply task: "download", "write" the zip, "spawn"; then of  *)
(* the updater process: "wait" for the pid or 30 s, "open" the zip,        *)
(* "unzip", remove a "stale" backup, "backUp", "move" the new binary in or *)
(* "copy" it, "chmod", "clean" the backup away, "restart"; "restore" after *)
(* an error in the replacement.                                            *)
(***************************************************************************)
TaskStage == {"download", "write", "spawn"}
ReplaceStage == {"stale", "backUp", "move", "copy", "chmod", "clean", "restore"}
UpdaterStage == {"wait", "open", "unzip", "restart"} \cup ReplaceStage

(***************************************************************************)
(* "none"     no updater was killed inside a replacement                   *)
(* "killed"   one was, or its rollback failed                              *)
(* "again"    and so was another, in a later replacement                   *)
(* "undone"   a later updater rolled back to what such a one left          *)
(***************************************************************************)
Damage == {"none", "killed", "again", "undone"}

NoApply == [at |-> "off", v |-> 0, shared |-> FALSE, found |-> 0,
            stale |-> FALSE]

Tasks == {u \in Applies : apply[u].at \in TaskStage}
UpdatersAlive == {u \in Applies : apply[u].at \in UpdaterStage}
Replacing == {u \in Applies : apply[u].at \in ReplaceStage}
Installed(p) == file[p] \in Versions

\* what it comes to when these updaters are killed
DamageBy(killed) ==
    IF killed \cap Replacing = {} THEN damage
    ELSE CASE damage = "none"   -> "killed"
           [] damage = "killed" -> "again"
           [] OTHER             -> damage

UpdateInit ==
    /\ api = [up |-> TRUE, version |-> 1]
    /\ status = [pending |-> 0, in_progress |-> FALSE, spawned |-> FALSE]
    /\ remote \in Versions
    /\ actor = [a \in Actors |-> [at |-> "idle", v |-> 0]]
    /\ apply = [u \in Applies |-> NoApply]
    \* the updater may not have been deployed
    /\ \E there \in {{"api"}, {"api", "updater"}} :
          file = [p \in Path |-> IF p \in there THEN 1 ELSE Absent]
    /\ archive = [v \in Versions |-> Absent]
    /\ dir = TRUE
    /\ restart \in {"spawn", "supervisor"}
    /\ exits = 0 /\ faults = 0
    /\ raced = FALSE /\ overlapped = FALSE /\ damage = "none"

Fault == faults < MaxFaults /\ faults' = faults + 1

-----------------------------------------------------------------------------
(* The status, its readers and its writers.                                *)

ActorTo(a, at, v) == actor' = [actor EXCEPT ![a] = [at |-> at, v |-> v]]

\* check_for_update: the manifest is fetched and newer than current_version,
\* which is the compiled version unless the configuration names one.  An
\* error, or a manifest that is not newer, only touches last_checked_at.
Fetch(a) ==
    /\ api.up
    /\ actor[a].at = "idle"
    /\ remote > api.version
    /\ ActorTo(a, "store", remote)
    /\ UNCHANGED <<api, status, remote, apply, diskVars, restart, boundVars, historyVars>>

\* the result goes into the status; the checker goes on to apply it
Store(a) ==
    /\ actor[a].at = "store"
    /\ status' = [status EXCEPT !.pending = actor[a].v]
    /\ IF a = Checker THEN ActorTo(a, "auto", actor[a].v) ELSE ActorTo(a, "idle", 0)
    /\ UNCHANGED <<api, remote, apply, diskVars, restart, boundVars, historyVars>>

\* past the check, about to take the write lock
Passes(a, v) ==
    /\ ActorTo(a, "mark", v)
    /\ raced' = (raced \/ \E b \in Actors : actor[b].at = "mark")

\* Mutant: apply_update does not look at in_progress.
ReadCheckUnguarded(a) ==
    /\ api.up
    /\ a \in Handlers
    /\ actor[a].at = "idle"
    /\ status.pending # 0
    /\ Passes(a, status.pending)
    /\ UNCHANGED <<api, status, remote, apply, diskVars, restart, boundVars,
                   overlapped, damage>>

\* apply_update under the read lock; otherwise it answers 409 or 400
ReadCheck(a) ==
    /\ api.up
    /\ a \in Handlers
    /\ actor[a].at = "idle"
    /\ ~status.in_progress
    /\ status.pending # 0
    /\ Passes(a, status.pending)
    /\ UNCHANGED <<api, status, remote, apply, diskVars, restart, boundVars,
                   overlapped, damage>>

\* the checker's own look at in_progress
AutoCheck(a) ==
    /\ actor[a].at = "auto"
    /\ IF status.in_progress
       THEN ActorTo(a, "idle", 0) /\ UNCHANGED raced
       ELSE Passes(a, actor[a].v)
    /\ UNCHANGED <<api, status, remote, apply, diskVars, restart, boundVars,
                   overlapped, damage>>

\* in_progress is set under the write lock, then trigger_apply spawns the task
MarkAndTrigger(a) ==
    /\ actor[a].at = "mark"
    /\ status' = [status EXCEPT !.in_progress = TRUE]
    /\ ActorTo(a, "idle", 0)
    /\ \E u \in Applies :
          /\ apply[u].at = "off"
          /\ apply' = [apply EXCEPT ![u].at = "download", ![u].v = actor[a].v]
    /\ UNCHANGED <<api, remote, diskVars, restart, boundVars, historyVars>>

-----------------------------------------------------------------------------
(* trigger_apply                                                           *)

Goto(u, at) == apply' = [apply EXCEPT ![u].at = at]
End(u) == apply' = [apply EXCEPT ![u] = NoApply]

\* both Err arms release the flag
ApplyFails(u) ==
    /\ Fault
    /\ End(u)
    /\ status' = [status EXCEPT !.in_progress = FALSE]
    /\ UNCHANGED <<api, remote, actor, restart, exits, historyVars>>

\* the zip is in memory and its checksum matches; File::create truncates
Download(u) ==
    /\ apply[u].at = "download"
    /\ \/ /\ archive' = [archive EXCEPT ![apply[u].v] = Partial]
          /\ Goto(u, "write")
          /\ UNCHANGED <<apiVars, file, dir, restart, boundVars, historyVars>>
       \/ ApplyFails(u) /\ UNCHANGED diskVars

\* the zip is named after the version in the manifest
WriteZip(u) ==
    /\ apply[u].at = "write"
    /\ \/ /\ archive' = [archive EXCEPT ![apply[u].v] = apply[u].v]
          /\ Goto(u, "spawn")
          /\ UNCHANGED <<apiVars, file, dir, restart, boundVars, historyVars>>
       \/ ApplyFails(u) /\ UNCHANGED diskVars

\* in_progress stays set: the service is expected to be replaced
SpawnUpdater(u) ==
    /\ apply[u].at = "spawn"
    /\ \/ /\ Installed("updater")
          /\ Goto(u, "wait")
          /\ status' = [status EXCEPT !.spawned = TRUE]
          /\ overlapped' = (overlapped \/ UpdatersAlive # {})
          /\ UNCHANGED <<api, remote, actor, diskVars, restart, boundVars,
                         raced, damage>>
       \/ ApplyFails(u) /\ UNCHANGED diskVars

\* the updater is not where it should be: an error like any other
SpawnNothing(u) ==
    /\ apply[u].at = "spawn"
    /\ ~Installed("updater")
    /\ End(u)
    /\ status' = [status EXCEPT !.in_progress = FALSE]
    /\ UNCHANGED <<api, remote, actor, diskVars, restart, boundVars, historyVars>>

TaskStep(u) == Download(u) \/ WriteZip(u) \/ SpawnUpdater(u) \/ SpawnNothing(u)

-----------------------------------------------------------------------------
(* The updater process.                                                    *)

\* the frame of every step of an updater but the last
Quiet == UNCHANGED <<apiVars, restart, exits, raced, overlapped>>

\* the step succeeds and the file operation has its effect
Does(u, next, files) ==
    /\ file' = files
    /\ Goto(u, next)
    /\ UNCHANGED <<archive, dir, faults, damage>> /\ Quiet

\* the step fails without an effect
Fails(u, next) ==
    /\ Fault
    /\ Goto(u, next)
    /\ UNCHANGED <<diskVars, damage>> /\ Quiet

\* process::exit(1)
Exit(u) == End(u) /\ UNCHANGED <<diskVars, damage>> /\ Quiet

With(p, content) == [file EXCEPT ![p] = content]
Moved(p, q) == [file EXCEPT ![q] = file[p], ![p] = Absent]

\* wait_for_pid_exit: the API is gone, or 30 s have passed
WaitOver(u) == apply[u].at = "wait" /\ Does(u, "open", file)

\* extract_binary up to File::create, which truncates {binary}.new even when
\* another updater is writing it
Open(u) ==
    /\ apply[u].at = "open"
    /\ IF archive[apply[u].v] = apply[u].v
       THEN LET others == {x \in Applies : apply[x].at = "unzip"} IN
            /\ apply' = [x \in Applies |->
                  IF x = u THEN [apply[u] EXCEPT !.at = "unzip",
                                                 !.shared = others # {}]
                  ELSE [apply[x] EXCEPT !.shared = @ \/ x \in others]]
            /\ file' = With("staged", Partial)
            /\ UNCHANGED <<archive, dir, faults, damage>> /\ Quiet
       ELSE Exit(u) /\ UNCHANGED faults

\* Mutant: an error while the entry is written out is ignored.
UnzipUnchecked(u) ==
    /\ apply[u].at = "unzip"
    /\ \/ Does(u, "stale", With("staged", apply[u].v))
       \/ Fails(u, "stale")

\* io::copy; of two updaters that write one file neither knows the result, nor
\* whether the other has moved the file away
Unzip(u) ==
    /\ apply[u].at = "unzip"
    /\ \/ /\ archive[apply[u].v] = apply[u].v
          /\ IF apply[u].shared
             THEN \E p \in {"staged", "api"}, c \in {apply[u].v, Partial} :
                     Does(u, "stale", With(p, c))
             ELSE Does(u, "stale", With("staged", apply[u].v))
       \/ archive[apply[u].v] # apply[u].v /\ Exit(u) /\ UNCHANGED faults
       \/ Fault /\ Exit(u)

\* what the target held when the replacement begins, for RollbackIsExact
RemoveStale(u) ==
    /\ apply[u].at = "stale"
    /\ \/ /\ apply' = [apply EXCEPT ![u].at = "backUp", ![u].found = file["api"]]
          /\ file' = With("backup", Absent)
          /\ UNCHANGED <<archive, dir, faults, damage>> /\ Quiet
       \/ /\ Fault
          /\ file["backup"] # Absent
          /\ apply' = [apply EXCEPT ![u].at = "restore", ![u].stale = TRUE,
                                    ![u].found = file["api"]]
          /\ UNCHANGED <<diskVars, damage>> /\ Quiet

BackUp(u) ==
    /\ apply[u].at = "backUp"
    /\ \/ Does(u, "move", IF file["api"] = Absent THEN file
                          ELSE Moved("api", "backup"))
       \/ file["api"] # Absent /\ Fails(u, "restore")

\* rename, or the start of a copy when the temp directory is another mount or
\* the new binary is gone
Move(u) ==
    /\ apply[u].at = "move"
    /\ IF dir /\ file["staged"] # Absent
       THEN \/ Does(u, "chmod", Moved("staged", "api"))
            \/ Does(u, "copy", With("api", Partial))
       ELSE Does(u, "restore", file)

Copy(u) ==
    /\ apply[u].at = "copy"
    /\ \/ Does(u, "chmod", Moved("staged", "api"))
       \/ Fails(u, "restore")

Chmod(u) ==
    /\ apply[u].at = "chmod"
    /\ \/ Does(u, "clean", file)
       \/ Fails(u, "restore")

\* a backup that cannot be removed is left behind without a word
Clean(u) ==
    /\ apply[u].at = "clean"
    /\ \/ Does(u, "restart", With("backup", Absent))
       \/ Fails(u, "restart")

\* Mutant: the backup is put in place only when there is no target.
RestoreIfMissing(u) ==
    /\ apply[u].at = "restore"
    /\ file' = IF file["api"] = Absent THEN Moved("backup", "api") ELSE file
    /\ End(u)
    /\ UNCHANGED <<archive, dir, faults, damage>> /\ Quiet

\* the error path of main: the backup, if any, is renamed over the target
Restore(u) ==
    /\ apply[u].at = "restore"
    /\ \/ /\ file' = IF file["backup"] = Absent THEN file
                     ELSE Moved("backup", "api")
          /\ damage' = IF damage = "none" THEN "none" ELSE "undone"
          /\ UNCHANGED faults
       \/ /\ Fault
          /\ damage' = IF damage = "none" THEN "killed" ELSE "undone"
          /\ UNCHANGED file
    /\ End(u)
    /\ UNCHANGED <<archive, dir>> /\ Quiet

\* supervisor: remove the zip, exit 0; spawn: exec the new binary, which finds
\* its port taken while the old process runs, and leave the zip
Restart(u) ==
    /\ apply[u].at = "restart"
    /\ End(u)
    /\ IF restart = "supervisor"
       THEN /\ archive' = [archive EXCEPT ![apply[u].v] = Absent]
            /\ UNCHANGED api
       ELSE /\ api' = IF api.up \/ ~Installed("api") THEN api
                      ELSE [up |-> TRUE, version |-> file["api"]]
            /\ UNCHANGED archive
    /\ UNCHANGED <<status, remote, actor, file, dir, restart, boundVars, historyVars>>

UpdaterStep(u) ==
    \/ WaitOver(u) \/ Open(u) \/ Unzip(u) \/ RemoveStale(u) \/ BackUp(u)
    \/ Move(u) \/ Copy(u) \/ Chmod(u) \/ Clean(u) \/ Restore(u) \/ Restart(u)

\* an updater is killed: by the operator, or with the service's control group
KillUpdater(u) ==
    /\ u \in UpdatersAlive
    /\ Fault
    /\ End(u)
    /\ damage' = DamageBy({u})
    /\ UNCHANGED diskVars /\ Quiet

-----------------------------------------------------------------------------
(* The API process comes and goes; its memory goes with it.                *)

FreshProcess ==
    /\ status' = [pending |-> 0, in_progress |-> FALSE, spawned |-> FALSE]
    /\ actor' = [a \in Actors |-> [at |-> "idle", v |-> 0]]

\* stopped, crashed, or restarted by hand: nothing in the code makes it exit.
\* A service manager may take updaters down with it.
ApiExits(killed) ==
    /\ api.up
    /\ exits < MaxExits
    /\ exits' = exits + 1
    /\ api' = [api EXCEPT !.up = FALSE]
    /\ FreshProcess
    /\ apply' = [u \in Applies |->
                    IF u \in Tasks \cup killed THEN NoApply ELSE apply[u]]
    /\ damage' = DamageBy(killed)
    /\ UNCHANGED <<remote, diskVars, restart, faults, raced, overlapped>>

\* the service manager or the operator starts whatever the target holds
ApiStarts ==
    /\ ~api.up
    /\ Installed("api")
    /\ api' = [up |-> TRUE, version |-> file["api"]]
    /\ UNCHANGED <<status, remote, actor, apply, diskVars, restart, boundVars,
                   historyVars>>

Release ==
    /\ remote < MaxVersion
    /\ remote' = remote + 1
    /\ UNCHANGED <<api, status, actor, apply, diskVars, restart, boundVars, historyVars>>

ApiStep(a) == Fetch(a) \/ Store(a) \/ ReadCheck(a) \/ AutoCheck(a) \/ MarkAndTrigger(a)

UpdateNext ==
    \/ \E a \in Actors : ApiStep(a)
    \/ \E u \in Applies : TaskStep(u) \/ UpdaterStep(u) \/ KillUpdater(u)
    \/ ApiExits({}) \/ ApiStarts \/ Release

UpdateSpec == UpdateInit /\ [][UpdateNext]_updateVars

-----------------------------------------------------------------------------
(* Properties.                                                             *)

TypeOK ==
    /\ api \in [up: BOOLEAN, version: Versions]
    /\ status \in [pending: {0} \cup Versions, in_progress: BOOLEAN, spawned: BOOLEAN]
    /\ remote \in Versions
    /\ actor \in [Actors -> [at: {"idle", "store", "auto", "mark"},
                            v: {0} \cup Versions]]
    /\ apply \in [Applies -> [at: {"off"} \cup TaskStage \cup UpdaterStage,
                              v: {0} \cup Versions, shared: BOOLEAN,
                              found: {Absent, Partial} \cup Versions, stale: BOOLEAN]]
    /\ file \in [Path -> {Absent, Partial} \cup Versions]
    /\ archive \in [Versions -> {Absent, Partial} \cup Versions]
    /\ \A v \in Versions : archive[v] \in {Absent, Partial, v}
    /\ dir \in BOOLEAN /\ restart \in {"spawn", "supervisor"}
    /\ exits \in 0 .. MaxExits /\ faults \in 0 .. MaxFaults
    /\ raced \in BOOLEAN /\ overlapped \in BOOLEAN /\ damage \in Damage

\* An apply that runs is announced by in_progress and is the only one of its
\* process, unless two requests passed the check before either set the flag.
AppliesAreExclusive ==
    ~raced => /\ Cardinality(Tasks) <= 1
              /\ Tasks # {} => status.in_progress

\* in_progress is never left behind by an apply that failed: while no apply
\* runs it is set only if this process has really spawned an updater.
FlagIsReleased ==
    (status.in_progress /\ Tasks = {}) => status.spawned

\* Both together are what a client may read out of the status.
StatusIsTruthful == AppliesAreExclusive /\ FlagIsReleased

\* Whatever fails, and wherever the updater is killed, a whole binary is left
\* to start or to put back: the target, its backup or the staged copy.  Three
\* things can destroy them all: two updaters at once; a failure after an earlier
\* kill, whose rollback puts the half-copied target of that kill over the good
\* new one; and, after two kills, two applies that raced, so that a third updater
\* unpacks over the staged copy, which is the last whole one.
SomeCopySurvives ==
    ~overlapped /\ damage # "undone" /\ ~(raced /\ damage = "again") =>
        \E p \in {"api", "backup", "staged"} : Installed(p)

\* With no replacement under way the service can be started, unless an updater
\* was killed in the middle of one or could not undo it.
TargetStartable ==
    ~overlapped /\ damage = "none" =>
        Installed("api") \/ Replacing # {}

\* After every failure there is something to start or to recover from.
AlwaysRecoverable == SomeCopySurvives /\ TargetStartable

\* "Try to restore from backup before exiting": a failed replacement leaves the
\* target as it found it.  When the stale backup of an earlier update cannot be
\* removed, that one is put in place instead, a silent downgrade.
RollbackIsExact ==
    [][\A u \in Applies :
          (apply[u].at = "restore" /\ apply'[u].at = "off"
           /\ ~overlapped /\ damage' = "none")
          => \/ file'["api"] = apply[u].found
             \/ apply[u].stale]_updateVars
=============================================================================
