-------------------------- MODULE SelfUpdateProofs --------------------------
(***************************************************************************)
(* Theorems about self-update, for any handlers, apply tasks, releases and *)
(* faults: what a client reads out of the status, and that a whole binary  *)
(* survives whatever fails and wherever an updater is killed.  Then about  *)
(* the deployment: what installers and uninstallers find when they come    *)
(* back to the files, with the service and its updaters beside them.       *)
(***************************************************************************)
EXTENDS Deployment, FiniteSetTheorems, TLAPS

(***************************************************************************)
(* What the status promises.  A process that is down has forgotten its     *)
(* requests and applies; unless two requests raced, whoever is past the    *)
(* check is alone there and has found no apply in progress.                *)
(***************************************************************************)
VersionInv ==
    /\ \A a \in Actors : actor[a].at # "idle" => actor[a].v \in Versions
    /\ \A u \in Applies : apply[u].at # "off" => apply[u].v \in Versions

DownInv == ~api.up => Tasks = {} /\ \A a \in Actors : actor[a].at = "idle"

MarkInv ==
    ~raced => \A a \in Actors : actor[a].at = "mark" =>
        /\ ~status.in_progress
        /\ \A b \in Actors : actor[b].at = "mark" => a = b

TaskInv == ~raced => /\ \A u, x \in Tasks : u = x
                     /\ Tasks # {} => status.in_progress

StatusInv == TypeOK /\ VersionInv /\ DownInv /\ MarkInv /\ TaskInv /\ FlagIsReleased

(***************************************************************************)
(* What is on disk while no two updaters overlap.  Each stage of a         *)
(* replacement has a whole binary at hand, whatever happened before it.    *)
(***************************************************************************)
Safe == Installed("api") \/ Installed("backup")

SingleInv == ~overlapped => /\ \A u, x \in UpdatersAlive : u = x
                            /\ \A u \in Applies : ~apply[u].shared

HasWhole(u) ==
    /\ apply[u].at \in {"stale", "backUp", "move", "copy"} => Installed("staged")
    /\ apply[u].at = "move" => file["api"] = Absent
    /\ apply[u].at \in {"chmod", "clean"} => Installed("api")
    /\ apply[u].at = "restore" => Safe \/ Installed("staged")

StageInv == ~overlapped => \A u \in Applies : HasWhole(u)

\* Before any kill the target is whole outside a replacement, and within one the
\* backup holds what the target held.
Intact(u) ==
    /\ apply[u].at = "stale" => Installed("api")
    /\ apply[u].at = "backUp" =>
          /\ Installed("api") /\ file["backup"] = Absent
          /\ apply[u].found = file["api"]
    /\ apply[u].at \in {"move", "copy", "chmod"} =>
          Installed("backup") /\ apply[u].found = file["backup"]
    /\ apply[u].at = "restore" =>
          \/ apply[u].stale /\ Installed("api")
          \/ Installed("api") /\ file["backup"] = Absent /\ apply[u].found = file["api"]
          \/ Installed("backup") /\ apply[u].found = file["backup"]

IntactInv ==
    ~overlapped /\ damage = "none" =>
        /\ file["backup"] # Partial
        /\ Replacing = {} => Installed("api")
        /\ \A u \in Applies : Intact(u)

\* Nothing but the updater that is at work can touch the disk any more: the API
\* waits to be replaced, or is down with nothing to start.
AllQuiet ==
    /\ Tasks = {}
    /\ api.up => status.in_progress /\ \A a \in Actors : actor[a].at # "mark"

\* After a kill the target or its backup is whole outside a replacement; should
\* neither be, because another was killed too, the staged copy is, and nobody is
\* left to overwrite it.
Early == {"wait", "open", "unzip", "stale", "backUp"}

KilledInv ==
    ~overlapped /\ damage \in {"killed", "again"} =>
        /\ damage = "killed" /\ Replacing = {} => Safe
        /\ ~raced /\ ~Safe =>
              AllQuiet /\ Installed("staged") /\ UpdatersAlive \subseteq Replacing
        /\ ~raced /\ ~Installed("api") /\ (\E u \in Applies : apply[u].at \in Early)
              => AllQuiet

DiskInv == SingleInv /\ StageInv /\ IntactInv /\ KilledInv

IInv == StatusInv /\ DiskInv

-----------------------------------------------------------------------------
(* The parts of the type invariant, by the variables they are about.       *)

ActorType == [at: {"idle", "store", "auto", "mark"}, v: {0} \cup Versions]
ApplyType == [at: {"off"} \cup TaskStage \cup UpdaterStage, v: {0} \cup Versions,
              shared: BOOLEAN, found: {Absent, Partial} \cup Versions,
              stale: BOOLEAN]

ApiType ==
    /\ api \in [up: BOOLEAN, version: Versions]
    /\ status \in [pending: {0} \cup Versions, in_progress: BOOLEAN, spawned: BOOLEAN]
    /\ remote \in Versions
    /\ actor \in [Actors -> ActorType]

DiskType ==
    /\ file \in [Path -> {Absent, Partial} \cup Versions]
    /\ archive \in [Versions -> {Absent, Partial} \cup Versions]
    /\ \A v \in Versions : archive[v] \in {Absent, Partial, v}

RestType ==
    /\ dir \in BOOLEAN /\ restart \in {"spawn", "supervisor"}
    /\ exits \in 0 .. MaxExits /\ faults \in 0 .. MaxFaults
    /\ raced \in BOOLEAN /\ overlapped \in BOOLEAN /\ damage \in Damage

\* The type invariant is what its parts say.
LEMMA TypeParts ==
    TypeOK <=> ApiType /\ apply \in [Applies -> ApplyType] /\ DiskType /\ RestType
BY DEF TypeOK, ApiType, ActorType, ApplyType, DiskType, RestType

\* Release numbers are positive, so neither of the two marks of a file is one.
LEMMA VersionFacts ==
    /\ 1 \in Versions /\ 0 \notin Versions /\ Absent \notin Versions
    /\ Partial \notin Versions /\ Absent # Partial
BY UpdateConstantsAssumption DEF Versions, Absent, Partial

-----------------------------------------------------------------------------
(* The initial state.                                                      *)

\* Nothing is in progress and the target is installed.
LEMMA InvInit == UpdateInit => IInv
<1> SUFFICES ASSUME UpdateInit PROVE IInv
  OBVIOUS
<1> USE UpdateConstantsAssumption, VersionFacts DEF UpdateInit
<1>0. /\ \A u \in Applies : apply[u] = NoApply
      /\ \A a \in Actors : actor[a] = [at |-> "idle", v |-> 0]
      /\ Tasks = {} /\ UpdatersAlive = {}
  BY DEF NoApply, Tasks, UpdatersAlive, TaskStage, UpdaterStage, ReplaceStage
<1>1. TypeOK
  <2>1. ApiType
    BY DEF ApiType, ActorType
  <2>2. apply \in [Applies -> ApplyType]
    <3>1. NoApply \in ApplyType
      BY DEF ApplyType, NoApply, Absent
    <3> QED
      BY <3>1
  <2>3. DiskType
    <3>1. PICK there \in {{"api"}, {"api", "updater"}} :
             file = [p \in Path |-> IF p \in there THEN 1 ELSE Absent]
      OBVIOUS
    <3> QED
      BY <3>1 DEF DiskType
  <2>4. RestType
    <3>1. 0 \in 0 .. MaxExits /\ 0 \in 0 .. MaxFaults
      OBVIOUS
    <3>2. raced \in BOOLEAN /\ overlapped \in BOOLEAN
      OBVIOUS
    <3>3. dir \in BOOLEAN /\ restart \in {"spawn", "supervisor"} /\ damage \in Damage
      BY DEF Damage
    <3> QED
      BY <3>1, <3>2, <3>3 DEF RestType
  <2> QED
    BY <2>1, <2>2, <2>3, <2>4, TypeParts
<1>2. VersionInv /\ DownInv /\ MarkInv /\ TaskInv /\ FlagIsReleased
  BY <1>0 DEF VersionInv, DownInv, MarkInv, TaskInv, FlagIsReleased, NoApply
<1>3. Installed("api") /\ file["backup"] = Absent
  BY DEF Installed, Path
<1>4. DiskInv
  BY <1>0, <1>3
     DEF DiskInv, SingleInv, StageInv, HasWhole, IntactInv, Intact, KilledInv,
         NoApply
<1> QED
  BY <1>1, <1>2, <1>4 DEF IInv, StatusInv

-----------------------------------------------------------------------------
(* What the operators that write a record leave of it.                     *)

\* An apply moves on, alone, and keeps what else it knows.
LEMMA GotoMoves ==
    ASSUME TypeOK, NEW u \in Applies, NEW at \in TaskStage \cup UpdaterStage, Goto(u, at)
    PROVE  /\ apply' \in [Applies -> ApplyType]
           /\ apply'[u].at = at
           /\ apply'[u].v = apply[u].v /\ apply'[u].shared = apply[u].shared
           /\ apply'[u].found = apply[u].found /\ apply'[u].stale = apply[u].stale
           /\ \A x \in Applies : x # u => apply'[x] = apply[x]
<1>1. apply \in [Applies -> ApplyType]
  BY TypeParts
<1>2. PICK r \in ApplyType : r = [apply[u] EXCEPT !.at = at]
  BY <1>1 DEF ApplyType
<1>3. /\ r.at = at /\ r.v = apply[u].v /\ r.shared = apply[u].shared
      /\ r.found = apply[u].found /\ r.stale = apply[u].stale
  BY <1>1, <1>2 DEF ApplyType
<1>4. apply' = [apply EXCEPT ![u] = r]
  BY <1>1, <1>2 DEF Goto
<1> QED
  BY <1>1, <1>3, <1>4

\* An apply ends, alone.
LEMMA EndMoves ==
    ASSUME TypeOK, NEW u \in Applies, End(u)
    PROVE  /\ apply' \in [Applies -> ApplyType]
           /\ apply'[u] = NoApply
           /\ \A x \in Applies : x # u => apply'[x] = apply[x]
<1>1. apply \in [Applies -> ApplyType] /\ NoApply \in ApplyType
  BY TypeParts DEF ApplyType, NoApply, Absent
<1> QED
  BY <1>1 DEF End

\* A request moves on, alone.
LEMMA ActorMoves ==
    ASSUME TypeOK, NEW a \in Actors, NEW at \in {"idle", "store", "auto", "mark"},
           NEW v \in {0} \cup Versions, ActorTo(a, at, v)
    PROVE  /\ actor' \in [Actors -> ActorType]
           /\ actor'[a].at = at /\ actor'[a].v = v
           /\ \A b \in Actors : b # a => actor'[b] = actor[b]
<1>1. actor \in [Actors -> ActorType] /\ [at |-> at, v |-> v] \in ActorType
  BY TypeParts DEF ApiType, ActorType
<1> QED
  BY <1>1 DEF ActorTo

\* The parts of the disjoint stages of an apply.
LEMMA Stages ==
    /\ "off" \notin TaskStage \cup UpdaterStage
    /\ TaskStage \cap UpdaterStage = {}
    /\ ReplaceStage \subseteq UpdaterStage /\ Early \subseteq UpdaterStage
BY DEF TaskStage, UpdaterStage, ReplaceStage, Early

-----------------------------------------------------------------------------
(* The requests and the process keep what the status promises.             *)

\* A check stores nothing yet.
LEMMA FetchStatus == ASSUME StatusInv, NEW a \in Actors, Fetch(a) PROVE StatusInv'
<1> USE DEF Fetch, diskVars, boundVars, historyVars
<1>0. /\ actor' \in [Actors -> ActorType]
      /\ actor'[a].at = "store" /\ actor'[a].v = remote /\ remote \in Versions
      /\ \A b \in Actors : b # a => actor'[b] = actor[b]
  BY ActorMoves, TypeParts DEF StatusInv, ApiType
<1>1. TypeOK'
  BY <1>0 DEF StatusInv, TypeOK, ActorType
<1>2. VersionInv' /\ DownInv' /\ MarkInv' /\ TaskInv' /\ FlagIsReleased'
  BY <1>0 DEF StatusInv, VersionInv, DownInv, MarkInv, TaskInv, FlagIsReleased, Tasks
<1> QED
  BY <1>1, <1>2 DEF StatusInv

\* The result of a check is stored; the checker goes on.
LEMMA StoreStatus == ASSUME StatusInv, NEW a \in Actors, Store(a) PROVE StatusInv'
<1> USE DEF Store, diskVars, boundVars, historyVars
<1>0. /\ actor' \in [Actors -> ActorType]
      /\ actor'[a].at \in {"idle", "auto"}
      /\ actor'[a].at # "idle" => actor'[a].v \in Versions
      /\ actor[a].v \in Versions
      /\ \A b \in Actors : b # a => actor'[b] = actor[b]
  <2>1. actor[a].v \in Versions
    BY DEF StatusInv, VersionInv
  <2>2. CASE a = Checker
    BY <2>1, <2>2, ActorMoves DEF StatusInv
  <2>3. CASE a # Checker
    BY <2>1, <2>3, ActorMoves DEF StatusInv
  <2> QED
    BY <2>1, <2>2, <2>3
<1>a. /\ status' \in [pending: {0} \cup Versions, in_progress: BOOLEAN, spawned: BOOLEAN]
      /\ status'.in_progress = status.in_progress /\ status'.spawned = status.spawned
  BY <1>0 DEF StatusInv, TypeOK
<1> HIDE DEF Store
<1>b. UNCHANGED <<api, remote, apply, diskVars, restart, boundVars, historyVars>>
  BY DEF Store
<1>1. TypeOK'
  BY <1>0, <1>a, <1>b DEF StatusInv, TypeOK, ActorType
<1>c. api.up
  BY DEF Store, StatusInv, DownInv
<1>2. VersionInv' /\ DownInv' /\ MarkInv' /\ TaskInv' /\ FlagIsReleased'
  BY <1>0, <1>a, <1>b, <1>c
     DEF StatusInv, VersionInv, DownInv, MarkInv, TaskInv, FlagIsReleased, Tasks
<1> QED
  BY <1>1, <1>2 DEF StatusInv

\* Whoever passes the check finds no apply in progress; a second one there is a
\* race.
LEMMA PassesStatus ==
    ASSUME StatusInv, NEW a \in Actors, NEW v \in Versions, Passes(a, v), api.up,
           ~status.in_progress,
           UNCHANGED <<api, status, remote, apply, diskVars, restart, boundVars,
                       overlapped, damage>>
    PROVE  StatusInv'
<1> USE DEF Passes, diskVars, boundVars
<1>0. /\ actor' \in [Actors -> ActorType]
      /\ actor'[a].at = "mark" /\ actor'[a].v = v
      /\ \A b \in Actors : b # a => actor'[b] = actor[b]
  BY ActorMoves DEF StatusInv
<1>1. TypeOK'
  BY <1>0 DEF StatusInv, TypeOK, ActorType
<1>2. ~raced' => ~raced /\ \A b \in Actors : actor[b].at # "mark"
  BY <1>1 DEF StatusInv, TypeOK
<1>3. VersionInv' /\ DownInv' /\ MarkInv' /\ TaskInv' /\ FlagIsReleased'
  BY <1>0, <1>2 DEF StatusInv, VersionInv, DownInv, MarkInv, TaskInv, FlagIsReleased, Tasks
<1> QED
  BY <1>1, <1>3 DEF StatusInv

\* A handler that reads the status passes the check or answers with an error.
LEMMA ReadCheckStatus == ASSUME StatusInv, NEW a \in Actors, ReadCheck(a) PROVE StatusInv'
<1>1. status.pending \in Versions
  BY DEF ReadCheck, StatusInv, TypeOK
<1> QED
  BY <1>1, PassesStatus DEF ReadCheck

\* The checker passes its own look at in_progress, or gives up.
LEMMA AutoCheckStatus == ASSUME StatusInv, NEW a \in Actors, AutoCheck(a) PROVE StatusInv'
<1>1. actor[a].v \in Versions /\ api.up
  BY DEF AutoCheck, StatusInv, VersionInv, DownInv
<1>2. CASE ~status.in_progress
  BY <1>1, <1>2, PassesStatus DEF AutoCheck
<1>3. CASE status.in_progress
  <2> USE DEF AutoCheck, diskVars, boundVars
  <2>0. /\ actor' \in [Actors -> ActorType]
        /\ actor'[a].at = "idle"
        /\ \A b \in Actors : b # a => actor'[b] = actor[b]
        /\ UNCHANGED raced
    BY <1>3, ActorMoves DEF StatusInv
  <2>1. TypeOK'
    BY <2>0 DEF StatusInv, TypeOK, ActorType
  <2>2. VersionInv' /\ DownInv' /\ MarkInv' /\ TaskInv' /\ FlagIsReleased'
    BY <2>0 DEF StatusInv, VersionInv, DownInv, MarkInv, TaskInv, FlagIsReleased, Tasks
  <2> QED
    BY <2>1, <2>2 DEF StatusInv
<1> QED
  BY <1>2, <1>3

\* The flag is set and one apply task starts; whoever does this alone finds none.
LEMMA MarkAndTriggerStatus ==
    ASSUME StatusInv, NEW a \in Actors, MarkAndTrigger(a) PROVE StatusInv'
<1> USE DEF MarkAndTrigger, diskVars, boundVars, historyVars
<1>0. /\ actor' \in [Actors -> ActorType]
      /\ actor'[a].at = "idle"
      /\ \A b \in Actors : b # a => actor'[b] = actor[b]
  BY ActorMoves DEF StatusInv
<1>a. /\ status' \in [pending: {0} \cup Versions, in_progress: BOOLEAN, spawned: BOOLEAN]
      /\ status'.in_progress = TRUE
  BY DEF StatusInv, TypeOK
<1>b. PICK u \in Applies :
         /\ apply[u].at = "off"
         /\ apply' = [apply EXCEPT ![u].at = "download", ![u].v = actor[a].v]
  OBVIOUS
<1>c. /\ apply' \in [Applies -> ApplyType]
      /\ apply'[u].at = "download" /\ apply'[u].v \in Versions
      /\ \A x \in Applies : x # u => apply'[x] = apply[x]
  <2>1. apply \in [Applies -> ApplyType] /\ actor[a].v \in Versions
    BY TypeParts DEF StatusInv, VersionInv
  <2>2. PICK r \in ApplyType :
           r = [apply[u] EXCEPT !.at = "download", !.v = actor[a].v]
    <3>1. apply[u] \in ApplyType /\ "download" \in TaskStage
      BY <2>1 DEF TaskStage
    <3> QED
      BY <2>1, <3>1 DEF ApplyType
  <2>3. r.at = "download" /\ r.v = actor[a].v
    BY <2>1, <2>2 DEF ApplyType
  <2>4. apply' = [apply EXCEPT ![u] = r]
    BY <1>b, <2>1, <2>2
  <2> QED
    BY <2>1, <2>3, <2>4
<1>d. UNCHANGED <<api, remote, diskVars, restart, boundVars, historyVars>>
      /\ actor[a].at = "mark"
  OBVIOUS
<1> HIDE DEF MarkAndTrigger
<1>1. TypeOK'
  BY <1>0, <1>a, <1>c, <1>d, TypeParts
     DEF StatusInv, TypeOK, ActorType, ApplyType
<1>2. Tasks' = Tasks \cup {u}
  BY <1>b, <1>c DEF Tasks, TaskStage
<1>3. ~raced => Tasks = {} /\ \A b \in Actors : actor[b].at = "mark" => b = a
  BY <1>d DEF StatusInv, MarkInv, TaskInv
<1>4. api.up
  BY <1>d DEF StatusInv, DownInv
<1>5. VersionInv' /\ DownInv' /\ MarkInv'
  BY <1>0, <1>c, <1>d, <1>3, <1>4 DEF StatusInv, VersionInv, DownInv, MarkInv
<1>6. TaskInv' /\ FlagIsReleased'
  BY <1>2, <1>3, <1>a, <1>d DEF TaskInv, FlagIsReleased
<1> QED
  BY <1>1, <1>5, <1>6 DEF StatusInv

\* The manifest is none of the process' business.
LEMMA ReleaseStatus == ASSUME StatusInv, Release PROVE StatusInv'
<1> USE DEF Release, diskVars, boundVars, historyVars
<1>1. remote' \in Versions
  BY UpdateConstantsAssumption DEF StatusInv, TypeOK, Versions
<1>2. TypeOK'
  BY <1>1 DEF StatusInv, TypeOK
<1>3. VersionInv' /\ DownInv' /\ MarkInv' /\ TaskInv' /\ FlagIsReleased'
  BY DEF StatusInv, VersionInv, DownInv, MarkInv, TaskInv, FlagIsReleased, Tasks
<1> QED
  BY <1>2, <1>3 DEF StatusInv

\* A process starts with the status its predecessor left: a fresh one.
LEMMA ApiStartsStatus == ASSUME StatusInv, ApiStarts PROVE StatusInv'
<1> USE DEF ApiStarts, diskVars, boundVars, historyVars, Installed
<1>1. TypeOK'
  BY DEF StatusInv, TypeOK
<1>2. VersionInv' /\ DownInv' /\ MarkInv' /\ TaskInv' /\ FlagIsReleased'
  BY DEF StatusInv, VersionInv, DownInv, MarkInv, TaskInv, FlagIsReleased, Tasks
<1> QED
  BY <1>1, <1>2 DEF StatusInv

\* What a kill does to the record of the damage.
LEMMA DamageDone ==
    ASSUME damage \in Damage, NEW killed \in SUBSET UpdatersAlive
    PROVE  /\ DamageBy(killed) \in Damage
           /\ killed \cap Replacing = {} => DamageBy(killed) = damage
           /\ killed \cap Replacing # {} =>
                 /\ damage = "none" => DamageBy(killed) = "killed"
                 /\ damage \in {"killed", "again"} => DamageBy(killed) = "again"
                 /\ damage = "undone" => DamageBy(killed) = "undone"
<1>1. CASE killed \cap Replacing = {}
  BY <1>1 DEF DamageBy
<1>2. CASE killed \cap Replacing # {}
  <2>1. DamageBy(killed) = CASE damage = "none"   -> "killed"
                             [] damage = "killed" -> "again"
                             [] OTHER             -> damage
    BY <1>2 DEF DamageBy
  <2>2. CASE damage = "none"
    BY <1>2, <2>1, <2>2 DEF Damage
  <2>3. CASE damage = "killed"
    BY <1>2, <2>1, <2>3 DEF Damage
  <2>4. CASE damage \in {"again", "undone"}
    BY <1>2, <2>1, <2>4 DEF Damage
  <2> QED
    BY <2>2, <2>3, <2>4 DEF Damage
<1> QED
  BY <1>1, <1>2

\* Killing nobody does no damage.
LEMMA NoDamage == DamageBy({}) = damage
BY DEF DamageBy

\* The API goes and takes its tasks and some updaters with it.
LEMMA ApiGoes ==
    ASSUME StatusInv, NEW killed \in SUBSET UpdatersAlive,
           api' = [api EXCEPT !.up = FALSE], FreshProcess,
           apply' = [u \in Applies |-> IF u \in Tasks \cup killed THEN NoApply ELSE apply[u]],
           damage' = DamageBy(killed), exits' \in 0 .. MaxExits,
           UNCHANGED <<remote, restart, diskVars, faults, raced, overlapped>>
    PROVE  StatusInv' /\ UpdatersAlive' = UpdatersAlive \ killed /\ ~api'.up
<1> USE DEF FreshProcess, diskVars
<1>0. /\ \A a \in Actors : actor'[a].at = "idle"
      /\ status'.in_progress = FALSE
      /\ damage' \in Damage /\ ~api'.up
  BY DamageDone DEF StatusInv, TypeOK
<1>1. NoApply \in ApplyType
  BY DEF ApplyType, NoApply, Absent
<1>2. \A u \in Applies : /\ u \in Tasks \cup killed => apply'[u] = NoApply
                         /\ u \notin Tasks \cup killed => apply'[u] = apply[u]
  OBVIOUS
<1>3. Tasks' = {} /\ UpdatersAlive' = UpdatersAlive \ killed
  BY <1>2, Stages DEF Tasks, UpdatersAlive, NoApply
<1>4. TypeOK'
  <2>1. ApiType'
    BY DEF StatusInv, TypeOK, ApiType, ActorType
  <2>2. apply' \in [Applies -> ApplyType]
    BY <1>1, TypeParts DEF StatusInv
  <2>3. DiskType' /\ RestType'
    BY <1>0 DEF StatusInv, TypeOK, DiskType, RestType
  <2> QED
    BY <2>1, <2>2, <2>3, TypeParts
    DEF ApiType, ActorType, ApplyType, DiskType, RestType, TypeOK
<1>5. VersionInv' /\ DownInv' /\ MarkInv' /\ TaskInv' /\ FlagIsReleased'
  BY <1>0, <1>2, <1>3
     DEF StatusInv, VersionInv, DownInv, MarkInv, TaskInv, FlagIsReleased, NoApply
<1> QED
  BY <1>0, <1>3, <1>4, <1>5 DEF StatusInv

\* The process goes alone: no service manager takes an updater with it.
LEMMA ApiExitsStatus == ASSUME StatusInv, ApiExits({}) PROVE StatusInv'
<1>1. exits' \in 0 .. MaxExits
  BY UpdateConstantsAssumption DEF ApiExits, StatusInv, TypeOK
<1> QED
  BY <1>1, ApiGoes DEF ApiExits

-----------------------------------------------------------------------------
(* The apply tasks keep what the status promises.                          *)

\* A task that goes on as a task changes nothing the status speaks of.
LEMMA TaskGoesOn ==
    ASSUME StatusInv, NEW u \in Applies, apply[u].at \in TaskStage,
           NEW at \in TaskStage, Goto(u, at),
           UNCHANGED <<apiVars, restart, boundVars, historyVars, dir>>, DiskType'
    PROVE  StatusInv'
<1> USE DEF apiVars, boundVars, historyVars
<1>0. /\ apply' \in [Applies -> ApplyType]
      /\ apply'[u].at = at /\ apply'[u].v = apply[u].v
      /\ \A x \in Applies : x # u => apply'[x] = apply[x]
  BY GotoMoves DEF StatusInv
<1>1. TypeOK'
  <2>1. ApiType' /\ RestType'
    BY DEF StatusInv, TypeOK, ApiType, ActorType, RestType
  <2> QED
    BY <1>0, <2>1, TypeParts
       DEF TypeOK, ApiType, ActorType, ApplyType, DiskType, RestType
<1>2. Tasks' = Tasks
  BY <1>0 DEF Tasks
<1>3. VersionInv' /\ DownInv' /\ MarkInv' /\ TaskInv' /\ FlagIsReleased'
  BY <1>0, <1>2, Stages
     DEF StatusInv, VersionInv, DownInv, MarkInv, TaskInv, FlagIsReleased
<1> QED
  BY <1>1, <1>3 DEF StatusInv

\* A task that fails releases the flag; if it was the only one, so it was set.
LEMMA TaskEnds ==
    ASSUME StatusInv, NEW u \in Applies, apply[u].at \in TaskStage, End(u),
           status' = [status EXCEPT !.in_progress = FALSE],
           faults' \in 0 .. MaxFaults,
           UNCHANGED <<api, remote, actor, restart, exits, historyVars, diskVars>>
    PROVE  StatusInv'
<1> USE DEF historyVars, diskVars
<1>0. /\ apply' \in [Applies -> ApplyType]
      /\ apply'[u] = NoApply
      /\ \A x \in Applies : x # u => apply'[x] = apply[x]
  BY EndMoves DEF StatusInv
<1>a. /\ status' \in [pending: {0} \cup Versions, in_progress: BOOLEAN, spawned: BOOLEAN]
      /\ status'.in_progress = FALSE
  BY DEF StatusInv, TypeOK
<1>1. TypeOK'
  <2>1. ApiType' /\ RestType' /\ DiskType'
    BY <1>a DEF StatusInv, TypeOK, ApiType, ActorType, RestType, DiskType
  <2> QED
    BY <1>0, <2>1, TypeParts
       DEF TypeOK, ApiType, ActorType, ApplyType, DiskType, RestType
<1>2. Tasks' = Tasks \ {u} /\ u \in Tasks
  BY <1>0, Stages DEF Tasks, NoApply
<1>3. VersionInv' /\ DownInv' /\ MarkInv' /\ TaskInv' /\ FlagIsReleased'
  BY <1>0, <1>a, <1>2
     DEF StatusInv, VersionInv, DownInv, MarkInv, TaskInv, FlagIsReleased, NoApply
<1> QED
  BY <1>1, <1>3 DEF StatusInv

\* A fault is counted within its bound.
LEMMA FaultCounted == ASSUME StatusInv, Fault PROVE faults' \in 0 .. MaxFaults
BY UpdateConstantsAssumption DEF Fault, StatusInv, TypeOK

\* The zip of this task's version is begun, or the task fails.
LEMMA DownloadStatus ==
    ASSUME StatusInv, NEW u \in Applies, Download(u) PROVE StatusInv'
<1>1. CASE ApplyFails(u) /\ UNCHANGED diskVars
  BY <1>1, FaultCounted, TaskEnds DEF Download, ApplyFails, TaskStage
<1>2. CASE /\ archive' = [archive EXCEPT ![apply[u].v] = Partial]
           /\ Goto(u, "write")
           /\ UNCHANGED <<apiVars, file, dir, restart, boundVars, historyVars>>
  <2>1. DiskType'
    BY <1>2 DEF StatusInv, TypeOK, DiskType
  <2> QED
    BY <1>2, <2>1, TaskGoesOn DEF Download, TaskStage
<1> QED
  BY <1>1, <1>2 DEF Download

\* The zip is complete, or the task fails.
LEMMA WriteZipStatus ==
    ASSUME StatusInv, NEW u \in Applies, WriteZip(u) PROVE StatusInv'
<1>1. CASE ApplyFails(u) /\ UNCHANGED diskVars
  BY <1>1, FaultCounted, TaskEnds DEF WriteZip, ApplyFails, TaskStage
<1>2. CASE /\ archive' = [archive EXCEPT ![apply[u].v] = apply[u].v]
           /\ Goto(u, "spawn")
           /\ UNCHANGED <<apiVars, file, dir, restart, boundVars, historyVars>>
  <2>1. apply[u].v \in Versions
    BY DEF WriteZip, StatusInv, VersionInv
  <2>2. DiskType'
    BY <1>2, <2>1 DEF StatusInv, TypeOK, DiskType
  <2> QED
    BY <1>2, <2>2, TaskGoesOn DEF WriteZip, TaskStage
<1> QED
  BY <1>1, <1>2 DEF WriteZip

\* Without an updater beside it the task fails.
LEMMA SpawnNothingStatus ==
    ASSUME StatusInv, NEW u \in Applies, SpawnNothing(u) PROVE StatusInv'
<1>1. faults' \in 0 .. MaxFaults /\ UNCHANGED exits
  BY DEF SpawnNothing, boundVars, StatusInv, TypeOK
<1> QED
  BY <1>1, TaskEnds DEF SpawnNothing, TaskStage

\* The updater is spawned: the task is over, and the flag stays set for good
\* reason.
LEMMA SpawnUpdaterStatus ==
    ASSUME StatusInv, NEW u \in Applies, SpawnUpdater(u) PROVE StatusInv'
<1>1. CASE ApplyFails(u) /\ UNCHANGED diskVars
  BY <1>1, FaultCounted, TaskEnds DEF SpawnUpdater, ApplyFails, TaskStage
<1>2. CASE /\ Goto(u, "wait")
           /\ status' = [status EXCEPT !.spawned = TRUE]
           /\ overlapped' = (overlapped \/ UpdatersAlive # {})
           /\ UNCHANGED <<api, remote, actor, diskVars, restart, boundVars,
                          raced, damage>>
  <2> USE <1>2 DEF diskVars, boundVars
  <2>0. /\ apply' \in [Applies -> ApplyType]
        /\ apply'[u].at = "wait" /\ apply'[u].v = apply[u].v
        /\ \A x \in Applies : x # u => apply'[x] = apply[x]
    BY GotoMoves DEF StatusInv, UpdaterStage
  <2>a. /\ status' \in [pending: {0} \cup Versions, in_progress: BOOLEAN,
                        spawned: BOOLEAN]
        /\ status'.in_progress = status.in_progress /\ status'.spawned = TRUE
    BY DEF StatusInv, TypeOK
  <2>b. overlapped' \in BOOLEAN
    OBVIOUS
  <2>1. TypeOK'
    <3>1. ApiType' /\ RestType' /\ DiskType'
      BY <2>a, <2>b DEF StatusInv, TypeOK, ApiType, ActorType, RestType, DiskType
    <3> QED
      BY <2>0, <3>1, TypeParts
         DEF TypeOK, ApiType, ActorType, ApplyType, DiskType, RestType
  <2>2. Tasks' = Tasks \ {u} /\ apply[u].at = "spawn"
    BY <2>0 DEF SpawnUpdater, Tasks, TaskStage
  <2>3. VersionInv' /\ DownInv' /\ MarkInv' /\ TaskInv' /\ FlagIsReleased'
    BY <2>0, <2>a, <2>2
       DEF StatusInv, VersionInv, DownInv, MarkInv, TaskInv, FlagIsReleased
  <2> QED
    BY <2>1, <2>3 DEF StatusInv
<1> QED
  BY <1>1, <1>2 DEF SpawnUpdater

-----------------------------------------------------------------------------
(* The requests and the tasks keep the disk as it is.                      *)

\* A step that touches neither a file nor an updater, and starts nothing where
\* all is quiet.
LEMMA BesideDisk ==
    ASSUME DiskInv, StatusInv',
           UNCHANGED <<file, overlapped, damage>>, raced => raced',
           \A u \in Applies :
              /\ apply'[u].shared => apply[u].shared
              /\ (apply[u].at \in UpdaterStage \/ apply'[u].at \in UpdaterStage)
                    => apply'[u] = apply[u],
           AllQuiet /\ ~Installed("api") => AllQuiet'
    PROVE  DiskInv'
<1>1. UpdatersAlive' = UpdatersAlive /\ Replacing' = Replacing
  BY Stages DEF UpdatersAlive, Replacing
<1>2. /\ Installed("api")' = Installed("api") /\ Installed("backup")' = Installed("backup")
      /\ Installed("staged")' = Installed("staged")
  BY DEF Installed
<1>a. /\ "stale" \in UpdaterStage /\ "backUp" \in UpdaterStage /\ "move" \in UpdaterStage
      /\ "copy" \in UpdaterStage /\ "chmod" \in UpdaterStage /\ "clean" \in UpdaterStage
      /\ "restore" \in UpdaterStage
  BY DEF UpdaterStage, ReplaceStage
<1>3. SingleInv'
  BY <1>1 DEF DiskInv, SingleInv
<1>4. StageInv'
  BY <1>2, <1>a DEF DiskInv, StageInv, HasWhole, Safe
<1>5. IntactInv'
  <2>1. ASSUME NEW u \in Applies, Intact(u) PROVE Intact(u)'
    BY <1>2, <1>a, <2>1 DEF Intact
  <2> QED
    BY <1>1, <1>2, <2>1 DEF DiskInv, IntactInv
<1>6. KilledInv'
  <2>1. \A u \in Applies : apply'[u].at \in Early => apply[u].at \in Early
    BY Stages
  <2> QED
    BY <1>1, <1>2, <2>1 DEF DiskInv, KilledInv, Safe
<1> QED
  BY <1>3, <1>4, <1>5, <1>6 DEF DiskInv

\* Where all is quiet no request gets past the check.
LEMMA RequestsStayQuiet ==
    ASSUME StatusInv, AllQuiet, NEW a \in Actors, ApiStep(a) PROVE AllQuiet'
<1>1. ASSUME actor[a].at # "idle" PROVE api.up
  BY <1>1 DEF StatusInv, DownInv
<1>2. CASE Fetch(a)
  <2>1. \A b \in Actors : b # a => actor'[b] = actor[b]
    BY <1>2 DEF Fetch, ActorTo, StatusInv, TypeOK
  <2>2. actor'[a].at = "store"
    BY <1>2 DEF Fetch, ActorTo, StatusInv, TypeOK
  <2> QED
    BY <1>2, <2>1, <2>2 DEF Fetch, AllQuiet, Tasks
<1>3. CASE Store(a)
  <2>1. /\ \A b \in Actors : b # a => actor'[b] = actor[b]
        /\ actor'[a].at \in {"idle", "auto"}
    BY <1>3 DEF Store, ActorTo, StatusInv, TypeOK
  <2>2. status'.in_progress = status.in_progress
    BY <1>3 DEF Store, StatusInv, TypeOK
  <2> QED
    BY <1>3, <2>1, <2>2 DEF Store, AllQuiet, Tasks
<1>4. CASE ReadCheck(a)
  BY <1>4 DEF ReadCheck, AllQuiet
<1>5. CASE AutoCheck(a)
  <2>1. api.up /\ status.in_progress
    BY <1>1, <1>5 DEF AutoCheck, AllQuiet
  <2>2. /\ \A b \in Actors : b # a => actor'[b] = actor[b]
        /\ actor'[a].at = "idle"
    BY <1>5, <2>1 DEF AutoCheck, ActorTo, StatusInv, TypeOK
  <2> QED
    BY <1>5, <2>2 DEF AutoCheck, AllQuiet, Tasks
<1>6. CASE MarkAndTrigger(a)
  BY <1>1, <1>6 DEF MarkAndTrigger, AllQuiet
<1> QED
  BY <1>2, <1>3, <1>4, <1>5, <1>6 DEF ApiStep

\* The requests keep the invariant.
LEMMA ApiStepKeeps == ASSUME IInv, NEW a \in Actors, ApiStep(a) PROVE IInv'
<1>1. StatusInv'
  BY FetchStatus, StoreStatus, ReadCheckStatus, AutoCheckStatus, MarkAndTriggerStatus
     DEF IInv, ApiStep
<1>2. UNCHANGED <<file, overlapped, damage>> /\ (raced => raced')
  <2> USE DEF diskVars, historyVars
  <2>1. CASE Fetch(a) \/ Store(a) \/ MarkAndTrigger(a)
    BY <2>1 DEF Fetch, Store, MarkAndTrigger
  <2>2. CASE ReadCheck(a)
    BY <2>2 DEF ReadCheck, Passes
  <2>3. CASE AutoCheck(a)
    BY <2>3 DEF AutoCheck, Passes
  <2> QED
    BY <2>1, <2>2, <2>3 DEF ApiStep
<1>3. ASSUME NEW u \in Applies
      PROVE  /\ apply'[u].shared => apply[u].shared
             /\ (apply[u].at \in UpdaterStage \/ apply'[u].at \in UpdaterStage)
                    => apply'[u] = apply[u]
  <2>1. CASE UNCHANGED apply
    BY <2>1
  <2>2. CASE MarkAndTrigger(a)
    <3>1. PICK x \in Applies :
             /\ apply[x].at = "off"
             /\ apply' = [apply EXCEPT ![x].at = "download", ![x].v = actor[a].v]
      BY <2>2 DEF MarkAndTrigger
    <3>2. apply \in [Applies -> ApplyType]
      BY TypeParts DEF IInv, StatusInv
    <3>3. u # x => apply'[u] = apply[u]
      BY <3>1, <3>2
    <3>4. u = x => /\ apply'[u].at = "download" /\ apply'[u].shared = apply[u].shared
                   /\ apply[u].at = "off"
      BY <3>1, <3>2 DEF ApplyType
    <3> QED
      BY <3>3, <3>4 DEF UpdaterStage, ReplaceStage
  <2> QED
    BY <2>1, <2>2 DEF ApiStep, Fetch, Store, ReadCheck, AutoCheck
<1>4. AllQuiet => AllQuiet'
  BY RequestsStayQuiet DEF IInv
<1>5. DiskInv'
  BY <1>1, <1>2, <1>3, <1>4, BesideDisk DEF IInv
<1> QED
  BY <1>1, <1>5 DEF IInv

\* So does the manifest, the start of the process,
LEMMA ReleaseKeeps == ASSUME IInv, Release PROVE IInv'
<1>1. StatusInv'
  BY ReleaseStatus DEF IInv
<1>2. UNCHANGED <<file, overlapped, damage, raced, apply, api, status, actor>>
  BY DEF Release, diskVars, historyVars
<1>3. AllQuiet => AllQuiet'
  BY <1>2 DEF AllQuiet, Tasks
<1>4. DiskInv'
  BY <1>1, <1>2, <1>3, BesideDisk DEF IInv
<1> QED
  BY <1>1, <1>4 DEF IInv

\* which needs a target,
LEMMA ApiStartsKeeps == ASSUME IInv, ApiStarts PROVE IInv'
<1>1. StatusInv'
  BY ApiStartsStatus DEF IInv
<1>2. UNCHANGED <<file, overlapped, damage, raced, apply>> /\ Installed("api")
  BY DEF ApiStarts, diskVars, historyVars
<1>3. DiskInv'
  BY <1>1, <1>2, BesideDisk DEF IInv
<1> QED
  BY <1>1, <1>3 DEF IInv

\* and its end, which takes no updater with it here.
LEMMA ApiExitsKeeps == ASSUME IInv, ApiExits({}) PROVE IInv'
<1>1. StatusInv'
  BY ApiExitsStatus DEF IInv
<1>2. UNCHANGED <<file, overlapped, damage, raced>>
  BY NoDamage DEF ApiExits, diskVars
<1>3. \A u \in Applies : /\ u \in Tasks => apply'[u] = NoApply
                         /\ u \notin Tasks => apply'[u] = apply[u]
  BY DEF ApiExits
<1>4. \A u \in Applies : u \in Tasks => apply[u].at \in TaskStage
  BY DEF Tasks
<1>5. AllQuiet'
  <2>1. api'.up = FALSE
    BY DEF ApiExits, IInv, StatusInv, TypeOK
  <2>2. Tasks' = {}
    BY <1>3, Stages DEF Tasks, NoApply
  <2> QED
    BY <2>1, <2>2 DEF AllQuiet
<1>6. DiskInv'
  BY <1>1, <1>2, <1>3, <1>4, <1>5, Stages, BesideDisk DEF IInv, NoApply
<1> QED
  BY <1>1, <1>6 DEF IInv

\* A task that goes on or fails is none of the disk's business, and nothing is
\* quiet while there is one.
LEMMA TaskKeeps ==
    ASSUME IInv, NEW u \in Applies, StatusInv', apply[u].at \in TaskStage,
           apply'[u].at \in TaskStage \cup {"off"}, apply'[u].shared => apply[u].shared,
           \A x \in Applies : x # u => apply'[x] = apply[x],
           UNCHANGED <<file, historyVars>>
    PROVE  IInv'
<1>1. AllQuiet => AllQuiet'
  BY DEF AllQuiet, Tasks
<1>2. DiskInv'
  BY <1>1, Stages, BesideDisk DEF IInv, historyVars
<1> QED
  BY <1>2 DEF IInv

\* The steps of a task but the last,
LEMMA TaskFailsKeeps ==
    ASSUME IInv, NEW u \in Applies, StatusInv', apply[u].at \in TaskStage, End(u),
           UNCHANGED <<file, historyVars>>
    PROVE  IInv'
<1>1. /\ apply'[u] = NoApply
      /\ \A x \in Applies : x # u => apply'[x] = apply[x]
  BY EndMoves DEF IInv, StatusInv
<1> QED
  BY <1>1, TaskKeeps DEF NoApply

\* be they downloads,
LEMMA DownloadKeeps == ASSUME IInv, NEW u \in Applies, Download(u) PROVE IInv'
<1>1. StatusInv' /\ apply[u].at \in TaskStage
  BY DownloadStatus DEF IInv, Download, TaskStage
<1>2. CASE ApplyFails(u) /\ UNCHANGED diskVars
  BY <1>1, <1>2, TaskFailsKeeps DEF ApplyFails, diskVars
<1>3. CASE Goto(u, "write") /\ UNCHANGED <<file, historyVars>>
  BY <1>1, <1>3, GotoMoves, TaskKeeps DEF IInv, StatusInv, TaskStage
<1> QED
  BY <1>2, <1>3 DEF Download

\* writes of the zip,
LEMMA WriteZipKeeps == ASSUME IInv, NEW u \in Applies, WriteZip(u) PROVE IInv'
<1>1. StatusInv' /\ apply[u].at \in TaskStage
  BY WriteZipStatus DEF IInv, WriteZip, TaskStage
<1>2. CASE ApplyFails(u) /\ UNCHANGED diskVars
  BY <1>1, <1>2, TaskFailsKeeps DEF ApplyFails, diskVars
<1>3. CASE Goto(u, "spawn") /\ UNCHANGED <<file, historyVars>>
  BY <1>1, <1>3, GotoMoves, TaskKeeps DEF IInv, StatusInv, TaskStage
<1> QED
  BY <1>2, <1>3 DEF WriteZip

\* or the search for an updater that is not there.
LEMMA SpawnNothingKeeps == ASSUME IInv, NEW u \in Applies, SpawnNothing(u) PROVE IInv'
<1>1. StatusInv' /\ apply[u].at \in TaskStage
  BY SpawnNothingStatus DEF IInv, SpawnNothing, TaskStage
<1> QED
  BY <1>1, TaskFailsKeeps DEF SpawnNothing, diskVars

\* A new updater is the only one or overlaps; if the target is not whole, it has
\* been the last task, and nothing can follow it.
LEMMA SpawnUpdaterKeeps == ASSUME IInv, NEW u \in Applies, SpawnUpdater(u) PROVE IInv'
<1>1. StatusInv' /\ apply[u].at = "spawn" /\ u \in Tasks
  BY SpawnUpdaterStatus DEF IInv, SpawnUpdater, Tasks, TaskStage
<1>2. CASE ApplyFails(u) /\ UNCHANGED diskVars
  BY <1>1, <1>2, TaskFailsKeeps DEF ApplyFails, diskVars, TaskStage
<1>3. CASE /\ Goto(u, "wait")
           /\ status' = [status EXCEPT !.spawned = TRUE]
           /\ overlapped' = (overlapped \/ UpdatersAlive # {})
           /\ UNCHANGED <<api, remote, actor, diskVars, restart, boundVars,
                          raced, damage>>
  <2>1. /\ apply'[u].at = "wait" /\ apply'[u].shared = apply[u].shared
        /\ \A x \in Applies : x # u => apply'[x] = apply[x]
    BY <1>3, GotoMoves DEF IInv, StatusInv, UpdaterStage
  <2>2. ~overlapped' => ~overlapped /\ UpdatersAlive = {}
    BY <1>1, <1>3 DEF StatusInv, TypeOK
  <2>3. "wait" \in UpdaterStage /\ "wait" \notin ReplaceStage
    BY DEF UpdaterStage, ReplaceStage
  <2>4. UpdatersAlive = {} => UpdatersAlive' = {u} /\ Replacing' = {} /\ Replacing = {}
    BY <2>1, <2>3, Stages DEF UpdatersAlive, Replacing
  <2>5. UNCHANGED <<file, damage, raced, api, actor>>
        /\ status'.in_progress = status.in_progress
    BY <1>3 DEF diskVars, IInv, StatusInv, TypeOK
  <2>6. ~raced => AllQuiet'
    <3>1. Tasks' = Tasks \ {u}
      BY <1>1, <2>1, Stages DEF Tasks, UpdaterStage, TaskStage
    <3>2. ~raced => /\ Tasks = {u} /\ status.in_progress
                    /\ \A a \in Actors : actor[a].at # "mark"
      BY <1>1 DEF IInv, StatusInv, TaskInv, MarkInv
    <3> QED
      BY <2>5, <3>1, <3>2 DEF AllQuiet
  <2>7. SingleInv'
    BY <2>1, <2>2, <2>4 DEF IInv, DiskInv, SingleInv
  <2>8. StageInv'
    <3>1. ASSUME NEW x \in Applies, HasWhole(x) PROVE HasWhole(x)'
      BY <2>1, <2>5, <3>1 DEF HasWhole, Installed, Safe
    <3> QED
      BY <2>2, <3>1 DEF IInv, DiskInv, StageInv
  <2>9. IntactInv'
    <3>1. ASSUME NEW x \in Applies, Intact(x) PROVE Intact(x)'
      BY <2>1, <2>5, <3>1 DEF Intact, Installed
    <3> QED
      BY <2>2, <2>4, <2>5, <3>1 DEF IInv, DiskInv, IntactInv, Installed
  <2>10. KilledInv'
    <3>1. ~raced /\ ~overlapped' /\ damage \in {"killed", "again"} => Safe
      <4>1. AllQuiet => u \notin Tasks
        BY DEF AllQuiet
      <4> QED
        BY <1>1, <2>2, <4>1 DEF IInv, DiskInv, KilledInv
    <3>2. Safe' = Safe
      BY <2>5 DEF Safe, Installed
    <3> QED
      BY <2>2, <2>4, <2>5, <2>6, <3>1, <3>2 DEF IInv, DiskInv, KilledInv
  <2> QED
    BY <1>1, <2>7, <2>8, <2>9, <2>10 DEF IInv, DiskInv
<1> QED
  BY <1>2, <1>3 DEF SpawnUpdater

-----------------------------------------------------------------------------
(* The updater.  What its steps have in common, and what one step has to   *)
(* say of the disk.                                                        *)

\* It touches neither the API nor the place of another apply,
Touches(u) ==
    /\ UNCHANGED <<status, remote, actor, restart, exits, raced, overlapped, dir>>
    /\ apply' \in [Applies -> ApplyType]
    /\ apply'[u].at \in UpdaterStage \cup {"off"}
    /\ apply'[u].at # "off" => apply'[u].v = apply[u].v
    /\ \A x \in Applies : x # u =>
          apply'[x].at = apply[x].at /\ apply'[x].v = apply[x].v

\* nor, while it is alone, anything of another.
Frame(u) ==
    /\ Touches(u)
    /\ ~overlapped => /\ ~apply'[u].shared
                      /\ \A x \in Applies : x # u => apply'[x] = apply[x]

\* What the status promises is not its business.
LEMMA TouchesStatus ==
    ASSUME StatusInv, NEW u \in UpdatersAlive, Touches(u), UNCHANGED api, DiskType',
           faults' \in 0 .. MaxFaults, damage' \in Damage
    PROVE  StatusInv'
<1>1. TypeOK'
  <2>1. ApiType' /\ RestType'
    BY DEF Touches, StatusInv, TypeOK, ApiType, ActorType, RestType
  <2> QED
    BY <2>1, TypeParts
       DEF Touches, TypeOK, ApiType, ActorType, ApplyType, DiskType, RestType
<1>2. Tasks' = Tasks
  BY Stages DEF Touches, Tasks, UpdatersAlive
<1>3. VersionInv' /\ DownInv' /\ MarkInv' /\ TaskInv' /\ FlagIsReleased'
  BY <1>2, Stages
     DEF Touches, UpdatersAlive, StatusInv, VersionInv, DownInv, MarkInv, TaskInv,
         FlagIsReleased
<1> QED
  BY <1>1, <1>3 DEF StatusInv

\* A step that succeeds,
LEMMA DoesStatus ==
    ASSUME StatusInv, NEW u \in UpdatersAlive, NEW next \in UpdaterStage, NEW files,
           Does(u, next, files), files \in [Path -> {Absent, Partial} \cup Versions]
    PROVE  /\ Touches(u) /\ StatusInv'
           /\ apply'[u].at = next /\ apply'[u].shared = apply[u].shared
           /\ apply'[u].found = apply[u].found /\ apply'[u].stale = apply[u].stale
           /\ \A x \in Applies : x # u => apply'[x] = apply[x]
<1> USE DEF Does, Quiet, apiVars
<1>1. u \in Applies
  BY DEF UpdatersAlive
<1>2. /\ Touches(u)
      /\ apply'[u].at = next /\ apply'[u].shared = apply[u].shared
      /\ apply'[u].found = apply[u].found /\ apply'[u].stale = apply[u].stale
      /\ \A x \in Applies : x # u => apply'[x] = apply[x]
  BY <1>1, GotoMoves DEF Touches, StatusInv
<1>3. DiskType' /\ faults' \in 0 .. MaxFaults /\ damage' \in Damage
  BY DEF DiskType, StatusInv, TypeOK
<1> QED
  BY <1>2, <1>3, TouchesStatus

\* a step that fails,
LEMMA FailsStatus ==
    ASSUME StatusInv, NEW u \in UpdatersAlive, NEW next \in UpdaterStage, Fails(u, next)
    PROVE  /\ Touches(u) /\ StatusInv'
           /\ apply'[u].at = next /\ apply'[u].shared = apply[u].shared
           /\ apply'[u].found = apply[u].found /\ apply'[u].stale = apply[u].stale
           /\ \A x \in Applies : x # u => apply'[x] = apply[x]
<1> USE DEF Fails, Quiet, apiVars, diskVars
<1>1. u \in Applies
  BY DEF UpdatersAlive
<1>2. /\ Touches(u)
      /\ apply'[u].at = next /\ apply'[u].shared = apply[u].shared
      /\ apply'[u].found = apply[u].found /\ apply'[u].stale = apply[u].stale
      /\ \A x \in Applies : x # u => apply'[x] = apply[x]
  BY <1>1, GotoMoves DEF Touches, StatusInv
<1>3. DiskType' /\ faults' \in 0 .. MaxFaults /\ damage' \in Damage
  BY FaultCounted DEF DiskType, StatusInv, TypeOK
<1> QED
  BY <1>2, <1>3, TouchesStatus

\* and one that ends the updater, whatever it did to the files, keep it.
LEMMA EndStatus ==
    ASSUME StatusInv, NEW u \in UpdatersAlive, End(u), Quiet, UNCHANGED <<archive, dir>>,
           file' \in [Path -> {Absent, Partial} \cup Versions],
           faults' \in 0 .. MaxFaults, damage' \in Damage
    PROVE  /\ Touches(u) /\ StatusInv' /\ apply'[u] = NoApply
           /\ \A x \in Applies : x # u => apply'[x] = apply[x]
<1> USE DEF Quiet, apiVars
<1>1. u \in Applies
  BY DEF UpdatersAlive
<1>2. /\ Touches(u) /\ apply'[u] = NoApply
      /\ \A x \in Applies : x # u => apply'[x] = apply[x]
  BY <1>1, EndMoves DEF Touches, StatusInv, NoApply
<1>3. DiskType'
  BY DEF DiskType, StatusInv, TypeOK
<1> QED
  BY <1>2, <1>3, TouchesStatus

\* What the disk invariant says of the only updater, also when it has just ended.
Order(u) ==
    /\ HasWhole(u)
    /\ damage = "none" =>
          /\ file["backup"] # Partial
          /\ apply[u].at \notin ReplaceStage => Installed("api")
          /\ Intact(u)
    /\ damage \in {"killed", "again"} =>
          /\ damage = "killed" /\ apply[u].at \notin ReplaceStage => Safe
          /\ ~raced /\ ~Safe => /\ AllQuiet /\ Installed("staged")
                               /\ apply[u].at \in ReplaceStage \cup {"off"}
          /\ ~raced /\ ~Installed("api") /\ apply[u].at \in Early => AllQuiet

\* It finds the disk in order,
LEMMA OrderBefore ==
    ASSUME IInv, NEW u \in UpdatersAlive, ~overlapped PROVE Order(u)
<1>1. u \in Applies /\ \A x \in UpdatersAlive : x = u
  BY DEF IInv, DiskInv, SingleInv, UpdatersAlive
<1>2. Replacing = IF apply[u].at \in ReplaceStage THEN {u} ELSE {}
  BY <1>1, Stages DEF UpdatersAlive, Replacing
<1>3. HasWhole(u)
  BY <1>1 DEF IInv, DiskInv, StageInv
<1>4. damage = "none" =>
          /\ file["backup"] # Partial
          /\ apply[u].at \notin ReplaceStage => Installed("api")
          /\ Intact(u)
  BY <1>1, <1>2 DEF IInv, DiskInv, IntactInv
<1>5. damage \in {"killed", "again"} =>
          /\ damage = "killed" /\ apply[u].at \notin ReplaceStage => Safe
          /\ ~raced /\ ~Safe => /\ AllQuiet /\ Installed("staged")
                               /\ apply[u].at \in ReplaceStage \cup {"off"}
          /\ ~raced /\ ~Installed("api") /\ apply[u].at \in Early => AllQuiet
  BY <1>1, <1>2 DEF IInv, DiskInv, KilledInv
<1> QED
  BY <1>3, <1>4, <1>5 DEF Order

\* and as long as it leaves it so the invariant holds.
LEMMA UpdaterDisk ==
    ASSUME IInv, NEW u \in UpdatersAlive, Frame(u), ~overlapped => Order(u)'
    PROVE  DiskInv'
<1>1. SUFFICES ASSUME ~overlapped PROVE DiskInv'
  BY DEF Frame, Touches, DiskInv, SingleInv, StageInv, IntactInv, KilledInv
<1>2. \A x \in Applies : x # u => apply[x].at \notin UpdaterStage
  BY <1>1 DEF IInv, DiskInv, SingleInv, UpdatersAlive
<1>3. /\ \A x \in Applies : x # u => apply'[x] = apply[x]
      /\ u \in Applies /\ ~overlapped' /\ raced' = raced
  BY <1>1 DEF Frame, Touches, UpdatersAlive
<1>4. /\ UpdatersAlive' = IF apply'[u].at = "off" THEN {} ELSE {u}
      /\ Replacing' = IF apply'[u].at \in ReplaceStage THEN {u} ELSE {}
  BY <1>2, <1>3, Stages DEF Frame, Touches, UpdatersAlive, Replacing
<1>5. SingleInv'
  BY <1>1, <1>3, <1>4 DEF IInv, DiskInv, SingleInv, Frame, Touches
<1>a. \A s \in {"stale", "backUp", "move", "copy", "chmod", "clean", "restore"} :
         s \in UpdaterStage
  BY DEF UpdaterStage, ReplaceStage
<1>6. StageInv'
  <2>1. ASSUME NEW x \in Applies, x # u PROVE HasWhole(x)'
    BY <1>2, <1>3, <1>a, <2>1 DEF HasWhole
  <2> QED
    BY <1>1, <2>1 DEF StageInv, Order
<1>7. IntactInv'
  <2>1. ASSUME NEW x \in Applies, x # u PROVE Intact(x)'
    BY <1>2, <1>3, <1>a, <2>1 DEF Intact
  <2> QED
    BY <1>1, <1>4, <2>1 DEF IntactInv, Order
<1>8. KilledInv'
  <2>1. \A x \in Applies : apply'[x].at \in Early => x = u
    BY <1>2, <1>3, Stages
  <2>2. ~Safe' => ~Installed("api")'
    BY DEF Safe
  <2>3. apply'[u].at \in ReplaceStage \cup {"off"} => UpdatersAlive' \subseteq Replacing'
    BY <1>4
  <2> SUFFICES ASSUME damage' \in {"killed", "again"}
               PROVE  /\ damage' = "killed" /\ Replacing' = {} => Safe'
                      /\ ~raced' /\ ~Safe' =>
                            AllQuiet' /\ Installed("staged")' /\ UpdatersAlive' \subseteq Replacing'
                      /\ ~raced' /\ ~Installed("api")'
                         /\ (\E x \in Applies : apply'[x].at \in Early) => AllQuiet'
    BY DEF KilledInv
  <2>4. damage' = "killed" /\ Replacing' = {} => Safe'
    BY <1>1, <1>4 DEF Order
  <2>5. ~raced' /\ ~Safe' =>
           AllQuiet' /\ Installed("staged")' /\ UpdatersAlive' \subseteq Replacing'
    BY <1>1, <1>3, <2>2, <2>3 DEF Order
  <2>6. ~raced' /\ ~Installed("api")' /\ (\E x \in Applies : apply'[x].at \in Early)
           => AllQuiet'
    BY <1>1, <1>3, <2>1 DEF Order
  <2> QED
    BY <2>4, <2>5, <2>6
<1> QED
  BY <1>5, <1>6, <1>7, <1>8 DEF DiskInv

\* A step that leaves status, requests and process alone leaves quiet what is.
LEMMA StaysQuiet ==
    ASSUME NEW u \in UpdatersAlive, Frame(u), UNCHANGED api PROVE AllQuiet => AllQuiet'
<1>1. Tasks' = Tasks
  BY Stages DEF Frame, Touches, Tasks, UpdatersAlive
<1> QED
  BY <1>1 DEF Frame, Touches, AllQuiet

\* A step that ends in another stage, with this effect on the files,
After(u, next) ==
    /\ Frame(u) /\ StatusInv' /\ UNCHANGED damage
    /\ AllQuiet => AllQuiet'
    /\ apply'[u].at = next
    /\ apply'[u].found = apply[u].found /\ apply'[u].stale = apply[u].stale

\* is one that succeeds,
LEMMA DoesAfter ==
    ASSUME IInv, NEW u \in UpdatersAlive, NEW next \in UpdaterStage, NEW files,
           Does(u, next, files), files \in [Path -> {Absent, Partial} \cup Versions]
    PROVE  After(u, next) /\ file' = files
<1>1. Frame(u) /\ StatusInv' /\ apply'[u].at = next
      /\ apply'[u].found = apply[u].found /\ apply'[u].stale = apply[u].stale
  BY DoesStatus DEF Frame, IInv, StatusInv, DiskInv, SingleInv, UpdatersAlive
<1> QED
  BY <1>1, StaysQuiet DEF After, Does, Quiet, apiVars

\* or one that fails.
LEMMA FailsAfter ==
    ASSUME IInv, NEW u \in UpdatersAlive, NEW next \in UpdaterStage, Fails(u, next)
    PROVE  After(u, next) /\ file' = file
<1>1. Frame(u) /\ StatusInv' /\ apply'[u].at = next
      /\ apply'[u].found = apply[u].found /\ apply'[u].stale = apply[u].stale
  BY FailsStatus DEF Frame, IInv, StatusInv, DiskInv, SingleInv, UpdatersAlive
<1> QED
  BY <1>1, StaysQuiet DEF After, Fails, Quiet, apiVars, diskVars

\* The updater ends, in a step that changes nothing of the API.
LEMMA EndFrame ==
    ASSUME IInv, NEW u \in UpdatersAlive, End(u), Quiet, UNCHANGED <<archive, dir>>,
           file' \in [Path -> {Absent, Partial} \cup Versions],
           faults' \in 0 .. MaxFaults, damage' \in Damage
    PROVE  Frame(u) /\ StatusInv' /\ apply'[u] = NoApply /\ (AllQuiet => AllQuiet')
<1>1. Frame(u) /\ StatusInv' /\ apply'[u] = NoApply
  BY EndStatus DEF Frame, IInv, NoApply
<1> QED
  BY <1>1, StaysQuiet DEF Quiet, apiVars

\* The updater ends and leaves the files as they are, outside a replacement.
LEMMA ExitKeeps ==
    ASSUME IInv, NEW u \in UpdatersAlive, apply[u].at \notin ReplaceStage, Exit(u),
           faults' \in 0 .. MaxFaults
    PROVE  IInv'
<1> USE DEF Exit, diskVars
<1>1. Frame(u) /\ StatusInv' /\ apply'[u] = NoApply /\ (AllQuiet => AllQuiet')
  BY EndFrame DEF IInv, StatusInv, TypeOK
<1>3. ASSUME ~overlapped PROVE Order(u)'
  <2>1. Order(u)
    BY <1>3, OrderBefore
  <2>2. apply'[u].at = "off" /\ UNCHANGED <<file, damage, raced>>
    BY <1>1 DEF NoApply, Quiet
  <2> QED
    BY <1>1, <2>1, <2>2
       DEF Order, HasWhole, Intact, Safe, Installed, ReplaceStage, Early
<1> QED
  BY <1>1, <1>3, UpdaterDisk DEF IInv

-----------------------------------------------------------------------------
(* The steps of the updater, one by one.                                   *)

\* What the two file operations make of the four paths.
LEMMA Files ==
    ASSUME IInv, NEW p \in Path
    PROVE  /\ file \in [Path -> {Absent, Partial} \cup Versions]
           /\ \A c \in {Absent, Partial} \cup Versions :
                 /\ With(p, c) \in [Path -> {Absent, Partial} \cup Versions]
                 /\ \A r \in Path : With(p, c)[r] = IF r = p THEN c ELSE file[r]
           /\ \A q \in Path \ {p} :
                 /\ Moved(p, q) \in [Path -> {Absent, Partial} \cup Versions]
                 /\ \A r \in Path : Moved(p, q)[r] = IF r = p THEN Absent
                                                   ELSE IF r = q THEN file[p]
                                                   ELSE file[r]
<1>1. file \in [Path -> {Absent, Partial} \cup Versions]
  BY DEF IInv, StatusInv, TypeOK
<1>2. ASSUME NEW q \in Path \ {p}
      PROVE  /\ Moved(p, q) \in [Path -> {Absent, Partial} \cup Versions]
             /\ \A r \in Path : Moved(p, q)[r] = IF r = p THEN Absent
                                               ELSE IF r = q THEN file[p]
                                               ELSE file[r]
  BY <1>1 DEF Moved
<1> QED
  BY <1>1, <1>2 DEF With

\* The four paths are different.
LEMMA Paths ==
    /\ "api" \in Path /\ "backup" \in Path /\ "staged" \in Path
    /\ "api" # "backup" /\ "api" # "staged" /\ "backup" # "staged"
BY DEF Path

\* A step with an effect, told to the invariant.
LEMMA AfterKeeps ==
    ASSUME IInv, NEW u \in UpdatersAlive, NEW next, After(u, next),
           ~overlapped => Order(u)'
    PROVE  IInv'
BY UpdaterDisk DEF After, IInv

\* The wait for the API is over: no file changes.
LEMMA WaitOverKeeps == ASSUME IInv, NEW u \in Applies, WaitOver(u) PROVE IInv'
<1>0. u \in UpdatersAlive /\ apply[u].at = "wait" /\ "open" \in UpdaterStage
  BY DEF WaitOver, UpdatersAlive, UpdaterStage
<1>1. After(u, "open") /\ file' = file
  BY <1>0, Files, Paths, DoesAfter DEF WaitOver
<1>2. ASSUME ~overlapped PROVE Order(u)'
  BY <1>0, <1>1, <1>2, OrderBefore
     DEF After, Frame, Touches, Order, HasWhole, Intact, Safe, Installed, ReplaceStage, Early
<1> QED
  BY <1>0, <1>1, <1>2, AfterKeeps

\* The copy is complete and whole: the replacement begins.  An updater that is
\* alone shares the file with nobody.
LEMMA UnzipKeeps == ASSUME IInv, NEW u \in Applies, Unzip(u) PROVE IInv'
<1>0. /\ u \in UpdatersAlive /\ apply[u].at = "unzip" /\ "stale" \in UpdaterStage
      /\ apply[u].at \notin ReplaceStage
  BY DEF Unzip, UpdatersAlive, UpdaterStage, ReplaceStage
<1>1. apply[u].v \in Versions
  BY <1>0 DEF IInv, StatusInv, VersionInv
<1>2. CASE Exit(u) /\ (UNCHANGED faults \/ Fault)
  BY <1>0, <1>2, FaultCounted, ExitKeeps DEF IInv, StatusInv, TypeOK
<1>3. CASE ~overlapped /\ Does(u, "stale", With("staged", apply[u].v))
  <2>1. After(u, "stale") /\ file' = With("staged", apply[u].v)
    BY <1>0, <1>1, <1>3, Files, Paths, DoesAfter
  <2>2. /\ file'["staged"] \in Versions
        /\ file'["api"] = file["api"] /\ file'["backup"] = file["backup"]
    BY <1>1, <2>1, Files, Paths
  <2>3. Order(u)'
    BY <1>0, <1>3, <2>1, <2>2, OrderBefore
       DEF After, Frame, Touches, Order, HasWhole, Intact, Safe, Installed, ReplaceStage, Early
  <2> QED
    BY <1>0, <2>1, <2>3, AfterKeeps
<1>4. CASE overlapped /\ \E p \in Path, c \in {apply[u].v, Partial} :
                            Does(u, "stale", With(p, c))
  <2>1. PICK p \in Path, c \in {apply[u].v, Partial} : Does(u, "stale", With(p, c))
    BY <1>4
  <2>2. After(u, "stale")
    BY <1>0, <1>1, <2>1, Files, DoesAfter
  <2> QED
    BY <1>0, <1>4, <2>2, AfterKeeps
<1>5. ~overlapped => ~apply[u].shared
  BY DEF IInv, DiskInv, SingleInv
<1>6. CASE Does(u, "stale", With("staged", apply[u].v))
  BY <1>3, <1>4, <1>6, Paths
<1>7. CASE /\ apply[u].shared
           /\ \E p \in {"staged", "api"}, c \in {apply[u].v, Partial} :
                 Does(u, "stale", With(p, c))
  BY <1>4, <1>5, <1>7, Paths
<1> QED
  BY <1>2, <1>6, <1>7 DEF Unzip

\* The backup is moved away from the target: the target becomes the backup.
LEMMA BackUpKeeps == ASSUME IInv, NEW u \in Applies, BackUp(u) PROVE IInv'
<1>0. /\ u \in UpdatersAlive /\ apply[u].at = "backUp"
      /\ "move" \in UpdaterStage /\ "restore" \in UpdaterStage
  BY DEF BackUp, UpdatersAlive, UpdaterStage, ReplaceStage
<1>1. CASE Fails(u, "restore")
  <2>1. After(u, "restore") /\ file' = file
    BY <1>0, <1>1, FailsAfter
  <2>2. ASSUME ~overlapped PROVE Order(u)'
    BY <1>0, <2>1, <2>2, OrderBefore
       DEF After, Frame, Touches, Order, HasWhole, Intact, Safe, Installed, ReplaceStage, Early
  <2> QED
    BY <1>0, <2>1, <2>2, AfterKeeps
<1>2. CASE file["api"] = Absent /\ Does(u, "move", file)
  <2>1. After(u, "move") /\ file' = file
    BY <1>0, <1>2, Files, Paths, DoesAfter
  <2>2. ASSUME ~overlapped PROVE Order(u)'
    BY <1>0, <1>2, <2>1, <2>2, OrderBefore, VersionFacts
       DEF After, Frame, Touches, Order, HasWhole, Intact, Safe, Installed, ReplaceStage, Early
  <2> QED
    BY <1>0, <2>1, <2>2, AfterKeeps
<1>3. CASE file["api"] # Absent /\ Does(u, "move", Moved("api", "backup"))
  <2>1. After(u, "move") /\ file' = Moved("api", "backup")
    BY <1>0, <1>3, Files, Paths, DoesAfter
  <2>2. /\ file'["api"] = Absent /\ file'["backup"] = file["api"]
        /\ file'["staged"] = file["staged"]
    BY <2>1, Files, Paths
  <2>3. ASSUME ~overlapped PROVE Order(u)'
    BY <1>0, <2>1, <2>2, <2>3, OrderBefore, VersionFacts
       DEF After, Frame, Touches, Order, HasWhole, Intact, Safe, Installed, ReplaceStage, Early
  <2> QED
    BY <1>0, <2>1, <2>3, AfterKeeps
<1> QED
  BY <1>1, <1>2, <1>3 DEF BackUp

\* The new binary is renamed over the target, or a copy begins; the backup is
\* what the target was.
LEMMA MoveKeeps == ASSUME IInv, NEW u \in Applies, Move(u) PROVE IInv'
<1>0. /\ u \in UpdatersAlive /\ apply[u].at = "move"
      /\ "chmod" \in UpdaterStage /\ "copy" \in UpdaterStage /\ "restore" \in UpdaterStage
  BY DEF Move, UpdatersAlive, UpdaterStage, ReplaceStage
<1>1. CASE file["staged"] # Absent /\ Does(u, "chmod", Moved("staged", "api"))
  <2>1. After(u, "chmod") /\ file' = Moved("staged", "api")
    BY <1>0, <1>1, VersionFacts, Files, Paths, DoesAfter
  <2>2. /\ file'["api"] = file["staged"] /\ file'["staged"] = Absent
        /\ file'["backup"] = file["backup"]
    BY <2>1, Files, Paths
  <2>3. ASSUME ~overlapped PROVE Order(u)'
    BY <1>0, <1>1, <2>1, <2>2, <2>3, OrderBefore, VersionFacts
       DEF After, Frame, Touches, Order, HasWhole, Intact, Safe, Installed, ReplaceStage, Early
  <2> QED
    BY <1>0, <2>1, <2>3, AfterKeeps
<1>2. CASE file["staged"] # Absent /\ Does(u, "copy", With("api", Partial))
  <2>1. After(u, "copy") /\ file' = With("api", Partial)
    BY <1>0, <1>2, VersionFacts, Files, Paths, DoesAfter
  <2>2. /\ file'["api"] = Partial /\ file'["staged"] = file["staged"]
        /\ file'["backup"] = file["backup"]
    BY <2>1, Files, Paths
  <2>3. ASSUME ~overlapped PROVE Order(u)'
    BY <1>0, <1>2, <2>1, <2>2, <2>3, OrderBefore, VersionFacts
       DEF After, Frame, Touches, Order, HasWhole, Intact, Safe, Installed, ReplaceStage, Early
  <2> QED
    BY <1>0, <2>1, <2>3, AfterKeeps
<1>3. CASE Does(u, "restore", file)
  <2>1. After(u, "restore") /\ file' = file
    BY <1>0, <1>3, VersionFacts, Files, Paths, DoesAfter
  <2>2. ASSUME ~overlapped PROVE Order(u)'
    BY <1>0, <2>1, <2>2, OrderBefore
       DEF After, Frame, Touches, Order, HasWhole, Intact, Safe, Installed, ReplaceStage, Early
  <2> QED
    BY <1>0, <2>1, <2>2, AfterKeeps
<1> QED
  BY <1>1, <1>2, <1>3 DEF Move

\* The copy ends, or fails half-way.
LEMMA CopyKeeps == ASSUME IInv, NEW u \in Applies, Copy(u) PROVE IInv'
<1>0. /\ u \in UpdatersAlive /\ apply[u].at = "copy"
      /\ "chmod" \in UpdaterStage /\ "restore" \in UpdaterStage
  BY DEF Copy, UpdatersAlive, UpdaterStage, ReplaceStage
<1>1. CASE Does(u, "chmod", Moved("staged", "api"))
  <2>1. After(u, "chmod") /\ file' = Moved("staged", "api")
    BY <1>0, <1>1, VersionFacts, Files, Paths, DoesAfter
  <2>2. /\ file'["api"] = file["staged"] /\ file'["staged"] = Absent
        /\ file'["backup"] = file["backup"]
    BY <2>1, Files, Paths
  <2>3. ASSUME ~overlapped PROVE Order(u)'
    BY <1>0, <1>1, <2>1, <2>2, <2>3, OrderBefore, VersionFacts
       DEF After, Frame, Touches, Order, HasWhole, Intact, Safe, Installed, ReplaceStage, Early
  <2> QED
    BY <1>0, <2>1, <2>3, AfterKeeps
<1>2. CASE Fails(u, "restore")
  <2>1. After(u, "restore") /\ file' = file
    BY <1>0, <1>2, FailsAfter
  <2>2. ASSUME ~overlapped PROVE Order(u)'
    BY <1>0, <2>1, <2>2, OrderBefore
       DEF After, Frame, Touches, Order, HasWhole, Intact, Safe, Installed, ReplaceStage, Early
  <2> QED
    BY <1>0, <2>1, <2>2, AfterKeeps
<1> QED
  BY <1>1, <1>2 DEF Copy

\* The new target is made executable.
LEMMA ChmodKeeps == ASSUME IInv, NEW u \in Applies, Chmod(u) PROVE IInv'
<1>0. /\ u \in UpdatersAlive /\ apply[u].at = "chmod"
      /\ "clean" \in UpdaterStage /\ "restore" \in UpdaterStage
  BY DEF Chmod, UpdatersAlive, UpdaterStage, ReplaceStage
<1>1. CASE Does(u, "clean", file)
  <2>1. After(u, "clean") /\ file' = file
    BY <1>0, <1>1, VersionFacts, Files, Paths, DoesAfter
  <2>2. ASSUME ~overlapped PROVE Order(u)'
    BY <1>0, <2>1, <2>2, OrderBefore
       DEF After, Frame, Touches, Order, HasWhole, Intact, Safe, Installed, ReplaceStage, Early
  <2> QED
    BY <1>0, <2>1, <2>2, AfterKeeps
<1>2. CASE Fails(u, "restore")
  <2>1. After(u, "restore") /\ file' = file
    BY <1>0, <1>2, FailsAfter
  <2>2. ASSUME ~overlapped PROVE Order(u)'
    BY <1>0, <2>1, <2>2, OrderBefore
       DEF After, Frame, Touches, Order, HasWhole, Intact, Safe, Installed, ReplaceStage, Early
  <2> QED
    BY <1>0, <2>1, <2>2, AfterKeeps
<1> QED
  BY <1>1, <1>2 DEF Chmod

\* The backup is removed once the new target is in place.
LEMMA CleanKeeps == ASSUME IInv, NEW u \in Applies, Clean(u) PROVE IInv'
<1>0. /\ u \in UpdatersAlive /\ apply[u].at = "clean"
      /\ "restart" \in UpdaterStage
  BY DEF Clean, UpdatersAlive, UpdaterStage, ReplaceStage
<1>1. CASE Does(u, "restart", With("backup", Absent))
  <2>1. After(u, "restart") /\ file' = With("backup", Absent)
    BY <1>0, <1>1, VersionFacts, Files, Paths, DoesAfter
  <2>2. /\ file'["api"] = file["api"] /\ file'["staged"] = file["staged"]
        /\ file'["backup"] = Absent
    BY <2>1, Files, Paths
  <2>3. ASSUME ~overlapped PROVE Order(u)'
    BY <1>0, <1>1, <2>1, <2>2, <2>3, OrderBefore, VersionFacts
       DEF After, Frame, Touches, Order, HasWhole, Intact, Safe, Installed, ReplaceStage, Early
  <2> QED
    BY <1>0, <2>1, <2>3, AfterKeeps
<1>2. CASE Fails(u, "restart")
  <2>1. After(u, "restart") /\ file' = file
    BY <1>0, <1>2, FailsAfter
  <2>2. ASSUME ~overlapped PROVE Order(u)'
    BY <1>0, <2>1, <2>2, OrderBefore
       DEF After, Frame, Touches, Order, HasWhole, Intact, Safe, Installed, ReplaceStage, Early
  <2> QED
    BY <1>0, <2>1, <2>2, AfterKeeps
<1> QED
  BY <1>1, <1>2 DEF Clean

\* The unpacking begins and marks those that write the same file; an updater that
\* is alone finds nobody to share it with.
LEMMA OpenStatus ==
    ASSUME StatusInv, NEW u \in UpdatersAlive, Open(u), apply[u].at = "open",
           archive[apply[u].v] = apply[u].v
    PROVE  /\ Touches(u) /\ StatusInv'
           /\ apply'[u].at = "unzip"
           /\ (\A x \in Applies : apply[x].at # "unzip") =>
                 /\ ~apply'[u].shared
                 /\ \A x \in Applies : x # u => apply'[x] = apply[x]
<1> DEFINE others == {x \in Applies : apply[x].at = "unzip"}
           Marked(x) == IF x = u
                        THEN [apply[u] EXCEPT !.at = "unzip", !.shared = others # {}]
                        ELSE [apply[x] EXCEPT !.shared = @ \/ x \in others]
<1>0. u \in Applies
  BY DEF UpdatersAlive
<1>1. /\ apply' = [x \in Applies |-> Marked(x)]
      /\ file' = With("staged", Partial)
      /\ UNCHANGED <<archive, dir, faults, damage>> /\ Quiet
  BY DEF Open
<1>2. apply \in [Applies -> ApplyType] /\ "unzip" \in UpdaterStage
  BY TypeParts DEF StatusInv, UpdaterStage
<1>3. /\ Marked(u) \in ApplyType
      /\ Marked(u).at = "unzip" /\ Marked(u).v = apply[u].v
      /\ Marked(u).shared = (others # {})
  BY <1>0, <1>2 DEF ApplyType
<1>4. ASSUME NEW x \in Applies, x # u
      PROVE  /\ Marked(x) \in ApplyType
             /\ Marked(x).at = apply[x].at /\ Marked(x).v = apply[x].v
             /\ x \notin others => Marked(x) = apply[x]
  <2>1. apply[x] \in ApplyType
    BY <1>2
  <2>2. PICK b \in BOOLEAN : b = (apply[x].shared \/ x \in others)
    BY <2>1 DEF ApplyType
  <2>3. Marked(x) = [apply[x] EXCEPT !.shared = b]
    BY <1>4, <2>2
  <2>4. x \notin others => b = apply[x].shared
    BY <2>1, <2>2 DEF ApplyType
  <2> HIDE DEF Marked, others
  <2> QED
    BY <2>1, <2>3, <2>4 DEF ApplyType
<1>5. (\A x \in Applies : apply[x].at # "unzip") => others = {}
  OBVIOUS
<1> HIDE DEF Marked, others
<1>6. Touches(u)
  BY <1>0, <1>1, <1>2, <1>3, <1>4 DEF Touches, Quiet, apiVars
<1>7. DiskType' /\ faults' \in 0 .. MaxFaults /\ damage' \in Damage /\ UNCHANGED api
  BY <1>1 DEF With, Path, DiskType, StatusInv, TypeOK, Quiet, apiVars
<1> QED
  BY <1>0, <1>1, <1>3, <1>4, <1>5, <1>6, <1>7, TouchesStatus

\* The unpacking begins, over whatever was staged; alone, the updater finds the
\* target or its backup whole.  Without a whole archive it ends.
LEMMA OpenKeeps == ASSUME IInv, NEW u \in Applies, Open(u) PROVE IInv'
<1>0. /\ u \in UpdatersAlive /\ apply[u].at = "open" /\ apply[u].at \notin ReplaceStage
      /\ apply[u].v \in Versions
  BY Stages DEF Open, UpdatersAlive, UpdaterStage, ReplaceStage, IInv, StatusInv, VersionInv
<1>1. CASE archive[apply[u].v] # apply[u].v
  BY <1>0, <1>1, ExitKeeps DEF Open, IInv, StatusInv, TypeOK
<1>2. CASE archive[apply[u].v] = apply[u].v
  <2>1. /\ file' = With("staged", Partial)
        /\ UNCHANGED <<damage, raced, overlapped, api>>
    BY <1>2 DEF Open, Quiet, apiVars
  <2>2. ~overlapped => \A x \in Applies : apply[x].at # "unzip"
    <3>1. ~overlapped => \A x \in UpdatersAlive : x = u
      BY <1>0 DEF IInv, DiskInv, SingleInv
    <3>2. \A x \in Applies : apply[x].at = "unzip" => x \in UpdatersAlive
      BY DEF UpdatersAlive, UpdaterStage
    <3> QED
      BY <1>0, <3>1, <3>2
  <2>3. Touches(u) /\ StatusInv' /\ apply'[u].at = "unzip" /\ Frame(u)
    BY <1>0, <1>2, <2>2, OpenStatus DEF Frame, IInv
  <2>4. AllQuiet => AllQuiet'
    BY <1>0, <2>1, <2>3, StaysQuiet
  <2>5. /\ file'["staged"] = Partial
        /\ file'["api"] = file["api"] /\ file'["backup"] = file["backup"]
    BY <2>1, Files, Paths
  <2>6. ASSUME ~overlapped PROVE Order(u)'
    BY <1>0, <2>1, <2>3, <2>4, <2>5, <2>6, OrderBefore
       DEF Order, HasWhole, Intact, Safe, Installed, ReplaceStage, Early
  <2> QED
    BY <1>0, <2>3, <2>6, UpdaterDisk DEF IInv
<1> QED
  BY <1>1, <1>2

\* The backup of an earlier update is removed, or it cannot be, and the error path
\* is taken; what the target held is remembered.
LEMMA RemoveStaleStatus ==
    ASSUME StatusInv, NEW u \in UpdatersAlive, RemoveStale(u)
    PROVE  /\ Touches(u) /\ StatusInv'
           /\ apply'[u].found = file["api"] /\ apply'[u].shared = apply[u].shared
           /\ \A x \in Applies : x # u => apply'[x] = apply[x]
           /\ UNCHANGED <<archive, dir, damage, raced, overlapped, api>>
           /\ \/ apply'[u].at = "backUp" /\ file' = With("backup", Absent)
              \/ apply'[u].at = "restore" /\ apply'[u].stale /\ file' = file
<1>a. /\ apply \in [Applies -> ApplyType] /\ file["api"] \in {Absent, Partial} \cup Versions
      /\ u \in Applies /\ {"backUp", "restore"} \subseteq UpdaterStage
  BY TypeParts DEF StatusInv, TypeOK, Path, UpdatersAlive, UpdaterStage, ReplaceStage
<1>1. CASE /\ apply' = [apply EXCEPT ![u].at = "backUp", ![u].found = file["api"]]
           /\ file' = With("backup", Absent)
           /\ UNCHANGED <<archive, dir, faults, damage>> /\ Quiet
  <2>1. PICK r \in ApplyType : r = [apply[u] EXCEPT !.at = "backUp", !.found = file["api"]]
    BY <1>a DEF ApplyType
  <2>2. /\ r.at = "backUp" /\ r.found = file["api"]
        /\ r.v = apply[u].v /\ r.shared = apply[u].shared
    BY <1>a, <2>1 DEF ApplyType
  <2>3. apply' = [apply EXCEPT ![u] = r]
    BY <1>1, <1>a, <2>1
  <2>4. Touches(u)
    BY <1>1, <1>a, <2>2, <2>3 DEF Touches, Quiet, apiVars
  <2>5. DiskType' /\ faults' \in 0 .. MaxFaults /\ damage' \in Damage /\ UNCHANGED api
    BY <1>1 DEF With, Path, DiskType, StatusInv, TypeOK, Quiet, apiVars
  <2>6. StatusInv'
    BY <2>4, <2>5, TouchesStatus
  <2> QED
    BY <1>1, <1>a, <2>2, <2>3, <2>4, <2>6 DEF Quiet, apiVars
<1>2. CASE /\ Fault
           /\ apply' = [apply EXCEPT ![u].at = "restore", ![u].stale = TRUE,
                                     ![u].found = file["api"]]
           /\ UNCHANGED <<diskVars, damage>> /\ Quiet
  <2>1. PICK r \in ApplyType : r = [apply[u] EXCEPT !.at = "restore", !.stale = TRUE,
                                                   !.found = file["api"]]
    BY <1>a DEF ApplyType
  <2>2. /\ r.at = "restore" /\ r.found = file["api"] /\ r.stale
        /\ r.v = apply[u].v /\ r.shared = apply[u].shared
    BY <1>a, <2>1 DEF ApplyType
  <2>3. apply' = [apply EXCEPT ![u] = r]
    BY <1>2, <1>a, <2>1
  <2>4. Touches(u)
    BY <1>2, <1>a, <2>2, <2>3 DEF Touches, Quiet, apiVars, diskVars
  <2>5. DiskType' /\ faults' \in 0 .. MaxFaults /\ damage' \in Damage /\ UNCHANGED api
    BY <1>2, FaultCounted DEF DiskType, StatusInv, TypeOK, Quiet, apiVars, diskVars
  <2>6. StatusInv'
    BY <2>4, <2>5, TouchesStatus
  <2> QED
    BY <1>2, <1>a, <2>2, <2>3, <2>4, <2>6 DEF Quiet, apiVars, diskVars
<1> QED
  BY <1>1, <1>2 DEF RemoveStale

\* Before any kill the target is whole when the replacement begins.
LEMMA RemoveStaleKeeps == ASSUME IInv, NEW u \in Applies, RemoveStale(u) PROVE IInv'
<1>0. u \in UpdatersAlive /\ apply[u].at = "stale"
  BY DEF RemoveStale, UpdatersAlive, UpdaterStage, ReplaceStage
<1>1. /\ Frame(u) /\ StatusInv'
      /\ apply'[u].found = file["api"]
      /\ UNCHANGED <<damage, raced, api>>
      /\ \/ apply'[u].at = "backUp" /\ file' = With("backup", Absent)
         \/ apply'[u].at = "restore" /\ apply'[u].stale /\ file' = file
  BY <1>0, RemoveStaleStatus DEF Frame, IInv, DiskInv, SingleInv
<1>2. AllQuiet => AllQuiet'
  BY <1>0, <1>1, StaysQuiet
<1>3. ASSUME ~overlapped PROVE Order(u)'
  <2>1. CASE apply'[u].at = "backUp" /\ file' = With("backup", Absent)
    <3>1. /\ file'["api"] = file["api"] /\ file'["backup"] = Absent
          /\ file'["staged"] = file["staged"]
      BY <2>1, Files, Paths
    <3> QED
      BY <1>0, <1>1, <1>2, <1>3, <2>1, <3>1, OrderBefore, VersionFacts
         DEF Order, HasWhole, Intact, Safe, Installed, ReplaceStage, Early
  <2>2. CASE apply'[u].at = "restore" /\ apply'[u].stale /\ file' = file
    BY <1>0, <1>1, <1>2, <1>3, <2>2, OrderBefore
       DEF Order, HasWhole, Intact, Safe, Installed, ReplaceStage, Early
  <2> QED
    BY <1>1, <2>1, <2>2
<1> QED
  BY <1>0, <1>1, <1>3, UpdaterDisk DEF IInv

\* The error path puts the backup back, or cannot.
LEMMA RestoreStatus ==
    ASSUME StatusInv, NEW u \in UpdatersAlive, Restore(u)
    PROVE  /\ Touches(u) /\ StatusInv' /\ apply'[u] = NoApply
           /\ \A x \in Applies : x # u => apply'[x] = apply[x]
<1>1. file' \in [Path -> {Absent, Partial} \cup Versions]
  BY DEF Restore, Moved, Path, StatusInv, TypeOK
<1>2. faults' \in 0 .. MaxFaults /\ damage' \in Damage
  <2>1. damage' \in {"none", "killed", "undone"}
    BY DEF Restore
  <2>2. faults' \in 0 .. MaxFaults
    BY FaultCounted DEF Restore, StatusInv, TypeOK
  <2> QED
    BY <2>1, <2>2 DEF Damage
<1> QED
  BY <1>1, <1>2, EndStatus DEF Restore

\* Before any kill that makes the target what it was or, if it fails, counts as one;
\* after a kill it may be the end of it.
LEMMA RestoreKeeps == ASSUME IInv, NEW u \in Applies, Restore(u) PROVE IInv'
<1>0. u \in UpdatersAlive /\ apply[u].at = "restore"
  BY DEF Restore, UpdatersAlive, UpdaterStage, ReplaceStage
<1>1. Frame(u) /\ StatusInv' /\ apply'[u] = NoApply
  BY <1>0, RestoreStatus DEF Frame, IInv, NoApply
<1>2. ASSUME ~overlapped PROVE Order(u)'
  <2>1. Order(u)
    BY <1>0, <1>2, OrderBefore
  <2>2. apply'[u].at = "off" /\ UNCHANGED raced
    BY <1>1 DEF NoApply, Frame, Touches
  <2>3. CASE damage # "none"
    <3>1. damage' = "undone"
      BY <2>3 DEF Restore
    <3> QED
      BY <2>2, <3>1 DEF Order, HasWhole
  <2>4. CASE damage = "none" /\ damage' = "none"
    <3>1. file' = IF file["backup"] = Absent THEN file ELSE Moved("backup", "api")
      BY <2>4 DEF Restore
    <3>2. /\ file["backup"] = Absent => file' = file
          /\ file["backup"] # Absent =>
                file'["api"] = file["backup"] /\ file'["backup"] = Absent
      BY <3>1, Files, Paths
    <3>3. Installed("api")' /\ file'["backup"] # Partial
      <4>1. file["backup"] \in {Absent} \cup Versions
        BY <2>1, <2>4, Files, Paths DEF Order
      <4>2. file["backup"] = Absent => file["api"] \in Versions
        BY <1>0, <2>1, <2>4, VersionFacts DEF Order, Intact, Installed
      <4> QED
        BY <3>2, <4>1, <4>2, VersionFacts DEF Installed
    <3> QED
      BY <2>2, <2>4, <3>3
         DEF Order, HasWhole, Intact, ReplaceStage
  <2>5. CASE damage = "none" /\ damage' # "none"
    <3>1. damage' = "killed" /\ file' = file
      BY <2>5 DEF Restore
    <3>2. Safe
      BY <1>0, <2>1, <2>5 DEF Order, Intact, Safe
    <3> QED
      BY <2>2, <3>1, <3>2 DEF Order, HasWhole, Safe, Installed, Early
  <2> QED
    BY <2>3, <2>4, <2>5
<1> QED
  BY <1>0, <1>1, <1>2, UpdaterDisk DEF IInv

\* The updater has replaced the target and starts it, unless the old one runs.
LEMMA RestartStatus ==
    ASSUME StatusInv, NEW u \in UpdatersAlive, Restart(u)
    PROVE  /\ Touches(u) /\ StatusInv' /\ apply'[u] = NoApply
           /\ \A x \in Applies : x # u => apply'[x] = apply[x]
           /\ api' # api => ~api.up /\ api'.up /\ Installed("api")
<1>0. u \in Applies
  BY DEF UpdatersAlive
<1> USE DEF Restart, boundVars, historyVars
<1>1. /\ Touches(u) /\ apply'[u] = NoApply
      /\ \A x \in Applies : x # u => apply'[x] = apply[x]
  BY <1>0, EndMoves DEF Touches, StatusInv, NoApply
<1>2. /\ api' \in [up: BOOLEAN, version: Versions]
      /\ api' # api => ~api.up /\ api'.up /\ Installed("api")
  <2>1. api \in [up: BOOLEAN, version: Versions]
    BY DEF StatusInv, TypeOK
  <2>2. CASE api' = api
    BY <2>1, <2>2
  <2>3. CASE api' # api
    <3>1. /\ ~(api.up \/ ~Installed("api"))
          /\ api' = [up |-> TRUE, version |-> file["api"]]
      BY <2>3
    <3>2. file["api"] \in Versions
      BY <3>1 DEF Installed
    <3> HIDE DEF Restart
    <3> QED
      BY <3>1, <3>2
  <2> QED
    BY <2>2, <2>3
<1>3. DiskType'
  BY DEF DiskType, StatusInv, TypeOK
<1>4. TypeOK'
  <2>1. ApiType'
    BY <1>1, <1>2 DEF Touches, ApiType, ActorType, StatusInv, TypeOK
  <2>2. RestType'
    BY DEF RestType, StatusInv, TypeOK
  <2> QED
    BY <1>1, <1>3, <2>1, <2>2, TypeParts
       DEF Touches, TypeOK, ApiType, ActorType, ApplyType, DiskType, RestType
<1>5. Tasks' = Tasks
  BY <1>0, <1>1, Stages DEF Touches, Tasks, UpdatersAlive
<1>6. StatusInv'
  <2>1. VersionInv' /\ MarkInv' /\ TaskInv' /\ FlagIsReleased'
    BY <1>1, <1>5 DEF Touches, StatusInv, VersionInv, MarkInv, TaskInv, FlagIsReleased
  <2>2. DownInv'
    BY <1>1, <1>2, <1>5 DEF Touches, StatusInv, DownInv
  <2> QED
    BY <1>4, <2>1, <2>2 DEF StatusInv
<1> QED
  BY <1>1, <1>2, <1>6

\* The new process may request and apply; the target is whole then.
LEMMA RestartKeeps == ASSUME IInv, NEW u \in Applies, Restart(u) PROVE IInv'
<1>0. u \in UpdatersAlive /\ apply[u].at = "restart" /\ apply[u].at \notin ReplaceStage
  BY DEF Restart, UpdatersAlive, UpdaterStage, ReplaceStage
<1>1. /\ Frame(u) /\ StatusInv' /\ apply'[u] = NoApply
      /\ api' # api => Installed("api")
      /\ UNCHANGED <<file, damage, raced>>
  BY <1>0, RestartStatus DEF Frame, IInv, NoApply, Restart, boundVars, historyVars
<1>2. AllQuiet /\ ~Installed("api") => AllQuiet'
  BY <1>0, <1>1, StaysQuiet
<1>3. ASSUME ~overlapped PROVE Order(u)'
  <2>1. Order(u)
    BY <1>0, <1>3, OrderBefore
  <2>2. apply'[u].at = "off" /\ UNCHANGED <<file, damage, raced>>
    BY <1>1 DEF NoApply
  <2>3. /\ Installed("api")' = Installed("api") /\ Safe' = Safe
        /\ Installed("staged")' = Installed("staged")
    BY <2>2 DEF Installed, Safe
  <2>4. ~Safe => ~Installed("api")
    BY DEF Safe
  <2> QED
    BY <1>0, <1>2, <2>1, <2>2, <2>3, <2>4
       DEF Order, HasWhole, Intact, ReplaceStage, Early
<1> QED
  BY <1>0, <1>1, <1>3, UpdaterDisk DEF IInv

\* An updater is killed and leaves the files as they are.
LEMMA KillUpdaterStatus ==
    ASSUME StatusInv, NEW u \in UpdatersAlive, KillUpdater(u)
    PROVE  /\ Touches(u) /\ StatusInv' /\ apply'[u] = NoApply
           /\ \A x \in Applies : x # u => apply'[x] = apply[x]
<1>1. file' \in [Path -> {Absent, Partial} \cup Versions] /\ faults' \in 0 .. MaxFaults
  BY FaultCounted DEF KillUpdater, diskVars, StatusInv, TypeOK
<1>2. damage' \in Damage
  BY DamageDone DEF KillUpdater, StatusInv, TypeOK
<1> QED
  BY <1>1, <1>2, EndStatus DEF KillUpdater, diskVars

\* Killed inside a replacement, the updater leaves the whole binary that stage has
\* at hand.
LEMMA KillUpdaterKeeps == ASSUME IInv, NEW u \in Applies, KillUpdater(u) PROVE IInv'
<1>0. u \in UpdatersAlive
  BY DEF KillUpdater
<1>1. /\ Frame(u) /\ StatusInv' /\ apply'[u] = NoApply
      /\ UNCHANGED <<file, raced, api>>
  BY <1>0, KillUpdaterStatus DEF Frame, IInv, NoApply, KillUpdater, diskVars, Quiet, apiVars
<1>2. AllQuiet => AllQuiet'
  BY <1>0, <1>1, StaysQuiet
<1>a. damage \in Damage
  BY DEF IInv, StatusInv, TypeOK
<1>3. /\ u \notin Replacing => damage' = damage
      /\ u \in Replacing => /\ damage = "none" => damage' = "killed"
                            /\ damage \in {"killed", "again"} => damage' = "again"
                            /\ damage = "undone" => damage' = "undone"
  <2>1. damage' = DamageBy({u}) /\ {u} \in SUBSET UpdatersAlive
    BY <1>0 DEF KillUpdater
  <2>2. ({u} \cap Replacing = {}) <=> u \notin Replacing
    OBVIOUS
  <2> QED
    BY <1>a, <2>1, <2>2, DamageDone
<1>4. u \in Replacing <=> apply[u].at \in ReplaceStage
  BY DEF Replacing
<1>5. ASSUME ~overlapped PROVE Order(u)'
  <2>1. Order(u)
    BY <1>0, <1>5, OrderBefore
  <2>2. apply'[u].at = "off" /\ UNCHANGED <<file, raced>>
    BY <1>1 DEF NoApply
  <2>3. /\ Installed("api")' = Installed("api") /\ Safe' = Safe
        /\ Installed("staged")' = Installed("staged")
    BY <2>2 DEF Installed, Safe
  <2>4. CASE u \notin Replacing
    BY <1>2, <1>3, <1>4, <2>1, <2>2, <2>3, <2>4
       DEF Order, HasWhole, Intact, ReplaceStage, Early
  <2>5. CASE u \in Replacing /\ damage = "none"
    <3>1. Safe /\ damage' = "killed"
      BY <1>3, <1>4, <2>1, <2>5 DEF Order, HasWhole, Intact, Safe, ReplaceStage
    <3> QED
      BY <2>2, <2>3, <3>1 DEF Order, HasWhole, Early
  <2>6. CASE u \in Replacing /\ damage \in {"killed", "again"}
    <3>1. damage' = "again"
      BY <1>3, <2>6
    <3> QED
      BY <1>2, <2>1, <2>2, <2>3, <2>6, <3>1 DEF Order, HasWhole, Early
  <2>7. CASE u \in Replacing /\ damage = "undone"
    <3>1. damage' = "undone"
      BY <1>3, <2>7
    <3> QED
      BY <2>2, <3>1 DEF Order, HasWhole
  <2> QED
    BY <1>a, <2>4, <2>5, <2>6, <2>7 DEF Damage
<1> QED
  BY <1>0, <1>1, <1>5, UpdaterDisk DEF IInv

-----------------------------------------------------------------------------
(* The theorems.                                                           *)

\* Every step of the API, its tasks and its updaters keeps the invariant.
LEMMA InvStep == IInv /\ [UpdateNext]_updateVars => IInv'
<1> SUFFICES ASSUME IInv, [UpdateNext]_updateVars PROVE IInv'
  OBVIOUS
<1>1. ASSUME NEW a \in Actors, ApiStep(a) PROVE IInv'
  BY <1>1, ApiStepKeeps
<1>2. ASSUME NEW u \in Applies, TaskStep(u) PROVE IInv'
  BY <1>2, DownloadKeeps, WriteZipKeeps, SpawnUpdaterKeeps, SpawnNothingKeeps DEF TaskStep
<1>3. ASSUME NEW u \in Applies, UpdaterStep(u) PROVE IInv'
  BY <1>3, WaitOverKeeps, OpenKeeps, UnzipKeeps, RemoveStaleKeeps, BackUpKeeps, MoveKeeps,
     CopyKeeps, ChmodKeeps, CleanKeeps, RestoreKeeps, RestartKeeps
     DEF UpdaterStep
<1>4. CASE UNCHANGED updateVars
  <2> USE <1>4 DEF updateVars, apiVars, diskVars, boundVars, historyVars
  <2>1. StatusInv'
    BY DEF IInv, StatusInv, TypeOK, VersionInv, DownInv, MarkInv, TaskInv,
           FlagIsReleased, Tasks
  <2>2. AllQuiet => AllQuiet'
    BY DEF AllQuiet, Tasks
  <2>3. DiskInv'
    BY <2>1, <2>2, BesideDisk DEF IInv
  <2> QED
    BY <2>1, <2>3 DEF IInv
<1> QED
  BY <1>1, <1>2, <1>3, <1>4, KillUpdaterKeeps, ApiExitsKeeps, ApiStartsKeeps, ReleaseKeeps
     DEF UpdateNext

\* Every reachable state satisfies the inductive invariant.
THEOREM Invariant == UpdateSpec => []IInv
BY InvInit, InvStep, PTL DEF UpdateSpec

\* What the invariant says of the status is what a client may read out of it.
LEMMA StatusTold == StatusInv => StatusIsTruthful
<1> SUFFICES ASSUME StatusInv, ~raced PROVE Cardinality(Tasks) <= 1
  BY DEF StatusInv, TaskInv, StatusIsTruthful, AppliesAreExclusive
<1>1. \A u, x \in Tasks : u = x
  BY DEF StatusInv, TaskInv
<1>2. CASE Tasks = {}
  BY <1>2, FS_EmptySet
<1>3. CASE Tasks # {}
  <2>1. PICK u \in Tasks : Tasks = {u}
    BY <1>1, <1>3
  <2>2. Cardinality({u}) = 1
    BY FS_Singleton, Zenon
  <2>3. Cardinality(Tasks) = 1
    BY <2>1, <2>2, Zenon
  <2> HIDE DEF Tasks
  <2> QED
    BY <2>3
<1> QED
  BY <1>2, <1>3

\* apply_update and trigger_apply (handlers/updater.rs, infra/updater/mod.rs):
\* unless two requests raced past the check, at most one apply runs and in_progress
\* announces it; and the flag is never left behind by an apply that failed.
THEOREM StatusIsTruthfulHolds == UpdateSpec => []StatusIsTruthful
<1>1. IInv => StatusIsTruthful
  BY StatusTold DEF IInv
<1> QED
  BY <1>1, Invariant, PTL

\* replace_binary and main of the updater (bin/updater.rs): whatever fails and
\* wherever an updater is killed, there is a target to start or a whole copy to put
\* back, but for the overlaps, the rollbacks and the races that the property names.
THEOREM AlwaysRecoverableHolds == UpdateSpec => []AlwaysRecoverable
<1>1. IInv => AlwaysRecoverable
  <2> SUFFICES ASSUME IInv, ~overlapped PROVE AlwaysRecoverable
    BY DEF AlwaysRecoverable, SomeCopySurvives, TargetStartable
  <2>1. TargetStartable
    BY DEF IInv, DiskInv, IntactInv, TargetStartable
  <2>2. Replacing # {} => Safe \/ Installed("staged")
    <3>1. ASSUME NEW u \in Replacing PROVE Safe \/ Installed("staged")
      BY DEF Replacing, ReplaceStage, IInv, DiskInv, StageInv, HasWhole, Safe
    <3> QED
      BY <3>1
  <2>3. ASSUME damage # "undone", ~(raced /\ damage = "again")
        PROVE  Safe \/ Installed("staged")
    <3>1. CASE damage = "none"
      BY <2>2, <3>1 DEF IInv, DiskInv, IntactInv, Safe
    <3>2. CASE damage = "killed"
      BY <2>2, <3>2 DEF IInv, DiskInv, KilledInv
    <3>3. CASE damage = "again"
      BY <2>3, <3>3 DEF IInv, DiskInv, KilledInv
    <3> QED
      BY <2>3, <3>1, <3>2, <3>3 DEF IInv, StatusInv, TypeOK, Damage
  <2>4. SomeCopySurvives
    BY <2>3 DEF SomeCopySurvives, Safe
  <2> QED
    BY <2>1, <2>4 DEF AlwaysRecoverable
<1> QED
  BY <1>1, Invariant, PTL

\* The error path of main (bin/updater.rs): before any kill a failed replacement
\* leaves the target as it found it, unless the stale backup of an earlier update
\* could not be removed.
THEOREM RollbackIsExactHolds == UpdateSpec => RollbackIsExact
<1> DEFINE Exact == \A u \in Applies :
                       (apply[u].at = "restore" /\ apply'[u].at = "off"
                        /\ ~overlapped /\ damage' = "none")
                       => \/ file'["api"] = apply[u].found
                          \/ apply[u].stale
<1>1. IInv /\ [UpdateNext]_updateVars => [Exact]_updateVars
  <2> SUFFICES ASSUME IInv, UpdateNext, NEW u \in Applies,
                      apply[u].at = "restore", apply'[u].at = "off",
                      ~overlapped, damage' = "none"
               PROVE  file'["api"] = apply[u].found \/ apply[u].stale
    OBVIOUS
  <2>0. /\ u \in UpdatersAlive /\ u \in Replacing /\ u \notin Tasks
        /\ \A x \in UpdatersAlive : x = u
    BY DEF UpdatersAlive, Replacing, Tasks, UpdaterStage, ReplaceStage, TaskStage,
           IInv, DiskInv, SingleInv
  <2>a. apply \in [Applies -> ApplyType] /\ apply'[u] # apply[u]
    BY TypeParts DEF IInv, StatusInv
  <2>1. ASSUME NEW x \in Applies, x # u, NEW at, Goto(x, at) \/ End(x) PROVE FALSE
    BY <2>1, <2>a DEF Goto, End
  <2>2. ASSUME Restore(u) PROVE file'["api"] = apply[u].found \/ apply[u].stale
    <3>1. /\ damage = "none"
          /\ file' = IF file["backup"] = Absent THEN file ELSE Moved("backup", "api")
      BY <2>2 DEF Restore
    <3>2. /\ file["backup"] = Absent => file' = file
          /\ file["backup"] # Absent => file'["api"] = file["backup"]
      BY <3>1, Files, Paths
    <3>3. Intact(u)
      BY <3>1 DEF IInv, DiskInv, IntactInv
    <3> QED
      BY <3>2, <3>3, VersionFacts DEF Intact, Installed
  <2>3. ASSUME NEW a \in Actors, ApiStep(a) PROVE FALSE
    <3>1. CASE UNCHANGED apply
      BY <2>a, <3>1
    <3>2. CASE MarkAndTrigger(a)
      <4>1. PICK x \in Applies :
               /\ apply[x].at = "off"
               /\ apply' = [apply EXCEPT ![x].at = "download", ![x].v = actor[a].v]
        BY <3>2 DEF MarkAndTrigger
      <4>2. x # u
        BY <4>1
      <4> QED
        BY <2>a, <4>1, <4>2
    <3> QED
      BY <2>3, <3>1, <3>2 DEF ApiStep, Fetch, Store, ReadCheck, AutoCheck
  <2>4. ASSUME NEW x \in Applies, TaskStep(x) PROVE FALSE
    <3>1. x # u /\ (End(x) \/ \E at \in TaskStage \cup UpdaterStage : Goto(x, at))
      BY <2>4 DEF TaskStep, Download, WriteZip, SpawnUpdater, SpawnNothing, ApplyFails,
                  TaskStage, UpdaterStage
    <3> QED
      BY <2>1, <3>1
  <2>5. ASSUME NEW x \in Applies, UpdaterStep(x) PROVE Restore(u)
    <3>1. x = u
      BY <2>0, <2>5
         DEF UpdaterStep, WaitOver, Open, Unzip, RemoveStale, BackUp, Move, Copy, Chmod,
             Clean, Restore, Restart, UpdatersAlive, UpdaterStage, ReplaceStage
    <3> QED
      BY <2>5, <3>1
         DEF UpdaterStep, WaitOver, Open, Unzip, RemoveStale, BackUp, Move, Copy, Chmod,
             Clean, Restart
  <2>6. ASSUME NEW x \in Applies, KillUpdater(x) PROVE FALSE
    <3>1. x = u
      BY <2>0, <2>6 DEF KillUpdater
    <3> QED
      BY <2>0, <2>6, <3>1 DEF KillUpdater, DamageBy
  <2>7. ASSUME ApiExits({}) PROVE FALSE
    BY <2>0, <2>7, <2>a DEF ApiExits
  <2>8. ASSUME ApiStarts \/ Release PROVE FALSE
    BY <2>8, <2>a DEF ApiStarts, Release
  <2> QED
    BY <2>2, <2>3, <2>4, <2>5, <2>6, <2>7, <2>8 DEF UpdateNext
<1>2. UpdateSpec => [][Exact]_updateVars
  BY <1>1, Invariant, PTL DEF UpdateSpec
<1> QED
  BY <1>2 DEF RollbackIsExact

-----------------------------------------------------------------------------
(* The installer and the uninstaller beside the service.  While one of them *)
(* runs it finds what its earlier stages have done, as long as no updater   *)
(* is there to undo it.                                                     *)

ToolType == [at: ToolStage \cup {"done", "failed"},
             by: {"installer", "uninstaller"}, source: {"package", "self"},
             n: DOMAIN BINARY_NAMES, clean: BOOLEAN, alone: BOOLEAN,
             start: BOOLEAN, had: SUBSET Path]

DeployType ==
    /\ unit \in BOOLEAN /\ config \in Config /\ managed \in BOOLEAN
    /\ group \subseteq UpdatersAlive
    /\ tool \in ToolType
    /\ tools \in 0 .. MaxTools

ServiceInv == /\ managed => api.up
              /\ tool.alone => UpdatersAlive = {}

\* The binaries an install found are whole but for the one it is writing, and so
\* are those it has written.
FoundInv ==
    tool.alone /\ tool.source = "package" =>
        /\ tool.at \in {"dirs", "binary"} => \A p \in tool.had : Installed(p)
        /\ tool.at = "fill" =>
              \A p \in tool.had : p = BINARY_NAMES[tool.n] \/ Installed(p)

PastBinaries == {"config", "fillConfig", "register", "enable", "start"}

CopiedInv ==
    tool.clean /\ tool.alone =>
        /\ tool.at \in {"binary", "fill"} /\ tool.source = "package" =>
              \A i \in 1 .. tool.n - 1 :
                  BINARY_NAMES[i] \in Path => Installed(BINARY_NAMES[i])
        /\ tool.at = "fill" => tool.source = "package" \/ tool.n # Len(BINARY_NAMES)
        /\ tool.at \in PastBinaries => Installed("api") /\ Installed("updater")

StageDone ==
    /\ tool.at = "dirs" => tool.n = 1
    /\ tool.at \in {"binary", "fill"} \cup PastBinaries => dir
    /\ tool.at = "fillConfig" => config = "empty"
    /\ tool.at \in {"register", "enable", "start"} => config # "none"
    /\ tool.at \in {"enable", "start"} => unit
    /\ tool.clean => /\ tool.at \in {"disable", "deregister", "removeDir"} => ~managed
                     /\ tool.at = "removeDir" => ~unit

DeployInv ==
    StatusInv /\ DeployType /\ ServiceInv /\ FoundInv /\ CopiedInv /\ StageDone

\* The service files are named by their place in the list.
LEMMA Binaries ==
    /\ Len(BINARY_NAMES) = 3 /\ DOMAIN BINARY_NAMES = 1 .. 3
    /\ BINARY_NAMES[1] = "api" /\ BINARY_NAMES[2] = "updater"
    /\ BINARY_NAMES[3] = "installer" /\ "installer" \notin Path
BY DEF BINARY_NAMES, Path

\* The tool goes on to its next stage,
LEMMA ToolMoves ==
    ASSUME tool \in ToolType, NEW at \in ToolStage \cup {"done", "failed"}, ToolTo(at)
    PROVE  /\ tool' \in ToolType /\ tool'.at = at
           /\ tool'.by = tool.by /\ tool'.source = tool.source /\ tool'.n = tool.n
           /\ tool'.clean = tool.clean /\ tool'.alone = tool.alone
           /\ tool'.had = tool.had
BY DEF ToolTo, ToolType

\* or does so after a failure.
LEMMA ToolStumbles ==
    ASSUME tool \in ToolType, NEW at \in ToolStage \cup {"done", "failed"}, Stumbles(at)
    PROVE  /\ tool' \in ToolType /\ tool'.at = at
           /\ tool'.by = tool.by /\ tool'.source = tool.source /\ tool'.n = tool.n
           /\ tool'.clean = FALSE /\ tool'.alone = tool.alone
           /\ tool'.had = tool.had
BY DEF Stumbles, ToolType

\* It goes on to the next binary, or past the last.
LEMMA ToolNext ==
    ASSUME tool \in ToolType, NEW clean \in BOOLEAN, NextBinary(clean)
    PROVE  /\ tool' \in ToolType
           /\ tool'.source = tool.source /\ tool'.alone = tool.alone
           /\ tool'.clean = (tool.clean /\ clean)
           /\ tool.n = Len(BINARY_NAMES) => tool'.at = "config"
           /\ tool.n # Len(BINARY_NAMES) => /\ tool'.at = "binary"
                                            /\ tool'.n = tool.n + 1
                                            /\ tool'.had = tool.had
<1>1. PICK c \in BOOLEAN : c = (tool.clean /\ clean)
  BY DEF ToolType
<1>2. CASE tool.n = Len(BINARY_NAMES)
  <2>1. tool' = [tool EXCEPT !.at = "config", !.n = 1, !.clean = c, !.had = {}]
    BY <1>1, <1>2 DEF NextBinary
  <2>2. "config" \in ToolStage /\ 1 \in DOMAIN BINARY_NAMES /\ {} \in SUBSET Path
    BY Binaries DEF ToolStage
  <2> QED
    BY <1>1, <1>2, <2>1, <2>2 DEF ToolType
<1>3. CASE tool.n # Len(BINARY_NAMES)
  <2>1. tool' = [tool EXCEPT !.at = "binary", !.n = tool.n + 1, !.clean = c]
    BY <1>1, <1>3 DEF NextBinary, ToolType
  <2>2. tool.n + 1 \in DOMAIN BINARY_NAMES
    BY <1>3, Binaries DEF ToolType
  <2> QED
    BY <1>1, <1>3, <2>1, <2>2 DEF ToolType, ToolStage
<1> QED
  BY <1>2, <1>3

\* What a tool does to files and configuration is none of the status's business.
LEMMA ToolStatus ==
    ASSUME StatusInv, NoService, UNCHANGED archive, dir' \in BOOLEAN,
           file' \in [Path -> {Absent, Partial} \cup Versions],
           faults' \in 0 .. MaxFaults
    PROVE  StatusInv' /\ UpdatersAlive' = UpdatersAlive /\ UNCHANGED api
<1> USE DEF NoService, historyVars
<1>1. TypeOK'
  <2>1. ApiType' /\ DiskType' /\ RestType'
    BY DEF StatusInv, TypeOK, ApiType, ActorType, DiskType, RestType
  <2> QED
    BY <2>1 DEF StatusInv, TypeOK, ApiType, ActorType, DiskType, RestType
<1>2. VersionInv' /\ DownInv' /\ MarkInv' /\ TaskInv' /\ FlagIsReleased'
  BY DEF StatusInv, VersionInv, DownInv, MarkInv, TaskInv, FlagIsReleased, Tasks
<1>3. UpdatersAlive' = UpdatersAlive
  BY DEF UpdatersAlive
<1> QED
  BY <1>1, <1>2, <1>3 DEF StatusInv

\* An updater keeps what the status promises even where an installer has been at
\* the files.
LEMMA UpdaterKeepsStatus ==
    ASSUME StatusInv, NEW u \in Applies, UpdaterStep(u)
    PROVE  StatusInv' /\ dir' = dir /\ (api.up => api'.up)
<1> DEFINE FileType == [Path -> {Absent, Partial} \cup Versions]
<1>0. /\ u \in UpdatersAlive
      /\ {"wait", "open", "unzip", "restart", "stale", "backUp", "move", "copy", "chmod",
          "clean", "restore"} = UpdaterStage
  BY DEF UpdaterStep, WaitOver, Open, Unzip, RemoveStale, BackUp, Move, Copy, Chmod,
         Clean, Restore, Restart, UpdatersAlive, UpdaterStage, ReplaceStage
<1>1. /\ file \in FileType /\ apply[u].v \in Versions
      /\ \A p \in Path, c \in {Absent, Partial} \cup Versions : With(p, c) \in FileType
      /\ \A p, q \in Path : Moved(p, q) \in FileType
  BY <1>0, Stages DEF With, Moved, StatusInv, TypeOK, VersionInv, UpdatersAlive
<1> DEFINE Goal == StatusInv' /\ dir' = dir /\ (api.up => api'.up)
<1>2. ASSUME NEW next \in UpdaterStage, NEW files \in FileType, Does(u, next, files)
      PROVE  Goal
  BY <1>0, <1>2, DoesStatus DEF Does, Quiet, apiVars
<1>3. ASSUME NEW next \in UpdaterStage, Fails(u, next) PROVE Goal
  BY <1>0, <1>3, FailsStatus DEF Fails, Quiet, apiVars, diskVars
<1>4. ASSUME Exit(u), UNCHANGED faults \/ Fault PROVE Goal
  <2>1. faults' \in 0 .. MaxFaults /\ damage' \in Damage
    BY <1>4, FaultCounted DEF Exit, StatusInv, TypeOK
  <2> QED
    BY <1>0, <1>1, <1>4, <2>1, EndStatus DEF Exit, Quiet, apiVars, diskVars
<1> HIDE DEF Goal, FileType
<1>5. ASSUME WaitOver(u) PROVE Goal
  BY <1>0, <1>1, <1>2, <1>5 DEF WaitOver
<1>6. ASSUME Open(u) PROVE Goal
  <2>1. CASE archive[apply[u].v] = apply[u].v
    BY <1>0, <1>6, <2>1, OpenStatus DEF Goal, Open, Quiet, apiVars
  <2>2. CASE archive[apply[u].v] # apply[u].v
    BY <1>4, <1>6, <2>2 DEF Open
  <2> QED
    BY <2>1, <2>2
<1>7. ASSUME Unzip(u) PROVE Goal
  <2>1. CASE Exit(u) /\ (UNCHANGED faults \/ Fault)
    BY <1>4, <2>1
  <2>2. CASE \E p \in {"staged", "api"}, c \in {apply[u].v, Partial} :
                Does(u, "stale", With(p, c))
    BY <1>0, <1>1, <1>2, <2>2 DEF Path
  <2> QED
    BY <1>7, <2>1, <2>2 DEF Unzip
<1>8. ASSUME RemoveStale(u) PROVE Goal
  BY <1>0, <1>8, RemoveStaleStatus DEF Goal
<1>9. ASSUME BackUp(u) \/ Move(u) \/ Copy(u) \/ Chmod(u) \/ Clean(u) PROVE Goal
  <2>1. \/ \E next \in UpdaterStage, files \in FileType : Does(u, next, files)
        \/ \E next \in UpdaterStage : Fails(u, next)
    <3> USE <1>0, <1>1 DEF Path
    <3>1. CASE BackUp(u)
      <4>1. CASE file["api"] = Absent
        BY <3>1, <4>1 DEF BackUp
      <4>2. CASE file["api"] # Absent
        BY <3>1, <4>2 DEF BackUp
      <4> QED
        BY <4>1, <4>2
    <3>2. CASE Move(u)
      BY <3>2 DEF Move
    <3>3. CASE Copy(u)
      BY <3>3 DEF Copy
    <3>4. CASE Chmod(u)
      BY <3>4 DEF Chmod
    <3>5. CASE Clean(u)
      BY <3>5 DEF Clean
    <3> QED
      BY <1>9, <3>1, <3>2, <3>3, <3>4, <3>5
  <2> QED
    BY <1>2, <1>3, <2>1
<1>10. ASSUME Restore(u) PROVE Goal
  BY <1>0, <1>10, RestoreStatus DEF Goal, Restore, Quiet, apiVars
<1>11. ASSUME Restart(u) PROVE Goal
  BY <1>0, <1>11, RestartStatus DEF Goal, Restart
<1> QED
  BY <1>5, <1>6, <1>7, <1>8, <1>9, <1>10, <1>11 DEF Goal, UpdaterStep

\* The API, its tasks and its updaters, beside the tools.  Without an updater no
\* file changes.
LEMMA UpdateStatus ==
    ASSUME StatusInv, UpdateStep
    PROVE  /\ StatusInv' /\ dir' = dir /\ (api.up => api'.up)
           /\ UpdatersAlive = {} => file' = file
<1>1. ASSUME NEW a \in Actors, ApiStep(a)
      PROVE  StatusInv' /\ UNCHANGED <<dir, api, file>>
  <2>1. StatusInv'
    BY <1>1, FetchStatus, StoreStatus, ReadCheckStatus, AutoCheckStatus,
       MarkAndTriggerStatus DEF ApiStep
  <2> QED
    BY <1>1, <2>1 DEF ApiStep, Fetch, Store, ReadCheck, AutoCheck, MarkAndTrigger, diskVars
<1>2. ASSUME NEW u \in Applies, TaskStep(u)
      PROVE  StatusInv' /\ UNCHANGED <<dir, api, file>>
  <2>1. StatusInv'
    BY <1>2, DownloadStatus, WriteZipStatus, SpawnUpdaterStatus, SpawnNothingStatus
       DEF TaskStep
  <2> QED
    BY <1>2, <2>1 DEF TaskStep, Download, WriteZip, SpawnUpdater, SpawnNothing, ApplyFails,
                      diskVars, apiVars
<1>3. ASSUME NEW u \in Applies, UpdaterStep(u)
      PROVE  /\ StatusInv' /\ dir' = dir /\ (api.up => api'.up)
             /\ UpdatersAlive # {}
  <2>1. u \in UpdatersAlive
    BY <1>3
       DEF UpdaterStep, WaitOver, Open, Unzip, RemoveStale, BackUp, Move, Copy, Chmod,
           Clean, Restore, Restart, UpdatersAlive, UpdaterStage, ReplaceStage
  <2> QED
    BY <1>3, <2>1, UpdaterKeepsStatus
<1>4. ASSUME NEW u \in Applies, KillUpdater(u)
      PROVE  StatusInv' /\ UNCHANGED <<dir, api, file>>
  BY <1>4, KillUpdaterStatus DEF KillUpdater, Quiet, apiVars, diskVars
<1>5. ASSUME Release PROVE StatusInv' /\ UNCHANGED <<dir, api, file>>
  BY <1>5, ReleaseStatus DEF Release, diskVars
<1> QED
  BY <1>1, <1>2, <1>3, <1>4, <1>5 DEF UpdateStep

-----------------------------------------------------------------------------
(* The steps of the tools.                                                 *)

\* What a step of a tool has to say of what it touches.
LEMMA ToolKeeps ==
    ASSUME DeployInv, NoService, UNCHANGED <<archive, managed, group>>,
           tools' \in 0 .. MaxTools, dir' \in BOOLEAN,
           file' \in [Path -> {Absent, Partial} \cup Versions],
           faults' \in 0 .. MaxFaults, unit' \in BOOLEAN, config' \in Config,
           tool' \in ToolType, tool'.alone => UpdatersAlive = {},
           FoundInv', CopiedInv', StageDone'
    PROVE  DeployInv'
<1>1. StatusInv' /\ UpdatersAlive' = UpdatersAlive /\ UNCHANGED api
  BY ToolStatus DEF DeployInv
<1>2. DeployType' /\ ServiceInv'
  BY <1>1 DEF DeployInv, DeployType, ServiceInv
<1> QED
  BY <1>1, <1>2 DEF DeployInv

\* The types, as the tools need them.
LEMMA ToolFacts ==
    ASSUME DeployInv
    PROVE  /\ file \in [Path -> {Absent, Partial} \cup Versions]
           /\ dir \in BOOLEAN /\ faults \in 0 .. MaxFaults
           /\ Fault => faults' \in 0 .. MaxFaults
           /\ unit \in BOOLEAN /\ config \in Config /\ tool \in ToolType
           /\ tools \in 0 .. MaxTools
           /\ tool.alone => UpdatersAlive = {}
BY FaultCounted DEF DeployInv, DeployType, ServiceInv, StatusInv, TypeOK

\* The stages are told apart by name.
LEMMA StageNames ==
    /\ ToolStage = {"dirs", "binary", "fill", "config", "fillConfig", "register",
                    "enable", "start", "stop", "disable", "deregister", "removeDir"}
    /\ PastBinaries = {"config", "fillConfig", "register", "enable", "start"}
    /\ UninstallStage = {"stop", "disable", "deregister", "removeDir"}
BY DEF ToolStage, UninstallStage, PastBinaries

\* The operator chooses what to do.
LEMMA ChooseKeeps ==
    ASSUME DeployInv, CmdInstall \/ CmdUninstall PROVE DeployInv'
<1>1. PICK at \in {"dirs", "stop"}, by \in {"installer", "uninstaller"},
           source \in {"package", "self"}, start \in BOOLEAN :
               Choose(at, by, source, start)
  <2>1. CASE CmdInstall
    BY <2>1 DEF CmdInstall
  <2>2. CASE CmdUninstall
    BY <2>2 DEF CmdUninstall
  <2> QED
    BY <2>1, <2>2
<1>2. PICK had \in SUBSET Path : had = {p \in Path : Installed(p)}
  OBVIOUS
<1>3. PICK alone \in BOOLEAN : alone = (UpdatersAlive = {})
  OBVIOUS
<1>4. tool' = [at |-> at, by |-> by, source |-> source, n |-> 1, clean |-> TRUE,
               alone |-> alone, start |-> start, had |-> had]
  BY <1>1, <1>2, <1>3 DEF Choose
<1>5. /\ tool' \in ToolType /\ tool'.at = at /\ tool'.had = had /\ tool'.alone = alone
  BY <1>4, Binaries DEF ToolType, ToolStage, UninstallStage
<1>6. tools' \in 0 .. MaxTools
  BY <1>1, ToolFacts, DeployConstantsAssumption DEF Choose
<1>7. FoundInv' /\ CopiedInv' /\ StageDone'
  BY <1>1, <1>2, <1>5, StageNames
     DEF Choose, FoundInv, CopiedInv, StageDone, Installed, updateVars, diskVars
<1> QED
  BY <1>1, <1>3, <1>5, <1>6, <1>7, ToolFacts, ToolKeeps
     DEF Choose, NoService, updateVars, apiVars, diskVars, boundVars, serviceVars

\* An install fails or is killed.
LEMMA FatalKeeps ==
    ASSUME DeployInv, NEW at \in ToolStage, Fatal(at) PROVE DeployInv'
<1>1. /\ tool' \in ToolType /\ tool'.at = "failed" /\ tool'.alone = tool.alone
  BY ToolFacts, ToolStumbles DEF Fatal
<1>2. FoundInv' /\ CopiedInv' /\ StageDone'
  BY <1>1, StageNames DEF FoundInv, CopiedInv, StageDone
<1> QED
  BY <1>1, <1>2, ToolFacts, ToolKeeps DEF Fatal, ToolFrame, serviceVars

\* The directories are there.
LEMMA CreateDirsKeeps == ASSUME DeployInv, CreateDirs PROVE DeployInv'
<1>1. /\ tool' \in ToolType /\ tool'.at = "binary" /\ tool'.alone = tool.alone
      /\ tool'.source = tool.source /\ tool'.clean = tool.clean /\ tool'.had = tool.had
      /\ tool'.n = 1 /\ tool.at = "dirs"
  BY ToolFacts, StageNames, ToolMoves DEF CreateDirs, DeployInv, StageDone
<1>2. UNCHANGED <<file, unit, config, faults>> /\ dir' = TRUE
  BY DEF CreateDirs, serviceVars
<1>3. FoundInv' /\ StageDone'
  BY <1>1, <1>2, StageNames DEF DeployInv, FoundInv, StageDone, Installed
<1>4. CopiedInv'
  BY <1>1, <1>2, StageNames DEF DeployInv, CopiedInv, Installed
<1> QED
  BY <1>1, <1>2, <1>3, <1>4, ToolFacts, ToolKeeps DEF CreateDirs, ToolFrame

\* One binary is opened for writing; the kernel refuses one that runs.
LEMMA CopyBinaryKeeps ==
    ASSUME DeployInv, NEW i \in DOMAIN BINARY_NAMES, CopyBinary(BINARY_NAMES[i])
    PROVE  DeployInv'
<1> DEFINE name == BINARY_NAMES[i]
<1>0. /\ tool.at = "binary" /\ BINARY_NAMES[tool.n] = name
      /\ UNCHANGED <<unit, config, dir, faults>>
  BY DEF CopyBinary, serviceVars
<1>1. CASE TextBusy(name) /\ ToolTo("failed") /\ UNCHANGED file
  <2>1. /\ tool' \in ToolType /\ tool'.at = "failed" /\ tool'.alone = tool.alone
    BY <1>1, ToolFacts, ToolMoves
  <2>2. FoundInv' /\ CopiedInv' /\ StageDone'
    BY <2>1, StageNames DEF FoundInv, CopiedInv, StageDone
  <2> QED
    BY <1>0, <1>1, <2>1, <2>2, ToolFacts, ToolKeeps DEF CopyBinary, ToolFrame
<1>2. CASE /\ ~TextBusy(name) /\ ToolTo("fill")
           /\ file' = IF name \in Path THEN [file EXCEPT ![name] = Partial] ELSE file
  <2>1. /\ tool' \in ToolType /\ tool'.at = "fill" /\ tool'.alone = tool.alone
        /\ tool'.source = tool.source /\ tool'.clean = tool.clean
        /\ tool'.had = tool.had /\ tool'.n = tool.n
    BY <1>2, ToolFacts, StageNames, ToolMoves
  <2>2. /\ file' \in [Path -> {Absent, Partial} \cup Versions]
        /\ \A p \in Path : p # name => file'[p] = file[p]
    BY <1>2, ToolFacts
  <2>3. tool.n \in 1 .. 3 /\ tool.had \subseteq Path
    BY ToolFacts, Binaries DEF ToolType
  <2>4. FoundInv'
    BY <1>0, <2>1, <2>2, <2>3 DEF DeployInv, FoundInv, Installed
  <2>5. StageDone'
    BY <1>0, <2>1, StageNames DEF DeployInv, StageDone
  <2>6. CopiedInv'
    <3>1. \A k \in 1 .. tool.n - 1 : BINARY_NAMES[k] # name
      BY <1>0, <2>3, Binaries
    <3>2. tool.n = 3 => tool.source = "package"
      BY <1>0, <1>2, ToolFacts, Binaries DEF TextBusy, ToolType
    <3> QED
      BY <1>0, <2>1, <2>2, <3>1, <3>2, Binaries, StageNames
         DEF DeployInv, CopiedInv, Installed
  <2> QED
    BY <1>0, <2>1, <2>2, <2>4, <2>5, <2>6, ToolFacts, ToolKeeps DEF CopyBinary, ToolFrame
<1> QED
  BY <1>1, <1>2 DEF CopyBinary

\* A binary that the package lacks is left out,
LEMMA SkipBinaryKeeps == ASSUME DeployInv, SkipBinary PROVE DeployInv'
<1>0. tool.at = "binary" /\ UNCHANGED <<unit, config, file, dir, faults>>
  BY DEF SkipBinary, serviceVars
<1>1. /\ tool' \in ToolType /\ tool'.source = tool.source /\ tool'.alone = tool.alone
      /\ ~tool'.clean
      /\ \/ tool'.at = "config"
         \/ tool'.at = "binary" /\ tool'.had = tool.had
  BY ToolFacts, ToolNext DEF SkipBinary
<1>2. FoundInv' /\ CopiedInv' /\ StageDone'
  BY <1>0, <1>1, StageNames DEF DeployInv, FoundInv, CopiedInv, StageDone, Installed
<1> QED
  BY <1>0, <1>1, <1>2, ToolFacts, ToolKeeps DEF SkipBinary, ToolFrame

\* and one that it holds is whole when its copy ends.
LEMMA FillBinaryKeeps == ASSUME DeployInv, FillBinary PROVE DeployInv'
<1> DEFINE name == BINARY_NAMES[tool.n]
<1>0. /\ tool.at = "fill" /\ UNCHANGED <<unit, config, dir, faults>>
      /\ file' = IF name \in Path /\ tool.source = "package"
                 THEN [file EXCEPT ![name] = MaxVersion] ELSE file
  BY DEF FillBinary, serviceVars
<1>1. /\ tool' \in ToolType /\ tool'.source = tool.source /\ tool'.alone = tool.alone
      /\ tool'.clean = tool.clean
      /\ tool.n = 3 => tool'.at = "config"
      /\ tool.n # 3 => tool'.at = "binary" /\ tool'.n = tool.n + 1 /\ tool'.had = tool.had
  <2>1. tool.clean \in BOOLEAN
    BY ToolFacts DEF ToolType
  <2> QED
    BY <2>1, ToolFacts, ToolNext, Binaries DEF FillBinary
<1>2. MaxVersion \in Versions
  BY UpdateConstantsAssumption DEF Versions
<1>3. /\ file' \in [Path -> {Absent, Partial} \cup Versions]
      /\ \A p \in Path : Installed(p) => file'[p] \in Versions
      /\ name \in Path /\ tool.source = "package" => file'[name] \in Versions
  BY <1>0, <1>2, ToolFacts DEF Installed
<1>4. tool.n \in 1 .. 3 /\ tool.had \subseteq Path /\ tool.source \in {"package", "self"}
  BY ToolFacts, Binaries DEF ToolType
<1>5. FoundInv'
  BY <1>0, <1>1, <1>3, <1>4 DEF DeployInv, FoundInv, Installed
<1>6. StageDone'
  BY <1>0, <1>1, StageNames DEF DeployInv, StageDone
<1>7. CopiedInv'
  <2> SUFFICES ASSUME tool.clean, tool.alone
               PROVE  /\ tool.n # 3 /\ tool.source = "package" =>
                            \A k \in 1 .. tool.n :
                                BINARY_NAMES[k] \in Path => Installed(BINARY_NAMES[k])'
                      /\ tool.n = 3 => Installed("api")' /\ Installed("updater")'
    BY <1>1, <1>4, StageNames DEF CopiedInv
  <2>1. /\ tool.source = "package" =>
              \A k \in 1 .. tool.n - 1 :
                  BINARY_NAMES[k] \in Path => Installed(BINARY_NAMES[k])
        /\ tool.n = 3 => tool.source = "package"
    BY <1>0, Binaries DEF DeployInv, CopiedInv
  <2>2. tool.source = "package" =>
           \A k \in 1 .. tool.n : BINARY_NAMES[k] \in Path => Installed(BINARY_NAMES[k])'
    BY <1>3, <1>4, <2>1 DEF Installed
  <2>3. "api" \in Path /\ "updater" \in Path
    BY DEF Path
  <2> QED
    BY <2>1, <2>2, <2>3, Binaries
<1> QED
  BY <1>0, <1>1, <1>3, <1>5, <1>6, <1>7, ToolFacts, ToolKeeps DEF FillBinary, ToolFrame

\* The configuration is created and filled only where there is none; then comes the
\* unit.  None of this touches a binary.
LEMMA ConfigureKeeps ==
    ASSUME DeployInv, WriteConfig \/ FillConfig \/ RegisterService \/ EnableService
    PROVE  DeployInv'
<1> USE StageNames
<1>0. UNCHANGED <<file, dir>> /\ ToolFrame /\ tool.at \in PastBinaries
  BY DEF WriteConfig, FillConfig, RegisterService, EnableService
<1>1. /\ tool' \in ToolType /\ tool'.alone = tool.alone
      /\ tool'.clean => tool.clean
      /\ faults' \in 0 .. MaxFaults
      /\ tool'.at \in {"fillConfig", "register", "enable", "start", "done"}
  BY ToolFacts, ToolMoves, ToolStumbles
     DEF WriteConfig, FillConfig, RegisterService, EnableService
<1>2. FoundInv'
  BY <1>1 DEF FoundInv
<1>3. CopiedInv'
  BY <1>0, <1>1 DEF DeployInv, CopiedInv, Installed
<1>4. config' \in Config /\ unit' \in BOOLEAN
  BY ToolFacts DEF WriteConfig, FillConfig, RegisterService, EnableService, Config, serviceVars
<1>5. StageDone'
  <2>1. CASE WriteConfig
    <3>1. \/ config = "none" /\ config' = "empty" /\ tool'.at = "fillConfig"
          \/ config # "none" /\ config' = config /\ tool'.at = "register"
      BY <2>1, ToolFacts, ToolMoves DEF WriteConfig
    <3> QED
      BY <1>0, <3>1 DEF DeployInv, StageDone
  <2>2. CASE FillConfig
    <3>1. config' = "default" /\ tool'.at = "register"
      BY <2>2, ToolFacts, ToolMoves DEF FillConfig
    <3> QED
      BY <1>0, <3>1 DEF DeployInv, StageDone
  <2>3. CASE RegisterService
    <3>1. unit' = TRUE /\ config' = config /\ tool'.at = "enable" /\ tool.at = "register"
      BY <2>3, ToolFacts, ToolMoves DEF RegisterService
    <3> QED
      BY <1>0, <3>1 DEF DeployInv, StageDone
  <2>4. CASE EnableService
    <3>1. /\ unit' = unit /\ config' = config /\ tool'.at \in {"start", "done"}
          /\ tool.at = "enable"
      BY <2>4, ToolFacts, ToolMoves, ToolStumbles DEF EnableService, serviceVars
    <3> QED
      BY <1>0, <3>1 DEF DeployInv, StageDone
  <2> QED
    BY <2>1, <2>2, <2>3, <2>4
<1> QED
  BY <1>0, <1>1, <1>2, <1>3, <1>4, <1>5, ToolFacts, ToolKeeps DEF ToolFrame

\* systemctl start: the target is started as the unit's main process, if it can be.
LEMMA StartServiceKeeps == ASSUME DeployInv, StartService PROVE DeployInv'
<1>0. /\ tool' \in ToolType /\ tool'.at = "done" /\ tool'.alone = tool.alone
      /\ UNCHANGED <<unit, config, group, tools>>
  BY ToolFacts, ToolMoves DEF StartService, serviceVars
<1>1. FoundInv' /\ CopiedInv' /\ StageDone'
  BY <1>0, StageNames DEF FoundInv, CopiedInv, StageDone
<1>2. CASE ApiStarts /\ managed' = TRUE
  <2>1. StatusInv' /\ api'.up /\ UpdatersAlive' = UpdatersAlive
    BY <1>2, ApiStartsStatus DEF DeployInv, ApiStarts, UpdatersAlive
  <2> QED
    BY <1>0, <1>1, <1>2, <2>1 DEF DeployInv, DeployType, ServiceInv
<1>3. CASE NoService /\ UNCHANGED <<diskVars, faults, managed>>
  BY <1>0, <1>1, <1>3, ToolFacts, ToolKeeps DEF diskVars
<1> QED
  BY <1>2, <1>3 DEF StartService

-----------------------------------------------------------------------------
(* Uninstalling.                                                           *)

\* Stopping the unit ends its main process, if it runs, and its control group.
LEMMA StopUnitKeeps ==
    ASSUME DeployInv, StopUnit, UNCHANGED <<diskVars, faults>>
    PROVE  /\ StatusInv' /\ managed' = FALSE /\ group' \subseteq UpdatersAlive'
           /\ UpdatersAlive' \subseteq UpdatersAlive
<1>1. CASE api.up /\ managed
  <2>1. StatusInv' /\ UpdatersAlive' = UpdatersAlive \ group
    <3>1. group \in SUBSET UpdatersAlive /\ exits' \in 0 .. MaxExits
      BY <1>1 DEF StopUnit, DeployInv, DeployType, StatusInv, TypeOK
    <3> QED
      BY <1>1, <3>1, ApiGoes DEF StopUnit, DeployInv
  <2> QED
    BY <1>1, <2>1 DEF StopUnit
<1>2. CASE ~(api.up /\ managed)
  <2>1. NoService /\ UNCHANGED <<managed, group>> /\ ~managed
    BY <1>2 DEF StopUnit, DeployInv, DeployType, ServiceInv
  <2>2. StatusInv' /\ UpdatersAlive' = UpdatersAlive
    BY <2>1, ToolFacts, ToolStatus DEF DeployInv, diskVars
  <2> QED
    BY <2>1, <2>2 DEF DeployInv, DeployType
<1> QED
  BY <1>1, <1>2

\* A stage of an uninstall in which a command fails is a warning, or the end of it.
LEMMA CommandFailsKeeps ==
    ASSUME DeployInv, NEW next \in UninstallStage, CommandFails(next) PROVE DeployInv'
<1>1. /\ tool' \in ToolType /\ tool'.alone = tool.alone /\ ~tool'.clean
      /\ tool'.at \in UninstallStage \cup {"failed"}
  BY ToolFacts, StageNames, ToolStumbles DEF CommandFails
<1>2. FoundInv' /\ CopiedInv' /\ StageDone'
  BY <1>1, StageNames DEF FoundInv, CopiedInv, StageDone
<1> QED
  BY <1>1, <1>2, ToolFacts, ToolKeeps DEF CommandFails, ToolFrame, serviceVars

\* The unit is stopped, once by the stop and with the installer once more by the
\* disable.
LEMMA StopKeeps ==
    ASSUME DeployInv, NEW next \in {"disable", "deregister"}, ToolTo(next),
           StopUnit \/ (NoService /\ UNCHANGED <<managed, group>> /\ tool.at = "disable"),
           UNCHANGED <<serviceVars, diskVars, faults, tools>>
    PROVE  DeployInv'
<1>0. /\ tool' \in ToolType /\ tool'.at = next /\ tool'.alone = tool.alone
      /\ tool'.clean = tool.clean
  BY ToolFacts, StageNames, ToolMoves
<1>1. UNCHANGED <<unit, config, file, dir, tools>>
  BY DEF serviceVars, diskVars
<1>2. FoundInv' /\ CopiedInv'
  BY <1>0, StageNames DEF FoundInv, CopiedInv
<1>3. CASE StopUnit
  <2>1. /\ StatusInv' /\ managed' = FALSE /\ group' \subseteq UpdatersAlive'
        /\ UpdatersAlive' \subseteq UpdatersAlive
    BY <1>3, StopUnitKeeps
  <2>2. StageDone'
    BY <1>0, <2>1, StageNames DEF StageDone
  <2> QED
    BY <1>0, <1>1, <1>2, <2>1, <2>2 DEF DeployInv, DeployType, ServiceInv
<1>4. CASE NoService /\ UNCHANGED <<managed, group>> /\ tool.at = "disable"
  <2>1. StageDone'
    BY <1>0, <1>1, <1>4, StageNames DEF DeployInv, StageDone
  <2> QED
    BY <1>0, <1>1, <1>2, <1>4, <2>1, ToolFacts, ToolKeeps DEF diskVars
<1> QED
  BY <1>3, <1>4

\* The unit file goes, or is said to,
LEMMA DeregisterKeeps == ASSUME DeployInv, DeregisterService PROVE DeployInv'
<1>1. /\ tool' \in ToolType /\ tool'.alone = tool.alone
      /\ tool'.at = "removeDir" /\ faults' \in 0 .. MaxFaults
      /\ tool'.clean => tool.clean /\ ~unit'
      /\ unit' \in BOOLEAN /\ tool.at = "deregister"
  BY ToolFacts, StageNames, ToolMoves, ToolStumbles DEF DeregisterService
<1>2. UNCHANGED <<config, file, dir, managed>>
  BY DEF DeregisterService, ToolFrame
<1>3. FoundInv' /\ CopiedInv' /\ StageDone'
  BY <1>1, <1>2, StageNames DEF DeployInv, FoundInv, CopiedInv, StageDone
<1> QED
  BY <1>1, <1>2, <1>3, ToolFacts, ToolKeeps DEF DeregisterService, ToolFrame

\* and so does the install directory.
LEMMA RemoveDirKeeps == ASSUME DeployInv, RemoveDir PROVE DeployInv'
<1>1. /\ tool' \in ToolType /\ tool'.alone = tool.alone /\ tool'.at = "done"
      /\ faults' \in 0 .. MaxFaults
  BY ToolFacts, ToolMoves, ToolStumbles DEF RemoveDir
<1>2. dir' \in BOOLEAN /\ config' \in Config /\ unit' \in BOOLEAN
  BY ToolFacts DEF RemoveDir, Config
<1>3. file' \in [Path -> {Absent, Partial} \cup Versions]
  BY ToolFacts DEF RemoveDir
<1>4. FoundInv' /\ CopiedInv' /\ StageDone'
  BY <1>1, StageNames DEF FoundInv, CopiedInv, StageDone
<1> QED
  BY <1>1, <1>2, <1>3, <1>4, ToolFacts, ToolKeeps DEF RemoveDir, ToolFrame

-----------------------------------------------------------------------------
(* The service beside the tools.                                           *)

\* A step of the API or of an updater; an updater that appears makes the tool no
\* longer alone.
LEMMA UpdateStepKeeps == ASSUME DeployInv, UpdateStep PROVE DeployInv'
<1>1. /\ StatusInv' /\ dir' = dir /\ (api.up => api'.up)
      /\ UpdatersAlive = {} => file' = file
  BY UpdateStatus DEF DeployInv
<1>2. /\ tool' \in ToolType /\ tool'.at = tool.at /\ tool'.source = tool.source
      /\ tool'.n = tool.n /\ tool'.clean = tool.clean /\ tool'.had = tool.had
      /\ tool'.alone => tool.alone /\ UpdatersAlive' = {}
  <2>1. PICK b \in BOOLEAN :
           b = (tool.alone /\ \A u \in Applies : apply'[u].at \notin UpdaterStage)
    BY ToolFacts DEF ToolType
  <2>2. tool' = [tool EXCEPT !.alone = b]
    BY <2>1 DEF UpdateStep
  <2>3. b => tool.alone /\ UpdatersAlive' = {}
    BY <2>1 DEF UpdatersAlive
  <2> QED
    BY <2>2, <2>3, ToolFacts DEF ToolType
<1>3. /\ UNCHANGED <<unit, config, managed, tools>>
      /\ group' \subseteq UpdatersAlive'
  BY DEF UpdateStep, UpdatersAlive, serviceVars
<1>4. tool'.alone => file' = file /\ tool.alone
  BY <1>1, <1>2, ToolFacts
<1>5. FoundInv'
  BY <1>2, <1>4 DEF DeployInv, FoundInv, Installed
<1>6. CopiedInv'
  BY <1>2, <1>4 DEF DeployInv, CopiedInv, Installed
<1>7. StageDone'
  BY <1>1, <1>2, <1>3 DEF DeployInv, StageDone
<1>8. DeployType' /\ ServiceInv'
  BY <1>1, <1>2, <1>3 DEF DeployInv, DeployType, ServiceInv
<1> QED
  BY <1>1, <1>5, <1>6, <1>7, <1>8 DEF DeployInv

\* What concerns only the process leaves the tools' part as it is.
LEMMA ServiceKeeps ==
    ASSUME DeployInv, StatusInv', UpdatersAlive' \subseteq UpdatersAlive,
           group' \subseteq UpdatersAlive', managed' \in BOOLEAN, (managed' => api'.up),
           (tool.at \in UninstallStage /\ managed' => managed),
           config' = config \/ (config = "default" /\ config' = "edited"),
           UNCHANGED <<file, dir, unit, tool, tools>>
    PROVE  DeployInv'
<1>1. DeployType' /\ ServiceInv'
  BY DEF DeployInv, DeployType, ServiceInv, Config
<1>2. FoundInv' /\ CopiedInv'
  BY DEF DeployInv, FoundInv, CopiedInv, Installed
<1>3. StageDone'
  BY StageNames DEF DeployInv, StageDone
<1> QED
  BY <1>1, <1>2, <1>3 DEF DeployInv

\* The process ends or is started, or the operator edits the configuration.
LEMMA OperatorKeeps ==
    ASSUME DeployInv, ServiceExits \/ ServiceStarts \/ EditConfig PROVE DeployInv'
<1>1. CASE ServiceExits
  <2>1. PICK killed \in SUBSET UpdatersAlive :
           /\ killed = (IF managed THEN group ELSE {})
           /\ ApiExits(killed)
    BY <1>1 DEF ServiceExits, DeployInv, DeployType
  <2>2. exits' \in 0 .. MaxExits
    BY <2>1, UpdateConstantsAssumption DEF ApiExits, DeployInv, StatusInv, TypeOK
  <2>3. StatusInv' /\ UpdatersAlive' = UpdatersAlive \ killed
    BY <2>1, <2>2, ApiGoes DEF ApiExits, DeployInv
  <2>4. group' \subseteq UpdatersAlive'
    BY <1>1, <2>1, <2>3 DEF ServiceExits, DeployInv, DeployType
  <2>5. managed' = FALSE /\ UNCHANGED <<config, file, dir, unit, tool, tools>>
    BY <1>1, <2>1 DEF ServiceExits, ApiExits, serviceVars, diskVars
  <2>6. /\ managed' \in BOOLEAN /\ (managed' => api'.up)
        /\ tool.at \in UninstallStage /\ managed' => managed
        /\ UpdatersAlive' \subseteq UpdatersAlive
    BY <2>3, <2>5
  <2> QED
    BY <2>3, <2>4, <2>5, <2>6, ServiceKeeps
<1>2. CASE ServiceStarts
  <2>1. StatusInv' /\ api'.up /\ UpdatersAlive' = UpdatersAlive
    BY <1>2, ApiStartsStatus DEF ServiceStarts, DeployInv, ApiStarts, UpdatersAlive
  <2>2. /\ managed' = TRUE /\ tool.at \notin UninstallStage
        /\ UNCHANGED <<config, file, dir, unit, group, tool, tools>>
    BY <1>2 DEF ServiceStarts, ApiStarts, serviceVars, diskVars
  <2>3. group' \subseteq UpdatersAlive'
    BY <2>1, <2>2 DEF DeployInv, DeployType
  <2>4. /\ managed' \in BOOLEAN /\ (managed' => api'.up)
        /\ tool.at \in UninstallStage /\ managed' => managed
        /\ UpdatersAlive' \subseteq UpdatersAlive
    BY <2>1, <2>2
  <2> QED
    BY <2>1, <2>2, <2>3, <2>4, ServiceKeeps
<1>3. CASE EditConfig
  <2>1. UNCHANGED <<apiVars, apply, diskVars, restart, boundVars, historyVars>>
    BY <1>3 DEF EditConfig, updateVars
  <2>2. StatusInv' /\ UpdatersAlive' = UpdatersAlive /\ UNCHANGED api
    BY <2>1, ToolFacts, ToolStatus
       DEF DeployInv, NoService, apiVars, diskVars, boundVars
  <2> QED
    BY <1>3, <2>1, <2>2, ServiceKeeps
       DEF EditConfig, DeployInv, DeployType, ServiceInv, diskVars
<1> QED
  BY <1>1, <1>2, <1>3

-----------------------------------------------------------------------------
(* The theorems about the deployment.                                      *)

\* The service is installed, and no tool runs.
LEMMA DeployInvInit == DeployInit => DeployInv
<1> SUFFICES ASSUME DeployInit PROVE DeployInv
  OBVIOUS
<1>1. StatusInv /\ api.up
  BY InvInit DEF DeployInit, IInv, UpdateInit
<1>2. tool = [at |-> "done", by |-> "uninstaller", source |-> "package", n |-> 1,
              clean |-> FALSE, alone |-> FALSE, start |-> FALSE, had |-> {}]
  BY DEF DeployInit
<1>3. tool \in ToolType
  BY <1>2, Binaries DEF ToolType
<1>4. DeployType /\ ServiceInv
  BY <1>1, <1>2, <1>3, DeployConstantsAssumption
     DEF DeployInit, DeployType, ServiceInv, Config
<1>5. FoundInv /\ CopiedInv /\ StageDone
  BY <1>2, StageNames DEF FoundInv, CopiedInv, StageDone
<1> QED
  BY <1>1, <1>4, <1>5 DEF DeployInv

\* Every step of a tool, of the service and of its updaters keeps the invariant.
LEMMA DeployStep == DeployInv /\ [Next]_vars => DeployInv'
<1> SUFFICES ASSUME DeployInv, [Next]_vars PROVE DeployInv'
  OBVIOUS
<1>1. CASE InstallStep
  BY <1>1, ChooseKeeps, CreateDirsKeeps, SkipBinaryKeeps, FillBinaryKeeps, CopyBinaryKeeps,
     ConfigureKeeps, StartServiceKeeps, FatalKeeps
     DEF InstallStep
<1>2. CASE UninstallStep
  <2>1. CASE StopService
    BY <2>1, StopKeeps, CommandFailsKeeps, StageNames DEF StopService
  <2>2. CASE DisableService
    BY <2>2, StopKeeps, CommandFailsKeeps, StageNames DEF DisableService
  <2> QED
    BY <1>2, <2>1, <2>2, ChooseKeeps, DeregisterKeeps, RemoveDirKeeps DEF UninstallStep
<1>3. CASE UNCHANGED vars
  <2>1. /\ NoService /\ UNCHANGED <<archive, faults, managed, group>>
        /\ UNCHANGED <<file, dir, unit, tool, tools>> /\ config' = config
    BY <1>3 DEF vars, deployVars, serviceVars, updateVars, apiVars, diskVars, boundVars,
                NoService
  <2>2. StatusInv' /\ UpdatersAlive' = UpdatersAlive /\ UNCHANGED api
    BY <2>1, ToolFacts, ToolStatus DEF DeployInv
  <2>3. /\ group' \subseteq UpdatersAlive' /\ managed' \in BOOLEAN /\ (managed' => api'.up)
        /\ (tool.at \in UninstallStage /\ managed' => managed)
        /\ UpdatersAlive' \subseteq UpdatersAlive
    BY <2>1, <2>2 DEF DeployInv, DeployType, ServiceInv
  <2> QED
    BY <2>1, <2>2, <2>3, ServiceKeeps
<1> QED
  BY <1>1, <1>2, <1>3, UpdateStepKeeps, OperatorKeeps DEF Next

\* Every reachable state of the deployment satisfies its inductive invariant.
THEOREM DeployInvariant == Spec => []DeployInv
BY DeployInvInit, DeployStep, PTL DEF Spec

\* Type correctness of the deployment, for any updaters, releases, faults and runs
\* of the tools; the updaters of a control group are processes that exist.
THEOREM DeployTypeCorrect == Spec => []DeployTypeOK
<1>1. DeployInv => DeployTypeOK
  BY DEF DeployInv, StatusInv, DeployType, ToolType, DeployTypeOK
<1> QED
  BY <1>1, DeployInvariant, PTL

\* What the status of the API says stays true while installers and uninstallers are
\* at work on the files under it.
THEOREM StatusIsTruthfulInService == Spec => []StatusIsTruthful
<1>1. DeployInv => StatusIsTruthful
  BY StatusTold DEF DeployInv
<1> QED
  BY <1>1, DeployInvariant, PTL

\* cmd_install (bin/installer.rs) never writes over a configuration that the
\* operator edited, and an install that finds a binary in use has not destroyed any
\* that it found.
THEOREM InstallsSpareWhatIsThereHolds == Spec => InstallsSpareWhatIsThere
<1>1. DeployInv /\ [Next]_vars => [ConfigIsKept /\ RefusedInstallIsHarmless]_vars
  <2> SUFFICES ASSUME DeployInv, Next PROVE ConfigIsKept /\ RefusedInstallIsHarmless
    OBVIOUS
  <2>1. ConfigIsKept
    <3> SUFFICES ASSUME config = "edited", config' # "edited" PROVE tool.at = "removeDir"
      BY DEF ConfigIsKept
    <3>1. CASE InstallStep
      BY <3>1, StageNames
         DEF InstallStep, CmdInstall, Choose, CreateDirs, SkipBinary, FillBinary, CopyBinary,
             WriteConfig, FillConfig, RegisterService, EnableService, StartService, Fatal,
             serviceVars, DeployInv, StageDone
    <3>2. CASE UninstallStep
      BY <3>2
         DEF UninstallStep, CmdUninstall, Choose, StopService, DisableService,
             DeregisterService, RemoveDir, CommandFails, serviceVars
    <3> QED
      BY <3>1, <3>2
         DEF Next, UpdateStep, ServiceExits, ServiceStarts, EditConfig, serviceVars
  <2>2. RefusedInstallIsHarmless
    <3> SUFFICES ASSUME tool.at = "binary", tool'.at = "failed", tool.alone,
                        tool.source = "package"
                 PROVE  \A p \in tool.had : file'[p] \in Versions
      BY DEF RefusedInstallIsHarmless
    <3>1. \A p \in tool.had : file[p] \in Versions
      BY DEF DeployInv, FoundInv, Installed
    <3>2. CASE InstallStep
      <4>1. \/ \E at \in ToolStage \ UninstallStage : Fatal(at)
            \/ \E i \in DOMAIN BINARY_NAMES : CopyBinary(BINARY_NAMES[i])
        <5>1. ~SkipBinary
          BY ToolFacts, ToolNext DEF SkipBinary
        <5> QED
          BY <3>2, <5>1, StageNames
             DEF InstallStep, CmdInstall, Choose, Idle, CreateDirs, FillBinary, WriteConfig,
                 FillConfig, RegisterService, EnableService, StartService
      <4>2. UNCHANGED file
        <5>1. ASSUME NEW i \in DOMAIN BINARY_NAMES, CopyBinary(BINARY_NAMES[i])
              PROVE  UNCHANGED file
          <6>1. ~ToolTo("fill")
            BY ToolFacts, ToolMoves, StageNames
          <6> QED
            BY <5>1, <6>1 DEF CopyBinary
        <5> QED
          BY <4>1, <5>1 DEF Fatal
      <4> QED
        BY <3>1, <4>2
    <3>3. ~UninstallStep
      BY StageNames
         DEF UninstallStep, CmdUninstall, Choose, Idle, StopService, DisableService,
             DeregisterService, RemoveDir
    <3>4. ~UpdateStep
      BY ToolFacts DEF UpdateStep, ToolType
    <3> QED
      BY <3>2, <3>3, <3>4 DEF Next, ServiceExits, ServiceStarts, EditConfig
  <2> QED
    BY <2>1, <2>2
<1>2. Spec => [][ConfigIsKept /\ RefusedInstallIsHarmless]_vars
  BY <1>1, DeployInvariant, PTL DEF Spec
<1> QED
  BY <1>2 DEF InstallsSpareWhatIsThere

\* A tool that says it is done, and met no failure, no updater and no missing
\* binary, has done it: the installer has put whole binaries and a unit in place,
\* the uninstaller has stopped the service and left nothing behind.
THEOREM DoneIsDoneHolds == Spec => DoneIsDone
<1>1. DeployInv /\ [Next]_vars => [InstallIsComplete /\ UninstallIsComplete]_vars
  <2> SUFFICES ASSUME DeployInv, Next PROVE InstallIsComplete /\ UninstallIsComplete
    OBVIOUS
  <2>0. ASSUME Finishes PROVE InstallStep \/ UninstallStep
    <3>1. ~UpdateStep
      BY <2>0, ToolFacts, StageNames DEF Finishes, UpdateStep, ToolType
    <3> QED
      BY <2>0, <3>1, StageNames DEF Finishes, Next, ServiceExits, ServiceStarts, EditConfig
  <2>1. InstallIsComplete
    <3> SUFFICES ASSUME Finishes, tool.at \in {"enable", "start"}, tool'.clean, tool.alone
                 PROVE  /\ Installed("api") /\ Installed("updater") /\ unit
                        /\ config = "empty" \/ Configured
      BY DEF InstallIsComplete
    <3>1. EnableService \/ StartService
      <4>1. CASE InstallStep
        <5>1. ~CmdInstall /\ \A at \in ToolStage \ UninstallStage : ~Fatal(at)
          BY ToolFacts, ToolStumbles, StageNames DEF CmdInstall, Choose, Idle, Fatal, Finishes
        <5> QED
          BY <4>1, <5>1
             DEF InstallStep, CreateDirs, SkipBinary, FillBinary, CopyBinary, WriteConfig,
                 FillConfig, RegisterService
      <4>2. CASE UninstallStep
        BY <4>2, StageNames
           DEF UninstallStep, CmdUninstall, Choose, Idle, StopService, DisableService,
               DeregisterService, RemoveDir
      <4> QED
        BY <2>0, <4>1, <4>2
    <3>2. tool.clean
      BY <3>1, ToolFacts, ToolMoves, ToolStumbles, StageNames
         DEF EnableService, StartService
    <3>3. dir /\ config # "none" /\ unit /\ config \in Config
      BY ToolFacts, StageNames DEF DeployInv, StageDone
    <3>4. Installed("api") /\ Installed("updater")
      BY <3>2, StageNames DEF DeployInv, CopiedInv
    <3> QED
      BY <3>3, <3>4 DEF Configured, Config
  <2>2. UninstallIsComplete
    <3> SUFFICES ASSUME Finishes, tool.at = "removeDir", tool'.clean
                 PROVE  /\ ~(api'.up /\ managed') /\ ~unit' /\ ~dir'
                        /\ \A p \in Path \ {"staged"} : file'[p] = Absent
      BY DEF UninstallIsComplete
    <3>1. RemoveDir
      <4>1. ~InstallStep
        <5>1. ~CmdInstall /\ \A at \in ToolStage \ UninstallStage : ~Fatal(at)
          BY StageNames DEF CmdInstall, Choose, Idle, Fatal
        <5> QED
          BY <5>1
             DEF InstallStep, CreateDirs, SkipBinary, FillBinary, CopyBinary, WriteConfig,
                 FillConfig, RegisterService, EnableService, StartService
      <4>2. CASE UninstallStep
        BY <4>2, StageNames
           DEF UninstallStep, CmdUninstall, Choose, Idle, StopService, DisableService,
               DeregisterService
      <4> QED
        BY <2>0, <4>1, <4>2
    <3>2. ~Stumbles("done")
      BY ToolFacts, ToolStumbles
    <3>3. /\ dir' = FALSE /\ ToolTo("done")
          /\ file' = [p \in Path |-> IF p = "staged" THEN file[p] ELSE Absent]
      BY <3>1, <3>2 DEF RemoveDir
    <3>4. tool.clean
      BY <3>3, ToolFacts, ToolMoves
    <3>5. ~managed /\ ~unit /\ UNCHANGED <<managed, unit>>
      BY <3>1, <3>4 DEF DeployInv, StageDone, RemoveDir, ToolFrame
    <3> QED
      BY <3>3, <3>5
  <2> QED
    BY <2>1, <2>2
<1>2. Spec => [][InstallIsComplete /\ UninstallIsComplete]_vars
  BY <1>1, DeployInvariant, PTL DEF Spec
<1> QED
  BY <1>2 DEF DoneIsDone
=============================================================================
