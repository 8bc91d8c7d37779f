----------------------------- MODULE Deployment -----------------------------
(***************************************************************************)
(* The installed service: the installer and the uninstaller                *)
(* (bin/installer.rs, bin/uninstaller.rs), the unit they write for the     *)
(* service manager, and the self-updating API they install.  One tool runs *)
(* at a time; the API and its updaters run beside it.                      *)
(*                                                                         *)
(* The service manager is systemd, as register_service uses it: stopping a *)
(* unit, or the exit of its main process, takes every process of its       *)
(* control group down, the updaters that the API spawned included.         *)
(***************************************************************************)
EXTENDS SelfUpdate, Sequences

CONSTANT MaxTools       \* bound: how often a tool is run

ASSUME DeployConstantsAssumption == MaxTools \in Nat

VARIABLES
    unit,       \* the unit file is there
    config,     \* config/default.yaml
    managed,    \* the running API is the unit's main process
    group,      \* the updaters in the unit's control group
    tool,       \* the tool that runs, or the last one that ran
    tools       \* bound: tools run so far

serviceVars == <<unit, config>>
deployVars == <<serviceVars, managed, group, tool, tools>>
vars == <<updateVars, deployVars>>

Config == {"none", "empty", "default", "edited"}

\* worker and uninstaller are copied like the others and left out
BINARY_NAMES == <<"api", "updater", "installer">>

(***************************************************************************)
(* install: "dirs", "binary" and "fill" for each name, "config",           *)
(* "fillConfig", "register", "enable", "start".  uninstall: "stop",        *)
(* "disable", "deregister", "removeDir".  Then "done", or "failed" after   *)
(* fatal() or a kill.                                                      *)
(***************************************************************************)
UninstallStage == {"stop", "disable", "deregister", "removeDir"}
ToolStage == {"dirs", "binary", "fill", "config", "fillConfig", "register",
              "enable", "start"} \cup UninstallStage
Idle == tool.at \notin ToolStage

DeployInit ==
    /\ UpdateInit
    /\ Installed("updater")
    /\ unit = TRUE
    /\ config = "edited"
    /\ managed \in BOOLEAN
    /\ group = {}
    /\ tool = [at |-> "done", by |-> "uninstaller", source |-> "package", n |-> 1,
               clean |-> FALSE, alone |-> FALSE, start |-> FALSE, had |-> {}]
    /\ tools = 0

ToolTo(at) == tool' = [tool EXCEPT !.at = at]
Stumbles(at) == tool' = [tool EXCEPT !.at = at, !.clean = FALSE]

NoService == UNCHANGED <<api, status, remote, actor, apply, restart, exits, historyVars>>
ToolFrame == NoService /\ UNCHANGED <<archive, managed, group, tools>>

-----------------------------------------------------------------------------
(* Choosing what to do: flags, prompts or defaults.  An operation that is  *)
(* refused (no privileges, not confirmed, bad flags) changes nothing.      *)

Choose(at, by, source, start) ==
    /\ Idle
    /\ tools < MaxTools
    /\ tools' = tools + 1
    /\ tool' = [at |-> at, by |-> by, source |-> source, n |-> 1, clean |-> TRUE,
                alone |-> UpdatersAlive = {}, start |-> start,
                had |-> {p \in Path : Installed(p)}]
    /\ UNCHANGED <<updateVars, serviceVars, managed, group>>

\* the installer copies what lies beside it: a package of the newest release,
\* or, when it is the installed copy that runs, the install directory itself
CmdInstall ==
    \/ \E start \in BOOLEAN : Choose("dirs", "installer", "package", start)
    \/ dir /\ \E start \in BOOLEAN : Choose("dirs", "installer", "self", start)

CmdUninstall == \E by \in {"installer", "uninstaller"} : Choose("stop", by, "package", FALSE)

-----------------------------------------------------------------------------
(* cmd_install                                                             *)

\* fatal(), or the tool is killed: what it has done so far stays
Fatal(at) ==
    /\ tool.at = at
    /\ Fault
    /\ Stumbles("failed")
    /\ ToolFrame /\ UNCHANGED <<serviceVars, file, dir>>

CreateDirs ==
    /\ tool.at = "dirs"
    /\ dir' = TRUE
    /\ ToolTo("binary")
    /\ ToolFrame /\ UNCHANGED <<serviceVars, file, faults>>

\* the kernel refuses to write to a binary that runs
TextBusy(name) ==
    CASE name = "api"       -> api.up /\ file["api"] = api.version
      [] name = "updater"   -> UpdatersAlive # {}
      [] name = "installer" -> tool.source = "self"

\* Mutant: the index runs past the last name.
NextBinaryRunsOn(clean) ==
    tool' = [tool EXCEPT !.at = IF tool.n = Len(BINARY_NAMES) THEN "config" ELSE "binary",
                         !.n = @ + 1, !.clean = @ /\ clean]

NextBinary(clean) ==
    tool' = [tool EXCEPT !.at = IF tool.n = Len(BINARY_NAMES) THEN "config" ELSE "binary",
                         !.n = IF tool.n = Len(BINARY_NAMES) THEN 1 ELSE @ + 1,
                         !.clean = @ /\ clean,
                         !.had = IF tool.n = Len(BINARY_NAMES) THEN {} ELSE @]

\* Mutant: the old binary is emptied before the new one is opened for writing.
CopyBinaryInPlace(name) ==
    /\ tool.at = "binary"
    /\ BINARY_NAMES[tool.n] = name
    /\ IF TextBusy(name) THEN ToolTo("failed") ELSE ToolTo("fill")
    /\ file' = IF name \in Path THEN [file EXCEPT ![name] = Partial] ELSE file
    /\ ToolFrame /\ UNCHANGED <<serviceVars, dir, faults>>

\* fs::copy opens the destination with truncation; a copy onto itself thereby
\* loses its own source
CopyBinary(name) ==
    /\ tool.at = "binary"
    /\ BINARY_NAMES[tool.n] = name
    /\ \/ /\ TextBusy(name)
          /\ ToolTo("failed")
          /\ UNCHANGED file
       \/ /\ ~TextBusy(name)
          /\ ToolTo("fill")
          /\ file' = IF name \in Path THEN [file EXCEPT ![name] = Partial] ELSE file
    /\ ToolFrame /\ UNCHANGED <<serviceVars, dir, faults>>

\* the package lacks the binary: a warning
SkipBinary ==
    /\ tool.at = "binary"
    /\ NextBinary(FALSE)
    /\ ToolFrame /\ UNCHANGED <<serviceVars, file, dir, faults>>

FillBinary ==
    LET name == BINARY_NAMES[tool.n] IN
    /\ tool.at = "fill"
    /\ file' = IF name \in Path /\ tool.source = "package"
               THEN [file EXCEPT ![name] = MaxVersion] ELSE file
    /\ NextBinary(TRUE)
    /\ ToolFrame /\ UNCHANGED <<serviceVars, dir, faults>>

\* fs::write creates the file before it fills it
WriteConfig ==
    /\ tool.at = "config"
    /\ config' = IF config = "none" THEN "empty" ELSE config
    /\ ToolTo(IF config = "none" THEN "fillConfig" ELSE "register")
    /\ ToolFrame /\ UNCHANGED <<unit, file, dir, faults>>

FillConfig ==
    /\ tool.at = "fillConfig"
    /\ config' = "default"
    /\ ToolTo("register")
    /\ ToolFrame /\ UNCHANGED <<unit, file, dir, faults>>

RegisterService ==
    /\ tool.at = "register"
    /\ unit' = TRUE
    /\ ToolTo("enable")
    /\ ToolFrame /\ UNCHANGED <<config, file, dir, faults>>

\* daemon-reload and enable: an exit code other than 0 is a warning
EnableService ==
    /\ tool.at = "enable"
    /\ \/ ToolTo(IF tool.start THEN "start" ELSE "done") /\ UNCHANGED faults
       \/ Fault /\ Stumbles(IF tool.start THEN "start" ELSE "done")
    /\ ToolFrame /\ UNCHANGED <<serviceVars, file, dir>>

\* main fails at AppConfig::load without a default.yaml it can read
Configured == dir /\ config \in {"default", "edited"}

\* systemctl start does not wait to see whether the process stays
StartService ==
    /\ tool.at = "start"
    /\ ToolTo("done")
    /\ IF Configured /\ ~api.up /\ Installed("api")
       THEN ApiStarts /\ managed' = TRUE
       ELSE NoService /\ UNCHANGED <<diskVars, faults, managed>>
    /\ UNCHANGED <<serviceVars, group, tools>>

-----------------------------------------------------------------------------
(* cmd_uninstall, and main of the uninstaller                              *)

\* the unit's main process and the rest of its control group
StopUnit ==
    IF api.up /\ managed
    THEN /\ api' = [api EXCEPT !.up = FALSE]
         /\ FreshProcess
         /\ apply' = [u \in Applies |->
                        IF u \in Tasks \cup group THEN NoApply ELSE apply[u]]
         /\ managed' = FALSE /\ group' = {}
         /\ damage' = DamageBy(group)
         /\ UNCHANGED <<remote, restart, exits, raced, overlapped>>
    ELSE NoService /\ UNCHANGED <<managed, group>>

\* a command that fails is a warning; the installer alone gives up when it
\* cannot be run at all
CommandFails(next) ==
    /\ Fault
    /\ \/ Stumbles(next)
       \/ tool.by = "installer" /\ Stumbles("failed")
    /\ ToolFrame /\ UNCHANGED <<serviceVars, file, dir>>

\* Mutant: the tool does not wait for the service to stop.
StopServiceNoBlock ==
    /\ tool.at = "stop"
    /\ ToolTo("disable")
    /\ ToolFrame /\ UNCHANGED <<serviceVars, file, dir, faults>>

StopService ==
    /\ tool.at = "stop"
    /\ \/ /\ StopUnit /\ ToolTo("disable")
          /\ UNCHANGED <<serviceVars, diskVars, faults, tools>>
       \/ CommandFails("disable")

\* the installer's disable has --now, which stops the unit once more
DisableService ==
    /\ tool.at = "disable"
    /\ \/ /\ IF tool.by = "installer" THEN StopUnit
             ELSE NoService /\ UNCHANGED <<managed, group>>
          /\ ToolTo("deregister")
          /\ UNCHANGED <<serviceVars, diskVars, faults, tools>>
       \/ CommandFails("deregister")

\* a unit file that cannot be removed is reported as removed
DeregisterService ==
    /\ tool.at = "deregister"
    /\ \/ unit' = FALSE /\ ToolTo("removeDir") /\ UNCHANGED faults
       \/ Fault /\ Stumbles("removeDir") /\ UNCHANGED unit
    /\ ToolFrame /\ UNCHANGED <<config, file, dir>>

\* remove_dir_all may stop half-way: a warning
RemoveDir ==
    /\ tool.at = "removeDir"
    /\ \/ /\ dir' = FALSE
          /\ file' = [p \in Path |-> IF p = "staged" THEN file[p] ELSE Absent]
          /\ config' = "none"
          /\ ToolTo("done") /\ UNCHANGED faults
       \/ /\ Fault
          /\ \E kept \in SUBSET (Path \ {"staged"}) :
                file' = [p \in Path |-> IF p \in kept \cup {"staged"} THEN file[p]
                                        ELSE Absent]
          /\ config' \in {config, "none"}
          /\ Stumbles("done") /\ UNCHANGED dir
    /\ ToolFrame /\ UNCHANGED unit

-----------------------------------------------------------------------------
(* The service beside the tools.                                           *)

\* an updater belongs to the control group of the API that spawned it
UpdateStep ==
    /\ \/ \E a \in Actors : ApiStep(a)
       \/ \E u \in Applies : TaskStep(u) \/ UpdaterStep(u) \/ KillUpdater(u)
       \/ Release
    /\ group' = {u \in Applies : /\ apply'[u].at \in UpdaterStage
                                 /\ u \in group \/ (managed /\ apply[u].at = "spawn")}
    /\ tool' = [tool EXCEPT !.alone = @ /\ \A u \in Applies : apply'[u].at \notin UpdaterStage]
    /\ UNCHANGED <<serviceVars, managed, tools>>

\* the API exits; the manager then clears the control group
ServiceExits ==
    /\ ApiExits(IF managed THEN group ELSE {})
    /\ managed' = FALSE
    /\ group' = IF managed THEN {} ELSE group
    /\ UNCHANGED <<serviceVars, tool, tools>>

\* at boot, by Restart=on-failure, or by the operator
ServiceStarts ==
    /\ unit /\ Configured
    /\ tool.at \notin UninstallStage
    /\ ApiStarts
    /\ managed' = TRUE
    /\ UNCHANGED <<serviceVars, group, tool, tools>>

EditConfig ==
    /\ config = "default"
    /\ config' = "edited"
    /\ UNCHANGED <<updateVars, unit, managed, group, tool, tools>>

InstallStep ==
    \/ CmdInstall \/ CreateDirs \/ SkipBinary \/ FillBinary
    \/ \E i \in DOMAIN BINARY_NAMES : CopyBinary(BINARY_NAMES[i])
    \/ WriteConfig \/ FillConfig \/ RegisterService \/ EnableService \/ StartService
    \/ \E at \in ToolStage \ UninstallStage : Fatal(at)

UninstallStep ==
    CmdUninstall \/ StopService \/ DisableService \/ DeregisterService \/ RemoveDir

Next ==
    InstallStep \/ UninstallStep \/ UpdateStep
    \/ ServiceExits \/ ServiceStarts \/ EditConfig

Spec == DeployInit /\ [][Next]_vars

-----------------------------------------------------------------------------
(* Properties.                                                             *)

DeployTypeOK ==
    /\ TypeOK
    /\ unit \in BOOLEAN /\ config \in Config /\ managed \in BOOLEAN
    /\ group \subseteq UpdatersAlive
    /\ tool \in [at: ToolStage \cup {"done", "failed"},
                 by: {"installer", "uninstaller"}, source: {"package", "self"},
                 n: DOMAIN BINARY_NAMES, clean: BOOLEAN, alone: BOOLEAN,
                 start: BOOLEAN, had: SUBSET Path]
    /\ tools \in 0 .. MaxTools

Finishes == tool.at \in ToolStage /\ tool'.at = "done"

\* "not overwriting": what the operator wrote into the configuration survives
\* every install, of any release, that is not preceded by an uninstall.
ConfigIsKept == config = "edited" /\ config' # "edited" => tool.at = "removeDir"

\* An install that stops because a binary is in use has not destroyed any of
\* the binaries it found, unless it was run from the install directory.
RefusedInstallIsHarmless ==
    tool.at = "binary" /\ tool'.at = "failed" /\ tool.clean /\ tool.alone
        /\ tool.source = "package"
    => \A p \in tool.had : file'[p] \in Versions

\* No install destroys what it finds: configuration or binaries.
InstallsSpareWhatIsThere == [][ConfigIsKept /\ RefusedInstallIsHarmless]_vars

\* An install that met no failure, no updater and no missing binary has
\* installed whole binaries and a unit; the configuration is usable unless an
\* earlier install was cut off while writing it.
InstallIsComplete ==
    Finishes /\ tool.at \in {"enable", "start"} /\ tool'.clean /\ tool.alone
    => /\ Installed("api") /\ Installed("updater") /\ unit
       /\ config = "empty" \/ Configured

\* An uninstall that met no failure and no updater leaves nothing behind: no
\* process of the unit, no unit, no file in the install directory.
UninstallIsComplete ==
    Finishes /\ tool.at = "removeDir" /\ tool'.clean /\ tool.alone
    => /\ ~(api'.up /\ managed') /\ ~unit' /\ ~dir'
       /\ \A p \in Path \ {"staged"} : file'[p] = Absent

\* A tool that says it is done, and met nothing that excuses it, has done it.
DoneIsDone == [][InstallIsComplete /\ UninstallIsComplete]_vars
=============================================================================
