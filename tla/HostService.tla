----------------------------- MODULE HostService -----------------------------
(***************************************************************************)
(* `sevn service` (service/__init__.py, launchd.py, systemd.py, runner.py  *)
(* and the commands of cli.py): the unit file or plist on disk, what the   *)
(* service manager has loaded of it, and the host it runs.  A command is a *)
(* row of manager calls; each may fail or time out, with or without having *)
(* taken effect, and the command may be killed between two.  The managers  *)
(* are modelled from how the code uses them: systemd runs the unit it has  *)
(* loaded until it reloads, launchd refuses to bootstrap a loaded agent.   *)
(***************************************************************************)
EXTENDS Naturals, Sequences, FiniteSets

CONSTANTS
  Platforms,     \* subset of {"systemd", "launchd"}
  Units,         \* contents a unit may have, by executable, home and port
  NoUnit,
  MaxServiceCmds, MaxUpgrades, MaxManagerFaults, MaxExits   \* bounds

ASSUME HostServiceAssumption == NoUnit \notin Units

VARIABLES
  platform,
  unitFile,    \* contents of the unit on disk, or NoUnit
  loadedUnit,  \* what the manager has loaded, or NoUnit
  enabled,     \* systemd's symlink; launchd starts every plist of its folder
  hostProc,    \* [on, unit, code]: the running host
  lastExit,    \* "none", "ok" or "bad"
  code,        \* version of the installed package
  svc,         \* the command under way: [op, at, unit, action, code]
  cmds, faults, exits

svcVars == <<platform, unitFile, loadedUnit, enabled, hostProc, lastExit, code, svc, cmds, faults, exits>>

Off   == [on |-> FALSE, unit |-> NoUnit, code |-> 0]
NoCmd == [op |-> "none", at |-> "done", unit |-> NoUnit, action |-> "none", code |-> 0]
Running(u) == [on |-> TRUE, unit |-> u, code |-> code]

ServiceTypeOK ==
  /\ platform \in Platforms
  /\ unitFile \in Units \cup {NoUnit} /\ loadedUnit \in Units \cup {NoUnit}
  /\ enabled \in BOOLEAN /\ hostProc.on \in BOOLEAN
  /\ svc.at \in {"status", "bootout", "write", "reload", "restart", "enable", "bootstrap",
                 "disable", "unlink", "done", "failed"}

ServiceInit ==
  /\ platform \in Platforms
  /\ unitFile = NoUnit /\ loadedUnit = NoUnit /\ enabled = FALSE
  /\ hostProc = Off /\ lastExit = "none"
  /\ code = 0 /\ svc = NoCmd
  /\ cmds = 0 /\ faults = 0 /\ exits = 0

\* status
StatusState ==
  IF unitFile = NoUnit THEN "not-installed"
  ELSE IF hostProc.on THEN "running"
  ELSE IF lastExit = "bad" THEN "failed"
  ELSE "stopped"

-----------------------------------------------------------------------------
(* The commands begin.                                                       *)
Free == svc.at \in {"done", "failed"}

\* plan_write: other contents are replaced only with --force.
PlanWrite(u, force) ==
  IF unitFile = NoUnit THEN "create"
  ELSE IF unitFile = u THEN "unchanged"
  ELSE IF force THEN "replace"
  ELSE "conflict"

StartsAt(op, at, u, action) ==
  /\ Free /\ cmds < MaxServiceCmds
  /\ cmds' = cmds + 1
  /\ svc' = [op |-> op, at |-> at, unit |-> u, action |-> action, code |-> code]
  /\ UNCHANGED <<platform, unitFile, loadedUnit, enabled, hostProc, lastExit, code, faults, exits>>

InstallBegins(u, force) ==
  LET action == PlanWrite(u, force)
  IN  StartsAt("install",
               IF action = "conflict" THEN "failed"
               ELSE IF action = "unchanged" THEN "status"
               ELSE IF platform = "launchd" THEN "bootout"
               ELSE "write",
               u, action)

UninstallBegins ==
  StartsAt("uninstall",
           IF unitFile = NoUnit THEN "done"
           ELSE IF platform = "launchd" THEN "bootout"
           ELSE "disable",
           NoUnit, "none")

RestartBegins == StartsAt("restart", "restart", NoUnit, "none")

-----------------------------------------------------------------------------
(* Their steps.                                                              *)
Proceed(at) == svc' = [svc EXCEPT !.at = at]
Counters == <<platform, code, cmds, faults, exits>>

\* An unchanged unit: a running host is restarted for its new code; launchd
\* bootstraps an agent that is not loaded.
UnchangedStatus ==
  /\ svc.at = "status"
  /\ Proceed(IF platform = "launchd" /\ loadedUnit = NoUnit THEN "bootstrap"
             ELSE IF StatusState = "running" THEN "restart"
             ELSE IF platform = "systemd" THEN "enable"
             ELSE "done")
  /\ UNCHANGED <<unitFile, loadedUnit, enabled, hostProc, lastExit, Counters>>

\* launchctl bootout: no agent is loaded any more, and the host is stopped.
Unload ==
  /\ loadedUnit' = NoUnit
  /\ hostProc' = Off
  /\ UNCHANGED <<unitFile, enabled, lastExit>>

Bootout ==
  /\ svc.at = "bootout"
  /\ Unload
  /\ Proceed(IF svc.op = "install" THEN "write" ELSE "unlink")
  /\ UNCHANGED Counters

WriteAtomic ==
  /\ svc.at = "write"
  /\ unitFile' = svc.unit
  /\ Proceed(IF platform = "systemd" THEN "reload" ELSE "bootstrap")
  /\ UNCHANGED <<loadedUnit, enabled, hostProc, lastExit, Counters>>

DaemonReload ==
  /\ svc.at = "reload"
  /\ loadedUnit' = unitFile
  /\ Proceed(IF svc.op = "uninstall" THEN "done"
             ELSE IF svc.action = "replace" THEN "restart"
             ELSE "enable")
  /\ UNCHANGED <<unitFile, enabled, hostProc, lastExit, Counters>>

\* try-restart leaves a stopped unit alone, restart and kickstart start it;
\* without a loaded unit they fail.
TryOnly == svc.op = "install" /\ platform = "systemd"
Restart ==
  /\ svc.at = "restart"
  /\ hostProc' = IF loadedUnit = NoUnit \/ (TryOnly /\ ~hostProc.on)
                 THEN hostProc ELSE Running(loadedUnit)
  /\ Proceed(IF TryOnly THEN "enable"
             ELSE IF loadedUnit = NoUnit THEN "failed"
             ELSE "done")
  /\ UNCHANGED <<unitFile, loadedUnit, enabled, lastExit, Counters>>

\* enable --now reloads the units, and starts the host unless it runs.
EnableNow ==
  /\ svc.at = "enable"
  /\ enabled' = TRUE
  /\ loadedUnit' = unitFile
  /\ hostProc' = IF hostProc.on THEN hostProc ELSE Running(unitFile)
  /\ Proceed("done")
  /\ UNCHANGED <<unitFile, lastExit, Counters>>

\* launchctl bootstrap fails for an agent that is loaded.
Bootstrap ==
  /\ svc.at = "bootstrap"
  /\ IF loadedUnit # NoUnit THEN Proceed("failed") /\ UNCHANGED <<loadedUnit, hostProc>>
     ELSE loadedUnit' = unitFile /\ hostProc' = Running(unitFile) /\ Proceed("done")
  /\ UNCHANGED <<unitFile, enabled, lastExit, Counters>>

DisableNow ==
  /\ svc.at = "disable"
  /\ enabled' = FALSE
  /\ hostProc' = Off
  /\ Proceed("unlink")
  /\ UNCHANGED <<unitFile, loadedUnit, lastExit, Counters>>

Unlink ==
  /\ svc.at = "unlink"
  /\ unitFile' = NoUnit
  /\ Proceed(IF platform = "systemd" THEN "reload" ELSE "done")
  /\ UNCHANGED <<loadedUnit, enabled, hostProc, lastExit, Counters>>

-----------------------------------------------------------------------------
(* What fails.                                                               *)
Fault == faults < MaxManagerFaults /\ faults' = faults + 1
ServiceRest  == <<platform, code, cmds, exits>>

\* The faulty uninstall that goes on after a failed stop.
AfterFaultGoesOn ==
  CASE svc.at = "bootout" -> IF svc.op = "install" THEN "write" ELSE "unlink"
    [] svc.at = "disable" -> "unlink"
    [] svc.at = "status" /\ platform = "launchd" -> "bootstrap"
    [] OTHER -> "failed"

\* Where a command goes after a failed call.  Install takes a failed bootout
\* for an agent that was not loaded, and a failed print likewise.
AfterFault ==
  CASE svc.at = "bootout" /\ svc.op = "install"   -> "write"
    [] svc.at = "status" /\ platform = "launchd"  -> "bootstrap"
    [] OTHER                                      -> "failed"

\* execute reports a failure, a missing program or a timeout: nothing happened.
CallFails ==
  /\ svc.at \notin {"done", "failed", "write", "unlink"}
  /\ Fault
  /\ Proceed(AfterFault)
  /\ UNCHANGED <<unitFile, loadedUnit, enabled, hostProc, lastExit, ServiceRest>>

\* The timeout expired and the call takes effect all the same.
CallTakesEffectLate ==
  /\ svc.at \in {"bootout", "disable"}
  /\ Fault
  /\ Proceed(AfterFault)
  /\ hostProc' = Off
  /\ IF svc.at = "disable" THEN enabled' = FALSE /\ UNCHANGED loadedUnit
     ELSE loadedUnit' = NoUnit /\ UNCHANGED enabled
  /\ UNCHANGED <<unitFile, lastExit, ServiceRest>>

CommandKilled ==
  /\ ~Free /\ Fault
  /\ Proceed("failed")
  /\ UNCHANGED <<unitFile, loadedUnit, enabled, hostProc, lastExit, ServiceRest>>

-----------------------------------------------------------------------------
(* The host exits, and the manager starts it again unless it exited cleanly; *)
(* the user logs in again; the package is upgraded between two commands.     *)
HostExits(clean) ==
  /\ hostProc.on /\ exits < MaxExits
  /\ exits' = exits + 1
  /\ hostProc' = IF clean \/ loadedUnit = NoUnit THEN Off ELSE Running(loadedUnit)
  /\ lastExit' = IF clean THEN "ok" ELSE "bad"
  /\ UNCHANGED <<platform, unitFile, loadedUnit, enabled, code, svc, cmds, faults>>

LogIn ==
  /\ Free /\ exits < MaxExits
  /\ exits' = exits + 1
  /\ loadedUnit' = unitFile
  /\ hostProc' = IF unitFile # NoUnit /\ (platform = "launchd" \/ enabled)
                 THEN Running(unitFile) ELSE Off
  /\ lastExit' = "none"
  /\ UNCHANGED <<platform, unitFile, enabled, code, svc, cmds, faults>>

Upgrade ==
  /\ Free /\ code < MaxUpgrades
  /\ code' = code + 1
  /\ UNCHANGED <<platform, unitFile, loadedUnit, enabled, hostProc, lastExit, svc, cmds, faults, exits>>

ServiceNext ==
  \/ \E u \in Units, force \in BOOLEAN : InstallBegins(u, force)
  \/ UninstallBegins \/ RestartBegins
  \/ UnchangedStatus \/ Bootout \/ WriteAtomic \/ DaemonReload \/ Restart \/ EnableNow
  \/ Bootstrap \/ DisableNow \/ Unlink
  \/ CallFails \/ CallTakesEffectLate \/ CommandKilled
  \/ \E clean \in BOOLEAN : HostExits(clean)
  \/ LogIn \/ Upgrade

ServiceSpec == ServiceInit /\ [][ServiceNext]_svcVars

-----------------------------------------------------------------------------
(* The unit of a running host is never removed: an uninstall whose stop      *)
(* failed, timed out or was killed keeps the file, so that it can be tried   *)
(* again (uninstall of both managers).                                       *)
UnitOutlivesHost ==
  [][unitFile # NoUnit /\ unitFile' = NoUnit => ~hostProc.on]_svcVars
=============================================================================
