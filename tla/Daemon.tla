-------------------------------- MODULE Daemon -------------------------------
(***************************************************************************)
(* The gateway as a service of the system: src/cli/daemon.ts and the       *)
(* daemon commands of src/cli/index.ts, on the three platforms, with the   *)
(* service manager as the code configures it (restart on failure on        *)
(* Windows and Linux, KeepAlive on macOS).  Every command the code runs    *)
(* may fail: execSync() throws then, and runSafe() goes on, unless the     *)
(* command could not even be started.                                      *)
(***************************************************************************)
EXTENDS Integers

CONSTANTS
  Platforms,   \* the platforms looked at
  MaxDaemonCommands, \* bound: daemon commands
  MaxExits     \* bound: ends of the gateway and reboots

ASSUME DaemonAssumption ==
  Platforms \subseteq {"win32", "linux", "darwin"} /\ {MaxDaemonCommands, MaxExits} \subseteq Nat

VARIABLES
  platform,
  unit,      \* the task, unit file or plist is there
  enabled,   \* the manager starts it at boot or login
  byXml,     \* the task of Windows was made from the XML, which alone has RestartOnFailure
  service,   \* "off", "on", or "again" when the manager will start it again
  sleeping,  \* restartDaemon() waits between stop and start
  told,      \* what the last command has reported
  daemonCommands, exits

daemonVars == <<platform, unit, enabled, byXml, service, sleeping, told, daemonCommands, exits>>

\* runSafe() of a command: it works, ends with an error, or cannot be started.
Outcomes == {"works", "fails", "throws"}

DaemonInit ==
  /\ platform \in Platforms
  /\ unit = FALSE /\ enabled = FALSE /\ byXml = FALSE /\ service = "off"
  /\ sleeping = FALSE /\ told = "nothing"
  /\ daemonCommands = 0 /\ exits = 0

\* A daemon command that ends with this report.
Tells(report) ==
  /\ ~ sleeping /\ daemonCommands < MaxDaemonCommands
  /\ daemonCommands' = daemonCommands + 1
  /\ told' = report
  /\ UNCHANGED <<platform, sleeping, exits>>

(***************************************************************************)
(* install: created[i] and ran[i] are the outcomes of the two commands of  *)
(* the i-th way on Windows (the second way is one command), and an install *)
(* on Linux is done up to its stage-th command.                            *)
(***************************************************************************)
InstallWindows ==
  /\ platform = "win32"
  /\ \E created, ran \in [1..3 -> BOOLEAN], spaces \in BOOLEAN :
       LET works(i) == created[i] /\ ran[i]
           tried == {i \in 1..3 : (\A j \in 1..(i - 1) : ~ works(j)) /\ ~ (i = 3 /\ spaces)}
           done == \E i \in tried : works(i)
           made == {i \in tried : created[i]}
       IN /\ unit' = (unit \/ made # {})
          /\ enabled' = unit'
          /\ byXml' = IF made = {} THEN byXml ELSE made = {1}
          /\ service' = IF done THEN "on" ELSE service
          /\ Tells(IF done THEN "installed" ELSE "failed")

\* Mutant of InstallLinux: a failure to enable is passed over.
InstallLinuxSafe ==
  /\ platform = "linux"
  /\ \E stage \in 0..4, enables \in BOOLEAN :
       /\ unit' = (unit \/ stage >= 1)
       /\ enabled' = (enabled \/ (stage >= 3 /\ enables))
       /\ service' = IF stage = 4 THEN "on" ELSE service
       /\ Tells(IF stage = 4 THEN "installed" ELSE "failed")
  /\ UNCHANGED byXml

\* The unit file, daemon-reload, enable, start.
InstallLinux ==
  /\ platform = "linux"
  /\ \E stage \in 0..4 :
       /\ unit' = (unit \/ stage >= 1)
       /\ enabled' = (enabled \/ stage >= 3)
       /\ service' = IF stage = 4 THEN "on" ELSE service
       /\ Tells(IF stage = 4 THEN "installed" ELSE "failed")
  /\ UNCHANGED byXml

\* load -w starts the agent, which has RunAtLoad.
InstallMacos ==
  /\ platform = "darwin"
  /\ unit' = TRUE
  /\ \E loads \in BOOLEAN :
       /\ enabled' = (enabled \/ loads)
       /\ service' = IF loads THEN "on" ELSE service
       /\ Tells(IF loads THEN "installed" ELSE "failed")
  /\ UNCHANGED byXml

(***************************************************************************)
(* uninstall, stop, start and restart: whether a command works is not      *)
(* looked at, and one that cannot be started ends them there.              *)
(***************************************************************************)
\* Windows deletes the task and lets its instance run.
UninstallWindows ==
  /\ platform = "win32"
  /\ \E delete \in Outcomes :
       /\ unit' = (unit /\ delete # "works") /\ enabled' = (enabled /\ delete # "works")
       /\ service' = IF service = "again" /\ delete = "works" THEN "off" ELSE service
       /\ Tells(IF delete = "throws" THEN "failed" ELSE "removed")
  /\ UNCHANGED byXml

\* stop, disable, the unit file, daemon-reload.
UninstallLinux ==
  /\ platform = "linux"
  /\ \E stop, disable, reload \in Outcomes, unlinks \in BOOLEAN :
       /\ service' = IF stop = "works" THEN "off" ELSE service
       /\ enabled' = (enabled /\ ~ (stop # "throws" /\ disable = "works"))
       /\ unit' = (unit /\ ~ ("throws" \notin {stop, disable} /\ unlinks))
       /\ Tells(IF "throws" \in {stop, disable, reload} THEN "failed" ELSE "removed")
  /\ UNCHANGED byXml

\* unload -w and the plist, if there is one.
UninstallMacos ==
  /\ platform = "darwin"
  /\ \E unload \in Outcomes, unlinks \in BOOLEAN :
       /\ service' = IF unit /\ unload = "works" THEN "off" ELSE service
       /\ enabled' = (enabled /\ ~ (unit /\ unload = "works"))
       /\ unit' = (unit /\ ~ (unload # "throws" /\ unlinks))
       /\ Tells(IF unit /\ unload = "throws" THEN "failed" ELSE "removed")
  /\ UNCHANGED byXml

\* The service after a stop command that reached the manager: launchd keeps its
\* agent alive.
Stopped == IF service = "off" \/ platform # "darwin" THEN "off" ELSE "again"

StopDaemon ==
  /\ \E stop \in Outcomes :
       /\ service' = IF stop = "works" THEN Stopped ELSE service
       /\ Tells(IF stop = "throws" THEN "failed" ELSE "stopped")
  /\ UNCHANGED <<unit, enabled, byXml>>

StartDaemon ==
  /\ \E start \in Outcomes :
       /\ service' = IF start = "works" /\ unit THEN "on" ELSE service
       /\ Tells(IF start = "throws" THEN "failed" ELSE "started")
  /\ UNCHANGED <<unit, enabled, byXml>>

RestartDaemon ==
  /\ ~ sleeping /\ daemonCommands < MaxDaemonCommands
  /\ daemonCommands' = daemonCommands + 1
  /\ \E stop \in Outcomes :
       /\ service' = IF stop = "works" THEN Stopped ELSE service
       /\ sleeping' = (stop # "throws")
       /\ told' = IF stop = "throws" THEN "failed" ELSE "nothing"
  /\ UNCHANGED <<platform, unit, enabled, byXml, exits>>

\* The start after 1.5 s.
RestartEnds ==
  /\ sleeping /\ sleeping' = FALSE
  /\ \E start \in Outcomes :
       /\ service' = IF start = "works" /\ unit THEN "on" ELSE service
       /\ told' = IF start = "throws" THEN "failed" ELSE "restarted"
  /\ UNCHANGED <<platform, unit, enabled, byXml, daemonCommands, exits>>

\* daemonStatus(): running is what launchctl lists on macOS, started or not.
StatusRunning ==
  IF platform = "darwin" THEN enabled ELSE service = "on"

StatusDaemon ==
  /\ Tells(IF ~ unit THEN "not installed" ELSE IF StatusRunning THEN "running" ELSE "not running")
  /\ UNCHANGED <<unit, enabled, byXml, service>>

(***************************************************************************)
(* The service manager.                                                    *)
(***************************************************************************)
\* The gateway ends, by a failure or by itself.  A task of Windows starts it again only
\* if it was made from the XML.
GatewayExits ==
  /\ service = "on" /\ exits < MaxExits
  /\ \E fails \in BOOLEAN :
       LET again == platform = "darwin" \/ (fails /\ (platform = "linux" \/ byXml))
       IN  service' = IF unit /\ again THEN "again" ELSE "off"
  /\ exits' = exits + 1
  /\ UNCHANGED <<platform, unit, enabled, byXml, sleeping, told, daemonCommands>>

ManagerRestarts ==
  /\ service = "again" /\ service' = "on"
  /\ UNCHANGED <<platform, unit, enabled, byXml, sleeping, told, daemonCommands, exits>>

Reboot ==
  /\ ~ sleeping /\ exits < MaxExits
  /\ service' = IF enabled /\ unit THEN "on" ELSE "off"
  /\ told' = IF told = "installed" THEN told ELSE "nothing"
  /\ exits' = exits + 1
  /\ UNCHANGED <<platform, unit, enabled, byXml, sleeping, daemonCommands>>

DaemonNext ==
  \/ InstallWindows \/ InstallLinux \/ InstallMacos
  \/ UninstallWindows \/ UninstallLinux \/ UninstallMacos
  \/ StopDaemon \/ StartDaemon \/ RestartDaemon \/ RestartEnds \/ StatusDaemon
  \/ GatewayExits \/ ManagerRestarts \/ Reboot

DaemonSpec == DaemonInit /\ [][DaemonNext]_daemonVars

----------------------------------------------------------------------------
(* Properties *)

\* Every variable holds a value of its kind.
DaemonTypeOK ==
  /\ platform \in Platforms
  /\ {unit, enabled, byXml, sleeping} \subseteq BOOLEAN
  /\ service \in {"off", "on", "again"}
  /\ told \in {"nothing", "installed", "failed", "removed", "stopped", "started", "restarted",
               "not installed", "running", "not running"}

\* "Daemon installed and started. Starts automatically on next login / boot."
\* (src/cli/index.ts:135-136): whatever commands have failed on the way, after that
\* report every reboot brings the service up.
BootsAfterInstall == [][told = "installed" /\ Reboot => service' = "on"]_daemonVars

=============================================================================
