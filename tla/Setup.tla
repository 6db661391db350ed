-------------------------------- MODULE Setup --------------------------------
(***************************************************************************)
(* How a gateway comes to run: the onboard command (src/cli/onboard.ts),   *)
(* the browser wizard of a first run (src/setup/), the gateway, stop and   *)
(* restart commands with their PID file (src/cli/index.ts), and the two    *)
(* files and the token rows they share.                                    *)
(*                                                                         *)
(* The wizard and every gateway listen on one port.  A process is the      *)
(* wizard first and the gateway later, when its wizard is completed; two   *)
(* tabs of the wizard may be completed at once.                            *)
(***************************************************************************)
EXTENDS Integers, FiniteSets

CONSTANTS
  Procs,       \* process ids; a dead process's id is used again
  Pages,       \* tabs that show the wizard
  Sandboxes,   \* the modes offered: those of Modes, and "none"
  FirstEnvs,   \* the names the .env of the beginning may have
  MaxCommands, \* bound: stop, restart, --background, crashes
  MaxOnboards, \* bound: runs of onboard
  MaxSpawns,   \* bound: gateways started
  NoProc, NoFile

EnvNames == {"master", "anthropic", "openrouter", "telegram"}

ASSUME SetupAssumption ==
  /\ IsFiniteSet(Procs) /\ NoProc \notin Procs
  /\ FirstEnvs \subseteq SUBSET EnvNames
  /\ NoFile \notin Sandboxes /\ "all" \in Sandboxes
  /\ {MaxCommands, MaxOnboards, MaxSpawns} \subseteq Nat

VARIABLES
  envFile,   \* the names .env gives a value
  aiDeskJson,\* the sandbox mode of ai-desk.json, or NoFile
  tokenRows, \* who made the rows of the token table
  wizPage,   \* a tab: 0 closed, 2 its first steps, 5 and 6 those steps, 7 an error in step 5
  launchReq, \* what has become of a tab's POST
  procMode,  \* "none", "booting", "setup", "gap", "serving", "stopping"
  procMade,  \* how a process was started
  pidFile,   \* gateway.pid
  term,      \* what the terminal runs: "idle", "restarting", or onboard's step
  onboard,   \* onboard's variables: collected, configExists, sandboxMode
  commands, onboards, spawns

setupVars == <<envFile, aiDeskJson, tokenRows, wizPage, launchReq, procMode, procMade,
               pidFile, term, onboard, commands, onboards, spawns>>
files == <<envFile, aiDeskJson, tokenRows>>
wizard == <<wizPage, launchReq>>
processes == <<procMode, procMade, pidFile>>
terminal == <<term, onboard>>
counts == <<commands, onboards, spawns>>

Providers == {"anthropic", "openrouter"}
\* The sandbox modes the schema accepts.
LegalModes == {"all", "untrusted"}
\* The lines buildEnvFile() writes that are not comments.
OnboardNames == {"master", "anthropic"}

SetupInit ==
  /\ envFile \in FirstEnvs
  /\ aiDeskJson \in {"all", NoFile}
  /\ tokenRows = {}
  /\ wizPage = [t \in Pages |-> 0]
  /\ launchReq = [t \in Pages |-> "none"]
  /\ procMode = [p \in Procs |-> "none"]
  /\ procMade = [p \in Procs |-> "none"]
  /\ pidFile = NoProc
  /\ term = "idle"
  /\ onboard = [collected |-> {}, configExists |-> FALSE, sandboxMode |-> "all"]
  /\ commands = 0 /\ onboards = 0 /\ spawns = 0

PortFree == \A p \in Procs : procMode[p] \notin {"setup", "serving", "stopping"}
SetupProc(p) == procMode[p] = "setup"
ConfigReady == aiDeskJson # NoFile /\ "master" \in envFile

(***************************************************************************)
(* Processes.                                                              *)
(***************************************************************************)
Spawned(p, modes, how) ==
  /\ modes[p] = "none" /\ spawns < MaxSpawns
  /\ procMode' = [modes EXCEPT ![p] = "booting"]
  /\ procMade' = [procMade EXCEPT ![p] = how]
  /\ spawns' = spawns + 1

\* SIGTERM: a gateway that serves shuts down; before that, and in the wizard,
\* nothing handles it.
Terminated(p) ==
  IF procMode[p] = "serving" THEN "stopping"
  ELSE IF procMode[p] = "stopping" THEN "stopping" ELSE "none"

\* killGateway(): what it leaves of the processes.
Killed ==
  IF pidFile = NoProc THEN procMode
  ELSE [procMode EXCEPT ![pidFile] = Terminated(pidFile)]

\* A gateway that starts: the wizard when there is nothing to start with.
Boot(p) ==
  /\ procMode[p] = "booting"
  /\ procMode' = [procMode EXCEPT ![p] =
       IF ~ PortFree THEN "none"
       ELSE IF ~ ConfigReady THEN "setup"
       ELSE IF aiDeskJson \notin LegalModes THEN "none"
       ELSE "serving"]
  /\ tokenRows' = IF procMode'[p] = "serving" /\ tokenRows = {} THEN {"initial"} ELSE tokenRows
  /\ UNCHANGED <<envFile, aiDeskJson, procMade, pidFile, wizard, terminal, counts>>

\* shutdown() has ended.
ShutDown(p) ==
  /\ procMode[p] = "stopping"
  /\ procMode' = [procMode EXCEPT ![p] = "none"]
  /\ UNCHANGED <<files, procMade, pidFile, wizard, terminal, counts>>

\* The requests of the wizard die with its process.
Crash(p) ==
  /\ procMode[p] \in {"setup", "gap", "serving"} /\ commands < MaxCommands
  /\ procMode' = [procMode EXCEPT ![p] = "none"]
  /\ commands' = commands + 1
  /\ launchReq' = IF procMode[p] = "serving" THEN launchReq
                  ELSE [t \in Pages |-> IF launchReq[t] = "none" THEN "none" ELSE "dead"]
  /\ UNCHANGED <<files, wizPage, procMade, pidFile, terminal, onboards, spawns>>

(***************************************************************************)
(* The gateway, stop and restart commands.                                 *)
(***************************************************************************)
Foreground(p) ==
  /\ term = "idle"
  /\ Spawned(p, procMode, "foreground")
  /\ UNCHANGED <<files, wizard, pidFile, terminal, commands, onboards>>

\* Mutant of Background: the instance that runs is not stopped.
BackgroundBeside(p) ==
  /\ term = "idle" /\ commands < MaxCommands /\ ConfigReady
  /\ Spawned(p, procMode, "background")
  /\ pidFile' = p
  /\ commands' = commands + 1
  /\ UNCHANGED <<files, wizard, terminal, onboards>>

Background(p) ==
  /\ term = "idle" /\ commands < MaxCommands /\ ConfigReady
  /\ Spawned(p, Killed, "background")
  /\ pidFile' = p
  /\ commands' = commands + 1
  /\ UNCHANGED <<files, wizard, terminal, onboards>>

StopCommand ==
  /\ term = "idle" /\ commands < MaxCommands /\ pidFile # NoProc
  /\ procMode' = Killed /\ pidFile' = NoProc
  /\ commands' = commands + 1
  /\ UNCHANGED <<files, wizard, procMade, terminal, onboards, spawns>>

RestartCommand ==
  /\ term = "idle" /\ commands < MaxCommands
  /\ procMode' = Killed /\ pidFile' = NoProc
  /\ term' = "restarting"
  /\ commands' = commands + 1
  /\ UNCHANGED <<files, wizard, procMade, onboard, onboards, spawns>>

\* After 1.5 s, whatever has become of the old process.
RestartSpawns ==
  /\ term = "restarting"
  /\ term' = "idle"
  /\ IF ConfigReady /\ \E p \in Procs : procMode[p] = "none" /\ spawns < MaxSpawns
     THEN \E p \in Procs : Spawned(p, procMode, "background") /\ pidFile' = p
     ELSE UNCHANGED <<processes, spawns>>
  /\ UNCHANGED <<files, wizard, onboard, commands, onboards>>

(***************************************************************************)
(* The browser wizard.                                                     *)
(***************************************************************************)
OpenPage(t) ==
  /\ wizPage[t] = 0 /\ \E p \in Procs : SetupProc(p)
  /\ wizPage' = [wizPage EXCEPT ![t] = 2]
  /\ UNCHANGED <<files, launchReq, processes, terminal, counts>>

\* nextFromKey(), nextFromCreds(), which let pass what handleLaunch() accepts, and launch().
LaunchClick(t) ==
  /\ wizPage[t] = 2
  /\ wizPage' = [wizPage EXCEPT ![t] = 5]
  /\ UNCHANGED <<files, launchReq, processes, terminal, counts>>

\* handleLaunch() up to the import it awaits; a wizard that has gone refuses.
HandleLaunch(t) ==
  /\ wizPage[t] = 5 /\ launchReq[t] = "none"
  /\ IF \E p \in Procs : SetupProc(p)
     THEN /\ \E keys \in SUBSET Providers, mode \in Sandboxes :
               envFile' = {"master"} \cup keys /\ aiDeskJson' = mode
          /\ launchReq' = [launchReq EXCEPT ![t] = "token"]
          /\ UNCHANGED wizPage
     ELSE /\ wizPage' = [wizPage EXCEPT ![t] = 7]
          /\ UNCHANGED <<envFile, aiDeskJson, launchReq>>
  /\ UNCHANGED <<tokenRows, processes, terminal, counts>>

\* The token is made, the answer sent, and close() called.
AnswerLaunch(t) ==
  /\ launchReq[t] = "token"
  /\ tokenRows' = tokenRows \cup {"setup-wizard"}
  /\ launchReq' = [launchReq EXCEPT ![t] = "closing"]
  /\ UNCHANGED <<envFile, aiDeskJson, wizPage, processes, terminal, counts>>

\* The page has the answer, and waits 800 ms.
ShowDone(t) ==
  /\ wizPage[t] = 5 /\ launchReq[t] \in {"closing", "launching", "done"}
  /\ wizPage' = [wizPage EXCEPT ![t] = 6]
  /\ UNCHANGED <<files, launchReq, processes, terminal, counts>>

\* The request died with the process before it was answered.
ShowError(t) ==
  /\ wizPage[t] = 5 /\ launchReq[t] = "dead"
  /\ wizPage' = [wizPage EXCEPT ![t] = 7]
  /\ UNCHANGED <<files, launchReq, processes, terminal, counts>>

\* Mutant of Closes: the gateway is launched beside the wizard.
ClosesLater(t) ==
  /\ launchReq[t] = "closing"
  /\ launchReq' = [launchReq EXCEPT ![t] = "launching"]
  /\ UNCHANGED <<files, wizPage, processes, terminal, counts>>

\* close() ends when no request is open, and at once on a closed server.
Closes(t) ==
  /\ launchReq[t] = "closing"
  /\ \A p \in Procs : SetupProc(p) => \A u \in Pages : launchReq[u] # "token"
  /\ procMode' = [p \in Procs |-> IF SetupProc(p) THEN "gap" ELSE procMode[p]]
  /\ launchReq' = [launchReq EXCEPT ![t] = "launching"]
  /\ UNCHANGED <<files, wizPage, procMade, pidFile, terminal, counts>>

\* onLaunch().  When it fails the answer is sent a second time, which throws, and
\* nobody handles that: the process dies.
OnLaunch(t) ==
  /\ launchReq[t] = "launching"
  /\ LET mine == {p \in Procs : procMode[p] \in {"setup", "gap"}} \cup
                 {p \in Procs : procMode[p] = "serving" /\ \E u \in Pages : launchReq[u] = "done"}
         up == PortFree /\ aiDeskJson \in LegalModes
     IN /\ procMode' = [p \in Procs |-> IF p \notin mine THEN procMode[p]
                                        ELSE IF up THEN "serving" ELSE "none"]
        /\ launchReq' = [u \in Pages |-> IF u = t THEN (IF up THEN "done" ELSE "dead")
                                         ELSE IF ~ up /\ launchReq[u] # "none" THEN "dead"
                                         ELSE launchReq[u]]
  /\ UNCHANGED <<files, wizPage, procMade, pidFile, terminal, counts>>

(***************************************************************************)
(* The onboard command.                                                    *)
(***************************************************************************)
OnboardBegins ==
  /\ term = "idle" /\ onboards < MaxOnboards
  /\ term' = "asking"
  /\ onboard' = [collected |-> envFile, configExists |-> aiDeskJson # NoFile,
                 sandboxMode |-> "all"]
  /\ onboards' = onboards + 1
  /\ UNCHANGED <<files, wizard, processes, commands, spawns>>

\* Steps 1 to 4, or "no" to the first question.
OnboardAnswers ==
  /\ term = "asking"
  /\ \/ /\ onboard.configExists \/ onboard.collected # {}
        /\ term' = "idle" /\ UNCHANGED onboard
     \/ /\ term' = "writing"
        /\ \E key \in SUBSET {"anthropic"}, mode \in Sandboxes :
             onboard' = [onboard EXCEPT !.collected = @ \cup {"master"} \cup key,
                                        !.sandboxMode = IF onboard.configExists THEN @ ELSE mode]
  /\ UNCHANGED <<files, wizard, processes, counts>>

\* Steps 5 and 6.
OnboardWrites ==
  /\ term = "writing"
  /\ envFile' = onboard.collected \cap OnboardNames
  /\ aiDeskJson' = IF onboard.configExists THEN aiDeskJson ELSE onboard.sandboxMode
  /\ tokenRows' = IF aiDeskJson' \in LegalModes \cup {NoFile} THEN tokenRows \cup {"onboard"}
                  ELSE tokenRows
  /\ term' = "starting"
  /\ UNCHANGED <<wizard, processes, onboard, counts>>

\* "Start the gateway now in the background?": no PID file is written.
OnboardStarts ==
  /\ term = "starting"
  /\ term' = "idle"
  /\ \/ \E p \in Procs : Spawned(p, procMode, "onboard")
     \/ UNCHANGED <<procMode, procMade, spawns>>
  /\ UNCHANGED <<files, wizard, pidFile, onboard, commands, onboards>>

(***************************************************************************)
(* The specification.                                                      *)
(***************************************************************************)
SetupStep(t) == HandleLaunch(t) \/ AnswerLaunch(t) \/ ShowDone(t) \/ ShowError(t)
                  \/ Closes(t) \/ OnLaunch(t)

SetupNext ==
  \/ \E p \in Procs : Boot(p) \/ ShutDown(p) \/ Crash(p) \/ Foreground(p) \/ Background(p)
  \/ StopCommand \/ RestartCommand \/ RestartSpawns
  \/ \E t \in Pages : OpenPage(t) \/ LaunchClick(t) \/ SetupStep(t)
  \/ OnboardBegins \/ OnboardAnswers \/ OnboardWrites \/ OnboardStarts

\* A request that was sent is served to its end, and a process that starts, starts.
SetupFairness ==
  /\ \A t \in Pages : WF_setupVars(SetupStep(t))
  /\ \A p \in Procs : WF_setupVars(Boot(p)) /\ WF_setupVars(ShutDown(p))

SetupSpec == SetupInit /\ [][SetupNext]_setupVars /\ SetupFairness

----------------------------------------------------------------------------
(* Properties *)

\* Every variable holds a value of its kind.
SetupTypeOK ==
  /\ envFile \subseteq EnvNames
  /\ aiDeskJson \in Sandboxes \cup {NoFile}
  /\ tokenRows \subseteq {"initial", "setup-wizard", "onboard"}
  /\ wizPage \in [Pages -> {0, 2, 5, 6, 7}]
  /\ launchReq \in [Pages -> {"none", "token", "closing", "launching", "done", "dead"}]
  /\ procMode \in [Procs -> {"none", "booting", "setup", "gap", "serving", "stopping"}]
  /\ procMade \in [Procs -> {"none", "foreground", "background", "onboard"}]
  /\ pidFile \in Procs \cup {NoProc}
  /\ term \in {"idle", "restarting", "asking", "writing", "starting"}
  /\ onboard \in [collected : SUBSET EnvNames, configExists : BOOLEAN, sandboxMode : Sandboxes]

\* No orphan: a gateway that --background or restart started, and that no stop
\* has reached, is the one the PID file names, so that stop can reach it.  (One
\* terminal: two restarts at once leave an orphan.)
NoOrphan ==
  \A p \in Procs : procMade[p] = "background" /\ procMode[p] \in {"booting", "setup", "serving"}
                     => pidFile = p

\* The other launches and commands that can spoil a launch.
Spoiled ==
  \/ commands > 0 \/ onboards > 0 \/ spawns > 1
  \/ aiDeskJson \notin LegalModes
  \/ Cardinality({t \in Pages : wizPage[t] >= 5}) > 1

\* The only launch from the wizard, with a sandbox mode the schema knows, ends with
\* a gateway that serves on the port the wizard has left.
LaunchServes ==
  \A t \in Pages : wizPage[t] = 6 ~> Spoiled \/ \E p \in Procs : procMode[p] = "serving"

=============================================================================
