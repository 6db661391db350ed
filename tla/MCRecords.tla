------------------------------ MODULE MCRecords ------------------------------
(* Constants for TLC, and the parts of the system whose state is in files and  *)
(* tables: team runs, projects, the audit log, webhooks, the gateway's locks   *)
(* and tokens, the Google credential, ai-desk.json, the daemon's unit, and the *)
(* workspace panel.  A behaviour is one of the part chosen at the start.       *)
EXTENDS MCTeamRun, Projects, AuditChain, Webhooks, Access, Credentials, ConfigFile, Daemon,
        Workspace

CONSTANTS w1, w2, w3, w4, raw1, raw2, plan, coder, tester

\* Two executions that both call a task "raw1", and a lead that plans.
RawIds == (w1 :> raw1) @@ (w2 :> raw1) @@ (w3 :> raw2) @@ (w4 :> plan)
TwoWorkers == (w1 :> coder) @@ (w2 :> tester) @@ (w3 :> coder) @@ (w4 :> tester)

\* By hand: no default, in another order; and two defaults.
SomeHandLists ==
  LET other == CHOOSE a \in FileAgents : a # MainAgent
  IN  {<<Entry(other, FALSE), Entry(MainAgent, FALSE)>>, <<Entry(MainAgent, TRUE), Entry(other, TRUE)>>}

VARIABLE part
partVars ==
  <<part, vars, projectVars, auditVars, hookVars, accessVars, credentialVars, configVars,
    daemonVars, wsVars>>

Parts ==
  {"team", "projects", "audit", "webhooks", "access", "credentials", "config", "daemon", "workspace"}

\* The parts that do not move start in one state.
MCInit ==
  /\ part \in Parts
  /\ Init /\ ProjectsInit /\ AuditInit /\ WebhooksInit /\ AccessInit /\ CredentialsInit
  /\ ConfigInit /\ DaemonInit /\ WorkspaceInit
  /\ part # "credentials" => cliFile = NoCred
  /\ part # "config" => file = WizardFile
  /\ part # "daemon" => platform = "linux"

MCNext ==
  /\ \/ part = "team" /\ Next
     \/ part = "projects" /\ ProjectsNext
     \/ part = "audit" /\ AuditNext
     \/ part = "webhooks" /\ WebhooksNext
     \/ part = "access" /\ AccessNext
     \/ part = "credentials" /\ CredentialsNext
     \/ part = "config" /\ ConfigNext
     \/ part = "daemon" /\ DaemonNext
     \/ part = "workspace" /\ WorkspaceNext
  /\ part # "team" => UNCHANGED vars
  /\ part # "projects" => UNCHANGED projectVars
  /\ part # "audit" => UNCHANGED auditVars
  /\ part # "webhooks" => UNCHANGED hookVars
  /\ part # "access" => UNCHANGED accessVars
  /\ part # "credentials" => UNCHANGED credentialVars
  /\ part # "config" => UNCHANGED configVars
  /\ part # "daemon" => UNCHANGED daemonVars
  /\ part # "workspace" => UNCHANGED wsVars
  /\ UNCHANGED part

MCSpec == MCInit /\ [][MCNext]_partVars

\* Every variable of every part holds a value of its kind.
RecordTypes ==
  /\ part = "projects" => ProjectsTypeOK
  /\ part = "audit" => AuditTypeOK
  /\ part = "webhooks" => WebhooksTypeOK
  /\ part = "access" => AccessTypeOK
  /\ part = "credentials" => CredentialsTypeOK
  /\ part = "config" => ConfigTypeOK
  /\ part = "daemon" => DaemonTypeOK
  /\ part = "workspace" => WorkspaceTypeOK

\* What the panel says of tasks, and of who works on them, is true.
PanelIsTrue == RunningIsTracked /\ ShownRunningRuns /\ CurrentTaskRuns

\* Forms leave the agents of the file a default, and the gateway serves the file.
FileIsSound == SomeAgentIsDefault /\ ServesTheFile

=============================================================================
