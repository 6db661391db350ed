------------------------------ MODULE Projects ------------------------------
(***************************************************************************)
(* The project a team run works in: TeamCoordinator.resolveProject over    *)
(* ProjectStore (src/roles/team-coordinator.ts, src/projects/), and the    *)
(* commands that touch project rows: "@project" in a chat channel,         *)
(* "projects archive" at the command line, PUT /projects/:id.              *)
(*                                                                         *)
(* A run is not told its project.  It takes the team's active row whose    *)
(* updated_at is the latest, so whatever bumps that column - a new brief,  *)
(* a run that starts or ends, a switch - chooses for the next run; and it  *)
(* creates a row when the team has no active one.                          *)
(*                                                                         *)
(* The gateway serves many runs, each command line process one.  Finding   *)
(* and creating are two statements with no await between them: nothing     *)
(* else of the same process runs in between, another process may.          *)
(***************************************************************************)
EXTENDS Naturals, FiniteSets, SequencesExt

CONSTANTS
  ProjectTeams,   \* teams
  ProjectIds,     \* ids a row may get
  GatewayRuns,    \* executions the gateway may hold at once
  CliRuns,        \* command line processes, one execution each
  NoProject       \* not a project

ASSUME ProjectsAssumption ==
  /\ IsFiniteSet(GatewayRuns) /\ IsFiniteSet(CliRuns) /\ GatewayRuns \cap CliRuns = {}
  /\ NoProject \notin ProjectIds

VARIABLES
  projects,    \* projects: team and status of each row
  recency,     \* ids of the rows, the latest updated_at last
  execution,   \* per slot: its stage, the team it runs for, its project
  everRun      \* projects some stored run belongs to

projectVars == <<projects, recency, execution, everRun>>

RunSlots == GatewayRuns \cup CliRuns
NoExecution == [stage |-> "idle", team |-> NoProject, project |-> NoProject]

Rows == DOMAIN projects
ActiveOf(t) == {p \in Rows : projects[p].team = t /\ projects[p].status = "active"}

Place(p) == CHOOSE i \in DOMAIN recency : recency[i] = p

\* findActiveByTeam: the active row of the team that was updated last.
FindActiveByTeam(t) ==
  IF ActiveOf(t) = {} THEN NoProject
  ELSE CHOOSE p \in ActiveOf(t) : \A q \in ActiveOf(t) : Place(q) <= Place(p)

\* updated_at = now
Bumped(p) == Append(RemoveAt(recency, Place(p)), p)

\* A thread between finding no project and creating one lets nothing of its
\* process in.
ProcessOf(s) == IF s \in GatewayRuns THEN GatewayRuns ELSE {s}
InMidCreate(slots) == \E s \in slots : execution[s].stage = "creating"
GatewayFree == ~ InMidCreate(GatewayRuns)

Become(s, e) == execution' = [execution EXCEPT ![s] = e]
At(s, stage) == execution[s].stage = stage /\ ~ InMidCreate(ProcessOf(s) \ {s})
Advance(s, stage) == Become(s, [execution[s] EXCEPT !.stage = stage])

ProjectsInit ==
  /\ projects = [p \in {} |-> NoExecution]
  /\ recency = <<>>
  /\ execution = [s \in RunSlots |-> NoExecution]
  /\ everRun = {}

\* Mutant of Resolve: something is awaited between finding and creating.
ResolveAwaiting(s, t) ==
  /\ execution[s].stage = "idle"
  /\ LET p == FindActiveByTeam(t)
     IN  Become(s, [stage |-> IF p = NoProject THEN "creating" ELSE "planning",
                    team |-> t, project |-> p])
  /\ UNCHANGED <<projects, recency, everRun>>

\* run() begins: resolveProject looks for the team's active project.
Resolve(s, t) ==
  /\ At(s, "idle")
  /\ LET p == FindActiveByTeam(t)
     IN  Become(s, [stage |-> IF p = NoProject THEN "creating" ELSE "planning",
                    team |-> t, project |-> p])
  /\ UNCHANGED <<projects, recency, everRun>>

\* createProject: an active row, and a brief is asked for.
CreateProject(s) ==
  /\ execution[s].stage = "creating"
  /\ \E p \in ProjectIds \ Rows :
       /\ projects' = [q \in Rows \cup {p} |->
                         IF q = p THEN [team |-> execution[s].team, status |-> "active"]
                                  ELSE projects[q]]
       /\ recency' = Append(recency, p)
       /\ Become(s, [execution[s] EXCEPT !.stage = "brief", !.project = p])
  /\ UNCHANGED <<everRun>>

\* Phase 0: a brief was written, or the lead agent had none.
WriteBrief(s) ==
  /\ At(s, "brief")
  /\ recency' \in {recency, Bumped(execution[s].project)}
  /\ Advance(s, "planning")
  /\ UNCHANGED <<projects, everRun>>

\* The lead's task list is in: the run is stored and becomes the project's last.
PersistRun(s) ==
  /\ At(s, "planning")
  /\ LET p == execution[s].project
     IN  /\ recency' = Bumped(p)
         /\ everRun' = everRun \cup {p}
  /\ Advance(s, "tasks")
  /\ UNCHANGED projects

\* The decomposition failed, could not be read, or was empty: nothing is stored.
NoTasks(s) ==
  /\ At(s, "planning")
  /\ Become(s, NoExecution)
  /\ UNCHANGED <<projects, recency, everRun>>

\* The synthesis is in: setLastRunId once more.
FinishRun(s) ==
  /\ At(s, "tasks")
  /\ recency' = Bumped(execution[s].project)
  /\ Become(s, NoExecution)
  /\ UNCHANGED <<projects, everRun>>

\* The run throws - its task graph does not build - or its process dies.
AbortRun(s) ==
  /\ execution[s].stage # "idle"
  /\ s \in CliRuns \/ ~ InMidCreate(ProcessOf(s))
  /\ Become(s, NoExecution)
  /\ UNCHANGED <<projects, recency, everRun>>

\* resume(): the project is the stored run's, whatever its status is by now.
ResumeRun(s, p) ==
  /\ At(s, "idle")
  /\ p \in everRun
  /\ Become(s, [stage |-> "tasks", team |-> projects[p].team, project |-> p])
  /\ UNCHANGED <<projects, recency, everRun>>

\* archive(): the row is bumped too, and never becomes active again.
Archived(p) ==
  /\ projects' = [projects EXCEPT ![p].status = "archived"]
  /\ recency' = Bumped(p)
  /\ UNCHANGED <<execution, everRun>>

\* "@project archive" in a channel: the project the next run would have taken.
ArchiveActive(t) ==
  /\ GatewayFree
  /\ FindActiveByTeam(t) # NoProject
  /\ Archived(FindActiveByTeam(t))

\* "projects archive <id>" at the command line: any project.
ArchiveNamed(p) ==
  /\ p \in Rows
  /\ Archived(p)

\* "@project switch <id>": bumps updated_at, of any project by its id.
SwitchProject(p) ==
  /\ GatewayFree /\ p \in Rows
  /\ recency' = Bumped(p)
  /\ UNCHANGED <<projects, execution, everRun>>

\* PUT /projects/:id with a name or a brief.
UpdateProject(p) ==
  /\ GatewayFree /\ p \in Rows
  /\ recency' = Bumped(p)
  /\ UNCHANGED <<projects, execution, everRun>>

ProjectsNext ==
  \/ \E s \in RunSlots, t \in ProjectTeams : Resolve(s, t)
  \/ \E s \in RunSlots : \/ CreateProject(s)
                         \/ WriteBrief(s)
                         \/ PersistRun(s)
                         \/ NoTasks(s)
                         \/ FinishRun(s)
                         \/ AbortRun(s)
  \/ \E s \in RunSlots, p \in ProjectIds : ResumeRun(s, p)
  \/ \E t \in ProjectTeams : ArchiveActive(t)
  \/ \E p \in ProjectIds : \/ ArchiveNamed(p)
                           \/ SwitchProject(p)
                           \/ UpdateProject(p)

ProjectsSpec == ProjectsInit /\ [][ProjectsNext]_projectVars

----------------------------------------------------------------------------
(* Properties *)

\* The rows are ordered without gap or repetition, and slots hold what exists.
ProjectsTypeOK ==
  /\ Rows \subseteq ProjectIds
  /\ projects \in [Rows -> [team : ProjectTeams, status : {"active", "archived"}]]
  /\ IsInjective(recency) /\ ToSet(recency) = Rows
  /\ \A s \in RunSlots :
       /\ execution[s].stage \in {"idle", "creating", "brief", "planning", "tasks"}
       /\ execution[s].project \in Rows \cup {NoProject}
       /\ execution[s].stage \in {"brief", "planning", "tasks"} => execution[s].project \in Rows
  /\ everRun \subseteq Rows

\* "Auto-bind or create" gives a team one project at a time: as many active
\* projects exist, or are about to, as processes run - one, for a gateway on
\* its own, however many of its runs begin together and whatever is archived
\* meanwhile.
OneProjectPerProcess ==
  \A t \in ProjectTeams :
    Cardinality(ActiveOf(t))
      + Cardinality({s \in RunSlots : execution[s].stage = "creating" /\ execution[s].team = t})
    <= 1 + Cardinality(CliRuns)

=============================================================================
