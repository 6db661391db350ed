----------------------------- MODULE ConfigFile -----------------------------
(***************************************************************************)
(* The configuration file, the dashboard's editors of it and the gateway   *)
(* that was started from it (src/dashboard/config-manager.ts,              *)
(* agent-routes.ts, team-routes.ts, the forms of dashboard-html.ts,        *)
(* src/config/config-loader.ts, and the reload in src/gateway/server.ts).  *)
(*                                                                         *)
(* A handler of the dashboard reads the whole file, changes one section and *)
(* writes the whole file back; it does not yield in between.  A form is    *)
(* filled from what its tab loaded before, which may be old when it is     *)
(* saved.  Of an agent the model keeps its id and its default flag, of the *)
(* defaults one nested section, of a role its id and of a team the roles   *)
(* and agents of its members.                                              *)
(***************************************************************************)
EXTENDS Integers, Sequences, FiniteSets, SequencesExt

CONSTANTS
  FileAgents, FileRoles, FileTeams,
  MainAgent,  \* the agent of SECURE_DEFAULTS
  Tabs,       \* pages of the dashboard
  MaxSaves,   \* bound: successful saves
  HandLists,  \* the lists of agents an edit by hand may leave
  MaxHand,    \* bound: times the file is edited by hand
  MaxStarts,  \* bound: restarts of the gateway
  NoAgent     \* null

\* Whoever edits the file keeps the ids of its agents distinct; a default may be missing,
\* or be given twice.
ASSUME HandListsAssumption ==
  \A list \in HandLists :
    /\ list \in Seq([id : FileAgents, default : BOOLEAN])
    /\ \A i, j \in DOMAIN list : list[i].id = list[j].id => i = j

ASSUME ConfigFileAssumption ==
  /\ MainAgent \in FileAgents /\ NoAgent \notin FileAgents
  /\ MaxSaves \in Nat /\ MaxHand \in Nat /\ MaxStarts \in Nat

VARIABLES
  file,    \* what the file says, if it parses
  broken,  \* it does not parse
  up,      \* the gateway runs
  served,  \* its agents, as [id, default]
  sandbox, \* its defaults for the sandbox
  route,   \* the default agent its MessagingManager was made with
  seen,    \* the ids a tab loaded last: [agents, roles, teams]
  byHand,  \* the file was edited by hand since the gateway last read it
  undefaulted, \* history: an edit by hand left agents without a default, and no
               \* form has given them one since
  saves, hand, starts

configVars ==
  <<file, broken, up, served, sandbox, route, seen, byHand, undefaulted, saves, hand, starts>>
gatewayState == <<up, served, sandbox, route>>
configBounds == <<saves, hand, starts>>

Modes == {"all", "untrusted"}
Absent == "absent"  \* a key the file does not have
NoSection == [mode |-> Absent, memory |-> Absent]

Named(list) == {list[i].id : i \in DOMAIN list}
Entry(a, d) == [id |-> a, default |-> d]
MarkFirst(list) == [list EXCEPT ![1].default = TRUE]
PlaceOf(list, x) == CHOOSE i \in DOMAIN list : list[i].id = x
Others(list, x) == RemoveAt(list, PlaceOf(list, x))  \* ids are distinct

\* No agent of the list is the default.
Defaultless(list) == list # <<>> /\ \A i \in DOMAIN list : ~list[i].default

\* The file of the wizards, and an empty one.
WizardFile ==
  [list |-> <<Entry(MainAgent, TRUE)>>, sandbox |-> [mode |-> "all", memory |-> "given"], roles |-> {}, teams |-> <<>>]
EmptyFile == [list |-> <<>>, sandbox |-> NoSection, roles |-> {}, teams |-> <<>>]

\* readRaw(): what does not parse reads as an empty object.
ReadRaw == IF broken THEN EmptyFile ELSE file

\* deepMerge() over SECURE_DEFAULTS, in loadConfig(); an array is taken whole.
LoadedList(f) == IF f.list = <<>> THEN <<Entry(MainAgent, TRUE)>> ELSE f.list
LoadedSandbox(f) ==
  [mode |-> IF f.sandbox.mode = Absent THEN "all" ELSE f.sandbox.mode, memory |-> "given"]

\* defaultAgentId().
DefaultAgent(list) ==
  IF list = <<>> THEN MainAgent
  ELSE IF \E i \in DOMAIN list : list[i].default
       THEN list[CHOOSE i \in DOMAIN list : list[i].default /\ \A j \in 1..i-1 : ~list[j].default].id
       ELSE list[1].id

ConfigInit ==
  /\ file \in {WizardFile, [WizardFile EXCEPT !.sandbox = NoSection]}
  /\ broken = FALSE
  /\ up = TRUE
  /\ served = LoadedList(file) /\ sandbox = LoadedSandbox(file) /\ route = DefaultAgent(LoadedList(file))
  /\ seen = [p \in Tabs |-> [agents |-> {}, roles |-> {}, teams |-> {}]]
  /\ byHand = FALSE /\ undefaulted = FALSE
  /\ saves = 0 /\ hand = 0 /\ starts = 0

----------------------------------------------------------------------------
(* Saves *)

\* writeRaw(), after a change of what readRaw() returned.
WriteRaw(f) ==
  /\ saves < MaxSaves /\ saves' = saves + 1
  /\ file' = f /\ broken' = FALSE
  /\ undefaulted' = (undefaulted /\ Defaultless(f.list))
  /\ UNCHANGED <<hand, starts>>

\* onAgentReload: the merge of the defaults is one level deep, so a section of the
\* file replaces the gateway's, keys it lacks included.
OnAgentReload(f) ==
  /\ served' = f.list
  /\ sandbox' = IF f.sandbox = NoSection THEN sandbox ELSE f.sandbox
  /\ byHand' = FALSE
  /\ UNCHANGED <<up, route>>

SaveAgents(f) ==
  /\ up
  /\ WriteRaw(f)
  /\ OnAgentReload(f)
  /\ UNCHANGED seen

\* handlePutDefaults() and saveDefaults(): the form always sends the mode.
PutDefaults(m) == SaveAgents([ReadRaw EXCEPT !.sandbox.mode = m])

\* handleCreate(): the first agent is the default one.
CreateAgent(a, d) ==
  LET list == Append(ReadRaw.list, Entry(a, d)) IN
  /\ a \notin Named(ReadRaw.list)
  /\ SaveAgents([ReadRaw EXCEPT !.list = IF Len(list) = 1 THEN MarkFirst(list) ELSE list])

\* handleUpdate(): the new entry is laid over the old, so that a box left empty
\* keeps the old value, and the default of another agent stays.
UpdateAgent(a, d) ==
  LET list == ReadRaw.list IN
  /\ a \in Named(list)
  /\ SaveAgents([ReadRaw EXCEPT !.list = [list EXCEPT ![PlaceOf(list, a)].default = @ \/ d]])

\* Mutant of DeleteAgent: the default is not passed on.
DeleteAgentOnly(a) ==
  LET list == ReadRaw.list IN
  /\ a \in Named(list) /\ Len(list) > 1
  /\ SaveAgents([ReadRaw EXCEPT !.list = Others(list, a)])

\* handleDelete(): the default goes to the first agent that remains.
DeleteAgent(a) ==
  LET list == ReadRaw.list
      rest == Others(list, a)
  IN  /\ a \in Named(list) /\ Len(list) > 1
      /\ SaveAgents([ReadRaw EXCEPT !.list = IF list[PlaceOf(list, a)].default THEN MarkFirst(rest) ELSE rest])

\* handleSetDefault().
SetDefault(a) ==
  LET list == ReadRaw.list IN
  /\ a \in Named(list)
  /\ SaveAgents([ReadRaw EXCEPT !.list = [i \in DOMAIN list |-> Entry(list[i].id, list[i].id = a)]])

\* Saves of roles and teams do not reach the gateway's TeamCoordinator.
SaveTeams(f) ==
  /\ up
  /\ WriteRaw(f)
  /\ UNCHANGED <<gatewayState, seen, byHand>>

CreateRole(r) ==
  /\ r \notin ReadRaw.roles
  /\ SaveTeams([ReadRaw EXCEPT !.roles = @ \cup {r}])

Renamed(team, r, n) ==
  [team EXCEPT !.members = {<<IF m[1] = r THEN n ELSE m[1], m[2]>> : m \in @}]

\* PUT of a role with another id: its members follow.  Whether that id is taken is
\* not asked; two entries of one id count as one here.
RenameRole(r, n) ==
  /\ r \in ReadRaw.roles /\ n # r
  /\ SaveTeams([ReadRaw EXCEPT
       !.roles = (@ \ {r}) \cup {n},
       !.teams = [i \in DOMAIN @ |-> Renamed(@[i], r, n)]])

UsedBy(f, r) == \E i \in DOMAIN f.teams : \E m \in f.teams[i].members : m[1] = r

\* DELETE of a role, which a team that uses it forbids.
DeleteRole(r) ==
  /\ r \in ReadRaw.roles /\ ~UsedBy(ReadRaw, r)
  /\ SaveTeams([ReadRaw EXCEPT !.roles = @ \ {r}])

\* POST and PUT of a team, whose roles and agents are not looked up.
StoreTeam(t, members) ==
  LET known == \E i \in DOMAIN ReadRaw.teams : ReadRaw.teams[i].id = t
      team == [id |-> t, members |-> members]
  IN  SaveTeams([ReadRaw EXCEPT !.teams =
        IF known THEN [i \in DOMAIN @ |-> IF @[i].id = t THEN team ELSE @[i]] ELSE Append(@, team)])

DropTeam(t) ==
  /\ \E i \in DOMAIN ReadRaw.teams : ReadRaw.teams[i].id = t
  /\ SaveTeams([ReadRaw EXCEPT !.teams = Others(@, t)])

----------------------------------------------------------------------------
(* The forms of a tab *)

\* loadAgents() and loadTeams(), on a visit of the page or after a save.
LoadTab(p) ==
  /\ up
  /\ seen' = [seen EXCEPT ![p] = [
       agents |-> Named(ReadRaw.list), roles |-> ReadRaw.roles, teams |-> {ReadRaw.teams[i].id : i \in DOMAIN ReadRaw.teams}]]
  /\ UNCHANGED <<file, broken, gatewayState, byHand, undefaulted, configBounds>>

\* saveDefaults().
SaveDefaults == \E m \in Modes : PutDefaults(m)

\* openAgentModal() and saveAgent(): an agent that was seen is updated, and one
\* with another id is created.
SaveAgent(p) ==
  \E a \in FileAgents, d \in BOOLEAN :
    IF a \in seen[p].agents THEN UpdateAgent(a, d) ELSE CreateAgent(a, d)

\* deleteAgent() and setDefaultAgent().
RemoveAgent(p) == \E a \in seen[p].agents : DeleteAgent(a)
MakeDefault(p) == \E a \in seen[p].agents : SetDefault(a)

\* saveRole(), which keeps the id of a role it edits, and deleteRole().
SaveRole == \E r \in FileRoles : CreateRole(r)
RemoveRole(p) == \E r \in seen[p].roles : DeleteRole(r)

\* openTeamModal() and saveTeam(): the form offers the roles and agents seen.
SaveTeam(p) ==
  \E t \in FileTeams, r \in seen[p].roles, a \in seen[p].agents : StoreTeam(t, {<<r, a>>})

\* deleteTeam().
RemoveTeam(p) == \E t \in seen[p].teams : DropTeam(t)

----------------------------------------------------------------------------
(* Around the dashboard *)

\* The file is edited by hand: an edit is left half done, so that it does not parse, or
\* is completed, with other agents, other defaults or no section for the sandbox.
EditByHand ==
  /\ hand < MaxHand /\ hand' = hand + 1
  /\ byHand' = TRUE
  /\ \/ broken' = TRUE /\ UNCHANGED <<file, undefaulted>>
     \/ /\ broken' = FALSE
        /\ \E list \in HandLists, section \in {file.sandbox, NoSection} :
             /\ file' = [file EXCEPT !.list = list, !.sandbox = section]
             /\ undefaulted' = Defaultless(list)
  /\ UNCHANGED <<gatewayState, seen, saves, starts>>

Stop ==
  /\ up /\ starts < MaxStarts /\ starts' = starts + 1
  /\ up' = FALSE
  /\ UNCHANGED <<file, broken, served, sandbox, route, seen, byHand, undefaulted, saves, hand>>

\* loadConfig(), which throws on a file that does not parse, and the start of the
\* gateway with what it returns.
BootGateway ==
  /\ ~up /\ ~broken
  /\ up' = TRUE
  /\ served' = LoadedList(file) /\ sandbox' = LoadedSandbox(file)
  /\ route' = DefaultAgent(LoadedList(file))
  /\ byHand' = FALSE
  /\ UNCHANGED <<file, broken, seen, undefaulted, configBounds>>

ConfigNext ==
  \/ \E p \in Tabs :
       \/ LoadTab(p) \/ SaveAgent(p) \/ RemoveAgent(p) \/ MakeDefault(p)
       \/ RemoveRole(p) \/ SaveTeam(p) \/ RemoveTeam(p)
  \/ SaveDefaults \/ SaveRole
  \/ \E r \in FileRoles, n \in FileRoles : RenameRole(r, n)
  \/ EditByHand \/ Stop \/ BootGateway

ConfigSpec == ConfigInit /\ [][ConfigNext]_configVars

----------------------------------------------------------------------------
(* Properties *)

\* Every variable holds a value of its kind.
ConfigTypeOK ==
  /\ \A i \in DOMAIN file.list : file.list[i] \in [id : FileAgents, default : BOOLEAN]
  /\ file.sandbox \in [mode : Modes \cup {Absent}, memory : {"given", Absent}]
  /\ file.roles \subseteq FileRoles
  /\ \A i \in DOMAIN file.teams : file.teams[i] \in [id : FileTeams, members : SUBSET (FileRoles \X FileAgents)]
  /\ broken \in BOOLEAN /\ up \in BOOLEAN /\ byHand \in BOOLEAN /\ undefaulted \in BOOLEAN
  /\ \A i \in DOMAIN served : served[i] \in [id : FileAgents, default : BOOLEAN]
  /\ sandbox \in [mode : Modes \cup {Absent}, memory : {"given", Absent}]
  /\ route \in FileAgents
  /\ seen \in [Tabs -> [agents : SUBSET FileAgents, roles : SUBSET FileRoles, teams : SUBSET FileTeams]]
  /\ saves \in 0..MaxSaves /\ hand \in 0..MaxHand /\ starts \in 0..MaxStarts

\* Whatever is deleted, updated and made the default, in any order and over a file
\* that did not parse, no form leaves agents without a default: only an edit by hand
\* does, until a form makes one the default.
SomeAgentIsDefault == Defaultless(file.list) => undefaulted

\* The running gateway serves the agents of the file, unless the file was edited by
\* hand or names none.
ServesTheFile ==
  up /\ ~byHand /\ file.list # <<>> => served = file.list

============================================================================
