# A TLA+ model of Ai_DESK

Ai_DESK is a gateway for personal AI agents: one Node process that takes messages
from a WebSocket, chat bots, a scheduler and a dashboard, runs agents and teams of
agents on them, and keeps what must survive in SQLite and in files. Beside it run the
commands of the command line, a set-up wizard, and the pages of the dashboard in a
browser. This directory models the parts whose behaviour depends on the order of
things in TLA+, checks the models with TLC on small instances and proves the
properties that matter most with TLAPS for every value of the constants.
`PROJECT.json` maps each definition to the source lines it stands for.

Paths below are relative to the repository's `src/`.

## 1. Inventory

The program is single-threaded JavaScript. Code between two `await`s is atomic;
every `await`, callback and timer is a point where anything else may run. Other
processes (the command line, a second gateway) share the database and the files. A
page in the browser is one more such program, with answers and events that come in
any order. That is where the hard behaviour comes from.

| Component | State | Operations | What is hard, and what must hold | Model |
|---|---|---|---|---|
| Task graph (`orchestration/task-graph.ts`) | node statuses, dependency map | build and validate, ready set, mark done/failed, skip | two loops over a mutable map; the skip rule must be exact and must end | TaskGraph, TaskGraphLoops |
| Orchestrator (`orchestration/orchestrator.ts`) | running set, graph | one run of a graph in waves | tasks end in any order; a run must not stop with work left, or report success for less | Orchestrator, DagContract |
| Team runs (`roles/team-coordinator.ts`, `projects/*-store.ts`) | run, task and issue rows; in-memory graph; listeners on one event bus | run, resume, synthesis | crashes and resumes; executions hear each other's events; rows must stay the truth a resume needs | TeamRun |
| Projects (`roles/team-coordinator.ts`, `projects/project-store.ts`) | project rows, ordered by their last touch | bind or create, touch, archive, switch | a lookup and what is done with it have awaits and other processes between them | Projects |
| Budget (`budget/budget-tracker.ts`) | usage rows, paused set | check, record, pause, resume | check before an await, record after it, by many loops; the overshoot must be bounded | Budget |
| Agent runtime, sessions (`agents/agent-runtime.ts`, `sessions/session-store.ts`) | per-run transcript copy, run counts; session rows | run, reload; create, update, purge | read at the start, written whole at the end; many exits; rows deleted under a run | AgentRun |
| Sub-agent spawner (`agents/subagent-spawner.ts`) | semaphore count, FIFO | spawn | handing over a slot: no leak, no overbooking, no overtaking | SubagentGate |
| Skills (`skills/*`) | state file, skill directories, each process's registry | load, enable, disable, synthesize, improve, merge, import, review | processes write the whole file from old copies; nothing may be in force that nobody approved | Skills |
| Message routing (`messaging/messaging-manager.ts`) | channel locks, one-place queue, named adapters | route, dispatch, start, stop | lock freed before the waiting message runs; a start is awaited while another begins | ChannelQueue, Connections |
| Chat adapters (`messaging/*-adapter.ts`) | poll loop and offset; Discord's session, heartbeat and timers; approvals | start, stop, poll, resume, reconnect, approve | stop and start around a long poll; timers that outlive their socket | Connections, DiscordLink, Gateway |
| Gateway (`gateway/server.ts`) | connections, approvals, toggles in flight | connect, authenticate, approve, toggle, reload, shut down | answer, timeout, close and shutdown race to resolve one promise | Gateway, McpServers, ConfigFile |
| Tool policy and execution (`tools/*`, `agents/tool-executor.ts`) | policies | decide, approve, execute | the policy changes while approval is awaited; nothing may run without leave | Gateway |
| MCP (`mcp/*`) | clients by name, tool table, child processes | start, stop, call, late exit | an exit event of the client before; a server that never answers | McpServers |
| Cron (`dashboard/cron-*.ts`) | jobs, running set | tick, run now, edit | two executions of one job; an end that writes back an old schedule | Cron |
| Authentication (`auth/auth-manager.ts`, `auth/token-store.ts`) | failed attempts, locks, tokens | attempt, clean up, make, revoke, expire | a clean-up on a clock of its own against the locks | Access |
| Google credential (`auth/credential-store.ts`) | one row, the command line tool's file | save, import, refresh, remove | a refresh that is awaited while its row is removed | Credentials |
| Audit log (`security/audit-log.ts`) | hash chain, head in memory | open, append, verify | the head is read at start-up; two processes; a clock set back | AuditChain |
| Webhooks (`dashboard/webhook-*.ts`) | rows with counters | deliver, edit, toggle, delete | the body is awaited between two looks at the row | Webhooks |
| Configuration (`dashboard/config-manager.ts`, `agent-routes.ts`, `team-routes.ts`) | one file, the gateway's copy | create, update, delete, hand edit, start | a file that does not parse; forms filled from an older file | ConfigFile |
| Dashboard pages (`dashboard/dashboard-html.ts`, `dashboard-server.ts`) | sockets, timers, cards; event streams; selected project | connect, send, answer; stream, probe; select, dispatch | several sockets write one state line; answers out of order | ChatClient, EventFeed, ProjectsPage |
| Set-up, command line (`setup/*`, `cli/onboard.ts`, `cli/index.ts`) | `.env`, `ai-desk.json`, PID file, port | wizard, onboard, start, stop, restart | processes that hand a port over; a PID file with many writers | Setup |
| Daemon (`cli/daemon.ts`) | unit, its enablement, the service | install, uninstall, start, stop | commands that fail half-way | Daemon |
| Workspace tracker (`workspace/workspace-tracker.ts`) | tasks with a cap, agents | events, clear | eviction; ends that are late | Workspace |
| Compactor, model router, response cache, memory, traces, skill scores, scanners, login page, MCP server, lead planner | rows by key, text | | no protocol of their own | not modelled (section 7) |

How the parts meet:

- MessagingManager, the gateway's WebSocket handlers, CronScheduler and the webhooks
  call `AgentRuntime.run` or `TeamCoordinator.run`; nothing queues between them, so runs
  of one agent and one session overlap.
- TeamCoordinator binds a project, builds an Orchestrator over a TaskGraph; the
  orchestrator calls `AgentRuntime.run` per task and emits task events on the
  process-wide bus; the coordinator listens on that bus and writes the task rows, and
  the workspace tracker listens on it for the dashboard.
- AgentRuntime asks BudgetTracker before, and tells it after, each model call; it
  reads and writes the SessionStore at the two ends of a run. The provider it calls
  asks the credential store for a token.
- A skill toggle changes the gateway's policy and starts or stops the skill's MCP server.
- The dashboard and the command line change the same rows and files behind their
  backs: purge a session, close an issue, archive a project, resume a run, resume a
  budget, approve a skill, edit a job, a webhook or an agent.
- The set-up wizard is the gateway's own process before it is one; `stop` and
  `restart` reach it by the PID file.

The hazards, each with its line and the properties that cover it, are listed under
"hazards" in `PROJECT.json`.

## 2. Modules

| Module | Models | State ↔ code |
|---|---|---|
| `TaskGraph` | statuses, validation, readiness and the skip rule as operators over a status map | `deps` is `TaskDefinition.depends`; tasks are numbers in insertion order, because the wave's slice depends on it |
| `TaskGraphLoops` | the depth-first search of `validate()` and the fixpoint pass of `skipDependentsOfFailed()`, an iteration a step | `path` is the call stack, `visited`, `changed` the locals of that name |
| `Orchestrator` | `Orchestrator.run` | `running`, `width` (`maxConcurrent`), `failFast`; `sawResults` records whose results were there when a task's prompt was resolved |
| `DagContract` | what the orchestrator promises: every task moves on its own, by legal moves | none: it is the abstract specification |
| `TeamRun` | `TeamCoordinator.run` and `resume` over the stores | `runRow`, `taskRow`, `resultRow`, `depsRow`, `issue` are columns; `graph`, `stage`, `call` are an execution's locals; a slot is a place for one execution in a process |
| `RunContract` | what the rows of team runs promise to whoever reads them | none: it is the abstract specification; its `live` is the set of runs some slot executes |
| `Projects` | `resolveProject` over the project rows, and the commands that touch them | `projects` and `recency` are the rows and the order of `updated_at`; `execution` is an execution's place and its project |
| `Budget` | `check`, `handleOverrun`, `record` under concurrent loops | `day`, `month` are sums over the sliding windows, `paused` is `pausedAgents` |
| `AgentRun` | `AgentRuntime.run` over the session rows | `working` is the run's transcript copy, `stored` the row's, `active` is `activeRuns` |
| `SubagentGate` | `SubagentSpawner.spawn` behind its semaphore | `active`, `waiters` |
| `Skills` | the registry in the gateway and in each command | `saved` is the state file, `disk` the directories, `snap` and `mem` what a process has loaded, `allow` the gateway's policy |
| `ChannelQueue` | `route`, `runWithLock`, the end of `dispatch` | `locks`, `queue` are `channelLocks`, `channelQueue`; `immediates` the pending `setImmediate` callbacks |
| `Connections` | the manager's adapters and Telegram's poll loop | `entered` is the list and the map of adapters, `conn` the rows, `poll`, `stopSignal`, `offset` an adapter's fields; `sent`, `confirmed` what Telegram knows |
| `DiscordLink` | one Discord adapter's socket and timers | `running`, `stopping`, `session` are its fields, `retry`, `closers`, `firsts`, `beats` the timers |
| `Gateway` | connections of the gateway, `execute` and `checkPermission`, both ways to ask a person | `listed` is the key set of `connections`, `authed` and `later` the `authenticatedAt`s and their order, `pending` is `pendingApprovals`; of Telegram's entries `call = "shown"` says that there is one |
| `McpServers` | clients, registry, tool adapter, boot and toggles | `clientOf`, `toolOf` are the registry's maps, `registered` what of them is in the tool registry, `toggle` the lock per skill |
| `Cron` | `tick`, `executeJob`, the routes | `rows` are the jobs with the schedule their next date came from, or none where `nextCronDate` finds none (`Sparse` schedules), `marks` is `running`, `execs` the executions that await |
| `Access` | `authenticateToken`, its attempts, and the token table | `entry` is `failedAttempts`, `now` the clock in ticks |
| `Credentials` | the Google row, refresh, import | `google` is the row, `cliFile` the other tool's login, the uses and imports that await |
| `AuditChain` | `log`, `verifyIntegrity`, the page's badge | a hash is the sequence of what went into it; `head` is `lastHash` |
| `Webhooks` | a delivery from its first byte, the page's tab | `hookRows` the counters, `delivery` how far a request is |
| `ConfigFile` | every write of `ai-desk.json`, the reload | `file`, `broken` the file, `served` and `route` the gateway's copy, `seen` what a tab loaded; `HandLists` the lists that an edit by hand may leave |
| `Daemon` | the commands on the three platforms | `unit`, `enabled`, `service` the service manager's state, `byXml` which way Windows took, `told` the report printed last |
| `Workspace` | the tracker over the bus | `listing` is `tasks`, `activity` is `agents`; a task is an id as one execution uses it, `IdOf` the id it is emitted under, `real` what it does; `mixed` notes ids that two executions had in progress at once |
| `ChatClient` | the chat's sockets and cards | `chatWs`, `connected`, `timer`, `manual`, `shown`, `cards` are the page's globals; `admitted`, `pending` the gateway's; `asked` are the requests on their way |
| `EventFeed` | the page's EventSources, what becomes of them, and the login page | `es`, `timers` the page's, `probe` the `onerror` calls that await; `refusing`: `checkAuth` answers 401 |
| `ProjectsPage` | the projects tab | `listed`, `selected`, `detail` are globals of the page, `calls` its functions that await |
| `Setup` | wizard, onboard, background start, stop, restart | the files, `procMode` per process, `pidFile`, the terminal's command |

An `MC*` module gives the constants of one or several modules their values. Where it
joins several (`MCRecords`, `MCAgents`, `MCMessaging`, `MCServices`, `MCPages`,
`MCOrchestrator`), a variable `part`, chosen at the start and never changed, says which
of them moves in a behaviour; the others stay in one initial state. A run is thus one
question asked of a group of parts, and its state count is the sum of theirs; it is not
a claim that they are independent. Those that share state in the program are modelled
together in one module: the toggles of skills with the servers they start, the
gateway's approvals with its sockets, the wizard with the gateway it becomes.

The `*Proofs` modules hold the theorems, by the composite module they extend:
`TaskGraphProofs` the lemmas about the graph's operators; `OrchestratorProofs` the
orchestrator, its refinement and the loops; `AgentsProofs` runs and sessions, the budget,
skills; `MessagingProofs` the queue, connections, the Discord link; `GatewayProofs` the
gateway; `ServicesProofs` the semaphore, cron, MCP servers; `RecordsProofs` team runs,
projects, the audit log, webhooks, locks, the Google credential, the configuration, the
daemon, the workspace panel; `PagesProofs` the pages and set-up. Definitions commented `Mutant of X` are
plausible bugs of the code: put in X's place, each of them makes the property it is
paired with in `PROJECT.json` fail. They take no part in the specifications.

`Orchestrator`, `DagContract`, `RunContract`, `TaskGraphLoops` and `TeamRun` all extend
`TaskGraph`, so the rule that the loops are compared with is the rule the others run. `TeamRun` uses
the orchestrator's waves at the coordinator's width. `AgentRun` leaves the budget's
verdict to a nondeterministic abort; `Budget` treats a run as a loop of checked calls.
`ChannelQueue` and `SubagentGate` treat the work they guard as an interval with a
beginning and an end.

## 3. What is checked

Seven runs pass and five are counterexamples. None checks for deadlock: requests,
messages and commands are made a bounded number of times, and the system may stop when
they have been dealt with. Symmetry is used where two identities are alike and no
liveness property is in the run (action properties do not distinguish the two either).

Bounds are counts of what an environment does (messages, edits, crashes, restarts) or
of what is under way at once; each is a CONSTANT commented `bound`. They were chosen by
the smallest behaviour that has the case, and most runs have one more.

### Orchestrator (`Orchestrator.cfg`, 55,000 states)

Every dependency map over three tasks (self-dependencies and cycles included, and one
with an unknown name), every set of stored results, widths -1 to 2, both settings of
failFast; for the loops every dependency map and every assignment of statuses. Three
tasks make a chain, a fork, a join and a task beside them, a wave larger than the width
and one smaller; larger graphs are the business of the proofs.

- `OrderKept`: a task that ran saw the results of all it depends on
  (`RanAfterDependencies`), and is skipped if, and only if, it is behind a broken
  dependency (`SkipExact`).
- `ReturnsHonestly`: the break commented "Deadlock" is not reached on a valid graph
  (`NoStall`); what the result means at widths of one and more (`ReturnsSettledIfWide`,
  `SuccessMeansDone`). Below one it does not mean that: section 6.
- `LoopsAgree`: both loops of the code compute the closed forms of `TaskGraph`
  (acyclicity; the least closed set), in whatever order they visit.
- `ImplementsContract`: each step is a step, or a stutter, of `DagContract`.
- `Terminates`: without failFast, at a width of one or more, every task settles; and
  both loops end.

### Records (`Records.cfg`, 750,000 states)

What is kept in files and tables, one part at a time.

*Team runs.* Two runs of two teams in two gateway slots and one command-line process; a
chain, two independent tasks and a list that is no DAG; one crash of any process at any
point and two resumes. Two executions are what it takes to hear each other, one crash
and two resumes let a run be resumed after a resume has failed or died.
`RowsTellTheTruth`: a stored result is that of its own run, a live execution's rows
agree with its graph where a resume will look, and a finished run or issue says what
became of its tasks. `RowsImplementContract`: seen from the rows alone, which is all that
resume, the board and the user of the issue see, every step is one of `RunContract` or a
stutter: a task begins when all it depends on is recorded as done, stays done over crashes
and resumes, and a run is settled with nothing left recorded as running. Two assumptions about the environment are constants: the runs belong
to different teams (`TeamOf`) and nobody resumes a run that is executing
(`ResumesLive = FALSE`). Neither is enforced by the code. `TeamRunSameTeam.cfg` lifts
the first and is a counterexample. With `ResumesLive = TRUE` two executions of one run
may begin the same task. `NothingRedone` (no execution starts a task that its run has
recorded as done) is stated in `TeamRun` and proved, without a run of its own.

*Projects.* One team, two executions in the gateway and one at the command line, two
ids. `OneProjectPerProcess`: as many active projects of a team exist, or are about to,
as processes run: finding and creating are two statements without an await, and an
await between them would make a project for every run that begins together.

*Audit log.* Two processes, three rows, three opens, one step of the clock back.
`FalseAlarmHasACause`: "Tampered!" has one of three causes: a row without a target, two
processes at once, a clock set back. `AuditIntact.cfg` is a counterexample to more.

*Webhooks.* Two webhooks and two deliveries, with edits between a delivery's head and
its body. `RunsAreCounted`: each run is counted once, on a row that exists, and a
webhook that was deleted runs nothing, not even for a body that was on its way.

*Locks and tokens.* One address, one token, a limit of 2, a lock of 2 ticks, four tries
a tick, eight ticks: enough for a count, its lock, the clean-up of both and a second
round. The history `failed` holds a pair (tick, number) for each failure since the last
success or start. `AttemptsBounded`: no more than `2 * MaxFailed - 1` wrong tokens of an address
are looked at in any time of the length of the lock.

*Google credential.* Two accounts, two refreshes and an import under way. `RemovedStays`:
a row removed while nothing was under way stays removed until it is saved again.

*Configuration.* Two agents, two roles, a team, a tab, three saves, one start, two edits by
hand. A hand edit leaves a file that does not parse, or another list of agents, one without
a default and one with two defaults among them, with or without the sandbox section.
`FileIsSound`: no form leaves agents without a default; only a hand edit does, until a form
makes one the default. And from each save and each start until the next hand edit the
running gateway serves the agents of the file.

*Daemon.* Four commands, three exits or reboots on each of three platforms. A command that
the daemon runs works, fails, or cannot be started at all, which `runSafe` throws for.
`BootsAfterInstall`: after "Starts automatically on next login / boot" every reboot
brings the service up, whatever command failed on the way.

*Workspace.* Four tasks of two agents under a cap of two, three of them created: two of two
executions that share an id, one with an id of its own, and a lead's planning, whose run may
reject. `PanelIsTrue`: a task that runs is listed as running, and what is listed as running,
or named as an agent's current task, runs and is that agent's. It does not hold without two
conditions. An id that two executions have in progress at once is one entry for both, so the
entry says nothing of either until the id is announced alone again; and a lead's planning or
synthesis whose run rejects ends with no event, so it stays on the panel (section 6).

`RecordTypes` is the type invariant of these parts; that of the workspace has that no
task is listed twice.

### Agents (`Agents.cfg`, 770,000 states)

*Runs.* Three runs of one agent, two in one conversation and one in another, with a
purge, a reload and a crash. Two runs in one conversation overlap, the third shows that
conversations are apart. `RunsExact`: the run count is the number of runs in flight on
every exit, no exchange lands in another conversation's row, and a run that shared its
session with no other is in the transcript. (A run that did share it may be overwritten:
the transcript is written back whole.) `SuccessIsStored`: no success is returned for an
exchange that was not stored.

*Budget.* One agent, two loops, a daily limit of 3 and a monthly one of 4, a per-run cap
of 1, estimates 0 to 2 and uses 1 to 2, two calls a run, one restart, all three policy
actions; `MaxUsage` is far above every limit plus the overshoot. Two loops and amounts
that cross each limit by one and by two are enough for every ordering of check, call and
record around a limit. `BudgetHolds`: on no schedule is a limit passed by more than one
call of each loop, the calls awaited are part of that bound, and under `warn` nothing is
paused and nothing refused.

*Skills.* Four files: an installed skill, a generated one with its name, a revision of
that, and a generated one of another name; a gateway and one command process, four
commands, one kill. `Consent`: no name is in force, in the file, in a process or in the
gateway's policy, that nobody enabled or approved; and, while processes do not overlap,
one that was disabled, rejected or archived stays out until it is asked for again.

### Messaging (`Messaging.cfg`, 60,000 states)

*Queue.* Five messages in two channels brought by two bots; a user's private chats with
two Telegram bots carry the same chat id, so two bots share a channel. Four messages of
one channel: one at work, one waiting, one that takes its place, and one that slips in
before the callback runs. `ChannelsExact`: a channel that is locked, or has a message
waiting, has a message at work whose end will free it, and a reply stays in its channel.
`EverySettles`: every message comes to an end.

*Connections and Discord.* Two bots, two adapters, a message each and one restart; one
Discord link with resumes, invalid sessions and timers. `AdaptersExact`: an adapter that
polls is one the manager knows, Telegram is told of an update only when it has been
handled and no adapter handles it twice, and a Discord adapter that is stopped has no
heartbeat left. `EveryUpdateHandled`: what is sent to a bot that keeps its adapter is
handled, however polls fail. `LinkComesBack`: an adapter that is not stopped is ready
again after every break, unless Discord refuses its token. The conditions on
`overlapped` and `crossed` name what the code does not hold: section 6.

### Gateway (`Gateway.cfg`, 540,000 states)

Two clients, which may come, be turned away or refused, authenticate more than once or
fail to, and go; two calls, one of which asks a client and one Telegram, each of a tool
that a skill allows while it is on or of one the deny list names; a shutdown. Two
clients give an older and a newer authentication in either order, and one that goes
while the other is asked. `ListsExact`: an approval is awaited exactly as long as it has
an entry, the entry names a client that can still answer or go, an open socket is on the
list of connections and a closed one is not. `RunsArePermitted`: nothing runs without
the policy's leave or a person's, and nothing the deny list names; late answers, timers
and lost presses included. `EveryCallSettles`: every wait for a person ends, though
nobody answers.

### Services (`Services.cfg`, 200,000 states)

*Cron.* Two jobs, three executions at once, an edit, a run by hand, a restart; two
schedules, one of them sparse: one like "0 0 29 2 *", whose next date may lie beyond the two
years that `nextCronDate` searches, so that it answers null. `CronExact`: a job that nobody
ran by hand has at most one execution and is marked exactly while it has one; an enabled
job's next date is one of its schedule unless it was edited during an execution, and is
missing only when the schedule is sparse. `DueIsServed`: a due job is run, or rescheduled; a
job without a date is never due (section 6).

*MCP.* One server of the configuration and two of skills, one of whose names is the
prefix of the other's; three clients, one call, two toggles: a skill is disabled and
enabled again, or the reverse, so that a late exit meets a newer client. `McpExact`: nobody
waits for a child that has ended, no tool is listed whose client is not the one that would
be called, and a disabled skill leaves no child and no tool behind. The last is said of
servers that keep to the protocol: one that failed, that outlived the 3 s of its stop, or
that was toggled while the gateway was still starting its servers is `faulty`, and may
leave a child (section 6). `EveryToggleEnds`: however servers that were spawned behave, a
toggle ends and frees the skill's lock. A command that cannot be spawned ends the gateway,
and the toggle with it: the property allows for that (`~up`), the comments in the code deny
it (section 6).

*Sub-agents.* Five sub-agents, one of them below the depth cap, for two slots: three too
many, so that the FIFO holds more than one waiter. `GateExact`: the count is exact and
nobody waits while a slot is free. `ServedInOrder`: a newcomer never overtakes a waiter,
not even as a slot is handed over, and every waiter is served.

### Pages (`Pages.cfg`, 250,000 states)

*Chat.* Three sockets at once, an approval, a lost connection, a click, a message.
*Feed.* Four streams, three probes, two losses, a restart of the gateway, and one time in
which the page's token is refused (a lockout of its address, or the token's expiry).
*Projects.* Two
projects, two functions under way. *Set-up.* Two processes, a tab, a terminal with two
commands, an existing `.env` or none, a sandbox mode the schema knows and one it does not.

- `PageIsTrue`: the page says CONNECTED only while some socket is authenticated; a request
  the gateway waits for is on its way to the page or has its card, unless the user has
  answered it; a feed that is closed has a timer or an `onerror` call that will open another,
  however many of these overlap.
- `ChatRecovers`: after every loss, wrong token and double connection the page is connected
  and its input enabled.
- `FeedRecovers`: after every loss, restart and lockout the feed is live and stays so, or
  the page has gone to the login page, which a 401 during a lockout does to it even though
  its token is valid (section 6).
- `LoadingEnds`: "Loading..." does not stay, in whatever order answers come or fail.
- `NoOrphan`: a gateway in the background is the one the PID file names.
- `LaunchServes`: a launch from the wizard ends with a gateway on the wizard's port.

### Counterexamples

`TeamRunSameTeam.cfg`, `BudgetResume.cfg`, `AgentRunReload.cfg`,
`ChannelQueueParallel.cfg` and `AuditIntact.cfg` each check one property that a comment
or the documentation states and the code does not keep: section 6.

## 4. Fairness

Fairness is assumed only of what the process, the runtime and the browser do by themselves:

- the orchestrator's loop head and return, the loops of the task graph: plain code and
  continuations of settled promises;
- the end of a task, of a message's work, of a sub-agent's round, of a cron execution: an
  agent's run has a deadline, and every model call and tool a timeout;
- `RunNext`: Node runs its `setImmediate` callbacks;
- timers: those of approvals, the poll loop's back-off, the cron tick, the 3 s and the
  start time-out of an MCP server, the reconnect timers of the page and of Discord;
- answers to the page's requests and the events of its sockets and streams, each of which
  the browser reports in the end, as an answer or as an error;
- set-up: the steps of a launch that has begun, the start and the end of a process.

All of this is weak fairness. Strong fairness is assumed in two places, of the other
side: `Receive` of a Telegram adapter (Telegram answers some poll, however many fail; the
poll is not continuously enabled, because a failure puts the back-off between) and
`Hello`, `Ready` and the invalid-session answer of Discord (the link is not broken for
ever before they come). Without it nothing could be said of a network that never works.
In a composite run the conditions are restricted to the part that moves, so that a part
at rest does not make them unsatisfiable.

Nothing is assumed about arrivals, users, clicks, crashes, reloads, purges or edits, nor that
a lockout ends or that anybody logs in again. No
race inside the program is decided by fairness: a waiting sub-agent is started by the
end of another.


## 5. What is proved

Every invariant the passing runs check, and their action properties, are theorems: they hold
for any number of tasks, runs, loops, agents, rows, messages, connections, servers, sockets
and calls, any graphs, limits and widths. What is assumed of the constants are the `ASSUME`s
beside them, which TLC evaluates on every run, and, for team runs, two facts that each
theorem names. A bound (`MaxToggles`, `LastTick`, `MaxSent` ...) is a constant like the
others: of most of them no proof uses more than that it is a number.

Each component has the same argument: the property is not inductive by itself, an invariant
that adds what the code relies on is; the initial state has it, each action keeps it (one
lemma for each action that needs one), and it implies the property. What follows says for
each of them what had to be added, and why.

### Task graph and orchestrator (`TaskGraphProofs`, `OrchestratorProofs`)

`TaskGraphProofs` has the lemmas about the operators: what the skip rule leaves alone,
that its result is a fixpoint, that marking keeps the other tasks' statuses, that an
acyclic set of pending tasks has a member that waits for none of the others.

"A task runs only after its dependencies" is not inductive alone: the step that starts a
task looks at statuses, and the step that ends one looks at `running`. `IInv` adds that
`running` is exactly the tasks with that status, that skipping is exact at every state, and
what each phase has established about the graph. From it: `TypeCorrect`,
`DependenciesFirst`, `SkippingIsExact` and `OrderIsKept`, which is all of `OrderKept`;
`WidthIsBound`, `SuccessIsHonest`, `FailFastHalts`. `NoDeadlockBreak` takes the set of tasks
still pending when nothing runs: the graph is acyclic, so one of them waits for no other of
them; all its dependencies are terminal; none of them is broken, or skipping were not exact;
so it is ready. `ReturnsOnlySettled` follows for widths of one and more, and with it
`ReturnIsHonest`, all of `ReturnsHonestly`. `Refinement` shows that the initial state maps to
`DagContract`'s and each step to one of its steps or a stutter. That the width is kept
(`WidthIsBound`) and that failFast starts nothing more (`FailFastHalts`) have no run: they
are proved only.

*The loops.* `LoopsAreClosedForms` (`LoopsAgree`) is what makes the closed forms of
`TaskGraph` the code's. The induction over the graph, which the provers cannot do, is turned
into an invariant over the iterations. Of the search (`StackSound`, `VisitedSound`): a frame
of the stack waits for the one above it, and what it no longer has to look at is visited or
is that frame; what has been left depends only on what has been left, and has no circle. A
task met again on the stack then closes a circle of frames, and a search that ends without
one has left every task, so that the whole graph has none. Of the passes (`PassInv`): only
what the closed form skips has been skipped, so a pass that changes nothing has reached the
least closed set, and not a larger one.

### Runs, budget, skills (`AgentsProofs`)

*Runs.* A transcript is written back whole, so whether an ended run stays in it depends on
what the runs in flight have read. `RunsInv` adds that they have read every ended run of
their session that overlapped nobody (`HasRead`), that two runs in flight on one session are
known to overlap, that a run's session is its conversation's, and that row numbers only grow,
so that a row deleted under a run is never taken for the next. `RunsAreExact` is all of
`RunsExact`, `SuccessesAreStored` is `SuccessIsStored`.

*Budget.* "Usage is at most the limit plus one call of each loop" is not inductive: from a
state at the bound with a call in flight the record breaks it. `BudgetInv` counts each call
in flight as if it were already recorded with the largest use (`InFlightAccounted`); a call
is only let through below the limit, so it then fits, and recording it lowers the count by
what it adds. Its step needs that starting or ending a call changes the set of calls by one
element, which is where the loops must be finitely many. `OvershootIsBounded`,
`WarnIsHarmless` and `BudgetIsHeld`, all of `BudgetHolds`, follow.

*Skills.* The state file is written whole from a process's own copy, so a name that was
withdrawn stays away only if no copy brings it back. `SkillsInv` says that processes which
have not overlapped are alone (`Alone`), and that neither the file nor the registry nor what
has been read and not merged has a withdrawn name enabled (`Withheld`). `ConsentHolds` is
`Consent`.

### Messengers (`MessagingProofs`)

*Queue.* The end of a message's work hands its lock and adapter to whatever waits in its
channel's place, so `QueueInv` adds that a message waits in the place of its own channel
(`WaitsInItsPlace`) and that what was handed to `setImmediate` waits nowhere
(`ScheduledIsTaken`). `ChannelsAreExact` is all of `ChannelsExact`.

*Connections.* "No adapter handles an update twice" is about counts of what was handled and
adapters are many: `OffsetsAreHandled` bounds the count of an update by the number of
adapters whose offset is past it; an offset never falls, so each passes an update once. "An adapter that polls is
known" needs to follow a start from its beginning: while nobody touches the connection there
is one start, or one adapter with its row (`UntouchedIsExact`).

*Discord.* Timers outlive their sockets. `IntervalsAreHeld` says that, while no change of the
link crossed a first heartbeat, the intervals that tick are the one that is held, and only an
adapter that runs holds one: clearing it on `stop` then clears them all. `AdaptersAreExact`
is all of `AdaptersExact`, of the composition of both.

### Gateway (`GatewayProofs`)

That nothing runs unasked and that an approval has a client are not inductive alone: an
answer runs whatever call it finds an entry for, and a connection's end rejects what names
it. The invariant adds that entries belong to calls the policy put to a person
(`AskedFirst`) and that only sockets with handlers authenticate (`AuthedLive`). The capacity
needs that the list is finite. `ListsAreExact` is all of `ListsExact`,
`NothingRunsUnasked` is `RunsArePermitted`.

### Services (`ServicesProofs`)

*Semaphore.* `GateExact` is inductive as it stands: a slot is handed over only by who holds
one, and the FIFO holds exactly those who wait, each once, so that its head is somebody
without a slot. `GateIsExact`, `SlotsAreKept`, and `NobodyBarges`, the safety part of
`ServedInOrder`.

*Cron.* An execution ends by writing back a date of the schedule it began with;
`ExecutionsAreCurrent` says that this is still the row's unless the job was edited, and that
ids are not used again, so that the row it finds is the one it began with. A date may be
missing wherever one is computed, and is then of a sparse schedule. `CronIsExact` is
`CronExact`.

*MCP.* An exit clears the entries of its server's name, whoever has them, so what is listed
depends on which children are left. `ChildrenFollow` says that a skill whose server kept to
the protocol has at most one child that was not told to end, which is entered or still
starts, and that the one that was told is entered until its toggle is over; `ToolsFollow`
that its tools are known to the adapter that must remove them. The attempt to prove it for a
server that outlives its stop is how the observation on late exits in section 6 was met.
`McpIsExact` is `McpExact`.

### Records (`RecordsProofs`)

Lemmas about lists come first: what `RemoveAt` leaves and keeps distinct, and that a set of
numbers has a least, from the well-foundedness of `<`.

*Team runs*, under two assumptions that each theorem names: no two runs are of one team
(`TeamsDiffer`) and no run is resumed that is executing (`~ResumesLive`). The events of an
execution are heard by every execution of its team in its process; `TeamInv` says that there
is one such: a run that executes is recorded as running and occupies one slot.
`RowsAreTrue` is `RowsTellTheTruth`, `NoTaskIsRedone` is `NothingRedone` (no run checks it
apart: the contract says the same of the rows), for any graphs, processes, crashes and
resumes.

`RowsRefineContract` (`RowsImplementContract`) is the second refinement. `RowsInv` adds how
far rows and graphs agree: a task that runs is recorded as running, and what is recorded as
running, were it by a process that died, has all its dependencies recorded as done
(`BegunInOrder`); a task is skipped only behind a broken dependency. So nothing can be
recorded as running when a run is settled: that task would be skipped in the graph, hence
behind a task that is broken there and done in its row, where both must agree. It matters
because no code records a skipped task: a row left so would say "running" for good.

*Projects.* Finding no project and creating one are two steps. `OneCreator` says that at most
one run of the gateway is between them. `OneProjectEach` is `OneProjectPerProcess`.

*Audit log.* Verification recomputes every row from the ones before. While none of the three
causes is there, one process has the log open and holds the hash of the last row
(`OneHolder`), rows are in the order of their timestamps, so that the query's sorting changes
nothing (`InOrder`), and each continues its predecessor (`Chained`). `AlarmsHaveCauses` is
`FalseAlarmHasACause`.

*Webhooks.* The column, the history and the deliveries that got as far count one thing
(`CountersAgree`). `EveryRunIsCounted` is `RunsAreCounted`.

*Locks.* The bound is a counting argument over time (`CountsAreRecent`): an entry counts
every failure since its first; the clean-up drops it only when that first is two periods
old, and a lock that has run its time leaves nothing recent. So the failures of one period
are those of the present count and at most `MaxFailed - 1` from before it. `LockoutHolds` is
`AttemptsBounded`.

*Google credential.* A row removed quietly stays away because nothing that began before is
still to end (`GoneIsQuiet`). `RemovedRowsStay` is `RemovedStays`.

*Configuration.* A deletion by id takes one entry only because ids are distinct, which
`ConfigInv` adds of the file; that the lists of hand edits have distinct ids is the
assumption about `HandLists`. Each form is then shown to leave a list with distinct ids that
has a default if the list it read had one (`AsGood`), and a list that lacks one to have come
from a hand edit. `FileStaysSound` is `FileIsSound`.

*Daemon.* After the report of an install there is a unit the manager starts, until a command
reports something else (`InstallHolds`). `InstalledBoots` is `BootsAfterInstall`.

*Workspace.* The cap drops what has ended, so the invariant says of tasks that do not run
yet that they are listed as pending (`LiveIsListed`). An entry is one task's alone while
nobody shares its id, so sharing must be known from its beginning (`SharingIsNoted`), and an
event ends everything but a lead's rejected work (`OnlyLeadsReject`). `PanelFollows` is
`PanelIsTrue`, for any assignment of ids.

`RecordsAreSound` states the invariants of the run, `RecordTypes` among them, of the
composition.

### Pages and set-up (`PagesProofs`)

A socket, a stream or an answer may outlive what it belongs to. The chat's invariant adds
that an acceptance on its way is of a socket the gateway admitted (`AcceptedAreAdmitted`),
the feed's is inductive as it stands (an `onerror` call that closes `es` sets a timer, and a
timer that fires opens another stream), the project tab's that a
function's answer is about projects the store held when it began (`CallsAreStored`). For the
PID file it says who may still write it: a gateway started in the background finds all it
needs and never becomes a wizard (`BackgroundIsReady`), and a restart has removed the file it
found (`TerminalIsSound`). `PagesTellTheTruth` and `StopReachesIt` are `PageIsTrue` and
`NoOrphan`.

### Model-checked and not proved

- Liveness, which TLAPS cannot do under fairness: `Terminates`, `EverySettles`,
  `EveryUpdateHandled`, `LinkComesBack`, `EveryCallSettles`, `DueIsServed`,
  `EveryToggleEnds`, `ServedInOrder` (whose safety part is `NobodyBarges`), `ChatRecovers`,
  `FeedRecovers`, `LoadingEnds`, `LaunchServes`.
- The five counterexamples, which are behaviours of the instances they were found in.

## 6. Where the code and its documentation part

Five disagreements have a run that shows them (`findings` in `PROJECT.json`): two runs
of one team, the budget's resume command, a reload under a run in flight, two messages
of one channel at once, and an audit log that nobody touched and is reported tampered (a
row without a target is hashed with the field absent and verified with it null,
`security/audit-log.ts:138` and `:183`).

What follows are observations made while translating; the properties of section 3 are
stated so as to hold in spite of them. Paths are under `src/src/`.

Orchestration, teams and agents:

- A width of 0, which a client may send (`gateway/server.ts:925`), ends the loop of a
  valid graph at once with success and nothing done, against "Repeating until complete or
  a terminal failure occurs" (`orchestration/orchestrator.ts:8`): `ReturnsHonestly` has
  its condition for that. A negative width starts tasks: `slice(0, -1)` counts from
  the back (line 73, against line 19). failFast lets the rest of the wave finish (line 69,
  against line 21).
- Two runs of one session: the one that ends last overwrites the other's exchange
  (`agents/agent-runtime.ts:404`).
- Hard stops are not hard (`agents/agent-runtime.ts:243`): the bound is in `BudgetHolds`.
  Cost is recorded and never compared (`budget/budget-tracker.ts:111`). Under `pause` the
  current run is refused its next call, although line 7 says that it finishes.
- Nothing records a task as skipped (`roles/team-coordinator.ts:669`): rows of an ended
  run stay pending. A run that ends well by `resume` leaves its issue open, and `resume`
  counts the tasks done before it twice (lines 179 and 190).
- The cap of the task list is not kept when nothing on it has ended
  (`workspace/workspace-tracker.ts:12`).
- A lead's own task ids reach the bus as they are (`roles/team-coordinator.ts:425`; the
  prompt at line 304 suggests "t1"), so the creation of a task in one run replaces the entry
  of a running task of another run as pending (`workspace/workspace-tracker.ts:129`), and
  the end of either is written to both. A lead's planning or synthesis whose run rejects
  (`roles/team-coordinator.ts:308` and `:514`) leaves its entry running, and the lead on it.
- Projects: any touch makes a session's project current again; a switch to an archived project
  does not hold (`messaging/messaging-manager.ts:456`); the gateway's team handler closes
  the store before the summaries that run in the background have been written.

Messages and approvals:

- A waiting message is dropped when a later one arrives (`messaging/messaging-manager.ts:245`),
  and a waiting message runs with the adapter of the one before it (line 265).
- A button pressed before `sendMessage` has returned is lost, and its call is denied
  after five minutes (`messaging/telegram-adapter.ts:255`).
- A connection removed or disconnected while its start is awaited keeps a running
  adapter; after a stop the last batch is handled and not confirmed, so that Telegram
  sends it again.
- A connection that is refused for its address stays on the list of connections and
  takes one of `maxConnections` for good (`gateway/server.ts:634`).
- Nothing creates a manifest or an override, which the policy looks at first. A policy that
  changes while an approval is awaited is not looked at again: the call runs by the verdict
  it had.

Services:

- An MCP server whose command cannot be spawned ends the gateway. The handler of the child's
  'error' event emits 'error' on the client before it rejects the promise that `start`
  awaits (`mcp/mcp-client.ts:91`); the registry listens for 'stderr' and 'exit' only, so the
  emit throws inside the handler, and nothing catches what is thrown there. The comments say
  the contrary: "Wrap spawn errors into a promise so callers can catch them via try/catch.
  Without this, an unhandled EventEmitter 'error' event crashes Node" (lines 85 and 86) and
  "preventing Node from throwing on late error emissions" (lines 98 and 99), which is true
  of the child's event and not of the client's. `SpawnError` models it; `EveryToggleEnds`
  holds of a server that is spawned.
- A job on a schedule like "0 0 29 2 *" that runs on its date has no next one: the search
  gives up after two years (`dashboard/cron-scheduler.ts:62`, `:101`) and the null is stored
  (lines 133, 157, 178 and 184). The job stays enabled, is never due again, and nobody is
  told.
- A server that outlives the 3 s of its stop clears, when it exits at last, the entries of
  its name, which by then may be those of the client that a new toggle has started
  (`mcp/mcp-registry.ts:117`); that client's child then stays when the skill is disabled.
- A failed webhook run is answered 200 with `ok: true`; a sender's retry runs the agent
  again; all deliveries to an agent share one session.
- A skill approved at the command line is lost when a running gateway, whose registry is
  older, next writes the file: "approved and enabled. Restart gateway to apply."
  (`cli/index.ts:1011`) holds only if the gateway writes nothing first.

Security and records:

- The first failed try never locks an address, even at a limit of one; the clean-up drops
  locks that still hold, so the lock's duration is not exact; a socket that
  authenticated before its token was revoked stays.
- A credential's refresh that is in flight writes back a row that was removed or replaced meanwhile,
  though the dashboard said "Removed."; a token of the command line is paired with the
  stored project and e-mail.
- Processes that overlap fork the audit chain, and a clock set back breaks its order.
- A configuration file that does not parse reads as empty, and the next save writes
  that back. A form that is out of date saves a team with a role that is gone; renaming
  does not look whether the id is taken; an update cannot clear a value nor a default, so
  that two defaults are possible; the skills of the agent form are dropped. A list that was
  left without a default by hand keeps lacking one until a form makes one.

Pages and set-up:

- Feed: a lockout of the page's address answers 401 to a valid token as well (`dashboard/dashboard-server.ts:315`); the page then removes
  the token and goes to the login page (`dashboard/dashboard-html.ts:1919`).
- Chat: CONNECT while the back-off timer is set makes two sockets; a challenge is answered,
  and a failed authentication closes, whichever socket is the newest; the close of an old
  socket marks a live connection as lost; an error leaves the typing bubble; "approved" is
  shown though the answer could not be sent.
- Projects page: answers out of order show one project's detail while another is
  selected; a task's POST has no route and QUEUED is shown nevertheless.
- Set-up: the sandbox mode "none" is refused by the schema though the page says that the
  gateway runs; two tabs may launch at once and one gateway finds its port in use;
  `restart` waits 1.5 s only; the background start of `onboard` writes no PID file; the
  restarts of two terminals leave an orphan; an existing `.env` is overwritten, against
  "existing values will be preserved" (`cli/onboard.ts:245`).
- Daemon: uninstalling on Windows leaves the instance running; macOS reports a service
  that is merely loaded as running; a failed install may leave the task registered. On
  Windows only a task made from the XML is restarted after a failure (`cli/daemon.ts:177`);
  one made by the second or third way is not.

## 7. Not modelled, and what is left

Left out on purpose: text (prompts, summaries, page layout, scans), HTTP and the
providers, encryption, the compactor's cut, the model router, the response cache, memory
and traces, skill scores, the security scanners, the MCP server, the login page and the
built-in tools: each is a pure function, a request and its answer, or storage without a
protocol of its own. A scan's verdict and a model's answer are nondeterministic choices
where they are called. `TeamRun` leaves out the lead planner (no caller supplies one) and
a crash between the two statements that create a run and its tasks
(`roles/team-coordinator.ts:379`), after which a resume finds a run without tasks complete.

Left to do: abstract specifications of more components than the orchestrator and the team
runs, with proofs that the components implement them; the compactor's cut and the order of the policy's rules
as algorithms compared with what they should compute; manifests and overrides as soon as
something writes them.
