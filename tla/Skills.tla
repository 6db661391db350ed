------------------------------- MODULE Skills -------------------------------
(***************************************************************************)
(* The skills on disk, the one state file, and the processes that load the *)
(* former and rewrite the latter whole (src/skills/skill-registry.ts): the *)
(* gateway, which stays up, and the skill commands, one process each,      *)
(* which may hold their copy across a model's answer.                      *)
(*                                                                         *)
(* The processes do not read the same directories: `skill list`, `enable`, *)
(* `disable`, `info`, `improve` and the gateway leave out                  *)
(* skills/generated, and a process forgets the state of every skill that   *)
(* it does not find.  Definitions are file identities; metrics, prompts    *)
(* and tags only decide checks, which are nondeterministic here.           *)
(***************************************************************************)
EXTENDS Integers, FiniteSets, Functions

CONSTANTS
  Cli, Gateway,  \* the processes: slots for commands, and the gateway
  Files,         \* skill files that may exist
  NameOf,        \* definition.name of a file
  DirOf,         \* "own", "generated" or "pkg"
  BaseOf,        \* the file's base name
  Names,         \* skill names
  Installed,     \* the files a person has put there
  MaxCommands,   \* bound: commands issued
  MaxKills,      \* bound: processes killed
  None           \* no entry

ASSUME SkillsAssumption ==
  /\ Gateway \notin Cli
  /\ NameOf \in [Files -> Names]
  /\ DirOf \in [Files -> {"own", "generated", "pkg"}]
  /\ Installed \subseteq {f \in Files : DirOf[f] # "generated"}
  /\ MaxCommands \in Nat /\ MaxKills \in Nat

Procs == Cli \cup {Gateway}

\* The commands, by the directories their process reads, and in what order.
ShortDirs == [own |-> 1, generated |-> 0, pkg |-> 2]
LongDirs  == [own |-> 1, generated |-> 2, pkg |-> 3]
LongCommands ==
  {"review", "approve", "reject", "archive", "import", "synthesize", "merge"}
DirsOf(cmd) == IF cmd \in LongCommands THEN LongDirs ELSE ShortDirs

VARIABLES
  overlap,   \* whether processes run at the same time, fixed at the start
  disk,      \* the skill files that exist
  saved,     \* the state file: name -> state, or None
  phase,     \* "off", "loading", "ready" or "asking", per process
  job,       \* the command of a process, and the name it is about
  snap,      \* what loadState() returned
  mem,       \* the registry's map: name -> definition and state
  allow,     \* the names whose tools the gateway's policy allows
  asked,     \* history: names a person has enabled or approved
  withdrawn, \* history: names whose last decision was against them
  commands, kills

history == <<asked, withdrawn>>
skillVars == <<overlap, disk, saved, phase, job, snap, mem, allow, history, commands, kills>>

State == [enabled : BOOLEAN, pending : BOOLEAN]
Entry == [file : Files, enabled : BOOLEAN, pending : BOOLEAN]
NoJob == [cmd |-> "none", on |-> None]

StateOf(entry) ==
  IF entry = None THEN None ELSE [enabled |-> entry.enabled, pending |-> entry.pending]

Empty == [n \in Names |-> None]
Enabled(map) == {n \in Names : map[n] # None /\ map[n].enabled}

----------------------------------------------------------------------------
(* The registry *)

\* saveState(): the file is this process's map and nothing else.
SaveState(map) == saved' = [n \in Names |-> StateOf(map[n])]

\* The files a loader finds: the first of those with the same base name.
FoundFiles(order) ==
  {f \in disk : /\ order[DirOf[f]] > 0
                /\ \A g \in disk : /\ BaseOf[g] = BaseOf[f]
                                   /\ order[DirOf[g]] > 0
                                   => order[DirOf[f]] <= order[DirOf[g]]}

\* Of several files with one skill name the one read last stays in the map; within
\* a directory the order is the file system's.
LastFound(order, n) ==
  LET of == {f \in FoundFiles(order) : NameOf[f] = n}
  IN {f \in of : \A g \in of : order[DirOf[g]] <= order[DirOf[f]]}

\* What loadAll() may return: for each name the file that stays.
Loads(order) ==
  LET last == [n \in Names |-> LastFound(order, n)]
  IN {load \in [Names -> UNION Range(last) \cup {None}] :
        \A n \in Names : IF last[n] = {} THEN load[n] = None ELSE load[n] \in last[n]}

\* Mutant of Merged: a skill that is new to the state file starts enabled.
MergedEnabled(load, states) ==
  [n \in Names |->
     IF load[n] = None THEN None
     ELSE [file |-> load[n],
           enabled |-> states[n] = None \/ states[n].enabled,
           pending |-> states[n] # None /\ states[n].pending]]

\* The files found with the state read before: new skills start disabled.
Merged(load, states) ==
  [n \in Names |->
     IF load[n] = None THEN None
     ELSE [file |-> load[n],
           enabled |-> states[n] # None /\ states[n].enabled,
           pending |-> states[n] # None /\ states[n].pending]]

\* registerGenerated(): whatever had the name is replaced, disabled and pending.
Registered(map, f) ==
  [map EXCEPT ![NameOf[f]] = [file |-> f, enabled |-> FALSE, pending |-> TRUE]]

\* enable() and disable(): a pending approval is neither looked at nor ended.
Switched(map, n, on) == [map EXCEPT ![n].enabled = on]

\* approve(), reject() and archive(), which leave the file where it is.
Decided(map, n, how) ==
  IF how = "archive" THEN [map EXCEPT ![n] = None]
  ELSE [map EXCEPT ![n].enabled = (how = "approve"), ![n].pending = FALSE]

RecordState(n, how) ==
  IF how \in {"enable", "approve"}
    THEN /\ asked' = asked \cup {n}
         /\ withdrawn' = withdrawn \ {n}
    ELSE /\ withdrawn' = withdrawn \cup {n}
         /\ UNCHANGED asked

----------------------------------------------------------------------------
(* Actions *)

SkillsInit ==
  /\ overlap \in BOOLEAN
  /\ disk = Installed
  /\ saved = Empty
  /\ phase = [p \in Procs |-> "off"]
  /\ job = [p \in Procs |-> NoJob]
  /\ snap = [p \in Procs |-> Empty]
  /\ mem = [p \in Procs |-> Empty]
  /\ allow = {}
  /\ asked = {} /\ withdrawn = {}
  /\ commands = 0 /\ kills = 0

MayStart(p) ==
  /\ phase[p] = "off"
  /\ overlap \/ \A q \in Procs : phase[q] = "off"

\* A process starts: the first thing init() does is to read the state file.
BootWith(p, cmd, n) ==
  /\ MayStart(p)
  /\ phase' = [phase EXCEPT ![p] = "loading"]
  /\ job' = [job EXCEPT ![p] = [cmd |-> cmd, on |-> n]]
  /\ snap' = [snap EXCEPT ![p] = saved]
  /\ UNCHANGED <<overlap, disk, saved, mem, allow, history, kills>>

\* A skill command, one process each.
Command(p) ==
  /\ commands < MaxCommands
  /\ commands' = commands + 1
  /\ \/ \E cmd \in {"enable", "disable", "approve", "reject", "archive"}, n \in Names :
          BootWith(p, cmd, n)
     \/ \E cmd \in {"look", "review", "improve", "synthesize", "merge", "import"} :
          BootWith(p, cmd, None)

GatewayStart == BootWith(Gateway, "serve", None) /\ UNCHANGED commands

\* init() goes on with the files it found, and writes what it now holds.  The
\* gateway applies the state to the policy at once.
Load(p) ==
  /\ phase[p] = "loading"
  /\ phase' = [phase EXCEPT ![p] = "ready"]
  /\ \E load \in Loads(DirsOf(job[p].cmd)) :
       LET map == Merged(load, snap[p])
       IN /\ mem' = [mem EXCEPT ![p] = map]
          /\ SaveState(map)
          /\ allow' = IF p = Gateway THEN Enabled(map) ELSE allow
  /\ snap' = [snap EXCEPT ![p] = Empty]
  /\ UNCHANGED <<overlap, disk, job, history, commands, kills>>

\* The process of a command ends; what it held is gone.
Ends(p) ==
  /\ phase' = [phase EXCEPT ![p] = "off"]
  /\ job' = [job EXCEPT ![p] = NoJob]
  /\ snap' = [snap EXCEPT ![p] = Empty]
  /\ mem' = [mem EXCEPT ![p] = Empty]

\* list, info and merge-candidates: they only look.
Look(p) ==
  /\ phase[p] = "ready" /\ job[p].cmd = "look"
  /\ Ends(p)
  /\ UNCHANGED <<overlap, disk, saved, allow, history, commands, kills>>

\* list-generated, review, export and eval, with the generated skills.
Review(p) ==
  /\ phase[p] = "ready" /\ job[p].cmd = "review"
  /\ Ends(p)
  /\ UNCHANGED <<overlap, disk, saved, allow, history, commands, kills>>

\* skill scope: the definition in memory is changed and "persisted" by writing the
\* state file, where definitions are not.
Scope(p) ==
  /\ phase[p] = "ready" /\ job[p].cmd = "review"
  /\ \E n \in Names : mem[p][n] # None
  /\ SaveState(mem[p])
  /\ Ends(p)
  /\ UNCHANGED <<overlap, disk, allow, history, commands, kills>>

\* A name that the command's directories do not have.
NotFound(p) ==
  /\ phase[p] = "ready" /\ job[p].on # None
  /\ mem[p][job[p].on] = None
  /\ Ends(p)
  /\ UNCHANGED <<overlap, disk, saved, allow, history, commands, kills>>

\* skill enable and skill disable.
Switch(p) ==
  LET n == job[p].on
      on == job[p].cmd = "enable"
  IN /\ phase[p] = "ready" /\ job[p].cmd \in {"enable", "disable"}
     /\ mem[p][n] # None
     /\ SaveState(Switched(mem[p], n, on))
     /\ RecordState(n, job[p].cmd)
     /\ Ends(p)
     /\ UNCHANGED <<overlap, disk, allow, commands, kills>>

\* skill approve, skill reject and skill archive.
Decide(p) ==
  LET n == job[p].on
  IN /\ phase[p] = "ready" /\ job[p].cmd \in {"approve", "reject", "archive"}
     /\ mem[p][n] # None
     /\ SaveState(Decided(mem[p], n, job[p].cmd))
     /\ RecordState(n, job[p].cmd)
     /\ Ends(p)
     /\ UNCHANGED <<overlap, disk, allow, commands, kills>>

\* A generated definition is written and then registered.
Propose(f) ==
  /\ DirOf[f] = "generated"
  /\ disk' = disk \cup {f}
  /\ UNCHANGED <<asked, withdrawn>>

\* skill import: the bundle is refused (format, checksum, schema, conflict), or is
\* written and registered as a proposal.  A bundle whose provenance is not "generated" is refused by registerGenerated
\* after its file has been written.
Import(p) ==
  /\ phase[p] = "ready" /\ job[p].cmd = "import"
  /\ \E f \in Files :
       \/ Propose(f) /\ SaveState(Registered(mem[p], f))
       \/ /\ DirOf[f] = "generated"
          /\ disk' \in {disk, disk \cup {f}}
          /\ UNCHANGED <<saved, history>>
  /\ Ends(p)
  /\ UNCHANGED <<overlap, allow, commands, kills>>

\* Waiting for a model's answer, or ending before the question is asked.
Asks(p) ==
  /\ \/ phase' = [phase EXCEPT ![p] = "asking"] /\ UNCHANGED <<job, snap, mem>>
     \/ Ends(p)
  /\ UNCHANGED <<overlap, disk, saved, allow, history, commands, kills>>

\* synthesize: the rate limit, the traces and the budget decide.
AskSynthesize(p) == phase[p] = "ready" /\ job[p].cmd = "synthesize" /\ Asks(p)

\* improve: without a skill that is enabled there is no candidate.
AskImprove(p) ==
  /\ phase[p] = "ready" /\ job[p].cmd = "improve"
  /\ IF Enabled(mem[p]) # {} THEN Asks(p)
     ELSE Ends(p) /\ UNCHANGED <<overlap, disk, saved, allow, history, commands, kills>>

\* merge: both of its skills are there, and do not both bring a server.
AskMerge(p) ==
  /\ phase[p] = "ready" /\ job[p].cmd = "merge"
  /\ IF \E n \in Names : mem[p][n] # None THEN Asks(p)
     ELSE Ends(p) /\ UNCHANGED <<overlap, disk, saved, allow, history, commands, kills>>

\* The model fails, or its answer fails a check or is a duplicate.
Discard(p) ==
  /\ phase[p] = "asking"
  /\ Ends(p)
  /\ UNCHANGED <<overlap, disk, saved, allow, history, commands, kills>>

\* The answer to synthesize becomes a proposal.
AnswerSynthesize(p) ==
  /\ phase[p] = "asking" /\ job[p].cmd = "synthesize"
  /\ \E f \in Files : Propose(f) /\ SaveState(Registered(mem[p], f))
  /\ Ends(p)
  /\ UNCHANGED <<overlap, allow, commands, kills>>

\* improve: the revision is proposed, under the name of the skill in use; then the
\* next candidate or the end.
AnswerImprove(p) ==
  /\ phase[p] = "asking" /\ job[p].cmd = "improve"
  /\ \E f \in Files :
       /\ Propose(f)
       /\ SaveState(Registered(mem[p], f))
       /\ \/ Ends(p)
          \/ /\ mem' = [mem EXCEPT ![p] = Registered(mem[p], f)]
             /\ UNCHANGED <<phase, job, snap>>
  /\ UNCHANGED <<overlap, allow, commands, kills>>

\* merge also archives its sources when it is told to: at once, not on approval.
AnswerMerge(p) ==
  /\ phase[p] = "asking" /\ job[p].cmd = "merge"
  /\ \E f \in Files, first, second \in Names, archived \in SUBSET Names :
       /\ DirOf[f] = "generated"
       /\ mem[p][first] # None /\ mem[p][second] # None
       /\ archived \in {{}, {first, second}}
       /\ disk' = disk \cup {f}
       /\ SaveState([n \in Names |->
            IF n \in archived THEN None ELSE Registered(mem[p], f)[n]])
       /\ withdrawn' = withdrawn \cup archived
  /\ UNCHANGED asked
  /\ Ends(p)
  /\ UNCHANGED <<overlap, allow, commands, kills>>

----------------------------------------------------------------------------
(* The gateway *)

\* runSkillToggle() up to the MCP servers, which are module McpServers'.
Toggle(n, on) ==
  /\ phase[Gateway] = "ready" /\ commands < MaxCommands
  /\ mem[Gateway][n] # None /\ mem[Gateway][n].enabled # on
  /\ LET map == Switched(mem[Gateway], n, on)
     IN /\ mem' = [mem EXCEPT ![Gateway] = map]
        /\ SaveState(map)
        /\ allow' = Enabled(map)
  /\ RecordState(n, IF on THEN "enable" ELSE "disable")
  /\ commands' = commands + 1
  /\ UNCHANGED <<overlap, disk, phase, job, snap, kills>>

\* The dashboard's approve, reject and archive: the policy is not told.
Route(n, how) ==
  /\ phase[Gateway] = "ready" /\ commands < MaxCommands
  /\ mem[Gateway][n] # None
  /\ LET map == Decided(mem[Gateway], n, how)
     IN mem' = [mem EXCEPT ![Gateway] = map] /\ SaveState(map)
  /\ RecordState(n, how)
  /\ commands' = commands + 1
  /\ UNCHANGED <<overlap, disk, phase, job, snap, allow, kills>>

\* recordUsage() after a run of an agent that uses an enabled skill: the counts are
\* left out, the write is not.
Usage ==
  /\ phase[Gateway] = "ready" /\ Enabled(mem[Gateway]) # {}
  /\ SaveState(mem[Gateway])
  /\ UNCHANGED <<overlap, disk, phase, job, snap, mem, allow, history, commands, kills>>

GatewayStop ==
  /\ phase[Gateway] = "ready"
  /\ Ends(Gateway)
  /\ allow' = {}
  /\ UNCHANGED <<overlap, disk, saved, history, commands, kills>>

\* A process is killed, perhaps in the middle of a write: a state file that does not
\* parse is read as empty.
Kill(p) ==
  /\ phase[p] # "off" /\ kills < MaxKills
  /\ kills' = kills + 1
  /\ saved' \in {saved, Empty}
  /\ allow' = IF p = Gateway THEN {} ELSE allow
  /\ Ends(p)
  /\ UNCHANGED <<overlap, disk, history, commands>>

GatewayStep ==
  \/ GatewayStart \/ Usage \/ GatewayStop
  \/ \E n \in Names, on \in BOOLEAN : Toggle(n, on)
  \/ \E n \in Names, how \in {"approve", "reject", "archive"} : Route(n, how)

CliStep(p) ==
  \/ Command(p) \/ Look(p) \/ Review(p) \/ Scope(p) \/ NotFound(p)
  \/ Switch(p) \/ Decide(p) \/ Import(p)
  \/ AskSynthesize(p) \/ AskImprove(p) \/ AskMerge(p) \/ Discard(p)
  \/ AnswerSynthesize(p) \/ AnswerImprove(p) \/ AnswerMerge(p)

SkillsNext ==
  \/ GatewayStep
  \/ \E p \in Cli : CliStep(p)
  \/ \E p \in Procs : Load(p) \/ Kill(p)

SkillsSpec == SkillsInit /\ [][SkillsNext]_skillVars

----------------------------------------------------------------------------
(* Properties *)

\* Every variable holds a value of its kind.
SkillsTypeOK ==
  /\ overlap \in BOOLEAN
  /\ disk \subseteq Files
  /\ saved \in [Names -> State \cup {None}]
  /\ phase \in [Procs -> {"off", "loading", "ready", "asking"}]
  /\ snap \in [Procs -> [Names -> State \cup {None}]]
  /\ mem \in [Procs -> [Names -> Entry \cup {None}]]
  /\ allow \in SUBSET Names
  /\ asked \in SUBSET Names /\ withdrawn \in SUBSET Names

\* What is enabled anywhere: in the file, in a process, in the gateway's policy.
InForce ==
  allow \cup Enabled(saved) \cup UNION {Enabled(mem[p]) \cup Enabled(snap[p]) : p \in Procs}

\* No skill comes into force under a name nobody has enabled or approved, whatever
\* models propose, bundles bring, and processes write over each other.
NeverUnasked == InForce \subseteq asked

\* While processes do not overlap, a skill that was disabled, rejected or archived
\* stays out of the registry's force until it is asked for again: forgetting its
\* state, finding its file again or proposing it anew do not bring it back.
WithdrawnStaysOut ==
  ~overlap => withdrawn \cap (Enabled(saved) \cup UNION {Enabled(mem[p]) : p \in Procs}) = {}

\* The parts together: what is in force was asked for, and not withdrawn since.
Consent == SkillsTypeOK /\ NeverUnasked /\ WithdrawnStaysOut

=============================================================================
