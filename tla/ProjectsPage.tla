---------------------------- MODULE ProjectsPage ----------------------------
(***************************************************************************)
(* The projects tab of the dashboard page (src/dashboard/dashboard-html.ts *)
(* from loadProjects to dispatchProjectTask) and what the routes of        *)
(* src/dashboard/project-routes.ts answer it.                              *)
(*                                                                         *)
(* Every click starts an asynchronous function of the page; several are    *)
(* under way at once, and the browser delivers their answers in any order. *)
(* A call is the record of where its function awaits: the roster, with the *)
(* list the server had, the detail of a project, or the dispatch.  Two     *)
(* calls that wait for the same answer are one here.                       *)
(*                                                                         *)
(* No route serves POST /projects/:id/tasks.  The request is answered with *)
(* an error, whose status dispatchProjectTask does not look at.            *)
(***************************************************************************)
EXTENDS Naturals, FiniteSets

CONSTANTS
  PageProjects,   \* projects the store may come to hold
  MaxCalls,       \* bound on functions under way in the page
  NoneSelected    \* not a project

ASSUME ProjectsPageAssumption ==
  /\ MaxCalls \in Nat
  /\ NoneSelected \notin PageProjects

VARIABLES
  stored,     \* projects the server holds
  listed,     \* projectsData
  selected,   \* selectedProjectId
  detail,     \* selectedProjectDetail: the project it is of
  roster,     \* "empty", "loading", "list", "error"
  header,     \* "empty", "loading", "detail", "error"
  bar,        \* is the dispatch bar displayed
  typed,      \* does the task field hold a text
  calls       \* functions of the page that await an answer

pageVars == <<stored, listed, selected, detail, roster, header, bar, typed, calls>>

RosterCall(ps) == [for |-> "roster", list |-> ps, id |-> NoneSelected]
DetailCall(p) == [for |-> "detail", list |-> {}, id |-> p]
DispatchCall(p) == [for |-> "dispatch", list |-> {}, id |-> p]

ProjectsPageInit ==
  /\ stored = {} /\ listed = {}
  /\ selected = NoneSelected /\ detail = NoneSelected
  /\ roster = "empty" /\ header = "empty"
  /\ bar = FALSE /\ typed = FALSE
  /\ calls = {}

\* selectProject(id), from a click or at the end of another function.  done is
\* the call that ends with it.
SelectAfter(p, done) ==
  /\ selected' = p
  /\ header' = "loading"
  /\ bar' = FALSE
  /\ calls' = (calls \ done) \cup {DetailCall(p)}
  /\ UNCHANGED <<stored, detail>>

\* A team run created a project on the server.
ProjectAppears ==
  /\ \E p \in PageProjects \ stored : stored' = stored \cup {p}
  /\ UNCHANGED <<listed, selected, detail, roster, header, bar, typed, calls>>

\* loadProjects(): the tab is opened, or the team filter changed.
LoadProjects ==
  /\ Cardinality(calls) < MaxCalls
  /\ roster' = "loading"
  /\ calls' = calls \cup {RosterCall(stored)}
  /\ UNCHANGED <<stored, listed, selected, detail, header, bar, typed>>

\* A click on a row of the roster.
SelectProject ==
  /\ Cardinality(calls) < MaxCalls
  /\ roster = "list"
  /\ \E p \in listed : SelectAfter(p, {})
  /\ UNCHANGED <<listed, roster, typed>>

\* The list is in; the selected project is shown again, else the first, else none.
RosterArrives(c) ==
  /\ c.for = "roster"
  /\ listed' = c.list
  /\ roster' = IF c.list = {} THEN "empty" ELSE "list"
  /\ \/ /\ selected \in c.list
        /\ SelectAfter(selected, {c})
     \/ /\ selected \notin c.list
        /\ \E p \in c.list : SelectAfter(p, {c})
     \/ /\ c.list = {}
        /\ selected' = NoneSelected
        /\ header' = "empty"
        /\ bar' = FALSE
        /\ calls' = calls \ {c}
        /\ UNCHANGED <<stored, detail>>
  /\ UNCHANGED typed

\* ... or could not be had.
RosterFails(c) ==
  /\ c.for = "roster"
  /\ roster' = "error"
  /\ calls' = calls \ {c}
  /\ UNCHANGED <<stored, listed, selected, detail, header, bar, typed>>

\* renderProjectDetail: whatever project was selected since.
DetailArrives(c) ==
  /\ c.for = "detail"
  /\ detail' = c.id
  /\ header' = "detail"
  /\ bar' = TRUE
  /\ calls' = calls \ {c}
  /\ UNCHANGED <<stored, listed, selected, roster, typed>>

\* Mutant of DetailFails: a request that rejects is not caught.
DetailUncaught(c) ==
  /\ c.for = "detail"
  /\ calls' = calls \ {c}
  /\ UNCHANGED <<stored, listed, selected, detail, roster, header, bar, typed>>

DetailFails(c) ==
  /\ c.for = "detail"
  /\ header' = "error"
  /\ calls' = calls \ {c}
  /\ UNCHANGED <<stored, listed, selected, detail, roster, bar, typed>>

\* A text is typed or a suggestion picked.
TypeTask ==
  /\ bar /\ ~ typed
  /\ typed' = TRUE
  /\ UNCHANGED <<stored, listed, selected, detail, roster, header, bar, calls>>

\* dispatchProjectTask: to the selected project, whichever one is displayed.
DispatchTask ==
  /\ Cardinality(calls) < MaxCalls
  /\ bar /\ typed /\ selected # NoneSelected
  /\ calls' = calls \cup {DispatchCall(selected)}
  /\ UNCHANGED <<stored, listed, selected, detail, roster, header, bar, typed>>

\* Any answer: QUEUED flashes, the field is emptied, the selected project shown.
DispatchAnswered(c) ==
  /\ c.for = "dispatch"
  /\ typed' = FALSE
  /\ IF selected = NoneSelected
     THEN calls' = calls \ {c} /\ UNCHANGED <<stored, selected, detail, header, bar>>
     ELSE SelectAfter(selected, {c})
  /\ UNCHANGED <<listed, roster>>

\* No answer: the same flash.
DispatchFails(c) ==
  /\ c.for = "dispatch"
  /\ typed' = FALSE
  /\ calls' = calls \ {c}
  /\ UNCHANGED <<stored, listed, selected, detail, roster, header, bar>>

CallEnds(c) ==
  \/ RosterArrives(c) \/ RosterFails(c)
  \/ DetailArrives(c) \/ DetailFails(c)
  \/ DispatchAnswered(c) \/ DispatchFails(c)

PossibleCalls ==
  {RosterCall(ps) : ps \in SUBSET PageProjects}
    \cup {DetailCall(p) : p \in PageProjects} \cup {DispatchCall(p) : p \in PageProjects}

ProjectsPageNext ==
  \/ ProjectAppears
  \/ LoadProjects
  \/ SelectProject
  \/ TypeTask
  \/ DispatchTask
  \/ \E c \in calls : \/ RosterArrives(c) \/ RosterFails(c)
                      \/ DetailArrives(c) \/ DetailFails(c)
                      \/ DispatchAnswered(c) \/ DispatchFails(c)

\* The browser ends every request, with an answer or an error.
ProjectsPageFairness ==
  \A c \in PossibleCalls : WF_pageVars(c \in calls /\ CallEnds(c))

ProjectsPageSpec == ProjectsPageInit /\ [][ProjectsPageNext]_pageVars /\ ProjectsPageFairness

----------------------------------------------------------------------------
(* Properties *)

\* The page shows what the store holds, and a selected project was listed once.
ProjectsPageTypeOK ==
  /\ listed \subseteq stored /\ stored \subseteq PageProjects
  /\ selected \in stored \cup {NoneSelected}
  /\ detail \in stored \cup {NoneSelected}
  /\ roster \in {"empty", "loading", "list", "error"}
  /\ header \in {"empty", "loading", "detail", "error"}
  /\ bar \in BOOLEAN /\ typed \in BOOLEAN
  /\ calls \subseteq PossibleCalls

\* "Loading..." does not stay in the header, whatever functions of the page are
\* under way, in whatever order they end and whether or not they are answered.
LoadingEnds == (header = "loading") ~> (header # "loading")
=============================================================================
