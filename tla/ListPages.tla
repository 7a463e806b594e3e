------------------------------- MODULE ListPages -------------------------------
(***************************************************************************)
(* Two pages with a list whose rows open: ServicesPage, where a row shows  *)
(* the tasks of a service, and GitLabProjectsPage, where it shows the tags *)
(* of a project and the pipeline of a tag.  What a row shows is asked for  *)
(* when it is first opened, and again on request.                          *)
(*                                                                         *)
(* Requests are not numbered here: flags say what is under way, and the    *)
(* buttons shown say what else may be asked.  In the list of services the  *)
(* user selects some to restart or to remove.                              *)
(***************************************************************************)
EXTENDS Naturals, FiniteSets

CONSTANTS Rows,      \* services, or projects
          Tags,      \* tags of a project
          MaxLoads   \* bound: requests of a page

ASSUME ListPagesAssumption == IsFiniteSet(Rows) /\ MaxLoads \in Nat

VARIABLES servicesPage, projectsPage,
          loads,     \* requests under way
          loadCount  \* requests so far

listVars == <<servicesPage, projectsPage, loads, loadCount>>

Operations == {"restart", "remove"}

(* tasks: for each service the number of the request whose answer is shown, *)
(* 0 for none.  dialog, busy and results are of the operations restart and  *)
(* remove, the results the services they name.                              *)
NoServicesPage ==
    [open |-> FALSE, expanded |-> {}, tasks |-> [s \in Rows |-> 0],
     taskLoading |-> {}, nodeNames |-> FALSE, selected |-> {}, dialog |-> {},
     busy |-> {}, results |-> [o \in Operations |-> {}]]

\* tags and pipelines: those loaded; the rest: those with the flag or error.
NoProjectsPage ==
    [open |-> FALSE, expanded |-> {}, tags |-> {}, loadingTags |-> {},
     tagErrors |-> {}, selectedTag |-> {}, pipelines |-> {},
     loadingPipelines |-> {}, pipelineErrors |-> {}, overlapped |-> {}]

ServicesInit ==
    /\ servicesPage = [NoServicesPage EXCEPT !.open = TRUE]
    /\ projectsPage = NoProjectsPage /\ loads = {} /\ loadCount = 0
ProjectsInit ==
    /\ projectsPage = [NoProjectsPage EXCEPT !.open = TRUE]
    /\ servicesPage = NoServicesPage /\ loads = {} /\ loadCount = 0
ListsIdle ==
    /\ servicesPage = NoServicesPage /\ projectsPage = NoProjectsPage
    /\ loads = {} /\ loadCount = 0

\* A request of a page for a row or, of operations, for a set of rows.
Load(of, what) ==
    /\ loadCount < MaxLoads
    /\ loadCount' = loadCount + 1
    /\ loads' = loads \cup {[nr |-> loadCount', of |-> of, what |-> what]}
Loaded(load) == loads' = loads \ {load} /\ UNCHANGED loadCount
UnderWay(of, what) == {load \in loads : load.of = of /\ load.what = what}

------------------------------------------------------------------------------
(* ServicesPage. *)

\* reloadTasks
ReloadTasks(page, s) ==
    /\ servicesPage' = [page EXCEPT !.taskLoading = @ \cup {s}]
    /\ Load("tasks", s)

\* Defect: a row is asked for as long as nothing is shown.
NeedsTasksAlways(s) == servicesPage.tasks[s] = 0
\* Nothing is shown of the service and nothing under way.
NeedsTasks(s) == servicesPage.tasks[s] = 0 /\ s \notin servicesPage.taskLoading

ReloadIfNeeded(page, s) ==
    IF NeedsTasks(s) THEN ReloadTasks(page, s)
    ELSE servicesPage' = page /\ UNCHANGED <<loads, loadCount>>

\* toggleTasks
ToggleTasks(s) ==
    /\ servicesPage.dialog = {}
    /\ IF s \in servicesPage.expanded
       THEN /\ servicesPage' = [servicesPage EXCEPT !.expanded = @ \ {s}]
            /\ UNCHANGED <<loads, loadCount>>
       ELSE ReloadIfNeeded([servicesPage EXCEPT !.expanded = @ \cup {s}], s)
    /\ UNCHANGED projectsPage
\* The watch of the items: a filter left one service.
OnlyService(s) ==
    /\ ReloadIfNeeded([servicesPage EXCEPT !.expanded = {s}], s)
    /\ UNCHANGED projectsPage

\* The panel has its button while it shows tasks and loads none.
ReloadButton(s) ==
    /\ s \in servicesPage.expanded /\ servicesPage.tasks[s] # 0
    /\ s \notin servicesPage.taskLoading /\ servicesPage.dialog = {}
    /\ ReloadTasks(servicesPage, s)
    /\ UNCHANGED projectsPage

NotLoading(page, s) == [page EXCEPT !.taskLoading = @ \ {s}]
\* The tasks are there; the names of the nodes are read once.
TasksRead(load) ==
    /\ load.of = "tasks"
    /\ LET page == [servicesPage EXCEPT !.tasks[load.what] = load.nr] IN
       IF page.nodeNames
       THEN servicesPage' = NotLoading(page, load.what) /\ Loaded(load)
       ELSE /\ servicesPage' = page
            /\ loads' = (loads \ {load}) \cup {[load EXCEPT !.of = "nodes"]}
            /\ UNCHANGED loadCount
    /\ UNCHANGED projectsPage
TasksNotRead(load) ==
    /\ load.of = "tasks"
    /\ servicesPage' = NotLoading(servicesPage, load.what)
    /\ Loaded(load)
    /\ UNCHANGED projectsPage
\* loadNodeNames: a user may lack the permission.
NodesRead(load, ok) ==
    /\ load.of = "nodes"
    /\ servicesPage' = [NotLoading(servicesPage, load.what)
                          EXCEPT !.nodeNames = @ \/ ok]
    /\ Loaded(load)
    /\ UNCHANGED projectsPage

\* The check boxes, and the dialogs, which lie over the page.
Select(s) ==
    /\ servicesPage.dialog = {}
    /\ servicesPage' = [servicesPage EXCEPT !.selected =
          IF s \in @ THEN @ \ {s} ELSE @ \cup {s}]
    /\ UNCHANGED <<projectsPage, loads, loadCount>>
OpenDialog(o) ==
    /\ servicesPage.selected # {} /\ servicesPage.dialog = {}
    /\ servicesPage' = [servicesPage EXCEPT !.dialog = {o}]
    /\ UNCHANGED <<projectsPage, loads, loadCount>>
CancelDialog(o) ==
    /\ o \in servicesPage.dialog /\ o \notin servicesPage.busy
    /\ servicesPage' = [servicesPage EXCEPT !.dialog = {}]
    /\ UNCHANGED <<projectsPage, loads, loadCount>>

\* restartSelected, removeSelected
Submit(o) ==
    /\ o \in servicesPage.dialog /\ o \notin servicesPage.busy
    /\ servicesPage' = [servicesPage EXCEPT !.busy = @ \cup {o}]
    /\ Load(o, servicesPage.selected)
    /\ UNCHANGED projectsPage
Results(load) == load.what
\* Each service of the request has a result, its own or that of the failure.
Submitted(load) ==
    /\ load.of \in Operations
    /\ servicesPage' = [servicesPage EXCEPT
          !.results[load.of] = Results(load), !.busy = @ \ {load.of},
          !.dialog = @ \ {load.of}, !.selected = {}]
    /\ Loaded(load)
    /\ UNCHANGED projectsPage

ServicesNext ==
    \/ \E s \in Rows : ToggleTasks(s) \/ OnlyService(s) \/ ReloadButton(s)
                       \/ Select(s)
    \/ \E o \in Operations : OpenDialog(o) \/ CancelDialog(o) \/ Submit(o)
    \/ \E load \in loads :
          \/ TasksRead(load) \/ TasksNotRead(load)
          \/ \E ok \in BOOLEAN : NodesRead(load, ok)
          \/ Submitted(load)

------------------------------------------------------------------------------
(* GitLabProjectsPage. *)

\* loadTags
LoadTags(page, p) ==
    /\ projectsPage' = [page EXCEPT
          !.loadingTags = @ \cup {p}, !.tagErrors = @ \ {p},
          !.overlapped = IF UnderWay("tags", p) = {} THEN @ ELSE @ \cup {p}]
    /\ Load("tags", p)

\* toggleProject
ToggleProject(p) ==
    /\ IF p \in projectsPage.expanded
       THEN /\ projectsPage' = [projectsPage EXCEPT !.expanded = @ \ {p}]
            /\ UNCHANGED <<loads, loadCount>>
       ELSE LET page == [projectsPage EXCEPT !.expanded = @ \cup {p}] IN
            IF p \in page.tags
            THEN projectsPage' = page /\ UNCHANGED <<loads, loadCount>>
            ELSE LoadTags(page, p)
    /\ UNCHANGED servicesPage
\* The button beside the error.
RetryTags(p) ==
    /\ p \in projectsPage.expanded \cap projectsPage.tagErrors
    /\ LoadTags(projectsPage, p)
    /\ UNCHANGED servicesPage

TagsAnswered(load, ok) ==
    /\ load.of = "tags"
    /\ projectsPage' = [projectsPage EXCEPT
          !.tags = IF ok THEN @ \cup {load.what} ELSE @,
          !.tagErrors = IF ok THEN @ ELSE @ \cup {load.what},
          !.loadingTags = @ \ {load.what}]
    /\ Loaded(load)
    /\ UNCHANGED servicesPage

\* Defect: a tag is asked for each time it is chosen.
NeedsPipelineAlways(key) == key \notin projectsPage.pipelines
NeedsPipeline(key) ==
    key \notin projectsPage.pipelines \cup projectsPage.loadingPipelines

\* selectTag, of a tag that is shown, or of the retry beside its error.
SelectTag(p, tag) ==
    /\ p \in (projectsPage.expanded \cap projectsPage.tags)
             \ projectsPage.tagErrors
    /\ LET key == <<p, tag>>
           page == [projectsPage EXCEPT
                      !.selectedTag = {k \in @ : k[1] # p} \cup {key}]
       IN  IF ~NeedsPipeline(key)
           THEN projectsPage' = page /\ UNCHANGED <<loads, loadCount>>
           ELSE /\ projectsPage' = [page EXCEPT
                     !.loadingPipelines = @ \cup {key},
                     !.pipelineErrors = @ \ {key}]
                /\ Load("pipeline", key)
    /\ UNCHANGED servicesPage

PipelineAnswered(load, ok) ==
    /\ load.of = "pipeline"
    /\ projectsPage' = [projectsPage EXCEPT
          !.pipelines = IF ok THEN @ \cup {load.what} ELSE @,
          !.pipelineErrors = IF ok THEN @ ELSE @ \cup {load.what},
          !.loadingPipelines = @ \ {load.what}]
    /\ Loaded(load)
    /\ UNCHANGED servicesPage

ProjectsNext ==
    \/ \E p \in Rows : ToggleProject(p) \/ RetryTags(p)
    \/ \E p \in Rows, tag \in Tags : SelectTag(p, tag)
    \/ \E load \in loads, ok \in BOOLEAN :
          TagsAnswered(load, ok) \/ PipelineAnswered(load, ok)

------------------------------------------------------------------------------
ListPagesTypeOK ==
    /\ servicesPage.expanded \cup servicesPage.taskLoading
          \cup servicesPage.selected \subseteq Rows
    /\ servicesPage.tasks \in [Rows -> 0..MaxLoads]
    /\ servicesPage.busy \subseteq servicesPage.dialog
    /\ servicesPage.dialog \subseteq Operations
    /\ projectsPage.expanded \cup projectsPage.tags \cup projectsPage.loadingTags
          \cup projectsPage.tagErrors \subseteq Rows
    /\ projectsPage.selectedTag \cup projectsPage.pipelines
          \cup projectsPage.loadingPipelines
          \cup projectsPage.pipelineErrors \subseteq Rows \X Tags
    /\ loadCount \in 0..MaxLoads

\* Without numbers on the requests: nothing that is asked for a row can be
\* overtaken by an older answer, for only one request of its kind is under way,
\* the flag that shows it is true, and what was shown once stays: only the tags
\* of a project whose row was closed and opened during a load can be hidden
\* behind the failure of the other load.
RowsLoadOnce ==
    /\ \A s \in Rows :
          /\ Cardinality(UnderWay("tasks", s) \cup UnderWay("nodes", s)) <= 1
          /\ s \in servicesPage.taskLoading <=>
                UnderWay("tasks", s) \cup UnderWay("nodes", s) # {}
          /\ \A load \in UnderWay("tasks", s) : load.nr > servicesPage.tasks[s]
    /\ \A p \in Rows, tag \in Tags :
          LET key == <<p, tag>> IN
          /\ Cardinality(UnderWay("pipeline", key)) <= 1
          /\ key \in projectsPage.loadingPipelines <=>
                UnderWay("pipeline", key) # {}
          /\ key \notin projectsPage.pipelines \cap projectsPage.pipelineErrors
    /\ projectsPage.tags \cap projectsPage.tagErrors
          \subseteq projectsPage.overlapped

\* An operation is sent for exactly the services that are selected when its
\* results come, and never twice at a time.
SelectionIsWhatIsSent ==
    \A o \in Operations :
        LET sent == {load \in loads : load.of = o} IN
        /\ Cardinality(sent) <= 1
        /\ o \in servicesPage.busy <=> sent # {}
        /\ \A load \in sent : load.what = servicesPage.selected
==============================================================================
