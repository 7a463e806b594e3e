------------------------------- MODULE TaskPages -------------------------------
(***************************************************************************)
(* Two pages about one task: TaskInspectPage and TaskStatisticsPage.  Both *)
(* number their requests, and an answer to any but the last is dropped, as *)
(* is every answer after the page was left.  The first reads the task and  *)
(* then the name of its service; the second polls.                         *)
(*                                                                         *)
(* Vue keeps a page when only the task of its address changes, and a       *)
(* request may be answered long after others that were sent later.         *)
(***************************************************************************)
EXTENDS Naturals, Sequences, SequencesExt

CONSTANTS Tasks,
          MaxRequests,  \* bound: requests of one page
          SampleLimit,  \* samples the statistics page keeps, 25
          NoTask

ASSUME TaskPagesAssumption ==
    /\ NoTask \notin Tasks
    /\ {MaxRequests, SampleLimit} \subseteq Nat \ {0}

VARIABLES inspectPage, statisticsPage,
          requests  \* requests the one page in use waits for

pageVars == <<inspectPage, statisticsPage, requests>>

(* requestSequence is the number of the last request.  What is shown is    *)
(* named by the task it is of; of the service, its identifier or its name. *)
NewInspect(task) ==
    [mounted |-> TRUE, task |-> task, requestSequence |-> 0, loading |-> FALSE,
     failed |-> FALSE, inspection |-> NoTask, serviceName |-> <<>>]
NewStatistics(task) ==
    [mounted |-> TRUE, task |-> task, requestSequence |-> 0, loading |-> FALSE,
     failed |-> FALSE, samples |-> <<>>, autoRefresh |-> TRUE,
     pollTimer |-> FALSE]

\* Where there is no such page.
NoInspect == [NewInspect(NoTask) EXCEPT !.mounted = FALSE]
NoStatistics == [NewStatistics(NoTask) EXCEPT !.mounted = FALSE]

\* What every load begins with.
Asked(page) == [page EXCEPT !.requestSequence = @ + 1,
                            !.loading = TRUE, !.failed = FALSE]
\* A request is told by its number, of the task it asks about, or of its
\* service once the task was answered.
Request(page, what) ==
    [nr |-> page.requestSequence, task |-> page.task, of |-> what]

\* Defect: an answer is shown whatever was asked since.
CurrentAlways(request, page) == TRUE
\* request === requestSequence
Current(request, page) == request.nr = page.requestSequence

------------------------------------------------------------------------------
(* TaskInspectPage. *)

LoadInspect(page) ==
    /\ page.requestSequence < MaxRequests
    /\ inspectPage' = Asked(page)
    /\ requests' = requests \cup {Request(inspectPage', "task")}
    /\ UNCHANGED statisticsPage

InspectInit ==
    /\ \E task \in Tasks :
          /\ inspectPage = Asked(NewInspect(task))
          /\ requests = {Request(Asked(NewInspect(task)), "task")}
    /\ statisticsPage = NoStatistics

\* The buttons are disabled while a request is under way.
RefreshInspect ==
    inspectPage.mounted /\ ~inspectPage.loading /\ LoadInspect(inspectPage)

\* The watch of the address.
OtherTaskInspect(task) ==
    /\ inspectPage.mounted /\ task # inspectPage.task
    /\ LoadInspect([inspectPage EXCEPT !.task = task, !.inspection = NoTask,
                                       !.serviceName = <<>>])

\* The request is over, with what it changed if it is the last one.
InspectAnswered(request, page, more) ==
    /\ requests' = (requests \ {request}) \cup more
    /\ inspectPage' = page
    /\ UNCHANGED statisticsPage

\* The task is read: next its service, if it has one.
TaskRead(request) ==
    /\ request.of = "task"
    /\ IF ~Current(request, inspectPage)
       THEN InspectAnswered(request, inspectPage, {})
       ELSE LET read == [inspectPage EXCEPT !.inspection = request.task,
                                            !.serviceName = <<"id", request.task>>]
            IN  \/ InspectAnswered(request, read,
                                   {[request EXCEPT !.of = "service"]})
                \/ InspectAnswered(request, [read EXCEPT !.serviceName = <<>>,
                                                         !.loading = FALSE], {})
\* It cannot be read, or it is another task.
TaskNotRead(request) ==
    /\ request.of = "task"
    /\ InspectAnswered(request,
          IF Current(request, inspectPage)
          THEN [inspectPage EXCEPT !.failed = TRUE, !.loading = FALSE]
          ELSE inspectPage, {})
\* The service is read, or is gone and its identifier stays.
ServiceRead(request, found) ==
    /\ request.of = "service"
    /\ InspectAnswered(request,
          IF Current(request, inspectPage)
          THEN [inspectPage EXCEPT !.loading = FALSE,
                   !.serviceName = IF found THEN <<"name", request.task>> ELSE @]
          ELSE inspectPage, {})

\* Defect: answers still count.
InspectLeftListening == [inspectPage EXCEPT !.mounted = FALSE]
InspectLeft == [inspectPage EXCEPT !.mounted = FALSE, !.requestSequence = @ + 1]
LeaveInspect ==
    /\ inspectPage.mounted
    /\ inspectPage' = InspectLeft
    /\ UNCHANGED <<statisticsPage, requests>>

InspectNext ==
    \/ RefreshInspect
    \/ \E task \in Tasks : OtherTaskInspect(task)
    \/ \E request \in requests :
          \/ TaskRead(request) \/ TaskNotRead(request)
          \/ \E found \in BOOLEAN : ServiceRead(request, found)
    \/ LeaveInspect

------------------------------------------------------------------------------
(* TaskStatisticsPage. *)

\* loadStatistics: stopPolling, then the request.
LoadStatistics(page) ==
    /\ page.requestSequence < MaxRequests
    /\ statisticsPage' = [Asked(page) EXCEPT !.pollTimer = FALSE]
    /\ requests' = requests \cup {Request(statisticsPage', "stats")}
    /\ UNCHANGED inspectPage

StatisticsInit ==
    /\ \E task \in Tasks :
          /\ statisticsPage = Asked(NewStatistics(task))
          /\ requests = {Request(Asked(NewStatistics(task)), "stats")}
    /\ inspectPage = NoInspect

RefreshStatistics ==
    /\ statisticsPage.mounted /\ ~statisticsPage.loading
    /\ LoadStatistics(statisticsPage)
PollTimerFires == statisticsPage.pollTimer /\ LoadStatistics(statisticsPage)
OtherTaskStatistics(task) ==
    /\ statisticsPage.mounted /\ task # statisticsPage.task
    /\ LoadStatistics([statisticsPage EXCEPT !.task = task, !.samples = <<>>])

\* restartPolling: the switch, or another interval.
RestartPolling(page) ==
    IF page.autoRefresh THEN LoadStatistics(page)
    ELSE /\ statisticsPage' = [page EXCEPT !.pollTimer = FALSE]
         /\ UNCHANGED <<inspectPage, requests>>
ToggleAutoRefresh ==
    /\ statisticsPage.mounted
    /\ RestartPolling([statisticsPage EXCEPT !.autoRefresh = ~@])
OtherInterval == statisticsPage.mounted /\ RestartPolling(statisticsPage)

\* Defect: a failure ends the polling.
PolledIfRead(page, ok) == [page EXCEPT !.pollTimer = ok /\ page.autoRefresh]
\* schedulePolling, however the request ended.
Polled(page, ok) == [page EXCEPT !.pollTimer = page.autoRefresh]

\* The statistics are read, with or without figures, or not.
StatisticsAnswered(request, samples, ok) ==
    /\ requests' = requests \ {request}
    /\ statisticsPage' =
          IF Current(request, statisticsPage)
          THEN Polled([statisticsPage EXCEPT !.loading = FALSE,
                          !.failed = ~ok, !.samples = samples], ok)
          ELSE statisticsPage
    /\ UNCHANGED inspectPage
\* Defect: all samples are kept.
AppendedAll(samples, sample) == Append(samples, sample)
\* appendStatisticsSample
Appended(samples, sample) ==
    LET all == Append(samples, sample) IN
    IF Len(all) > SampleLimit THEN Tail(all) ELSE all

LeaveStatistics ==
    /\ statisticsPage.mounted
    /\ statisticsPage' = [statisticsPage EXCEPT !.mounted = FALSE,
                             !.requestSequence = @ + 1, !.pollTimer = FALSE]
    /\ UNCHANGED <<inspectPage, requests>>

StatisticsNext ==
    \/ RefreshStatistics \/ PollTimerFires
    \/ \E task \in Tasks : OtherTaskStatistics(task)
    \/ ToggleAutoRefresh \/ OtherInterval
    \/ \E request \in requests :
          \/ StatisticsAnswered(request,
                Appended(statisticsPage.samples, request.task), TRUE)
          \/ \E ok \in BOOLEAN :
                StatisticsAnswered(request, statisticsPage.samples, ok)
    \/ LeaveStatistics

------------------------------------------------------------------------------
TaskPagesTypeOK ==
    /\ inspectPage.task \in Tasks \cup {NoTask}
    /\ inspectPage.inspection \in Tasks \cup {NoTask}
    /\ {inspectPage.loading, inspectPage.failed, statisticsPage.loading,
        statisticsPage.failed, statisticsPage.pollTimer} \subseteq BOOLEAN
    /\ statisticsPage.samples \in BoundedSeq(Tasks, SampleLimit)
    /\ requests \subseteq [nr : 1..MaxRequests, task : Tasks,
                           of : {"task", "service", "stats"}]

InFlight(page) == \E request \in requests : request.nr = page.requestSequence

\* Whatever order the answers come in, what is shown is of the task in the
\* address, and the page is busy exactly while it waits for it.
PagesShowTheirTask ==
    /\ inspectPage.inspection \in {NoTask, inspectPage.task}
    /\ inspectPage.serviceName \in {<<>>, <<"id", inspectPage.task>>,
                                    <<"name", inspectPage.task>>}
    /\ ToSet(statisticsPage.samples) \subseteq {statisticsPage.task}
    /\ inspectPage.mounted => (inspectPage.loading <=> InFlight(inspectPage))
    /\ statisticsPage.mounted =>
          (statisticsPage.loading <=> InFlight(statisticsPage))

\* A page that refreshes itself either waits for an answer or for its timer,
\* never for both and never for neither; one that does not has no timer.
PollingGoesOn ==
    IF statisticsPage.mounted /\ statisticsPage.autoRefresh
    THEN statisticsPage.pollTimer <=> ~statisticsPage.loading
    ELSE ~statisticsPage.pollTimer

\* Either of the two, once left, asks for nothing and shows nothing new,
\* whatever answers still come.
LeftPagesRest ==
    /\ ~inspectPage.mounted => UNCHANGED inspectPage
    /\ ~statisticsPage.mounted => UNCHANGED statisticsPage
==============================================================================
