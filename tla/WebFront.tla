-------------------------------- MODULE WebFront --------------------------------
(***************************************************************************)
(* The pages of the web front and the router between them.  A page keeps   *)
(* its state for itself and shares none with another one but what the      *)
(* manager stores, so one kind of them moves at a time, with whatever it   *)
(* has under way, while the others wait in a state they start in; the      *)
(* decoder is the manager's, of the logs that one of the pages shows.      *)
(***************************************************************************)
EXTENDS TaskLogDecoder, TaskLogStream, TaskPages, ListPages, TerminalPage,
        Navigation

VARIABLE kind      \* which page a behaviour is about

vars == <<kind, decoderVars, logVars, pageVars, listVars, terminalVars,
          navigationVars>>

PagesIdle == inspectPage = NoInspect /\ statisticsPage = NoStatistics
             /\ requests = {}

Init ==
    /\ kind \in {"decoder", "logs", "inspect", "statistics", "services",
                "projects", "terminal", "navigation"}
    /\ IF kind = "decoder" THEN DecoderInit ELSE DecoderIdle
    /\ IF kind = "logs" THEN LogInit ELSE LogIdle
    /\ IF kind = "inspect" THEN InspectInit
       ELSE IF kind = "statistics" THEN StatisticsInit ELSE PagesIdle
    /\ IF kind = "services" THEN ServicesInit
       ELSE IF kind = "projects" THEN ProjectsInit ELSE ListsIdle
    /\ TerminalPageInit /\ NavigationInit

Next ==
    /\ \/ /\ kind = "decoder" /\ DecoderNext
          /\ UNCHANGED <<logVars, pageVars, listVars, terminalVars, navigationVars>>
       \/ /\ kind = "logs" /\ LogNext
          /\ UNCHANGED <<decoderVars, pageVars, listVars, terminalVars, navigationVars>>
       \/ /\ \/ kind = "inspect" /\ InspectNext
             \/ kind = "statistics" /\ StatisticsNext
          /\ UNCHANGED <<decoderVars, logVars, listVars, terminalVars, navigationVars>>
       \/ /\ \/ kind = "services" /\ ServicesNext
             \/ kind = "projects" /\ ProjectsNext
          /\ UNCHANGED <<decoderVars, logVars, pageVars, terminalVars, navigationVars>>
       \/ /\ kind = "terminal" /\ TerminalPageNext
          /\ UNCHANGED <<decoderVars, logVars, pageVars, listVars, navigationVars>>
       \/ /\ kind = "navigation" /\ NavigationNext
          /\ UNCHANGED <<decoderVars, logVars, pageVars, listVars, terminalVars>>
    /\ UNCHANGED kind

Spec == Init /\ [][Next]_vars

------------------------------------------------------------------------------
TypeOK == /\ DecoderTypeOK /\ LogTypeOK /\ TaskPagesTypeOK /\ ListPagesTypeOK
          /\ TerminalPageTypeOK /\ NavigationTypeOK

\* What a page shows is what its user asks for at the moment: the lines of the
\* filters in force and of the log as it is, the figures of the task in the
\* address, the tasks and tags of the row, the results of what was selected,
\* in whatever order answers come.
ShowsWhatIsAsked ==
    /\ PagesShowTheirTask /\ LogsFollowTheFilters
    /\ RowsLoadOnce /\ SelectionIsWhatIsSent
    /\ LinesSurviveOtherCuts

\* And nothing goes on for a page that was left, or stops for one that stays:
\* log streams (but for a limit of lines that comes too late), timers, the one
\* socket of a terminal, the wait for its ticket.
NothingIsLeftBehind ==
    /\ NoLogIsFollowedForNobody /\ PollingGoesOn
    /\ OneTerminalSocket /\ ConnectingEnds

\* The pages that inspect a task, show its statistics or follow its log change
\* no more once they were left, whatever is still answered or closed, but for
\* a log's limit of lines that comes too late.
LeftPagesStay == [][LeftPagesRest /\ LeftLogRests]_vars
==============================================================================
