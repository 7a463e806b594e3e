----------------------------- MODULE TaskLogStream -----------------------------
(***************************************************************************)
(* The logs page of a task, TaskLogsPage, the sockets it opens one after   *)
(* another, and for each the handler of /logs/stream in ServiceRoutes with *)
(* the stream it asks Docker for.                                          *)
(*                                                                         *)
(* Every change of a filter closes the socket and opens another one, and   *)
(* so does the end of a pause.  A socket that closes emits no more         *)
(* messages.  The handler reads the settings and asks Docker before it can *)
(* stop anything, and looks afterwards whether the browser is still there. *)
(***************************************************************************)
EXTENDS Naturals, Sequences

CONSTANTS MaxSockets,  \* bound: sockets opened
          MaxChanges,  \* bound: changes of the filters
          NoSocket

ASSUME LogStreamAssumption ==
    /\ {MaxSockets, MaxChanges} \subseteq Nat
    /\ NoSocket \notin Nat

VARIABLES logPage,   \* state of the page; filters is a version of them
          sockets,   \* the sockets, by their number
          logShown   \* the version of the filters behind the lines shown

logVars == <<logPage, sockets, logShown>>

NewPage == [mounted |-> TRUE, configuration |-> "loading", paused |-> FALSE,
            connecting |-> FALSE, socket |-> NoSocket, filters |-> 0,
            lateConfiguration |-> FALSE]
(* The page's end, the filters it sent, and the handler's end: whether it   *)
(* saw the close, and where its message listener is.                        *)
NewSocket == [browser |-> "connecting", asked |-> NoSocket, closed |-> FALSE,
              handler |-> "waiting"]

LogInit == logPage = NewPage /\ sockets = <<>> /\ logShown = NoSocket
\* Where there is no such page.
LogIdle ==
    /\ logPage = [NewPage EXCEPT !.mounted = FALSE]
    /\ sockets = <<>> /\ logShown = NoSocket

------------------------------------------------------------------------------
(* The page. *)

ClosedInBrowser(i) ==
    IF i = NoSocket THEN sockets
    ELSE [sockets EXCEPT ![i].browser = IF @ = "closed" THEN @ ELSE "closing"]

\* closeSocket, and with `page` what else the page changes.
Closing(page) ==
    /\ logPage' = [page EXCEPT !.socket = NoSocket]
    /\ sockets' = ClosedInBrowser(logPage.socket)
    /\ UNCHANGED logShown

\* Defect: the old socket stays.
ReconnectedBeside(page) ==
    /\ sockets' = Append(sockets, NewSocket)
    /\ logPage' = [page EXCEPT !.connecting = TRUE,
                               !.socket = Len(sockets) + 1]
    /\ logShown' = NoSocket
\* reconnect: the old socket is closed, the terminal cleared.
Reconnected(page) ==
    /\ sockets' = Append(ClosedInBrowser(logPage.socket), NewSocket)
    /\ logPage' = [page EXCEPT !.connecting = TRUE,
                               !.socket = Len(sockets) + 1]
    /\ logShown' = NoSocket
Reconnect(page) ==
    IF page.paused \/ page.configuration # "ready"
    THEN logPage' = page /\ UNCHANGED <<sockets, logShown>>
    ELSE Len(sockets) < MaxSockets /\ Reconnected(page)

\* The limit of lines is read; onMounted goes on even if the page was left.
ConfigurationRead ==
    /\ logPage.configuration = "loading"
    /\ Reconnect([logPage EXCEPT !.configuration = "ready",
                                 !.lateConfiguration = ~logPage.mounted])
ConfigurationFails ==
    /\ logPage.configuration = "loading"
    /\ logPage' = [logPage EXCEPT !.configuration = "failed"]
    /\ UNCHANGED <<sockets, logShown>>

\* The user changes a filter, the number of lines or the timestamps.
ChangeFilters ==
    /\ logPage.mounted /\ logPage.filters < MaxChanges
    /\ Reconnect([logPage EXCEPT !.filters = @ + 1])

TogglePause ==
    /\ logPage.mounted
    /\ IF logPage.paused THEN Reconnect([logPage EXCEPT !.paused = FALSE])
       ELSE Closing([logPage EXCEPT !.paused = TRUE])

\* Defect: a page that is left keeps its socket.
LeftOpen ==
    /\ logPage' = [logPage EXCEPT !.mounted = FALSE]
    /\ UNCHANGED <<sockets, logShown>>
Left == Closing([logPage EXCEPT !.mounted = FALSE])
LeavePage == logPage.mounted /\ Left

\* open: the filters of this moment are sent.
SocketOpens(i) ==
    /\ sockets[i].browser = "connecting"
    /\ sockets' = [sockets EXCEPT ![i].browser = "open",
                                  ![i].asked = logPage.filters]
    /\ logPage' = [logPage EXCEPT !.connecting = FALSE]
    /\ UNCHANGED logShown

\* close, also after an error.
SocketCloses(i) ==
    /\ sockets[i].browser # "closed"
    /\ sockets' = [sockets EXCEPT ![i].browser = "closed"]
    /\ logPage' = IF logPage.socket = i
                  THEN [logPage EXCEPT !.connecting = FALSE, !.socket = NoSocket]
                  ELSE logPage
    /\ UNCHANGED logShown

------------------------------------------------------------------------------
(* The handler. *)

\* The first message starts the stream, others are ignored.
MessageArrives(i) ==
    /\ sockets[i].asked # NoSocket /\ ~sockets[i].closed
    /\ sockets[i].handler = "waiting"
    /\ sockets' = [sockets EXCEPT ![i].handler = "starting"]
    /\ UNCHANGED <<logPage, logShown>>

\* Defect: nobody looks whether the browser is still there.
StoppedIfLeftNever(i) == FALSE
\* if (closed) stopStreaming()
StoppedIfLeft(i) == sockets[i].closed

\* Settings and Docker have answered.
StreamStarts(i) ==
    /\ sockets[i].handler = "starting"
    /\ sockets' = [sockets EXCEPT ![i].handler =
                      IF StoppedIfLeft(i) THEN "over" ELSE "following"]
    /\ UNCHANGED <<logPage, logShown>>

\* socket.close() of the handler: the browser is told.
ServerEnds(i) ==
    /\ sockets' = [sockets EXCEPT
          ![i].handler = "over",
          ![i].browser = IF @ = "open" THEN "closing" ELSE @]
    /\ UNCHANGED <<logPage, logShown>>
\* The settings, the filters or Docker fail; or the log is not followed, as
\* that of a container that is gone, and comes whole.
StreamFails(i) == sockets[i].handler = "starting" /\ ServerEnds(i)
StreamEnds(i) == sockets[i].handler = "following" /\ ServerEnds(i)

\* The handler's close listener.
HandlerSeesClose(i) ==
    /\ sockets[i].browser \in {"closing", "closed"} /\ ~sockets[i].closed
    /\ sockets' = [sockets EXCEPT
          ![i].closed = TRUE,
          ![i].handler = IF @ = "following" THEN "over" ELSE @]
    /\ UNCHANGED <<logPage, logShown>>

\* A line that matches the filters reaches the terminal of the page.
LineArrives(i) ==
    /\ sockets[i].handler = "following" /\ sockets[i].browser = "open"
    /\ logShown' = sockets[i].asked
    /\ UNCHANGED <<logPage, sockets>>

LogNext ==
    \/ ConfigurationRead \/ ConfigurationFails
    \/ ChangeFilters \/ TogglePause \/ LeavePage
    \/ \E i \in DOMAIN sockets :
          \/ SocketOpens(i) \/ SocketCloses(i)
          \/ MessageArrives(i) \/ StreamStarts(i)
          \/ StreamFails(i) \/ StreamEnds(i)
          \/ HandlerSeesClose(i) \/ LineArrives(i)

------------------------------------------------------------------------------
LogTypeOK ==
    /\ logPage \in [mounted : BOOLEAN, paused : BOOLEAN, connecting : BOOLEAN,
                    configuration : {"loading", "ready", "failed"},
                    socket : 1..MaxSockets \cup {NoSocket},
                    filters : 0..MaxChanges, lateConfiguration : BOOLEAN]
    /\ \A i \in DOMAIN sockets :
          sockets[i] \in [browser : {"connecting", "open", "closing", "closed"},
                          asked : 0..MaxChanges \cup {NoSocket},
                          closed : BOOLEAN,
                          handler : {"waiting", "starting", "following", "over"}]
    /\ logShown \in 0..MaxChanges \cup {NoSocket}

\* The lines shown are of the filters shown, unless the user paused; sockets
\* come and go meanwhile, and none but the last one may write.
LogsFollowTheFilters ==
    /\ logShown # NoSocket /\ ~logPage.paused => logShown = logPage.filters
    /\ \A i \in DOMAIN sockets : sockets[i].browser = "open" =>
          i = logPage.socket /\ sockets[i].asked = logPage.filters

\* Docker follows a log only for a handler whose browser is not known to be
\* gone; and a page that was left has no socket, unless its limit of lines
\* came only afterwards.
NoLogIsFollowedForNobody ==
    /\ \A i \in DOMAIN sockets : sockets[i].handler = "following" =>
          ~sockets[i].closed
    /\ ~logPage.mounted /\ ~logPage.lateConfiguration =>
          \A i \in DOMAIN sockets : sockets[i].browser \in {"closing", "closed"}

\* The page, once left, opens no socket and shows nothing new, though the ends
\* of its sockets are still reported; unless its limit of lines comes only
\* afterwards, for onMounted then connects.
LeftLogRests ==
    ~logPage.mounted /\ ~logPage'.lateConfiguration =>
        /\ logPage' = [logPage EXCEPT !.configuration = logPage'.configuration]
        /\ Len(sockets') = Len(sockets)
        /\ logShown' = logShown
==============================================================================
