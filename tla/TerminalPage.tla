------------------------------ MODULE TerminalPage ------------------------------
(***************************************************************************)
(* The terminal in the browser: ServicesPage asks for a ticket and leaves  *)
(* it in the map of terminalTickets, and TaskTerminalPage takes it out,    *)
(* opens a socket with it, and after an end asks for another one when the  *)
(* user retries.  The other end of the socket is TerminalBridge, what a    *)
(* ticket is worth there TerminalTickets.                                  *)
(***************************************************************************)
EXTENDS Naturals, Sequences

CONSTANTS MaxTickets,  \* bound: tickets issued
          Nothing      \* no ticket, no socket
ASSUME TerminalPageAssumption == MaxTickets \in Nat /\ Nothing \notin Nat

VARIABLES terminalTickets,  \* the ticket kept for the task
          terminalPage,     \* state of the page of the task, when it is open
          ends,             \* the sockets of the page, by number
          asking,           \* who waits for a ticket; "leftPage" was "page"
          issued            \* tickets the manager issued

terminalVars == <<terminalTickets, terminalPage, ends, asking, issued>>

(* A ticket is the number of its issue.  `shell` once the page had a ticket; *)
(* opened: the terminal is drawn, its size and keys followed.               *)
NoPage == [mounted |-> FALSE, shell |-> FALSE, connecting |-> FALSE,
           error |-> FALSE, disposed |-> TRUE, opened |-> FALSE,
           socket |-> Nothing]
FreshPage == [NoPage EXCEPT !.mounted = TRUE, !.disposed = FALSE]

TerminalPageInit ==
    /\ terminalTickets = Nothing /\ terminalPage = NoPage /\ ends = <<>>
    /\ asking = {} /\ issued = 0

\* A socket in a state; "connecting", "open", "closing" and "closed".
EndClosing(i) ==
    IF i = Nothing THEN ends
    ELSE [ends EXCEPT ![i].state = IF @ = "closed" THEN @ ELSE "closing"]

\* connectTicket, on the sockets that are left by then.
Connected(page, sockets, ticket) ==
    /\ ends' = Append(sockets, [state |-> "connecting", ticket |-> ticket])
    /\ terminalPage' = [page EXCEPT !.connecting = TRUE, !.error = FALSE,
                                    !.socket = Len(sockets) + 1]

\* openTerminal of ServicesPage.
AskTerminal ==
    /\ ~terminalPage.mounted /\ "services" \notin asking
    /\ asking' = asking \cup {"services"}
    /\ UNCHANGED <<terminalTickets, terminalPage, ends, issued>>

\* consumeTerminalTicket, and connect.
Mounted(ticket) ==
    /\ terminalTickets' = Nothing
    /\ IF ticket = Nothing
       THEN /\ terminalPage' = [FreshPage EXCEPT !.error = TRUE]
            /\ UNCHANGED ends
       ELSE Connected([FreshPage EXCEPT !.shell = TRUE], ends, ticket)

\* rememberTerminalTicket, and the page opens; it may be open already.
TicketForServices ==
    /\ "services" \in asking /\ issued < MaxTickets
    /\ issued' = issued + 1
    /\ asking' = asking \ {"services"}
    /\ IF terminalPage.mounted
       THEN terminalTickets' = issued' /\ UNCHANGED <<terminalPage, ends>>
       ELSE Mounted(issued')
NoTicketForServices ==
    /\ "services" \in asking
    /\ asking' = asking \ {"services"}
    /\ UNCHANGED <<terminalTickets, terminalPage, ends, issued>>
\* The address is opened by hand, or again.
OpenAddress ==
    /\ ~terminalPage.mounted
    /\ Mounted(terminalTickets)
    /\ UNCHANGED <<asking, issued>>

\* if (!shell || connecting) return; the button stands beside an error.
MayRetry == terminalPage.shell /\ terminalPage.error /\ ~terminalPage.connecting
\* retry, up to its await.
Retry ==
    /\ terminalPage.mounted /\ MayRetry
    /\ ends' = EndClosing(terminalPage.socket)
    /\ terminalPage' = [terminalPage EXCEPT !.socket = Nothing, !.error = FALSE,
                                            !.connecting = TRUE]
    /\ asking' = asking \cup {"page"}
    /\ UNCHANGED <<terminalTickets, issued>>

\* Defect: a page that was left connects nevertheless.
HeededAlways(who) == TRUE
\* if (disposed) return: a page that was left heeds no answer.
Heeded(who) == who = "page"
\* The ticket comes.
TicketForPage(who) ==
    /\ who \in asking /\ issued < MaxTickets
    /\ asking' = asking \ {who}
    /\ issued' = issued + 1
    /\ IF Heeded(who)
       THEN Connected(terminalPage, ends, issued')
       ELSE UNCHANGED <<terminalPage, ends>>
    /\ UNCHANGED terminalTickets
NoTicketForPage(who) ==
    /\ who \in asking
    /\ asking' = asking \ {who}
    /\ terminalPage' = IF Heeded(who)
                       THEN [terminalPage EXCEPT !.connecting = FALSE,
                                                 !.error = TRUE]
                       ELSE terminalPage
    /\ UNCHANGED <<terminalTickets, ends, issued>>

------------------------------------------------------------------------------
(* Events of socket i, heeded while it is the page's. *)

Mine(i) == terminalPage.socket = i /\ ~terminalPage.disposed

EndOpens(i) ==
    /\ ends[i].state = "connecting"
    /\ ends' = [ends EXCEPT ![i].state = "open"]
    /\ terminalPage' = IF Mine(i) THEN [terminalPage EXCEPT !.opened = TRUE]
                       ELSE terminalPage
    /\ UNCHANGED <<terminalTickets, asking, issued>>
\* The text "ready".
EndReady(i) ==
    /\ ends[i].state = "open" /\ Mine(i)
    /\ terminalPage' = [terminalPage EXCEPT !.connecting = FALSE]
    /\ UNCHANGED <<terminalTickets, ends, asking, issued>>
\* Any other text: close(1002).
EndUnexpected(i) ==
    /\ ends[i].state = "open" /\ Mine(i)
    /\ terminalPage' = [terminalPage EXCEPT !.error = TRUE]
    /\ ends' = EndClosing(i)
    /\ UNCHANGED <<terminalTickets, asking, issued>>
EndErrs(i) ==
    /\ ends[i].state \in {"connecting", "open"}
    /\ terminalPage' = IF terminalPage.socket = i
                       THEN [terminalPage EXCEPT !.error = TRUE]
                       ELSE terminalPage
    /\ ends' = EndClosing(i)
    /\ UNCHANGED <<terminalTickets, asking, issued>>
EndCloses(i) ==
    /\ ends[i].state # "closed"
    /\ ends' = [ends EXCEPT ![i].state = "closed"]
    /\ terminalPage' =
          IF terminalPage.socket = i
          THEN [terminalPage EXCEPT !.socket = Nothing, !.connecting = FALSE,
                                    !.error = @ \/ ~terminalPage.disposed]
          ELSE terminalPage
    /\ UNCHANGED <<terminalTickets, asking, issued>>

\* Defect: the socket is left to itself.
LeftOpenTerminal == UNCHANGED ends
EndsLeft == ends' = EndClosing(terminalPage.socket)
\* closeTerminal; another page of this task would start afresh.
LeaveTerminal ==
    /\ terminalPage.mounted
    /\ EndsLeft
    /\ terminalPage' = [terminalPage EXCEPT !.mounted = FALSE, !.disposed = TRUE,
                                            !.opened = FALSE]
    /\ asking' = {IF who = "page" THEN "leftPage" ELSE who : who \in asking}
    /\ UNCHANGED <<terminalTickets, issued>>

TerminalPageNext ==
    \/ AskTerminal \/ TicketForServices \/ NoTicketForServices \/ OpenAddress
    \/ Retry \/ LeaveTerminal
    \/ \E who \in {"page", "leftPage"} :
          TicketForPage(who) \/ NoTicketForPage(who)
    \/ \E i \in DOMAIN ends :
          \/ EndOpens(i) \/ EndReady(i) \/ EndUnexpected(i)
          \/ EndErrs(i) \/ EndCloses(i)

------------------------------------------------------------------------------
TerminalPageTypeOK ==
    /\ terminalTickets \in 1..MaxTickets \cup {Nothing}
    /\ terminalPage.socket \in DOMAIN ends \cup {Nothing}
    /\ asking \subseteq {"services", "page", "leftPage"} /\ issued \in 0..MaxTickets

Alive == {i \in DOMAIN ends : ends[i].state \in {"connecting", "open"}}

\* A page has one socket at most, a page that was left none, and the terminal
\* takes keys only where a socket may send them; no ticket is used for two.
OneTerminalSocket ==
    /\ Alive \subseteq {terminalPage.socket}
    /\ terminalPage.disposed => Alive = {}
    /\ \A i, j \in DOMAIN ends : ends[i].ticket = ends[j].ticket => i = j
    /\ terminalTickets # Nothing =>
          \A i \in DOMAIN ends : ends[i].ticket # terminalTickets

\* "Connecting" is shown only while something is under way that will end it,
\* and a page that shows neither has a terminal: the user is never stuck.
ConnectingEnds ==
    terminalPage.mounted =>
        /\ terminalPage.connecting =>
              "page" \in asking \/ terminalPage.socket # Nothing
        /\ ~terminalPage.connecting /\ ~terminalPage.error =>
              terminalPage.socket # Nothing
==============================================================================
