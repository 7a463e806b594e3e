--------------------------- MODULE TerminalTickets ---------------------------
(***************************************************************************)
(* The one-time terminal tickets of the manager process.                   *)
(*                                                                         *)
(* POST /api/docker/task/:taskId/terminal-sessions stores a description    *)
(* {userId, taskId, shell} under a random ticket for Lifetime; the         *)
(* preHandler of the terminal WebSocket consumes the ticket and leaves the *)
(* description on the request.  The registry is one in-memory map of one   *)
(* process; create() sweeps what has expired, consume() deletes what it    *)
(* reads.  Every call runs to completion between two events of the Node    *)
(* event loop, so each is one action; requests interleave freely.          *)
(*                                                                         *)
(* The map is keyed by the ticket itself (the hash is injective for the    *)
(* values drawn) and a 32-byte random ticket is never drawn twice.         *)
(***************************************************************************)
EXTENDS Naturals

CONSTANTS Tickets,      \* values randomBytes(32) can draw
          Connections,  \* WebSocket upgrade requests
          Inputs,       \* valid {userId, taskId, shell} descriptions
          Lifetime,     \* TERMINAL_TICKET_LIFETIME_MS, in clock instants
          MaxTime,      \* bound: the clock stops here
          NoInput          \* no stored session / no request.terminalSession

ASSUME LifetimeAssumption == Lifetime \in Nat \ {0}
ASSUME MaxTimeAssumption == MaxTime \in Nat
ASSUME NoInputAssumption == NoInput \notin Inputs

VARIABLES
    currentTime,      \* Date.now()
    sessions,         \* the map: ticket -> stored session, or NoInput
    terminalSession,  \* per request: what preHandler left on it, or NoInput
    issued,           \* history: what each ticket was created for, and when
    admissions        \* history: connections let in by each ticket

ticketVars == <<currentTime, sessions, terminalSession, issued, admissions>>

StoredSession == [input : Inputs, expiresAt : Nat]
IssueRecord == [input : Inputs, at : Nat]
NoRecord == [input |-> NoInput]

Present(t) == sessions[t] # NoRecord
ExpiredStrict(t) == sessions[t].expiresAt < currentTime      \* defect: off by one
Expired(t) == sessions[t].expiresAt <= currentTime

TicketInit ==
    /\ currentTime = 0
    /\ sessions = [t \in Tickets |-> NoRecord]
    /\ terminalSession = [c \in Connections |-> NoInput]
    /\ issued = [t \in Tickets |-> NoRecord]
    /\ admissions = [t \in Tickets |-> 0]

Tick ==
    /\ currentTime < MaxTime
    /\ currentTime' = currentTime + 1
    /\ UNCHANGED <<sessions, terminalSession, issued, admissions>>

\* Defect: the sweep clears the whole map.
SweptClear == [u \in Tickets |-> NoRecord]

\* removeExpired(): the map without the entries that have expired.
Swept == [u \in Tickets |-> IF Present(u) /\ Expired(u) THEN NoRecord
                            ELSE sessions[u]]

\* POST .../terminal-sessions: sweep, then store the new entry.
Create(t, input) ==
    /\ issued[t] = NoRecord
    /\ sessions' = [Swept EXCEPT
                      ![t] = [input |-> input,
                              expiresAt |-> currentTime + Lifetime]]
    /\ issued' = [issued EXCEPT ![t] = [input |-> input, at |-> currentTime]]
    /\ UNCHANGED <<currentTime, terminalSession, admissions>>

\* consume() answers undefined and the upgrade is refused: the ticket is not
\* in the map, or it is there and too old, and then it is deleted.
Refuse(c, t) ==
    /\ terminalSession[c] = NoInput
    /\ Present(t) => Expired(t)
    /\ sessions' = [sessions EXCEPT ![t] = NoRecord]
    /\ UNCHANGED <<currentTime, terminalSession, issued, admissions>>

\* Defect: the entry stays in the map after it was read.
AdmitKeep(c, t) ==
    /\ terminalSession[c] = NoInput
    /\ Present(t) /\ ~Expired(t)
    /\ terminalSession' = [terminalSession EXCEPT ![c] = sessions[t].input]
    /\ admissions' = [admissions EXCEPT ![t] = @ + 1]
    /\ UNCHANGED <<currentTime, sessions, issued>>

\* Defect: the stored session is handed over, its deadline included.
AdmitWhole(c, t) ==
    /\ terminalSession[c] = NoInput
    /\ Present(t) /\ ~Expired(t)
    /\ sessions' = [sessions EXCEPT ![t] = NoRecord]
    /\ terminalSession' = [terminalSession EXCEPT ![c] = sessions[t]]
    /\ admissions' = [admissions EXCEPT ![t] = @ + 1]
    /\ UNCHANGED <<currentTime, issued>>

\* consume() answers the description; the entry is gone before it returns.
Admit(c, t) ==
    /\ terminalSession[c] = NoInput
    /\ Present(t) /\ ~Expired(t)
    /\ sessions' = [sessions EXCEPT ![t] = NoRecord]
    /\ terminalSession' = [terminalSession EXCEPT ![c] = sessions[t].input]
    /\ admissions' = [admissions EXCEPT ![t] = @ + 1]
    /\ UNCHANGED <<currentTime, issued>>

\* The connection ends and its request object goes with it.
Disconnect(c) ==
    /\ terminalSession[c] # NoInput
    /\ terminalSession' = [terminalSession EXCEPT ![c] = NoInput]
    /\ UNCHANGED <<currentTime, sessions, issued, admissions>>

TicketNext ==
    \/ Tick
    \/ \E t \in Tickets, input \in Inputs : Create(t, input)
    \/ \E c \in Connections, t \in Tickets : Refuse(c, t) \/ Admit(c, t)
    \/ \E c \in Connections : Disconnect(c)

TicketSpec == TicketInit /\ [][TicketNext]_ticketVars

------------------------------------------------------------------------------
\* The registry holds well-formed entries and the clock a number.
TicketTypeOK ==
    /\ currentTime \in Nat
    /\ sessions \in [Tickets -> StoredSession \cup {NoRecord}]
    /\ terminalSession \in [Connections -> Inputs \cup {NoInput}]
    /\ issued \in [Tickets -> IssueRecord \cup {NoRecord}]
    /\ admissions \in [Tickets -> Nat]

Deadline(t) == issued[t].at + Lifetime

\* A ticket lets at most one connection in, however many tabs present it and
\* however their upgrades interleave with creations and sweeps.
SingleUse == \A t \in Tickets : admissions[t] <= 1

\* A ticket nobody has used is still there until its full lifetime has
\* passed: neither the sweep of another user's creation nor a refused upgrade
\* of a stranger discards it early.
NoEarlyLoss ==
    \A t \in Tickets :
        (/\ issued[t] # NoRecord
         /\ admissions[t] = 0
         /\ currentTime < Deadline(t)) => Present(t)

\* A ticket is good once, and until its deadline.
TicketsHold == SingleUse /\ NoEarlyLoss

\* An entry in the map is one its ticket was issued for, with the deadline of
\* that issue, and has let nobody in yet.
StoredAsIssued ==
    \A t \in Tickets : Present(t) =>
        /\ issued[t] # NoRecord
        /\ sessions[t].input = issued[t].input
        /\ sessions[t].expiresAt = Deadline(t)
        /\ admissions[t] = 0

\* What was never issued has let nobody in.
UnissuedUnused ==
    \A t \in Tickets : issued[t] = NoRecord => admissions[t] = 0

\* The inductive invariant behind SingleUse, NoEarlyLoss and the refinement.
TicketInv == TicketTypeOK /\ SingleUse /\ NoEarlyLoss /\ StoredAsIssued /\ UnissuedUnused

------------------------------------------------------------------------------
\* Refinement: the map, the sweep and the request objects implement the
\* one-time ticket.
Status == [t \in Tickets |->
              IF issued[t] = NoRecord THEN "unissued"
              ELSE IF Present(t) THEN "live"
              ELSE IF admissions[t] > 0 THEN "spent" ELSE "lapsed"]

Promise == INSTANCE OneTimeTicket WITH
    clock <- currentTime,
    status <- Status,
    bought <- [t \in Tickets |-> issued[t].input],
    deadline <- [t \in Tickets |->
                    IF issued[t] = NoRecord THEN 0 ELSE Deadline(t)],
    held <- terminalSession,
    None <- NoInput

\* Every step of the registry is a step of the one-time ticket, or none: a
\* connection holds what its ticket was issued for, a late or repeated ticket
\* buys nothing, and only expired tickets are discarded.
ImplementsOneTimeTicket == Promise!AbsSpec

==============================================================================
