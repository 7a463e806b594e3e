---------------------------- MODULE OneTimeTicket ----------------------------
(***************************************************************************)
(* What the terminal ticket registry promises, with no map and no sweep: a *)
(* ticket is issued for one session description, buys exactly that session *)
(* for one connection, at most once and only before its deadline, and is   *)
(* discarded unused only once the deadline has passed.                     *)
(***************************************************************************)
EXTENDS Naturals

CONSTANTS Tickets,      \* ticket values the random source can draw
          Connections,  \* browser connections that present a ticket
          Inputs,       \* {userId, taskId, shell} descriptions
          Lifetime,     \* instants for which a ticket is good
          None          \* "no description"

VARIABLES clock,     \* current time
          status,    \* status[t]: "unissued", "live", "spent" or "lapsed"
          bought,    \* bought[t]: the description t was issued for
          deadline,  \* deadline[t]: the instant from which t buys nothing
          held       \* held[c]: the session connection c was let in with

aVars == <<clock, status, bought, deadline, held>>

AbsInit ==
    /\ clock = 0
    /\ status = [t \in Tickets |-> "unissued"]
    /\ bought = [t \in Tickets |-> None]
    /\ deadline = [t \in Tickets |-> 0]
    /\ held = [c \in Connections |-> None]

Pass ==
    /\ clock' = clock + 1
    /\ UNCHANGED <<status, bought, deadline, held>>

\* Issuing may drop, in the same step, tickets whose deadline has passed.
Issue(t, input, dropped) ==
    /\ status[t] = "unissued"
    /\ \A d \in dropped : status[d] = "live" /\ deadline[d] <= clock
    /\ status' = [u \in Tickets |-> IF u = t THEN "live"
                                    ELSE IF u \in dropped THEN "lapsed"
                                    ELSE status[u]]
    /\ bought' = [bought EXCEPT ![t] = input]
    /\ deadline' = [deadline EXCEPT ![t] = clock + Lifetime]
    /\ UNCHANGED <<clock, held>>

Spend(c, t) ==
    /\ held[c] = None
    /\ status[t] = "live"
    /\ clock < deadline[t]
    /\ status' = [status EXCEPT ![t] = "spent"]
    /\ held' = [held EXCEPT ![c] = bought[t]]
    /\ UNCHANGED <<clock, bought, deadline>>

Lapse(t) ==
    /\ status[t] = "live"
    /\ deadline[t] <= clock
    /\ status' = [status EXCEPT ![t] = "lapsed"]
    /\ UNCHANGED <<clock, bought, deadline, held>>

Release(c) ==
    /\ held[c] # None
    /\ held' = [held EXCEPT ![c] = None]
    /\ UNCHANGED <<clock, status, bought, deadline>>

AbsNext ==
    \/ Pass
    \/ \E t \in Tickets : Lapse(t) \/ \E c \in Connections : Spend(c, t)
    \/ \E c \in Connections : Release(c)
    \/ \E t \in Tickets, input \in Inputs, dropped \in SUBSET Tickets :
          Issue(t, input, dropped)

AbsSpec == AbsInit /\ [][AbsNext]_aVars

==============================================================================
