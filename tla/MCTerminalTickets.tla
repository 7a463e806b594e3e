-------------------------- MODULE MCTerminalTickets --------------------------
(* Three tickets for two descriptions, two connections, a lifetime of two  *)
(* instants in a clock of four: tickets overlap, expire unused, and are    *)
(* presented again after use and after expiry.                             *)
EXTENDS TerminalTickets

CONSTANTS t1, t2, t3, c1, c2, aliceShell, bobShell
==============================================================================
