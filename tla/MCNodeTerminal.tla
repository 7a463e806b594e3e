---------------------------- MODULE MCNodeTerminal ----------------------------
(* One terminal; two nodes, so that the address may lead to the wrong one;  *)
(* inputs and chunks up to one that no buffer takes.         *)
EXTENDS NodeTerminal

CONSTANTS n1, n2, small, large
==============================================================================
