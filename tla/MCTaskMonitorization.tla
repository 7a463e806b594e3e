------------------------- MODULE MCTaskMonitorization -------------------------
(* Two or three interchangeable tasks. *)
EXTENDS TaskMonitorization, TLC

CONSTANTS t1, t2, t3

TaskSymmetry == Permutations(Tasks)
==============================================================================
