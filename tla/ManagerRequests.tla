-------------------------- MODULE ManagerRequests --------------------------
(***************************************************************************)
(* The manager process but for its terminals and its batches: how it comes *)
(* up, and what clients then ask of it: to edit a service and read it back, *)
(* to page through the services, to look over the cluster, and to change a *)
(* network.  These share nothing in the manager but its connections, and   *)
(* what each of them meets of the others' doing is part of its own module; *)
(* so one kind at a time moves, and the others wait in a state they start  *)
(* in.                                                                     *)
(***************************************************************************)
EXTENDS ServiceEdits, ServiceListing, ClusterScan, NetworkUpdates, ManagerStart

VARIABLE kind      \* what a behaviour is about

vars == <<kind, editVars, listVars, scanVars, netVars, startVars>>

EditsIdle == EditInit /\ spec = <<>>
ListIdle == ListInit /\ query = CHOOSE q \in Queries : TRUE
ScanIdle == /\ ScanInit
            /\ running = {} /\ \A t \in Tasks : tasks[t] = Nobody
            /\ agentAt = CHOOSE f \in [Addresses -> Nodes \ {Manager}] : TRUE

Init == \/ kind = "edits" /\ EditInit /\ ListIdle /\ ScanIdle /\ NetInit /\ StartIdle
        \/ kind = "pages" /\ EditsIdle /\ ListInit /\ ScanIdle /\ NetInit /\ StartIdle
        \/ kind = "cluster" /\ EditsIdle /\ ListIdle /\ ScanInit /\ NetInit /\ StartIdle
        \/ kind = "networks" /\ EditsIdle /\ ListIdle /\ ScanIdle /\ NetInit /\ StartIdle
        \/ kind = "start" /\ EditsIdle /\ ListIdle /\ ScanIdle /\ NetInit /\ StartInit

Next == /\ \/ kind = "edits" /\ EditNext
              /\ UNCHANGED <<listVars, scanVars, netVars, startVars>>
           \/ kind = "pages" /\ ListNext
              /\ UNCHANGED <<editVars, scanVars, netVars, startVars>>
           \/ kind = "cluster" /\ ScanNext
              /\ UNCHANGED <<editVars, listVars, netVars, startVars>>
           \/ kind = "networks" /\ NetNext
              /\ UNCHANGED <<editVars, listVars, scanVars, startVars>>
           \/ kind = "start" /\ StartNext
              /\ UNCHANGED <<editVars, listVars, scanVars, netVars>>
        /\ UNCHANGED kind

Spec == Init /\ [][Next]_vars

TypeOK == EditTypeOK /\ ListTypeOK /\ ScanTypeOK /\ NetTypeOK /\ StartTypeOK
=============================================================================
