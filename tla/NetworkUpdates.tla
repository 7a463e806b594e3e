--------------------------- MODULE NetworkUpdates ---------------------------
(***************************************************************************)
(* One network of the swarm, and the requests about it.  Docker cannot     *)
(* change a network: the manager removes it and creates another one, with  *)
(* a new identifier, out of what the old one was and what was asked.       *)
(* Requests interleave at every call to Docker, any call may fail, and the *)
(* manager may die between two of them.                                    *)
(***************************************************************************)
EXTENDS Integers

CONSTANTS
    Requests,      \* the requests; of each, what it is and how it names the
    Op,            \*   network: update, getOrCreate, create or delete, by name
    ByName,        \*   or by the identifier the network had at first
    Original, Default, Missing

\* Nothing that is there passes for what is missing.
ASSUME NetworkAssumption == \A i \in 0..1, by \in Requests \cup {Original, Default} :
                                Missing # [id |-> i, from |-> by]

VARIABLES
    network,       \* its identifier and who defined it, or Missing
    requests,      \* how far each request is
    cut            \* an update lost the network it had removed

netVars == <<network, requests, cut>>

NetInit == /\ network = [id |-> 0, from |-> Original]
           /\ requests = [r \in Requests |-> "asked"]
           /\ cut = FALSE

\* An identifier no longer finds a network that was created anew.
Found(r) == network # Missing /\ (r \in ByName \/ network.id = 0)
Goes(r, step) == requests' = [requests EXCEPT ![r] = step]

\* The original for an update, and whether to create for getOrCreate, which
\* takes no other failure for an absence.
fetchNetwork(r) ==
    /\ Op[r] \in {"update", "getOrCreate"} /\ requests[r] = "asked"
    /\ IF Op[r] = "update" THEN Goes(r, IF Found(r) THEN "remove" ELSE "failed")
       ELSE Goes(r, IF Found(r) THEN "answered" ELSE "create")
    /\ UNCHANGED <<network, cut>>

\* Defect: the creation that follows is not awaited.
removeNetworkUnawaited(r) ==
    /\ requests[r] = (IF Op[r] = "delete" THEN "asked" ELSE "remove")
    /\ Op[r] \in {"update", "delete"}
    /\ IF Found(r)
       THEN network' = Missing /\ Goes(r, IF Op[r] = "delete" THEN "removed" ELSE "created")
       ELSE Goes(r, "failed") /\ UNCHANGED network
    /\ UNCHANGED cut

removeNetwork(r) ==
    /\ requests[r] = (IF Op[r] = "delete" THEN "asked" ELSE "remove")
    /\ Op[r] \in {"update", "delete"}
    /\ IF Found(r)
       THEN network' = Missing /\ Goes(r, IF Op[r] = "delete" THEN "removed" ELSE "create")
       ELSE Goes(r, "failed") /\ UNCHANGED network
    /\ UNCHANGED cut

\* Docker refuses a second network of the name.
createNetwork(r) ==
    /\ requests[r] = (IF Op[r] = "create" THEN "asked" ELSE "create")
    /\ Op[r] # "delete"
    /\ IF network = Missing
       THEN /\ network' = [id |-> 1, from |-> IF Op[r] = "getOrCreate" THEN Default ELSE r]
            /\ Goes(r, IF Op[r] = "getOrCreate" THEN "answered" ELSE "created")
            /\ UNCHANGED cut
       ELSE /\ Goes(r, "failed")
            /\ cut' = (cut \/ Op[r] = "update")
            /\ UNCHANGED network

\* The audit comes last, and its failure does not fail the request.
registerNetworkMutation(r) ==
    /\ requests[r] \in {"created", "removed"}
    /\ Goes(r, IF requests[r] = "created" THEN "answered" ELSE "deleted")
    /\ UNCHANGED <<network, cut>>

Pending(r) == requests[r] \in {"asked", "remove", "create"}

DockerRefuses(r) ==
    /\ Pending(r)
    /\ Goes(r, "failed")
    /\ cut' = (cut \/ (Op[r] = "update" /\ requests[r] = "create"))
    /\ UNCHANGED network

\* The network is removed but the answer is lost.
AnswerLost(r) ==
    /\ requests[r] = (IF Op[r] = "delete" THEN "asked" ELSE "remove")
    /\ Op[r] \in {"update", "delete"}
    /\ Found(r)
    /\ network' = Missing
    /\ Goes(r, IF Op[r] = "delete" THEN "deleted" ELSE "failed")
    /\ cut' = (cut \/ Op[r] = "update")

ManagerDies ==
    /\ \E r \in Requests : requests[r] \notin {"asked", "failed", "answered", "deleted"}
    /\ requests' = [r \in Requests |->
          IF requests[r] = "removed" THEN "deleted"
          ELSE IF requests[r] \in {"answered", "deleted"} THEN requests[r] ELSE "failed"]
    /\ cut' = (cut \/ \E r \in Requests : Op[r] = "update" /\ requests[r] = "create")
    /\ UNCHANGED network

NetNext ==
    \/ \E r \in Requests : \/ fetchNetwork(r) \/ removeNetwork(r) \/ createNetwork(r)
                           \/ registerNetworkMutation(r) \/ DockerRefuses(r)
                           \/ AnswerLost(r)
    \/ ManagerDies

-----------------------------------------------------------------------------
NetTypeOK == /\ network = Missing \/ network.from \in Requests \cup {Original, Default}
             /\ requests \in [Requests -> {"asked", "remove", "create", "created",
                                           "removed", "answered", "deleted", "failed"}]

(* Nobody who did not ask for it loses the network: when it is missing, a   *)
(* deletion took it, or an update is about to create it again, or an update *)
(* was cut short between its removal and its creation, which is the one way *)
(* the code has of losing it.  A getOrCreate that comes in between, and an  *)
(* update or a deletion that finds the network gone, leave one there.       *)
NetworkSurvives ==
    network = Missing =>
        \/ cut
        \/ \E r \in Requests : \/ Op[r] = "delete" /\ requests[r] \in {"removed", "deleted"}
                               \/ Op[r] = "update" /\ requests[r] = "create"
=============================================================================
