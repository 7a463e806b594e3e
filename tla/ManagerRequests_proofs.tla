------------------------ MODULE ManagerRequests_proofs ------------------------
(***************************************************************************)
(* Proofs about the manager's start, its answers about the cluster and its *)
(* networks, the services it edits and the pages it lists them on, for all *)
(* requests, clusters, inputs, queries, environments and stores: each part *)
(* is proved by itself, and the last section puts them into the            *)
(* specification of ManagerRequests, where one part moves at a time.       *)
(***************************************************************************)
EXTENDS ManagerRequests, SequenceTheorems, FunctionTheorems, FiniteSetTheorems, TLAPS

-----------------------------------------------------------------------------
(* NetworkUpdates.                                                         *)

HowFar == {"asked", "remove", "create", "created", "removed", "answered",
           "deleted", "failed"}
USE DEF HowFar

\* How far each request is, and who is to blame for a network that is gone.
NetInv ==
    /\ requests \in [Requests -> HowFar]
    /\ NetworkSurvives

LEMMA NetInitInv == NetInit => NetInv
  <1> SUFFICES ASSUME NetInit PROVE NetInv
    OBVIOUS
  <1>1. network # Missing
    BY NetworkAssumption DEF NetInit
  <1>2. QED
    BY <1>1 DEF NetInit, NetInv, NetworkSurvives

\* A request other than the one that is to blame may go on.
LEMMA BlameStays ==
  ASSUME NetInv, NEW r \in Requests, NEW step, Goes(r, step),
         Op[r] = "update" => requests[r] # "create",
         Op[r] = "delete" => \/ requests[r] \notin {"removed", "deleted"}
                             \/ step \in {"removed", "deleted"},
         step \in HowFar,
         network' = network, cut => cut'
  PROVE  NetInv'
  <1>1. /\ requests \in [Requests -> HowFar]
        /\ requests' = [requests EXCEPT ![r] = step]
    BY DEF NetInv, Goes
  <1>2. /\ requests'[r] = step
        /\ \A x \in Requests : x # r => requests'[x] = requests[x]
    BY <1>1
  <1>3. NetworkSurvives'
    <2>1. SUFFICES ASSUME network' = Missing, ~cut'
                   PROVE  \E x \in Requests :
                              \/ Op[x] = "delete" /\ requests'[x] \in {"removed", "deleted"}
                              \/ Op[x] = "update" /\ requests'[x] = "create"
      BY DEF NetworkSurvives
    <2>2. PICK x \in Requests :
              \/ Op[x] = "delete" /\ requests[x] \in {"removed", "deleted"}
              \/ Op[x] = "update" /\ requests[x] = "create"
      BY <2>1 DEF NetInv, NetworkSurvives
    <2>3. CASE x = r
      BY <1>2, <2>2, <2>3
    <2>4. CASE x # r
      BY <1>2, <2>2, <2>4
    <2>5. QED
      BY <2>3, <2>4
  <1>4. QED
    BY <1>1, <1>3 DEF NetInv

LEMMA RemoveStep ==
  ASSUME NetInv, NEW r \in Requests, removeNetwork(r) PROVE NetInv'
  <1>1. /\ requests[r] = (IF Op[r] = "delete" THEN "asked" ELSE "remove")
        /\ Op[r] \in {"update", "delete"}
        /\ requests \in [Requests -> HowFar]
        /\ cut' = cut
    BY DEF removeNetwork, NetInv
  <1>2. CASE Found(r)
    <2> DEFINE step == IF Op[r] = "delete" THEN "removed" ELSE "create"
    <2>1. requests' = [requests EXCEPT ![r] = step]
      BY <1>2 DEF removeNetwork, Goes
    <2>2. /\ requests' \in [Requests -> HowFar]
          /\ requests'[r] = step
      BY <1>1, <2>1
    <2>3. NetworkSurvives'
      BY <1>1, <2>2 DEF NetworkSurvives
    <2>4. QED
      BY <2>2, <2>3 DEF NetInv
  <1>3. CASE ~Found(r)
    <2>1. Goes(r, "failed") /\ network' = network
      BY <1>3 DEF removeNetwork
    <2>2. QED
      BY <1>1, <2>1, BlameStays
  <1>4. QED
    BY <1>2, <1>3

LEMMA CreateStep ==
  ASSUME NetInv, NEW r \in Requests, createNetwork(r) PROVE NetInv'
  <1>1. requests \in [Requests -> HowFar]
    BY DEF NetInv
  <1>2. CASE network = Missing
    <2>1. /\ network' = [id |-> 1, from |-> IF Op[r] = "getOrCreate" THEN Default ELSE r]
          /\ Goes(r, IF Op[r] = "getOrCreate" THEN "answered" ELSE "created")
      BY <1>2 DEF createNetwork
    <2>2. network' # Missing
      BY <2>1, NetworkAssumption
    <2>3. QED
      BY <1>1, <2>1, <2>2 DEF NetInv, NetworkSurvives, Goes
  <1>3. CASE network # Missing
    <2>1. Goes(r, "failed") /\ network' = network
      BY <1>3 DEF createNetwork
    <2>2. QED
      BY <1>1, <1>3, <2>1 DEF NetInv, NetworkSurvives, Goes
  <1>4. QED
    BY <1>2, <1>3

\* A call that fails cuts an update short, if it was between the two.
LEMMA FailStep ==
  ASSUME NetInv, NEW r \in Requests, DockerRefuses(r) PROVE NetInv'
  <1>1. /\ requests[r] \in {"asked", "remove", "create"}
        /\ Goes(r, "failed") /\ network' = network
        /\ cut' = (cut \/ (Op[r] = "update" /\ requests[r] = "create"))
    BY DEF DockerRefuses, Pending
  <1>2. CASE Op[r] = "update" /\ requests[r] = "create"
    BY <1>1, <1>2 DEF NetInv, NetworkSurvives, Goes
  <1>3. CASE ~(Op[r] = "update" /\ requests[r] = "create")
    BY <1>1, <1>3, BlameStays
  <1>4. QED
    BY <1>2, <1>3

LEMMA NetNextInv == ASSUME NetInv, NetNext PROVE NetInv'
  <1>1. ASSUME NEW r \in Requests, fetchNetwork(r) PROVE NetInv'
    <2>1. /\ requests[r] = "asked" /\ UNCHANGED <<network, cut>>
          /\ \E step \in {"remove", "failed", "answered", "create"} : Goes(r, step)
      BY <1>1 DEF fetchNetwork
    <2>2. QED
      BY <2>1, BlameStays
  <1>2. ASSUME NEW r \in Requests, registerNetworkMutation(r) PROVE NetInv'
    <2>1. /\ requests[r] \in {"created", "removed"} /\ UNCHANGED <<network, cut>>
          /\ Goes(r, IF requests[r] = "created" THEN "answered" ELSE "deleted")
      BY <1>2 DEF registerNetworkMutation
    <2>2. QED
      BY <2>1, BlameStays
  <1>3. ASSUME NEW r \in Requests, AnswerLost(r) PROVE NetInv'
    <2>1. /\ requests' = [requests EXCEPT ![r] = IF Op[r] = "delete" THEN "deleted"
                                                 ELSE "failed"]
          /\ Op[r] \in {"update", "delete"}
          /\ cut' = (cut \/ Op[r] = "update")
      BY <1>3 DEF AnswerLost, Goes
    <2>2. requests \in [Requests -> HowFar]
      BY DEF NetInv
    <2>3. NetworkSurvives'
      BY <2>1, <2>2 DEF NetworkSurvives
    <2>4. QED
      BY <2>1, <2>2, <2>3 DEF NetInv
  <1>4. CASE ManagerDies
    <2>1. /\ requests' = [r \in Requests |->
                IF requests[r] = "removed" THEN "deleted"
                ELSE IF requests[r] \in {"answered", "deleted"} THEN requests[r]
                ELSE "failed"]
          /\ cut' = (cut \/ \E r \in Requests : Op[r] = "update" /\ requests[r] = "create")
          /\ network' = network
      BY <1>4 DEF ManagerDies
    <2>2. requests' \in [Requests -> HowFar]
      BY <2>1 DEF NetInv
    <2>3. NetworkSurvives'
      <3> SUFFICES ASSUME network' = Missing, ~cut'
                   PROVE  \E x \in Requests :
                              Op[x] = "delete" /\ requests'[x] \in {"removed", "deleted"}
        BY DEF NetworkSurvives
      <3>1. PICK x \in Requests : Op[x] = "delete" /\ requests[x] \in {"removed", "deleted"}
        BY <2>1 DEF NetInv, NetworkSurvives
      <3>2. QED
        BY <2>1, <3>1
    <2>4. QED
      BY <2>2, <2>3 DEF NetInv
  <1>5. QED
    BY <1>1, <1>2, <1>3, <1>4, RemoveStep, CreateStep, FailStep DEF NetNext
HIDE DEF HowFar

-----------------------------------------------------------------------------
(* ClusterScan.                                                            *)

\* What was so all along is so now, and what runs has been seen to run.
Remembered ==
    /\ running \subseteq Containers
    /\ owned \subseteq OwnedNow /\ ghosts \subseteq GhostsNow
    /\ running \subseteq ran

\* What Docker has said holds of what has been so ever since.
ReadIsTrue ==
    /\ "containers" \in DOMAIN read =>
          /\ \A c \in read.containers : c \in ran /\ Home[c] = Manager
          /\ \A c \in ghosts : Home[c] = Manager => c \in read.containers
    /\ "tasks" \in DOMAIN read =>
          /\ \A c \in owned : Labels[c] \in Tasks /\ read.tasks[Labels[c]] = c
          /\ \A c \in ghosts : ~(Labels[c] \in Tasks /\ read.tasks[Labels[c]] = c)
    /\ "nodes" \in DOMAIN read =>
          \A c \in ghosts : Home[c] = Manager \/ ~read.nodes[Home[c]]
    /\ "info" \in DOMAIN read => read.info = Manager

\* A scan has gathered a ghost, or still has its node to ask; nothing else was
\* gathered than what ran where it says.
IsScan == question # Nobody /\ question.of = "ghosts"
Gathering ==
    IsScan =>
        /\ question = [of |-> "ghosts"]
        /\ \A g \in gathered \ {NotAsked} : g.id \in ran /\ Home[g.id] = g.node
        /\ gathered = {} => toAsk = {} /\ asking = NotAsked
        /\ gathered # {} =>
              \A c \in ghosts :
                 \/ [id |-> c, node |-> Home[c]] \in gathered
                 \/ Home[c] \in toAsk

ScanInv ==
    /\ Remembered /\ ReadIsTrue /\ Gathering
    /\ question = Nobody => /\ read = <<>> /\ asking = NotAsked
                            /\ toAsk = {} /\ gathered = {} /\ answer = Nobody
    /\ GhostsAreExact

\* Nothing has been read before the first call.
LEMMA NothingRead == DOMAIN <<>> = {}
  OBVIOUS

LEMMA ScanInitInv == ScanInit => ScanInv
  <1> SUFFICES ASSUME ScanInit PROVE ScanInv
    OBVIOUS
  <1>1. /\ running \subseteq Containers
        /\ owned = OwnedNow /\ ghosts = GhostsNow /\ ran = running
        /\ question = Nobody /\ read = <<>> /\ asking = NotAsked
        /\ toAsk = {} /\ gathered = {} /\ answer = Nobody
    BY DEF ScanInit
  <1>2. Remembered
    BY <1>1 DEF Remembered
  <1>3. ReadIsTrue
    BY <1>1, NothingRead DEF ReadIsTrue
  <1>4. Gathering /\ GhostsAreExact
    BY <1>1 DEF Gathering, IsScan, GhostsAreExact, GhostsAreReal, GhostsAreFound,
                Answered
  <1>5. QED
    BY <1>1, <1>2, <1>3, <1>4 DEF ScanInv

\* The cluster moves: less has been so all along, and more has run.
LEMMA ChangeStep ==
  ASSUME ScanInv, Change, running' \subseteq Containers PROVE ScanInv'
  <1>1. /\ question # Nobody /\ answer = Nobody
        /\ owned' = owned \cap OwnedNow' /\ ghosts' = ghosts \cap GhostsNow'
        /\ ran' = ran \cup running'
        /\ UNCHANGED <<question, read, asking, toAsk, gathered, answer>>
    BY DEF Change, Remember, call
  <1>2. Remembered'
    BY <1>1 DEF Remembered
  <1>3. ReadIsTrue'
    BY <1>1 DEF ScanInv, ReadIsTrue
  <1>4. Gathering'
    BY <1>1 DEF ScanInv, Gathering, IsScan
  <1>5. GhostsAreExact'
    BY <1>1 DEF GhostsAreExact, GhostsAreReal, GhostsAreFound, Answered
  <1>6. QED
    BY <1>1, <1>2, <1>3, <1>4, <1>5 DEF ScanInv

LEMMA ClusterStep == ASSUME ScanInv, Cluster PROVE ScanInv'
  <1>1. Change /\ running' \subseteq Containers
    BY DEF Cluster, Start, Stop, TaskRuns, TaskEnds, NodeDown, AgentMoves, ScanInv,
           Remembered
  <1>2. QED
    BY <1>1, ChangeStep

\* The manager asks; nothing moves in the cluster meanwhile.
LEMMA StandsStill ==
  ASSUME ScanInv, Unchanged
  PROVE  /\ Remembered'
         /\ UNCHANGED <<running, tasks, down, agentAt, changes, owned, ghosts, ran>>
         /\ OwnedNow' = OwnedNow /\ GhostsNow' = GhostsNow
  BY DEF ScanInv, Remembered, Unchanged, world, OwnedNow, GhostsNow, Owned, Claims

\* An answer that stays the answer, or is none of a scan.
LEMMA AnswerStays ==
  ASSUME ScanInv, Unchanged, question' = question,
         answer' = answer \/ answer' = Failed \/ ~IsScan
  PROVE  GhostsAreExact'
  <1>1. UNCHANGED <<owned, ghosts, ran>>
    BY StandsStill
  <1>2. QED
    BY <1>1 DEF ScanInv, GhostsAreExact, GhostsAreReal, GhostsAreFound, Answered, IsScan

LEMMA AskStep == ASSUME ScanInv, NEW q \in Questions, Ask(q) PROVE ScanInv'
  <1>1. /\ question = Nobody /\ question' = q /\ Unchanged
        /\ UNCHANGED <<read, asking, toAsk, gathered, answer>>
        /\ read = <<>> /\ asking = NotAsked
        /\ toAsk = {} /\ gathered = {} /\ answer = Nobody
    BY DEF Ask, ScanInv
  <1>2. Remembered' /\ UNCHANGED <<owned, ghosts, ran>>
    BY <1>1, StandsStill
  <1>3. ReadIsTrue'
    BY <1>1, NothingRead DEF ReadIsTrue
  <1>4. Gathering'
    <2>1. q.of = "ghosts" => q = [of |-> "ghosts"]
      BY DEF Questions
    <2>2. QED
      BY <1>1, <2>1 DEF Gathering, IsScan
  <1>5. GhostsAreExact'
    BY <1>1 DEF GhostsAreExact, GhostsAreReal, GhostsAreFound, Answered
  <1>6. QED
    BY <1>1, <1>2, <1>3, <1>4, <1>5 DEF ScanInv

\* A call to Docker returns what is so now, so what has been so until now.
LEMMA ReadStep ==
  ASSUME ScanInv, NEW what \in {"containers", "tasks", "info", "nodes"}, Read(what)
  PROVE  ScanInv'
  <1>1. /\ question # Nobody /\ answer = Nobody /\ what \notin DOMAIN read
        /\ UNCHANGED <<question, asking, toAsk, gathered, answer>> /\ Unchanged
    BY DEF Read
  <1> DEFINE value == CASE what = "containers" -> {c \in running : Home[c] = Manager}
                        [] what = "tasks" -> tasks
                        [] what = "nodes" -> [n \in Nodes |-> n \in down]
                        [] what = "info" -> Manager
  <1>2. /\ DOMAIN read' = DOMAIN read \cup {what}
        /\ read'[what] = value
        /\ \A w \in DOMAIN read : read'[w] = read[w]
    BY <1>1 DEF Read
  <1>3. Remembered' /\ UNCHANGED <<owned, ghosts, ran, running, tasks, down>>
    BY <1>1, StandsStill
  <1> HIDE DEF value
  <1>4. /\ "containers" \in DOMAIN read' =>
              /\ \A c \in read'.containers : c \in ran /\ Home[c] = Manager
              /\ \A c \in ghosts : Home[c] = Manager => c \in read'.containers
    <2>1. CASE what = "containers"
      <3>1. read'.containers = {c \in running : Home[c] = Manager}
        BY <1>2, <2>1 DEF value
      <3>2. running \subseteq ran /\ ghosts \subseteq running
        BY DEF ScanInv, Remembered, GhostsNow
      <3>3. QED
        BY <3>1, <3>2
    <2>2. CASE what # "containers"
      BY <1>2, <2>2 DEF ScanInv, ReadIsTrue
    <2>3. QED
      BY <2>1, <2>2
  <1>5. /\ "tasks" \in DOMAIN read' =>
              /\ \A c \in owned : Labels[c] \in Tasks /\ read'.tasks[Labels[c]] = c
              /\ \A c \in ghosts : ~(Labels[c] \in Tasks /\ read'.tasks[Labels[c]] = c)
    <2>1. CASE what = "tasks"
      <3>1. read'.tasks = tasks
        BY <1>2, <2>1 DEF value
      <3>2. QED
        BY <3>1 DEF ScanInv, Remembered, OwnedNow, GhostsNow, Owned
    <2>2. CASE what # "tasks"
      BY <1>2, <2>2 DEF ScanInv, ReadIsTrue
    <2>3. QED
      BY <2>1, <2>2
  <1>6. "nodes" \in DOMAIN read' =>
            \A c \in ghosts : Home[c] = Manager \/ ~read'.nodes[Home[c]]
    <2>1. CASE what = "nodes"
      <3>1. read'.nodes = [n \in Nodes |-> n \in down]
        BY <1>2, <2>1 DEF value
      <3>2. \A c \in ghosts : Home[c] \in Nodes /\ Home[c] \notin down \ {Manager}
        BY ScanAssumption DEF ScanInv, Remembered, GhostsNow
      <3>3. QED
        BY <3>1, <3>2
    <2>2. CASE what # "nodes"
      BY <1>2, <2>2 DEF ScanInv, ReadIsTrue
    <2>3. QED
      BY <2>1, <2>2
  <1>7. "info" \in DOMAIN read' => read'.info = Manager
    <2>1. CASE what = "info"
      BY <1>2, <2>1 DEF value
    <2>2. CASE what # "info"
      BY <1>2, <2>2 DEF ScanInv, ReadIsTrue
    <2>3. QED
      BY <2>1, <2>2
  <1>8. ReadIsTrue'
    BY <1>3, <1>4, <1>5, <1>6, <1>7 DEF ReadIsTrue
  <1>9. Gathering'
    BY <1>1, <1>3 DEF ScanInv, Gathering, IsScan
  <1>10. GhostsAreExact'
    BY <1>1, AnswerStays
  <1>11. QED
    BY <1>1, <1>3, <1>8, <1>9, <1>10 DEF ScanInv
\* What Docker has said stays true while the manager works on.
LEMMA ReadStays ==
  ASSUME ScanInv, Unchanged, read' = read PROVE ReadIsTrue'
  BY StandsStill DEF ScanInv, ReadIsTrue

\* A step that gathers nothing for a scan.
LEMMA NothingGathered ==
  ASSUME ScanInv, Unchanged, question # Nobody, UNCHANGED <<question, read>>,
         answer' \in {answer, Failed} \/ ~IsScan,
         IsScan => UNCHANGED <<toAsk, gathered>> /\ (asking' # NotAsked => gathered # {})
  PROVE  ScanInv'
  <1>1. Gathering'
    BY StandsStill DEF ScanInv, Gathering, IsScan
  <1>2. QED
    BY <1>1, StandsStill, ReadStays, AnswerStays DEF ScanInv

LEMMA FetchGhostsStep == ASSUME ScanInv, fetchGhostContainers PROVE ScanInv'
  <1>1. /\ AllRead /\ question.of = "ghosts" /\ gathered = {} /\ toAsk = {}
        /\ gathered' = {[id |-> c, node |-> read.info] : c \in read.containers}
                          \cup {NotAsked}
        /\ toAsk' = {n \in Nodes \ {read.info} : ~read.nodes[n]}
        /\ UNCHANGED <<question, read, asking, answer>>
        /\ Unchanged
    BY DEF fetchGhostContainers
  <1>2. question # Nobody /\ IsScan /\ question = [of |-> "ghosts"]
    BY <1>1 DEF AllRead, IsScan, ScanInv, Gathering
  <1>3. DOMAIN read = {"containers", "tasks", "info", "nodes"}
    BY <1>1, <1>2 DEF AllRead, Reads
  <1>4. /\ read.info = Manager
        /\ \A c \in read.containers : c \in ran /\ Home[c] = Manager
        /\ \A c \in ghosts : Home[c] = Manager => c \in read.containers
        /\ \A c \in ghosts : Home[c] = Manager \/ ~read.nodes[Home[c]]
        /\ \A c \in ghosts : Home[c] \in Nodes
    BY <1>3, ScanAssumption DEF ScanInv, ReadIsTrue, Remembered, GhostsNow
  <1>5. Remembered' /\ UNCHANGED <<owned, ghosts, ran>>
    BY <1>1, StandsStill
  <1>6. Gathering'
    <2>1. \A g \in gathered' \ {NotAsked} : g.id \in ran /\ Home[g.id] = g.node
      BY <1>1, <1>4
    <2>2. ASSUME NEW c \in ghosts
          PROVE  \/ [id |-> c, node |-> Home[c]] \in gathered'
                 \/ Home[c] \in toAsk'
      BY <1>1, <1>4, <2>2
    <2>3. gathered' # {}
      BY <1>1
    <2>4. QED
      BY <1>1, <1>2, <1>5, <2>1, <2>2, <2>3 DEF Gathering
  <1>7. GhostsAreExact'
    BY <1>1, AnswerStays
  <1>8. ReadIsTrue'
    BY <1>1, ReadStays
  <1>9. QED
    BY <1>1, <1>2, <1>5, <1>6, <1>7, <1>8 DEF ScanInv

LEMMA DockerFailsStep == ASSUME ScanInv, DockerFails PROVE ScanInv'
  BY NothingGathered DEF DockerFails, ScanInv, Gathering

LEMMA FetchNodesStep == ASSUME ScanInv, fetchNodes PROVE ScanInv'
  <1>1. /\ question # Nobody /\ question.of = "nodes" /\ Unchanged
        /\ UNCHANGED <<question, read, asking, answer>>
    BY DEF fetchNodes, AllRead
  <1>2. ~IsScan
    BY <1>1 DEF IsScan
  <1>3. QED
    BY <1>1, <1>2, NothingGathered

LEMMA FetchStatsStep == ASSUME ScanInv, fetchTaskContainerStats PROVE ScanInv'
  <1>1. /\ question # Nobody /\ question.of = "stats" /\ Unchanged
        /\ UNCHANGED <<question, read, asking>>
    BY DEF fetchTaskContainerStats, AllRead
  <1>2. ~IsScan
    BY <1>1 DEF IsScan
  <1>3. QED
    BY <1>1, <1>2, NothingGathered

\* An agent that is not found fails a scan.
LEMMA ResolveStep ==
  ASSUME ScanInv, NEW n \in Nodes, resolveNodeAddress(n) PROVE ScanInv'
  <1>1. /\ question # Nobody
        /\ IsScan => gathered # {}
        /\ UNCHANGED <<question, read>> /\ Unchanged
    BY DEF resolveNodeAddress, ScanInv, Gathering
  <1>2. CASE ~IsScan
    BY <1>1, <1>2, NothingGathered DEF resolveNodeAddress, ScanInv
  <1>3. CASE IsScan
    <2>1. /\ answer' \in {answer, Failed}
          /\ UNCHANGED <<toAsk, gathered>>
      BY <1>3 DEF resolveNodeAddress, Fail, IsScan
    <2>2. question # Nobody /\ gathered # {}
      BY <1>1, <1>3 DEF IsScan
    <2>3. QED
      BY <1>1, <2>1, <2>2, NothingGathered
  <1>4. QED
    BY <1>2, <1>3

\* The agent of the node says what runs there now.
LEMMA AskAgentStep == ASSUME ScanInv, askAgent PROVE ScanInv'
  <1> DEFINE n == asking.node
             response == AgentAnswer(asking.address)
  <1>1. /\ asking # NotAsked /\ asking' = NotAsked /\ question # Nobody
        /\ UNCHANGED <<question, read>> /\ Unchanged
    BY DEF askAgent, ScanInv
  <1>2. CASE ~IsScan \/ ~FromNode(response, n)
    <2>1. CASE ~IsScan
      BY <1>1, <2>1, NothingGathered
    <2>2. CASE IsScan /\ ~FromNode(response, n)
      <3>1. Fail(n)
        BY <2>2 DEF askAgent, IsScan
      <3>2. answer' = Failed /\ UNCHANGED <<toAsk, gathered>>
        BY <2>2, <3>1 DEF Fail, IsScan
      <3>3. QED
        BY <1>1, <3>2, NothingGathered
    <2>3. QED
      BY <1>2, <2>1, <2>2
  <1>3. CASE IsScan /\ FromNode(response, n)
    <2>1. /\ gathered' = gathered \cup {[id |-> d, node |-> n] : d \in response.containers}
          /\ toAsk' = toAsk \ {n} /\ answer' = answer
          /\ response.containers = {c \in running : Home[c] = n}
      BY <1>3 DEF askAgent, IsScan, FromNode, AgentAnswer
    <2>2. /\ Remembered' /\ UNCHANGED <<owned, ghosts, ran, running>>
          /\ running \subseteq ran /\ ghosts \subseteq running
      BY <1>1, StandsStill DEF ScanInv, Remembered, GhostsNow
    <2>3. /\ question = [of |-> "ghosts"] /\ gathered # {}
          /\ \A g \in gathered \ {NotAsked} : g.id \in ran /\ Home[g.id] = g.node
          /\ \A c \in ghosts : \/ [id |-> c, node |-> Home[c]] \in gathered
                               \/ Home[c] \in toAsk
      BY <1>1, <1>3 DEF ScanInv, Gathering
    <2> HIDE DEF n, response
    <2>4. \A g \in gathered' \ {NotAsked} : g.id \in ran /\ Home[g.id] = g.node
      BY <2>1, <2>2, <2>3
    <2>5. ASSUME NEW c \in ghosts
          PROVE  \/ [id |-> c, node |-> Home[c]] \in gathered'
                 \/ Home[c] \in toAsk'
      BY <2>1, <2>2, <2>3, <2>5
    <2>6. gathered' # {}
      BY <2>1, <2>3
    <2>7. Gathering'
      BY <1>1, <2>2, <2>3, <2>4, <2>5, <2>6 DEF Gathering
    <2>8. GhostsAreExact'
      BY <1>1, <2>1, AnswerStays
    <2>9. ReadIsTrue'
      BY <1>1, ReadStays
    <2>10. QED
      BY <1>1, <2>2, <2>7, <2>8, <2>9 DEF ScanInv
  <1>4. QED
    BY <1>2, <1>3

\* The answer: what was gathered, but for what its task owns up to.
LEMMA AnswerStep == ASSUME ScanInv, Answer PROVE ScanInv'
  <1>1. /\ AllRead /\ question # Nobody /\ toAsk = {} /\ Unchanged
        /\ UNCHANGED <<question, read, asking, toAsk, gathered>>
    BY DEF Answer, AllRead
  <1>2. CASE ~IsScan
    BY <1>1, <1>2, NothingGathered
  <1>3. CASE IsScan
    <2>1. /\ NotAsked \in gathered
          /\ answer' = [ghosts |-> {g \in gathered \ {NotAsked} : IsGhost(g.id)}]
      BY <1>3 DEF Answer, IsScan
    <2>2. /\ question = [of |-> "ghosts"]
          /\ \A g \in gathered \ {NotAsked} : g.id \in ran /\ Home[g.id] = g.node
          /\ \A c \in ghosts : [id |-> c, node |-> Home[c]] \in gathered
      BY <1>1, <1>3, <2>1 DEF ScanInv, Gathering
    <2>3. DOMAIN read = {"containers", "tasks", "info", "nodes"}
      BY <1>1, <2>2 DEF AllRead, Reads
    <2>4. /\ \A c \in owned : ~IsGhost(c)
          /\ \A c \in ghosts : IsGhost(c)
      BY <2>3 DEF ScanInv, ReadIsTrue, IsGhost, Remembered, GhostsNow
    <2>5. Remembered' /\ UNCHANGED <<owned, ghosts, ran>>
      BY <1>1, StandsStill
    <2>6. GhostsAreReal'
      BY <2>1, <2>2, <2>4, <2>5 DEF GhostsAreReal
    <2>7. GhostsAreFound'
      <3>1. ASSUME NEW c \in ghosts PROVE c \in {g.id : g \in answer'.ghosts}
        <4> DEFINE g == [id |-> c, node |-> Home[c]]
        <4>1. g \in gathered /\ g.id = c
          BY <2>2
        <4>2. g # NotAsked
          <5>1. "id" \in DOMAIN g /\ "id" \notin DOMAIN NotAsked
            BY DEF NotAsked
          <5> HIDE DEF g
          <5>2. QED
            BY <5>1
        <4> HIDE DEF g
        <4>3. g \in answer'.ghosts
          BY <2>1, <2>4, <4>1, <4>2
        <4>4. QED
          BY <4>1, <4>3
      <3>2. QED
        BY <2>5, <3>1 DEF GhostsAreFound
    <2>8. Gathering'
      BY <1>1, <2>5 DEF ScanInv, Gathering, IsScan
    <2>9. ReadIsTrue'
      BY <1>1, ReadStays
    <2>10. QED
      BY <1>1, <2>5, <2>6, <2>7, <2>8, <2>9 DEF ScanInv, GhostsAreExact
  <1>4. QED
    BY <1>2, <1>3

LEMMA ScanNextInv == ASSUME ScanInv, ScanNext PROVE ScanInv'
  BY ClusterStep, AskStep, ReadStep, DockerFailsStep, FetchGhostsStep, FetchNodesStep,
     FetchStatsStep, ResolveStep, AskAgentStep, AnswerStep
     DEF ScanNext, ManagerAsks
-----------------------------------------------------------------------------
(* ManagerStart.                                                           *)

Defaults == {"Admin", "Sudo", "Desarrollo"}
IsRole(role) == /\ DOMAIN role = {"permissions", "readonly", "exists"}
                /\ role.readonly \in BOOLEAN /\ role.exists \in BOOLEAN
AreRoles(held) == DOMAIN held = RoleNames /\ \A name \in RoleNames : IsRole(held[name])

\* The records are what they are written as.
Shapes ==
    /\ DOMAIN process = {"phase", "environment", "todo", "reading", "updates"}
    /\ DOMAIN wanted = {"roles", "password", "limit", "missed"}
    /\ AreRoles(roles) /\ AreRoles(wanted.roles)
    /\ process.phase \in {"down", "secrets", "validate", "roles", "user", "load",
                          "serving"}
    /\ process.phase = "secrets" => process.environment \in Environments
    /\ process.phase = "roles" =>
          process.todo \in {<<"Admin", "Sudo", "Desarrollo">>,
                            <<"Sudo", "Desarrollo">>, <<"Desarrollo">>, <<>>}
    /\ settings \in Seq(Nat)
    /\ process.reading \in Nat /\ decisions \in Nat
    /\ process.updates \subseteq [limit : Nat, found : BOOLEAN]

\* What each phase has made sure of.
EnvironmentIsGood ==
    LET environment == process.environment IN
    /\ /\ process.phase \in {"validate", "roles", "user", "load", "serving"}
       /\ environment.vault
       => /\ environment.set.jwt = environment.answers.jwt
          /\ environment.set.apiKey = environment.answers.apiKey
    /\ process.phase \in {"roles", "user", "load", "serving"} => IsValid(environment)
RolesAreGood ==
    /\ process.phase = "roles" =>
          \A name \in Defaults :
             roles[name].exists \/ \E i \in 1..Len(process.todo) : process.todo[i] = name
    /\ process.phase \in {"user", "load", "serving"} =>
          WithConsole = {} /\ \A name \in Defaults : roles[name].exists
UserIsGood ==
    /\ password # "weak"
    /\ process.phase \in {"load", "serving"} /\ process.environment.bootstrap =>
          password # NoSecret

\* Without a first read that failed, there is one document before anybody
\* could find none.
SettingsAreOne ==
    /\ process.phase = "serving" /\ ~wanted.missed => settings # <<>>
    /\ process.reading > 0 => wanted.missed
    /\ \A update \in process.updates :
          IF update.found THEN settings # <<>> ELSE wanted.missed
    /\ process.phase # "serving" => process.reading = 0 /\ process.updates = {}

StartInv == /\ Shapes /\ EnvironmentIsGood /\ RolesAreGood /\ UserIsGood
            /\ SettingsAreOne /\ StartUpKeeps

\* Renaming is done after once.
LEMMA RenamedOnce ==
  ASSUME NEW permissions
  PROVE  /\ Renamed(Renamed(permissions)) = Renamed(permissions)
         /\ "console" \notin Renamed(permissions)
  BY DEF Renamed

LEMMA Names == RoleNames = {"Admin", "Sudo", "Desarrollo", "Legacy"}
               /\ DOMAIN RolesByDefault = Defaults
  BY DEF RoleNames, RolesByDefault, Defaults

LEMMA StartInitInv == StartInit => StartInv
  <1> SUFFICES ASSUME StartInit PROVE StartInv
    OBVIOUS
  <1>1. /\ process = Down /\ decisions = 0 /\ roles \in RoleStores
        /\ password = NoSecret /\ settings = <<>>
        /\ wanted = [roles |-> roles, password |-> NoSecret, limit |-> 0, missed |-> FALSE]
    BY DEF StartInit
  <1>2. /\ AreRoles(roles) /\ <<>> \in Seq(Nat)
    BY <1>1, StartAssumption, Names DEF AreRoles, IsRole
  <1>3. Shapes
    BY <1>1, <1>2 DEF Shapes, Down
  <1>4. EnvironmentIsGood /\ RolesAreGood /\ UserIsGood /\ SettingsAreOne
    BY <1>1, StartAssumption DEF Down, EnvironmentIsGood, RolesAreGood, UserIsGood,
                                 SettingsAreOne
  <1>5. StartUpKeeps
    <2>1. Len(settings) = 0
      BY <1>1
    <2>2. QED
      BY <1>1, <2>1 DEF StartUpKeeps
  <1>6. QED
    BY <1>3, <1>4, <1>5 DEF StartInv

\* A step of the start that stores nothing.
LEMMA NothingStored ==
  ASSUME StartInv, Shapes', EnvironmentIsGood', RolesAreGood', SettingsAreOne',
         UNCHANGED Stored,
         process'.phase \in {"load", "serving"} /\ process'.environment.bootstrap =>
            password # NoSecret
  PROVE  StartInv'
  BY DEF StartInv, Stored, UserIsGood, StartUpKeeps

LEMMA StartProcessStep == ASSUME StartInv, StartProcess PROVE StartInv'
  <1>1. PICK environment \in Environments :
            process' = [Down EXCEPT !.phase = "secrets", !.environment = environment]
    BY DEF StartProcess
  <1>2. UNCHANGED Stored /\ UNCHANGED decisions
    BY DEF StartProcess
  <1>3. Shapes'
    BY <1>1, <1>2 DEF StartInv, Shapes, Stored, Down
  <1>4. EnvironmentIsGood' /\ RolesAreGood' /\ SettingsAreOne' /\ process'.phase = "secrets"
    BY <1>1 DEF Down, EnvironmentIsGood, RolesAreGood, SettingsAreOne
  <1>5. QED
    BY <1>2, <1>3, <1>4, NothingStored

LEMMA DiesStep == ASSUME StartInv, Dies PROVE StartInv'
  <1>1. process' = Down /\ UNCHANGED Stored /\ UNCHANGED decisions
    BY DEF Dies
  <1>2. Shapes'
    BY <1>1 DEF StartInv, Shapes, Stored, Down
  <1>3. EnvironmentIsGood' /\ RolesAreGood' /\ SettingsAreOne' /\ process'.phase = "down"
    BY <1>1 DEF Down, EnvironmentIsGood, RolesAreGood, SettingsAreOne
  <1>4. QED
    BY <1>1, <1>2, <1>3, NothingStored

LEMMA LoadSecretsStep == ASSUME StartInv, LoadSecrets PROVE StartInv'
  <1> DEFINE environment == process.environment
             set == IF environment.vault THEN VaultSecrets(environment) ELSE environment.set
  <1>1. /\ process.phase = "secrets" /\ environment \in Environments
        /\ process' = [process EXCEPT !.phase = "validate", !.environment.set = set]
        /\ UNCHANGED Stored /\ UNCHANGED decisions
        /\ Shapes
    BY DEF LoadSecrets, StartInv, Shapes
  <1>2. environment.vault => /\ set.jwt = environment.answers.jwt
                             /\ set.apiKey = environment.answers.apiKey
    BY DEF VaultSecrets, Secrets
  <1>3. /\ {"vault", "answers", "set"} \subseteq DOMAIN environment
    BY <1>1, StartAssumption
  <1> HIDE DEF set
  <1>4. /\ DOMAIN process' = DOMAIN process
        /\ process'.phase = "validate" /\ process'.todo = process.todo
        /\ process'.reading = process.reading /\ process'.updates = process.updates
        /\ process'.environment = [environment EXCEPT !.set = set]
    BY <1>1 DEF Shapes
  <1>5. /\ process'.environment.set = set
        /\ process'.environment.vault = environment.vault
        /\ process'.environment.answers = environment.answers
    BY <1>3, <1>4
  <1>6. Shapes'
    BY <1>1, <1>4 DEF Shapes, Stored
  <1>7. EnvironmentIsGood'
    BY <1>2, <1>4, <1>5 DEF EnvironmentIsGood
  <1>8. RolesAreGood'
    BY <1>4 DEF RolesAreGood
  <1>9. SettingsAreOne'
    BY <1>1, <1>4 DEF StartInv, SettingsAreOne, Stored
  <1>10. QED
    BY <1>1, <1>4, <1>6, <1>7, <1>8, <1>9, NothingStored

LEMMA ValidateStep == ASSUME StartInv, Validate PROVE StartInv'
  <1>1. /\ process.phase = "validate" /\ IsValid(process.environment)
        /\ process' = [process EXCEPT !.phase = "roles",
                                      !.todo = <<"Admin", "Sudo", "Desarrollo">>]
        /\ UNCHANGED Stored /\ UNCHANGED decisions /\ Shapes
    BY DEF Validate, StartInv
  <1>2. /\ DOMAIN process' = DOMAIN process
        /\ process'.phase = "roles" /\ process'.todo = <<"Admin", "Sudo", "Desarrollo">>
        /\ process'.reading = process.reading /\ process'.updates = process.updates
        /\ process'.environment = process.environment
    BY <1>1 DEF Shapes
  <1>3. Shapes'
    BY <1>1, <1>2 DEF Shapes, Stored
  <1>4. EnvironmentIsGood'
    BY <1>1, <1>2 DEF StartInv, EnvironmentIsGood
  <1>5. RolesAreGood'
    <2>1. /\ Len(process'.todo) = 3 /\ process'.todo[1] = "Admin"
          /\ process'.todo[2] = "Sudo" /\ process'.todo[3] = "Desarrollo"
      BY <1>2
    <2>2. QED
      BY <1>2, <2>1 DEF RolesAreGood, Defaults
  <1>6. SettingsAreOne'
    BY <1>1, <1>2 DEF StartInv, SettingsAreOne, Stored
  <1>7. QED
    BY <1>1, <1>2, <1>3, <1>4, <1>5, <1>6, NothingStored

LEMMA RolesDoneStep == ASSUME StartInv, RolesDone PROVE StartInv'
  <1>1. /\ process.todo = <<>> /\ WithConsole = {} /\ process.phase = "roles"
        /\ process' = [process EXCEPT !.phase = "user"]
        /\ UNCHANGED Stored /\ UNCHANGED decisions /\ Shapes
    BY DEF RolesDone, Phase, StartInv
  <1>2. /\ DOMAIN process' = DOMAIN process
        /\ process'.phase = "user" /\ process'.todo = process.todo
        /\ process'.reading = process.reading /\ process'.updates = process.updates
        /\ process'.environment = process.environment
    BY <1>1 DEF Shapes
  <1>3. Shapes'
    BY <1>1, <1>2 DEF Shapes, Stored
  <1>4. EnvironmentIsGood'
    BY <1>1, <1>2 DEF StartInv, EnvironmentIsGood
  <1>5. RolesAreGood'
    <2>1. Len(process.todo) = 0 /\ roles' = roles
      BY <1>1 DEF Stored
    <2>2. \A name \in Defaults : roles[name].exists
      BY <1>1, <2>1 DEF StartInv, RolesAreGood
    <2>3. WithConsole' = {}
      BY <1>1, <2>1 DEF WithConsole
    <2>4. QED
      BY <1>2, <2>1, <2>2, <2>3 DEF RolesAreGood
  <1>6. SettingsAreOne'
    BY <1>1, <1>2 DEF StartInv, SettingsAreOne, Stored
  <1>7. QED
    BY <1>1, <1>2, <1>3, <1>4, <1>5, <1>6, NothingStored
\* A default role is written unless people decide about it, and then it is
\* what was wanted.
LEMMA WriteRoleStep == ASSUME StartInv, WriteRole PROVE StartInv'
  <1> DEFINE name == Head(process.todo)
             role == [permissions |-> RolesByDefault[name], exists |-> TRUE,
                      readonly |-> name \in OnlyRead]
  <1>1. /\ process.phase = "roles" /\ process.todo # <<>> /\ Shapes
        /\ process' = [process EXCEPT !.todo = Tail(@)]
        /\ roles' = IF MayWrite(name) THEN [roles EXCEPT ![name] = role] ELSE roles
        /\ wanted' = IF ByPeople(name) THEN wanted
                     ELSE [wanted EXCEPT !.roles[name] = role]
        /\ UNCHANGED <<password, settings, decisions>>
    BY DEF WriteRole, StartInv
  <1>2. /\ DOMAIN process' = DOMAIN process
        /\ process'.phase = "roles" /\ process'.todo = Tail(process.todo)
        /\ process'.reading = process.reading /\ process'.updates = process.updates
        /\ process'.environment = process.environment
    BY <1>1 DEF Shapes
  <1>3. /\ process.todo \in {<<"Admin", "Sudo", "Desarrollo">>,
                             <<"Sudo", "Desarrollo">>, <<"Desarrollo">>}
        /\ AreRoles(roles) /\ AreRoles(wanted.roles)
    BY <1>1 DEF Shapes
  <1>4. /\ name \in Defaults /\ name \in RoleNames
        /\ process'.todo \in {<<"Sudo", "Desarrollo">>, <<"Desarrollo">>, <<>>}
        /\ \A other \in Defaults :
              (\E i \in 1..Len(process.todo) : process.todo[i] = other)
              => \/ other = name
                 \/ \E i \in 1..Len(process'.todo) : process'.todo[i] = other
    <2>1. CASE process.todo = <<"Admin", "Sudo", "Desarrollo">>
      <3>1. /\ name = "Admin" /\ process'.todo = <<"Sudo", "Desarrollo">>
            /\ Len(process.todo) = 3 /\ process.todo[1] = "Admin"
            /\ process.todo[2] = "Sudo" /\ process.todo[3] = "Desarrollo"
            /\ Len(process'.todo) = 2 /\ process'.todo[1] = "Sudo"
            /\ process'.todo[2] = "Desarrollo"
        BY <1>2, <2>1
      <3> HIDE DEF name
      <3>2. QED
        BY <3>1, Names DEF Defaults
    <2>2. CASE process.todo = <<"Sudo", "Desarrollo">>
      <3>1. /\ name = "Sudo" /\ process'.todo = <<"Desarrollo">>
            /\ Len(process.todo) = 2 /\ process.todo[1] = "Sudo"
            /\ process.todo[2] = "Desarrollo"
            /\ Len(process'.todo) = 1 /\ process'.todo[1] = "Desarrollo"
        BY <1>2, <2>2
      <3> HIDE DEF name
      <3>2. QED
        BY <3>1, Names DEF Defaults
    <2>3. CASE process.todo = <<"Desarrollo">>
      <3>1. /\ name = "Desarrollo" /\ process'.todo = <<>>
            /\ Len(process.todo) = 1 /\ process.todo[1] = "Desarrollo"
        BY <1>2, <2>3
      <3> HIDE DEF name
      <3>2. QED
        BY <3>1, Names DEF Defaults
    <2>4. QED
      BY <1>3, <2>1, <2>2, <2>3
  <1>5. IsRole(role) /\ role.exists
    BY DEF IsRole
  <1> HIDE DEF name, role
  <1>6. MayWrite(name) <=> ~ByPeople(name)
    BY DEF MayWrite, ByPeople
  <1>7. /\ DOMAIN wanted' = DOMAIN wanted /\ wanted'.password = wanted.password
        /\ wanted'.limit = wanted.limit /\ wanted'.missed = wanted.missed
        /\ \/ /\ roles' = roles /\ wanted'.roles = wanted.roles /\ ~MayWrite(name)
           \/ /\ roles' = [roles EXCEPT ![name] = role]
              /\ wanted'.roles = [wanted.roles EXCEPT ![name] = role]
    BY <1>1, <1>6 DEF Shapes
  <1>8. AreRoles(roles') /\ AreRoles(wanted'.roles)
    BY <1>3, <1>4, <1>5, <1>7 DEF AreRoles
  <1>9. Shapes'
    BY <1>1, <1>2, <1>4, <1>7, <1>8 DEF Shapes
  <1>10. EnvironmentIsGood'
    BY <1>1, <1>2 DEF StartInv, EnvironmentIsGood
  <1>11. RolesAreGood'
    <2>1. roles'[name].exists
      BY <1>3, <1>4, <1>5, <1>7 DEF MayWrite, AreRoles
    <2>2. \A other \in Defaults : roles[other].exists => roles'[other].exists
      BY <1>3, <1>4, <1>5, <1>7, Names DEF AreRoles, Defaults
    <2>3. QED
      BY <1>1, <1>2, <1>4, <2>1, <2>2 DEF StartInv, RolesAreGood
  <1>12. UserIsGood' /\ SettingsAreOne'
    BY <1>1, <1>2, <1>7 DEF StartInv, UserIsGood, SettingsAreOne
  <1>13. StartUpKeeps'
    <2>1. \A other \in RoleNames :
             /\ roles'[other].permissions \in {wanted'.roles[other].permissions,
                                               Renamed(wanted'.roles[other].permissions)}
             /\ roles'[other].exists = wanted'.roles[other].exists
      <3>1. \A other \in RoleNames :
             /\ roles[other].permissions \in {wanted.roles[other].permissions,
                                              Renamed(wanted.roles[other].permissions)}
             /\ roles[other].exists = wanted.roles[other].exists
        BY DEF StartInv, StartUpKeeps
      <3>2. QED
        BY <1>3, <1>7, <3>1 DEF AreRoles
    <2>2. QED
      BY <1>1, <1>7, <2>1 DEF StartInv, StartUpKeeps
  <1>14. QED
    BY <1>9, <1>10, <1>11, <1>12, <1>13 DEF StartInv

LEMMA MigrateRoleStep == ASSUME StartInv, MigrateRole PROVE StartInv'
  <1>1. PICK name \in WithConsole : roles' = [roles EXCEPT ![name].permissions = Renamed(@)]
    BY DEF MigrateRole
  <1>2. /\ process.phase = "roles" /\ Shapes /\ AreRoles(roles)
        /\ UNCHANGED <<process, password, settings, wanted, decisions>>
        /\ name \in RoleNames
    BY DEF MigrateRole, StartInv, Shapes, WithConsole
  <1>3. /\ AreRoles(roles')
        /\ \A other \in RoleNames :
              /\ roles'[other].exists = roles[other].exists
              /\ roles'[other].permissions =
                    IF other = name THEN Renamed(roles[name].permissions)
                    ELSE roles[other].permissions
    BY <1>1, <1>2 DEF AreRoles, IsRole
  <1>4. Shapes'
    BY <1>2, <1>3 DEF Shapes
  <1>5. EnvironmentIsGood' /\ UserIsGood' /\ SettingsAreOne'
    BY <1>2 DEF StartInv, EnvironmentIsGood, UserIsGood, SettingsAreOne
  <1>6. RolesAreGood'
    BY <1>2, <1>3, Names DEF StartInv, RolesAreGood, Defaults
  <1>7. StartUpKeeps'
    <2>1. \A other \in RoleNames :
             /\ roles[other].permissions \in {wanted.roles[other].permissions,
                                              Renamed(wanted.roles[other].permissions)}
             /\ roles[other].exists = wanted.roles[other].exists
      BY DEF StartInv, StartUpKeeps
    <2>2. ASSUME NEW other \in RoleNames
          PROVE /\ roles'[other].permissions \in {wanted.roles[other].permissions,
                                                  Renamed(wanted.roles[other].permissions)}
                /\ roles'[other].exists = wanted.roles[other].exists
      <3>1. Renamed(Renamed(wanted.roles[other].permissions))
              = Renamed(wanted.roles[other].permissions)
        BY RenamedOnce
      <3>2. QED
        BY <1>3, <2>1, <3>1
    <2>3. QED
      BY <1>2, <2>2 DEF StartInv, StartUpKeeps
  <1>8. QED
    BY <1>4, <1>5, <1>6, <1>7 DEF StartInv

LEMMA BootstrapUserStep == ASSUME StartInv, BootstrapUser PROVE StartInv'
  <1>1. /\ process.phase = "user" /\ process' = [process EXCEPT !.phase = "load"]
        /\ UNCHANGED <<roles, settings, decisions>> /\ Shapes
    BY DEF BootstrapUser, Phase, StartInv
  <1>2. /\ DOMAIN process' = DOMAIN process
        /\ process'.phase = "load" /\ process'.todo = process.todo
        /\ process'.reading = process.reading /\ process'.updates = process.updates
        /\ process'.environment = process.environment
    BY <1>1 DEF Shapes
  <1>3. /\ DOMAIN wanted' = DOMAIN wanted /\ wanted'.roles = wanted.roles
        /\ wanted'.limit = wanted.limit /\ wanted'.missed = wanted.missed
        /\ wanted'.password = password' /\ password' # "weak"
        /\ process.environment.bootstrap => password' # NoSecret
    <2>1. CASE process.environment.bootstrap /\ password = NoSecret
      <3>1. /\ process.environment.set.password # "weak"
            /\ password' = process.environment.set.password
            /\ wanted' = [wanted EXCEPT !.password = password']
        BY <2>1 DEF BootstrapUser
      <3>2. process.environment.set.password # NoSecret
        BY <1>1, <2>1 DEF StartInv, EnvironmentIsGood, IsValid
      <3>3. QED
        BY <1>1, <3>1, <3>2 DEF Shapes
    <2>2. CASE ~(process.environment.bootstrap /\ password = NoSecret)
      <3>1. UNCHANGED <<password, wanted>>
        BY <2>2 DEF BootstrapUser
      <3>2. QED
        BY <2>2, <3>1 DEF StartInv, UserIsGood, StartUpKeeps
    <2>3. QED
      BY <2>1, <2>2
  <1>4. Shapes'
    BY <1>1, <1>2, <1>3 DEF Shapes
  <1>5. EnvironmentIsGood' /\ UserIsGood' /\ SettingsAreOne'
    BY <1>1, <1>2, <1>3 DEF StartInv, EnvironmentIsGood, UserIsGood, SettingsAreOne
  <1>6. RolesAreGood'
    BY <1>1, <1>2 DEF StartInv, RolesAreGood, WithConsole
  <1>7. StartUpKeeps'
    BY <1>1, <1>3 DEF StartInv, StartUpKeeps
  <1>8. QED
    BY <1>4, <1>5, <1>6, <1>7 DEF StartInv

\* A step that leaves the roles and the password alone, and the phase that it
\* has or that follows on "load".
LEMMA SettingsStep ==
  ASSUME StartInv, UNCHANGED <<roles, password>>,
         DOMAIN process' = DOMAIN process, DOMAIN wanted' = DOMAIN wanted,
         process.phase \in {"load", "serving"}, process'.phase = "serving",
         process'.environment = process.environment,
         process'.reading \in Nat, decisions' \in Nat, settings' \in Seq(Nat),
         process'.updates \subseteq [limit : Nat, found : BOOLEAN],
         wanted'.roles = wanted.roles, wanted'.password = wanted.password,
         SettingsAreOne',
         ~wanted'.missed => Len(settings') <= 1,
         Len(settings') = 1 => settings'[1] = wanted'.limit
  PROVE  StartInv'
  <1>1. Shapes'
    BY DEF StartInv, Shapes
  <1>2. EnvironmentIsGood' /\ UserIsGood'
    BY DEF StartInv, EnvironmentIsGood, UserIsGood
  <1>3. RolesAreGood'
    BY DEF StartInv, RolesAreGood, WithConsole
  <1>4. StartUpKeeps'
    BY DEF StartInv, StartUpKeeps
  <1>5. QED
    BY <1>1, <1>2, <1>3, <1>4 DEF StartInv

\* What the invariant says of the settings.
LEMMA SettingsFacts ==
  ASSUME StartInv
  PROVE  /\ settings \in Seq(Nat) /\ Len(settings) \in Nat
         /\ settings = <<>> <=> Len(settings) = 0
         /\ ~wanted.missed => Len(settings) <= 1
         /\ Len(settings) = 1 => settings[1] = wanted.limit
         /\ process.reading \in Nat /\ decisions \in Nat /\ FirstLimit \in Nat
         /\ process.updates \subseteq [limit : Nat, found : BOOLEAN]
         /\ DOMAIN process = {"phase", "environment", "todo", "reading", "updates"}
         /\ DOMAIN wanted = {"roles", "password", "limit", "missed"}
         /\ SettingsAreOne
  <1>1. settings \in Seq(Nat)
    BY DEF StartInv, Shapes
  <1>2. Len(settings) \in Nat /\ (settings = <<>> <=> Len(settings) = 0)
    BY <1>1
  <1>3. QED
    BY <1>1, <1>2 DEF StartInv, Shapes, StartUpKeeps, FirstLimit
\* The first reader leaves a document there, or people know that it failed.
LEMMA FirstReadStep == ASSUME StartInv, FirstRead PROVE StartInv'
  <1>1. /\ process.phase = "load" /\ process' = [process EXCEPT !.phase = "serving"]
        /\ settings' = IF settings = <<>> THEN <<FirstLimit>> ELSE settings
        /\ wanted' = IF settings = <<>> THEN [wanted EXCEPT !.limit = FirstLimit]
                     ELSE wanted
        /\ UNCHANGED <<roles, password, decisions>>
    BY DEF FirstRead, Listen, Phase
  <1>2. /\ DOMAIN process' = DOMAIN process
        /\ process'.phase = "serving" /\ process'.updates = {}
        /\ process'.reading = 0 /\ process'.environment = process.environment
    BY <1>1, SettingsFacts DEF SettingsAreOne
  <1>3. /\ DOMAIN wanted' = DOMAIN wanted /\ wanted'.roles = wanted.roles
        /\ wanted'.password = wanted.password /\ wanted'.missed = wanted.missed
        /\ wanted'.limit = IF settings = <<>> THEN FirstLimit ELSE wanted.limit
    BY <1>1, SettingsFacts
  <1>4. /\ <<FirstLimit>> \in Seq(Nat) /\ Len(<<FirstLimit>>) = 1
        /\ <<FirstLimit>>[1] = FirstLimit /\ <<FirstLimit>> # <<>>
    BY SettingsFacts
  <1>5. /\ settings' \in Seq(Nat) /\ settings' # <<>>
        /\ ~wanted'.missed => Len(settings') <= 1
        /\ Len(settings') = 1 => settings'[1] = wanted'.limit
    BY <1>1, <1>3, <1>4, SettingsFacts
  <1>6. SettingsAreOne'
    BY <1>2, <1>5 DEF SettingsAreOne
  <1>7. QED
    BY <1>1, <1>2, <1>3, <1>5, <1>6, SettingsFacts, SettingsStep

LEMMA FirstReadFailsStep == ASSUME StartInv, FirstReadFails PROVE StartInv'
  <1>1. /\ process.phase = "load" /\ process' = [process EXCEPT !.phase = "serving"]
        /\ wanted' = [wanted EXCEPT !.missed = @ \/ settings = <<>>]
        /\ UNCHANGED <<roles, password, settings, decisions>>
    BY DEF FirstReadFails, Listen, Phase
  <1>2. /\ DOMAIN process' = DOMAIN process
        /\ process'.phase = "serving" /\ process'.updates = {}
        /\ process'.reading = 0 /\ process'.environment = process.environment
    BY <1>1, SettingsFacts DEF SettingsAreOne
  <1>3. /\ DOMAIN wanted' = DOMAIN wanted /\ wanted'.roles = wanted.roles
        /\ wanted'.password = wanted.password /\ wanted'.limit = wanted.limit
        /\ ~wanted'.missed => ~wanted.missed /\ settings # <<>>
    BY <1>1, SettingsFacts
  <1>4. SettingsAreOne'
    BY <1>1, <1>2, <1>3 DEF SettingsAreOne
  <1>5. QED
    BY <1>1, <1>2, <1>3, <1>4, SettingsFacts, SettingsStep

\* Only then does a request find none.
LEMMA ReadBeginsStep == ASSUME StartInv, ReadBegins PROVE StartInv'
  <1>1. /\ process.phase = "serving" /\ settings = <<>>
        /\ process' = [process EXCEPT !.reading = @ + 1]
        /\ UNCHANGED <<roles, password, settings, wanted, decisions>>
    BY DEF ReadBegins, FoundNothing, Stored
  <1>2. wanted.missed
    BY <1>1, SettingsFacts DEF SettingsAreOne
  <1>3. /\ DOMAIN process' = DOMAIN process
        /\ process'.phase = "serving" /\ process'.updates = process.updates
        /\ process'.reading \in Nat /\ process'.environment = process.environment
    BY <1>1, SettingsFacts
  <1>4. SettingsAreOne'
    BY <1>1, <1>2, <1>3, SettingsFacts DEF SettingsAreOne
  <1>5. QED
    BY <1>1, <1>3, <1>4, SettingsFacts, SettingsStep

LEMMA ReadCreatesStep == ASSUME StartInv, ReadCreates PROVE StartInv'
  <1>1. /\ process.reading > 0
        /\ settings' = Append(settings, FirstLimit)
        /\ process' = [process EXCEPT !.reading = @ - 1]
        /\ wanted' = IF settings = <<>> THEN [wanted EXCEPT !.limit = FirstLimit]
                     ELSE wanted
        /\ UNCHANGED <<roles, password, decisions>>
    BY DEF ReadCreates
  <1>2. process.phase = "serving" /\ wanted.missed
    BY <1>1, SettingsFacts DEF SettingsAreOne
  <1>3. /\ DOMAIN process' = DOMAIN process
        /\ process'.phase = "serving" /\ process'.updates = process.updates
        /\ process'.reading \in Nat /\ process'.environment = process.environment
    BY <1>1, <1>2, SettingsFacts
  <1>4. /\ DOMAIN wanted' = DOMAIN wanted /\ wanted'.roles = wanted.roles
        /\ wanted'.password = wanted.password /\ wanted'.missed = wanted.missed
        /\ wanted'.limit = IF settings = <<>> THEN FirstLimit ELSE wanted.limit
    BY <1>1, SettingsFacts
  <1>5. /\ settings' \in Seq(Nat) /\ settings' # <<>>
        /\ Len(settings') = Len(settings) + 1
        /\ Len(settings) = 0 => settings'[1] = FirstLimit
    BY <1>1, SettingsFacts
  <1>6. Len(settings') = 1 => settings'[1] = wanted'.limit
    BY <1>4, <1>5, SettingsFacts
  <1>7. SettingsAreOne'
    BY <1>2, <1>3, <1>4, <1>5, SettingsFacts DEF SettingsAreOne
  <1>8. QED
    BY <1>1, <1>2, <1>3, <1>4, <1>5, <1>6, <1>7, SettingsFacts, SettingsStep

LEMMA UpdateBeginsStep == ASSUME StartInv, UpdateBegins PROVE StartInv'
  <1> DEFINE update == [limit |-> FirstLimit + decisions', found |-> settings # <<>>]
  <1>1. /\ process.phase = "serving" /\ decisions' = decisions + 1
        /\ process' = [process EXCEPT !.updates = @ \cup {update}]
        /\ UNCHANGED <<roles, password, settings, wanted>>
    BY DEF UpdateBegins, Stored
  <1>2. /\ update \in [limit : Nat, found : BOOLEAN]
        /\ update.found = (settings # <<>>) /\ decisions' \in Nat
    BY <1>1, SettingsFacts
  <1> HIDE DEF update
  <1>3. /\ DOMAIN process' = DOMAIN process
        /\ process'.phase = "serving"
        /\ process'.updates = process.updates \cup {update}
        /\ process'.reading = process.reading
        /\ process'.environment = process.environment
    BY <1>1, SettingsFacts
  <1>4. SettingsAreOne'
    <2>1. \A other \in process'.updates :
             IF other.found THEN settings # <<>> ELSE wanted.missed
      BY <1>1, <1>2, <1>3, SettingsFacts DEF SettingsAreOne
    <2>2. QED
      BY <1>1, <1>3, <2>1, SettingsFacts DEF SettingsAreOne
  <1>5. QED
    BY <1>1, <1>2, <1>3, <1>4, SettingsFacts, SettingsStep

LEMMA UpdateSavesStep == ASSUME StartInv, UpdateSaves PROVE StartInv'
  <1>1. PICK update \in process.updates :
            /\ settings' = IF update.found THEN [settings EXCEPT ![1] = update.limit]
                           ELSE Append(settings, update.limit)
            /\ process' = [process EXCEPT !.updates = @ \ {update}]
            /\ wanted' = [wanted EXCEPT !.limit = update.limit]
    BY DEF UpdateSaves
  <1>2. UNCHANGED <<roles, password, decisions>>
    BY DEF UpdateSaves
  <1>3. /\ process.phase = "serving" /\ update.limit \in Nat
        /\ IF update.found THEN settings # <<>> ELSE wanted.missed
    <2>1. /\ process.phase # "serving" => process.updates = {}
          /\ \A u \in process.updates : IF u.found THEN settings # <<>> ELSE wanted.missed
          /\ process.updates \subseteq [limit : Nat, found : BOOLEAN]
      BY SettingsFacts DEF SettingsAreOne, StartInv, Shapes
    <2>2. QED
      BY <2>1 DEF StartInv, Shapes
  <1>4. /\ DOMAIN process' = DOMAIN process
        /\ process'.phase = "serving" /\ process'.updates \subseteq process.updates
        /\ process'.reading = process.reading
        /\ process'.environment = process.environment
    BY <1>1, <1>3, SettingsFacts
  <1>5. /\ DOMAIN wanted' = DOMAIN wanted /\ wanted'.roles = wanted.roles
        /\ wanted'.password = wanted.password /\ wanted'.missed = wanted.missed
        /\ wanted'.limit = update.limit
    BY <1>1, SettingsFacts
  <1>6. /\ settings' \in Seq(Nat) /\ settings' # <<>>
        /\ ~wanted'.missed => Len(settings') <= 1
        /\ Len(settings') = 1 => settings'[1] = wanted'.limit
    <2>1. CASE update.found
      <3>1. settings' = [settings EXCEPT ![1] = update.limit] /\ settings # <<>>
        BY <1>1, <1>3, <2>1
      <3>2. /\ settings' \in Seq(Nat) /\ Len(settings') = Len(settings)
            /\ settings'[1] = update.limit /\ Len(settings) # 0
        BY <1>3, <3>1, SettingsFacts
      <3>3. settings' # <<>>
        BY <3>2, SettingsFacts
      <3>4. QED
        BY <1>5, <3>2, <3>3, SettingsFacts
    <2>2. CASE ~update.found
      <3>1. settings' = Append(settings, update.limit) /\ wanted.missed
        BY <1>1, <1>3, <2>2
      <3>2. /\ settings' \in Seq(Nat) /\ settings' # <<>>
            /\ Len(settings') = Len(settings) + 1
            /\ Len(settings) = 0 => settings'[1] = update.limit
        BY <1>3, <3>1, SettingsFacts
      <3>3. QED
        BY <1>5, <3>1, <3>2, SettingsFacts
    <2>3. QED
      BY <2>1, <2>2
  <1>7. SettingsAreOne'
    BY <1>4, <1>5, <1>6, SettingsFacts DEF SettingsAreOne
  <1>8. QED
    BY <1>2, <1>3, <1>4, <1>5, <1>6, <1>7, SettingsFacts, SettingsStep

\* People change a role they may change, or a password there is.
LEMMA EditRoleStep ==
  ASSUME StartInv, NEW name \in RoleNames, EditRole(name) PROVE StartInv'
  <1>1. /\ process.phase = "serving" /\ decisions' = decisions + 1
        /\ roles' = [roles EXCEPT ![name].permissions = {"view"}]
        /\ wanted' = [wanted EXCEPT !.roles[name].permissions = {"view"}]
        /\ UNCHANGED <<process, password, settings>>
        /\ Shapes /\ AreRoles(roles) /\ AreRoles(wanted.roles)
    BY DEF EditRole, StartInv, Shapes
  <1>2. /\ AreRoles(roles')
        /\ \A other \in RoleNames :
              /\ roles'[other].exists = roles[other].exists
              /\ roles'[other].permissions =
                    IF other = name THEN {"view"} ELSE roles[other].permissions
    BY <1>1 DEF AreRoles, IsRole
  <1>3. /\ DOMAIN wanted' = DOMAIN wanted
        /\ wanted'.roles = [wanted.roles EXCEPT ![name].permissions = {"view"}]
        /\ wanted'.password = wanted.password /\ wanted'.limit = wanted.limit
        /\ wanted'.missed = wanted.missed
    BY <1>1 DEF Shapes
  <1>4. /\ AreRoles(wanted'.roles)
        /\ \A other \in RoleNames :
              /\ wanted'.roles[other].exists = wanted.roles[other].exists
              /\ wanted'.roles[other].permissions =
                    IF other = name THEN {"view"} ELSE wanted.roles[other].permissions
    BY <1>1, <1>3 DEF AreRoles, IsRole
  <1>5. Shapes'
    BY <1>1, <1>2, <1>3, <1>4 DEF Shapes
  <1>6. EnvironmentIsGood' /\ UserIsGood' /\ SettingsAreOne'
    BY <1>1, <1>3 DEF StartInv, EnvironmentIsGood, UserIsGood, SettingsAreOne
  <1>7. RolesAreGood'
    <2>1. WithConsole = {} /\ \A other \in Defaults : roles[other].exists
      BY <1>1 DEF StartInv, RolesAreGood
    <2>2. WithConsole' = {}
      BY <1>2, <2>1 DEF WithConsole
    <2>3. QED
      BY <1>1, <1>2, <2>1, <2>2, Names DEF RolesAreGood, Defaults
  <1>8. StartUpKeeps'
    BY <1>1, <1>2, <1>3, <1>4 DEF StartInv, StartUpKeeps
  <1>9. QED
    BY <1>5, <1>6, <1>7, <1>8 DEF StartInv

LEMMA ChangePasswordStep == ASSUME StartInv, ChangePassword PROVE StartInv'
  <1>1. /\ process.phase = "serving" /\ decisions' = decisions + 1
        /\ password' = "changed"
        /\ wanted' = [wanted EXCEPT !.password = "changed"]
        /\ UNCHANGED <<process, roles, settings>> /\ Shapes
    BY DEF ChangePassword, StartInv
  <1>2. /\ DOMAIN wanted' = DOMAIN wanted /\ wanted'.roles = wanted.roles
        /\ wanted'.password = "changed" /\ wanted'.limit = wanted.limit
        /\ wanted'.missed = wanted.missed
    BY <1>1 DEF Shapes
  <1>3. Shapes'
    BY <1>1, <1>2 DEF Shapes
  <1>4. EnvironmentIsGood' /\ UserIsGood' /\ SettingsAreOne'
    BY <1>1, <1>2, StartAssumption DEF StartInv, EnvironmentIsGood, UserIsGood,
                                       SettingsAreOne
  <1>5. RolesAreGood'
    BY <1>1 DEF StartInv, RolesAreGood, WithConsole
  <1>6. StartUpKeeps'
    BY <1>1, <1>2 DEF StartInv, StartUpKeeps
  <1>7. QED
    BY <1>3, <1>4, <1>5, <1>6 DEF StartInv

LEMMA StartNextInv == ASSUME StartInv, StartNext PROVE StartInv'
  BY StartProcessStep, DiesStep, LoadSecretsStep, ValidateStep, WriteRoleStep,
     MigrateRoleStep, RolesDoneStep, BootstrapUserStep, FirstReadStep,
     FirstReadFailsStep, ReadBeginsStep, ReadCreatesStep, UpdateBeginsStep,
     UpdateSavesStep, EditRoleStep, ChangePasswordStep
     DEF StartNext

\* What the phases made sure of is what a manager that serves needs.
LEMMA StartIsSafe == StartInv => StoreIsKept
  BY Names DEF StartInv, StoreIsKept, ServesWhenReady, EnvironmentIsGood, IsValid,
               RolesAreGood, UserIsGood, Defaults

-----------------------------------------------------------------------------
(* ServiceEdits.                                                           *)

\* f laid over g.
LEMMA Merged ==
  ASSUME NEW f, NEW g
  PROVE  /\ DOMAIN (f ++ g) = DOMAIN f \cup DOMAIN g
         /\ \A x : x \in DOMAIN f => (f ++ g)[x] = f[x]
         /\ \A x : x \in DOMAIN g /\ x \notin DOMAIN f => (f ++ g)[x] = g[x]
  BY DEF ++

\* f and g say the same of x.
Same(f, g, x) == /\ x \in DOMAIN f <=> x \in DOMAIN g
                 /\ x \in DOMAIN f => f[x] = g[x]

\* A field is what was asked, or what was there.
LEMMA Written ==
  ASSUME NEW field, NEW value, NEW from, NEW input, NEW previous
  PROVE  LET w == Write(field, value, from, input, previous)
         IN  /\ DOMAIN w \subseteq {field}
             /\ from \in DOMAIN input => field \in DOMAIN w /\ w[field] = value
             /\ from \notin DOMAIN input => Same(w, previous, field)
  BY DEF Write, Just, Restricted, Same

\* Where one part alone speaks of x, so does the whole.
LEMMA JoinedAt ==
  ASSUME NEW parts, NEW i \in DOMAIN parts, NEW x,
         \A j \in DOMAIN parts : j # i => x \notin DOMAIN parts[j]
  PROVE  Same(Joined(parts), parts[i], x)
  <1> DEFINE S == UNION {DOMAIN parts[j] : j \in DOMAIN parts}
             f == Joined(parts)
  <1>1. DOMAIN f = S /\ \A y \in S : f[y] = parts[CHOOSE j \in DOMAIN parts : y \in DOMAIN parts[j]][y]
    BY DEF Joined
  <1>2. x \in S <=> x \in DOMAIN parts[i]
    OBVIOUS
  <1>3. ASSUME x \in DOMAIN parts[i] PROVE (CHOOSE j \in DOMAIN parts : x \in DOMAIN parts[j]) = i
    BY <1>3
  <1>4. QED
    BY <1>1, <1>2, <1>3 DEF Same

\* Which part of the specification each field of it comes from.
LEMMA SpecParts ==
  ASSUME NEW input, NEW old
  PROVE  LET s == toServiceSpec(input, old)
             previous == Container(old)
             stack == stackOf(input, old)
             Has(part, field) == Same(s, part, field)
         IN  /\ Has(Write("Name", input.name, "name", input, previous), "Name")
             /\ Has(Write("Image", input.image, "image", input, previous), "Image")
             /\ Has(toCommand(input, previous), "Command")
             /\ Has(Write("Env", MapAll(toEntry, input.envs), "envs", input, previous), "Env")
             /\ Has(Write("Mounts", MapAll(toMountSettings, input.volumes), "volumes",
                          input, previous), "Mounts")
             /\ Has(Write("DNSConfig", [Nameservers |-> input.dns], "dns", input, previous),
                    "DNSConfig")
             /\ Has(Write("Hosts", MapAll(toHost, input.extraHosts), "extraHosts",
                          input, previous), "Hosts")
             /\ Has(Write("HealthCheck", toContainerHealthcheck(input.healthcheck), "healthcheck",
                          input, previous), "HealthCheck")
             /\ Has(Write("Resources", toServiceResources(input.limits), "limits",
                          input, previous), "Resources")
             /\ Has(Write("Ports", MapAll(toServicePort, input.ports), "ports",
                          input, previous), "Ports")
             /\ Has(toPlacement(input, old), "Placement")
             /\ Has(toMode(input, old), "Mode")
             /\ Has(toServiceNetworks(input, stack, nameOf(input, old), previous), "Networks")
             /\ "Runtime" \notin DOMAIN s
             /\ "Labels" \in DOMAIN s /\ s.Labels = toLabels(input, stack, old)
             /\ "ContainerLabels" \in DOMAIN s
             /\ s.ContainerLabels = toContainerLabels(input, previous)
  <1> DEFINE previous == Container(old)
             stack == stackOf(input, old)
             p1 == Write("Name", input.name, "name", input, previous)
             p2 == Write("Image", input.image, "image", input, previous)
             p3 == toCommand(input, previous)
             p4 == Write("Env", MapAll(toEntry, input.envs), "envs", input, previous)
             p5 == Write("Mounts", MapAll(toMountSettings, input.volumes), "volumes", input, previous)
             p6 == Write("DNSConfig", [Nameservers |-> input.dns], "dns", input, previous)
             p7 == Write("Hosts", MapAll(toHost, input.extraHosts), "extraHosts", input, previous)
             p8 == Write("HealthCheck", toContainerHealthcheck(input.healthcheck), "healthcheck",
                  input, previous)
             p9 == Write("Resources", toServiceResources(input.limits), "limits", input, previous)
             p10 == Write("Ports", MapAll(toServicePort, input.ports), "ports", input, previous)
             p11 == toPlacement(input, old)
             p12 == toMode(input, old)
             p13 == toServiceNetworks(input, stack, nameOf(input, old), previous)
             p14 == [Labels |-> toLabels(input, stack, old)]
             p15 == [ContainerLabels |-> toContainerLabels(input, previous)]
             parts == <<p1, p2, p3, p4, p5, p6, p7, p8, p9, p10, p11, p12, p13, p14, p15, Fixed>>
             s == toServiceSpec(input, old)
  <1>1. s = Joined(parts)
    BY DEF toServiceSpec
  <1>2. /\ DOMAIN p1 \subseteq {"Name"} /\ DOMAIN p2 \subseteq {"Image"}
        /\ DOMAIN p4 \subseteq {"Env"} /\ DOMAIN p5 \subseteq {"Mounts"}
        /\ DOMAIN p6 \subseteq {"DNSConfig"} /\ DOMAIN p7 \subseteq {"Hosts"}
        /\ DOMAIN p8 \subseteq {"HealthCheck"} /\ DOMAIN p9 \subseteq {"Resources"}
        /\ DOMAIN p10 \subseteq {"Ports"}
    BY Written
  <1>3. DOMAIN p3 \subseteq {"Command"}
    BY DEF toCommand, Restricted, If
  <1>4. DOMAIN p11 \subseteq {"Placement"}
    BY DEF toPlacement, Restricted
  <1>5. DOMAIN p12 \subseteq {"Mode"}
    BY DEF toMode, Restricted
  <1>6. DOMAIN p13 \subseteq {"Networks"}
    BY DEF toServiceNetworks, NamedNetworks, If
  <1>7. /\ DOMAIN p14 = {"Labels"} /\ DOMAIN p15 = {"ContainerLabels"}
        /\ DOMAIN Fixed = {"RestartPolicy", "UpdateConfig", "RollbackConfig"}
    BY DEF Fixed
  <1> HIDE DEF previous, stack, p1, p2, p3, p4, p5, p6, p7, p8, p9, p10, p11, p12, p13, p14, p15, s
  <1>8. /\ DOMAIN parts = 1 .. 16
        /\ parts[1] = p1 /\ parts[2] = p2 /\ parts[3] = p3 /\ parts[4] = p4
        /\ parts[5] = p5 /\ parts[6] = p6 /\ parts[7] = p7 /\ parts[8] = p8
        /\ parts[9] = p9 /\ parts[10] = p10 /\ parts[11] = p11 /\ parts[12] = p12
        /\ parts[13] = p13 /\ parts[14] = p14 /\ parts[15] = p15 /\ parts[16] = Fixed
    OBVIOUS
  <1> HIDE DEF parts
  <1> DEFINE Owner(x) == CASE x = "Name" -> 1 [] x = "Image" -> 2 [] x = "Command" -> 3
                          [] x = "Env" -> 4 [] x = "Mounts" -> 5 [] x = "DNSConfig" -> 6
                          [] x = "Hosts" -> 7 [] x = "HealthCheck" -> 8 [] x = "Resources" -> 9
                          [] x = "Ports" -> 10 [] x = "Placement" -> 11 [] x = "Mode" -> 12
                          [] x = "Networks" -> 13 [] x = "Labels" -> 14
                          [] x = "ContainerLabels" -> 15 [] OTHER -> 16
  <1>9. \A j \in DOMAIN parts : \A x \in DOMAIN parts[j] : Owner(x) = j
    <2>1. SUFFICES ASSUME NEW j \in 1 .. 16, NEW x \in DOMAIN parts[j] PROVE Owner(x) = j
      BY <1>8
    <2>2. j \in {1, 2, 3, 4, 5, 6, 7, 8, 9, 10, 11, 12, 13, 14, 15, 16}
      OBVIOUS
    <2>3. QED
      BY <2>1, <2>2, <1>8, <1>2, <1>3, <1>4, <1>5, <1>6, <1>7
  <1>10. \A x : Owner(x) \in DOMAIN parts
    BY <1>8
  <1>11. /\ Owner("Name") = 1 /\ Owner("Image") = 2 /\ Owner("Command") = 3 /\ Owner("Env") = 4
         /\ Owner("Mounts") = 5 /\ Owner("DNSConfig") = 6 /\ Owner("Hosts") = 7
         /\ Owner("HealthCheck") = 8 /\ Owner("Resources") = 9 /\ Owner("Ports") = 10
         /\ Owner("Placement") = 11 /\ Owner("Mode") = 12 /\ Owner("Networks") = 13
         /\ Owner("Labels") = 14 /\ Owner("ContainerLabels") = 15 /\ Owner("Runtime") = 16
    OBVIOUS
  <1> HIDE DEF Owner
  <1>12. ASSUME NEW x PROVE Same(s, parts[Owner(x)], x)
    <2>1. Owner(x) \in DOMAIN parts
      BY <1>10
    <2>2. \A j \in DOMAIN parts : j # Owner(x) => x \notin DOMAIN parts[j]
      BY <1>9
    <2>3. QED
      BY <1>1, <2>1, <2>2, JoinedAt
  <1>13. /\ Same(s, p1, "Name") /\ Same(s, p2, "Image") /\ Same(s, p3, "Command")
         /\ Same(s, p4, "Env") /\ Same(s, p5, "Mounts") /\ Same(s, p6, "DNSConfig")
         /\ Same(s, p7, "Hosts") /\ Same(s, p8, "HealthCheck") /\ Same(s, p9, "Resources")
         /\ Same(s, p10, "Ports") /\ Same(s, p11, "Placement") /\ Same(s, p12, "Mode")
         /\ Same(s, p13, "Networks")
    BY <1>12, <1>11, <1>8
  <1>14. Same(s, p14, "Labels") /\ Same(s, p15, "ContainerLabels") /\ Same(s, Fixed, "Runtime")
    BY <1>12, <1>11, <1>8
  <1>15. /\ "Runtime" \notin DOMAIN s
         /\ "Labels" \in DOMAIN s /\ s.Labels = toLabels(input, stack, old)
         /\ "ContainerLabels" \in DOMAIN s
         /\ s.ContainerLabels = toContainerLabels(input, previous)
    BY <1>14, <1>7 DEF Same, p14, p15
  <1>16. QED
    BY <1>13, <1>15 DEF s, previous, stack, p1, p2, p3, p4, p5, p6, p7, p8, p9, p10, p11, p12, p13

\* The specification is what the last edit made of the one before it.
EditInv ==
    /\ OneKind(spec)
    /\ edit # Null => /\ OneKind(before)
                      /\ edit \in Inputs
                      /\ ServiceUpdateInputSchema(edit)
                      /\ CanBeWritten(edit, before)
                      /\ spec = toServiceSpec(edit, before)

\* Of a service that is not made of containers, nothing of one is kept.
LEMMA ContainerOr ==
  ASSUME NEW s
  PROVE  /\ ~IsContainer(s) => Container(s) = Without(s, ContainerFields)
         /\ IsContainer(s) => Container(s) = s
  BY DEF IsContainer, Container

\* Only what is made of containers keeps an image.
LEMMA ContainerWithImage ==
  ASSUME NEW s, "Image" \in DOMAIN Container(s) PROVE Container(s) = s
  <1>1. SUFFICES ASSUME ~IsContainer(s) PROVE FALSE
    BY ContainerOr
  <1>2. Container(s) = Without(s, ContainerFields)
    BY <1>1, ContainerOr
  <1>3. "Image" \notin DOMAIN Container(s)
    BY <1>2 DEF Without, ContainerFields
  <1>4. QED
    BY <1>3

\* What another tool left there.
LEMMA EditInitInv == EditInit => EditInv
  <1> SUFFICES ASSUME EditInit PROVE EditInv
    OBVIOUS
  <1>1. edit = Null /\ (spec \in Foreign \/ spec = <<>>)
    BY DEF EditInit
  <1>2. OneKind(<<>>)
    BY DEF OneKind, IsContainer, Get
  <1>3. QED
    BY <1>1, <1>2, ForeignAssumption DEF EditInv

\* What is written is made of containers.
LEMMA WrittenOneKind == ASSUME NEW input, NEW old PROVE OneKind(toServiceSpec(input, old))
  <1>1. "Runtime" \notin DOMAIN toServiceSpec(input, old)
    BY SpecParts
  <1>2. QED
    BY <1>1 DEF OneKind, IsContainer, Get

\* An edit.
LEMMA EditNextInv == ASSUME EditInv, EditNext PROVE EditInv'
  <1> PICK input \in Inputs : Edit(input)
    BY DEF EditNext
  <1>1. /\ CanBeWritten(input, spec)
        /\ spec' = toServiceSpec(input, spec)
        /\ before' = spec /\ edit' = input
        /\ ServiceUpdateInputSchema(input)
    BY DEF Edit, ServiceCreateInputSchema
  <1>2. /\ CanBeWritten(edit, before)' /\ spec' = toServiceSpec(edit, before)'
        /\ edit' \in Inputs /\ ServiceUpdateInputSchema(edit)'
    BY <1>1
  <1>3. OneKind(spec)' /\ OneKind(before)'
    BY <1>1, WrittenOneKind DEF EditInv
  <1>4. QED
    BY <1>2, <1>3 DEF EditInv

\* What is laid over nothing is what was there.
LEMMA ContainerKeeps ==
  ASSUME NEW old, OneKind(old), NEW field,
         field \in ContainerFields => field \notin {"Image", "Runtime"}
  PROVE  Same(Container(old), old, field)
  <1>1. CASE IsContainer(old)
    BY <1>1, ContainerOr DEF Same
  <1>2. CASE ~IsContainer(old)
    <2>1. Container(old) = Without(old, ContainerFields)
      BY <1>2, ContainerOr
    <2>2. /\ DOMAIN Container(old) = DOMAIN old \ ContainerFields
          /\ \A x \in DOMAIN Container(old) : Container(old)[x] = old[x]
      BY <2>1 DEF Without
    <2>3. field \in ContainerFields => field \notin DOMAIN old
      BY <1>2 DEF OneKind
    <2>4. QED
      BY <2>2, <2>3 DEF Same
  <1>3. QED
    BY <1>1, <1>2

\* Saying the same is handed on.
LEMMA SameTwice ==
  ASSUME NEW f, NEW g, NEW h, NEW x, Same(f, g, x), Same(g, h, x)
  PROVE  Same(f, h, x)
  BY DEF Same

\* What is taken over.
LEMMA RestrictedSame ==
  ASSUME NEW f, NEW x PROVE Same(Restricted(f, {x}), f, x)
  BY DEF Restricted, Same

\* No labels give no labels.
\* Of the labels that have one name the last one counts.
LEMMA LabelRead ==
  ASSUME NEW labels, NEW i \in DOMAIN labels, GivenLast(labels, i), DOMAIN labels \subseteq Int
  PROVE  /\ labels[i].name \in DOMAIN labelsToObject(labels)
         /\ labelsToObject(labels)[labels[i].name] = Get(labels[i], "value", "")
  <1> DEFINE l == labels[i].name
             of == {k \in DOMAIN labels : labels[k].name = l}
             last == CHOOSE k \in of : \A j \in of : j <= k
  <1>1. /\ l \in DOMAIN labelsToObject(labels)
        /\ labelsToObject(labels)[l] = Get(labels[last], "value", "")
    BY DEF labelsToObject
  <1>2. i \in of /\ \A j \in of : j <= i
    BY DEF GivenLast
  <1>3. of \subseteq Int
    OBVIOUS
  <1> HIDE DEF of
  <1>4. last \in of /\ \A j \in of : j <= last
    BY <1>2
  <1> HIDE DEF last
  <1>5. last = i
    BY <1>2, <1>3, <1>4
  <1>6. QED
    BY <1>1, <1>5

LEMMA NothingLabelled == DOMAIN labelsToObject(<<>>) = {}
  BY DEF labelsToObject

\* An edit goes part by part: each keeps what the input does not name.
LEMMA EditKeeps ==
  ASSUME EditInv PROVE UpdateKeepsTheRest
  <1> SUFFICES ASSUME edit # Null, before # <<>> PROVE UpdateKeepsTheRest
    BY DEF UpdateKeepsTheRest
  <1> DEFINE previous == Container(before)
             Kept(field) == Same(spec, before, field)
             KeptLabels(labels) == \A l \in DOMAIN before[labels] :
               /\ l \in DOMAIN spec[labels]
               /\ l # Stack /\ (Named("labels") => l \notin DOMAIN labelsToObject(Asked("labels")))
                  => spec[labels][l] = before[labels][l]
  <1>1. OneKind(before) /\ CanBeWritten(edit, before) /\ spec = toServiceSpec(edit, before)
    BY DEF EditInv
  <1>2. \A f : Named(f) <=> f \in DOMAIN edit
    BY DEF Named
  <1>3. ASSUME NEW field, NEW value, NEW from, ~Named(from),
               Same(spec, Write(field, value, from, edit, previous), field),
               field \in ContainerFields => field \notin {"Image", "Runtime"}
        PROVE  Kept(field)
    <2>1. Same(Write(field, value, from, edit, previous), previous, field)
      BY <1>2, <1>3, Written
    <2>2. Same(previous, before, field)
      BY <1>1, <1>3, ContainerKeeps
    <2>3. QED
      BY <1>3, <2>1, <2>2, SameTwice
  <1>4. /\ ~Named("name") => Kept("Name")
        /\ ~Named("envs") => Kept("Env")
        /\ ~Named("volumes") => Kept("Mounts")
        /\ ~Named("dns") => Kept("DNSConfig")
        /\ ~Named("extraHosts") => Kept("Hosts")
        /\ ~Named("healthcheck") => Kept("HealthCheck")
        /\ ~Named("limits") => Kept("Resources")
        /\ ~Named("ports") => Kept("Ports")
    BY <1>1, <1>3, SpecParts
  <1>5. ~Named("image") => Kept("Image")
    <2> SUFFICES ASSUME ~Named("image") PROVE Kept("Image")
      OBVIOUS
    <2>1. "Image" \in DOMAIN previous
      BY <1>1, <1>2 DEF CanBeWritten
    <2>2. previous = before
      BY <2>1, ContainerWithImage
    <2>3. Same(spec, Write("Image", edit.image, "image", edit, previous), "Image")
      BY <1>1, SpecParts
    <2>4. Same(Write("Image", edit.image, "image", edit, previous), before, "Image")
      BY <1>2, <2>2, Written
    <2>5. QED
      BY <2>3, <2>4, SameTwice
  <1>6. ~Named("command") => Kept("Command")
    <2> SUFFICES ASSUME ~Named("command") PROVE Kept("Command")
      OBVIOUS
    <2>1. Same(spec, Restricted(previous, {"Command"}), "Command")
      BY <1>1, <1>2, SpecParts DEF toCommand
    <2>2. Same(previous, before, "Command")
      BY <1>1, ContainerKeeps
    <2>3. QED
      BY <2>1, <2>2, RestrictedSame, SameTwice
  <1>7. ~Named("constraints") /\ ~Named("preferences") => Kept("Placement")
    <2> SUFFICES ASSUME ~Named("constraints"), ~Named("preferences") PROVE Kept("Placement")
      OBVIOUS
    <2>1. toPlacement(edit, before) = Restricted(before, {"Placement"})
      BY <1>2 DEF toPlacement
    <2>2. QED
      BY <1>1, <2>1, SpecParts, RestrictedSame, SameTwice
  <1>8. ~Named("deployMode") /\ ~Named("replicas") => Kept("Mode")
    <2> SUFFICES ASSUME ~Named("deployMode"), ~Named("replicas") PROVE Kept("Mode")
      OBVIOUS
    <2>1. Get(edit, "deployMode", "") = ""
      BY <1>2 DEF Get
    <2>2. toMode(edit, before) = Restricted(before, {"Mode"})
      BY <1>2, <2>1 DEF toMode
    <2>3. QED
      BY <1>1, <2>2, SpecParts, RestrictedSame, SameTwice
  <1>9. ~Named("networks") /\ "Networks" \in DOMAIN before => Kept("Networks")
    <2> SUFFICES ASSUME ~Named("networks"), "Networks" \in DOMAIN before PROVE Kept("Networks")
      OBVIOUS
    <2>1. Same(previous, before, "Networks")
      BY <1>1, ContainerKeeps
    <2>2. "Networks" \in DOMAIN previous /\ previous.Networks = before.Networks
      BY <2>1 DEF Same
    <2>3. Get(previous, "Networks", previous.ServiceNetworks) = before.Networks
      BY <2>2 DEF Get
    <2>4. toServiceNetworks(edit, stackOf(edit, before), nameOf(edit, before), previous)
            = [Networks |-> before.Networks]
      BY <1>2, <2>2, <2>3 DEF toServiceNetworks
    <2>5. Same(spec, [Networks |-> before.Networks], "Networks")
      BY <1>1, <2>4, SpecParts
    <2>6. QED
      BY <2>5 DEF Same
  <1> DEFINE given == labelsToObject(Get(edit, "labels", <<>>))
  <1>10. ASSUME NEW l, Named("labels") => l \notin DOMAIN labelsToObject(Asked("labels"))
         PROVE  l \notin DOMAIN given
    BY <1>2, <1>10, NothingLabelled DEF Get, Asked
  <1> HIDE DEF given
  <1>11. "Labels" \in DOMAIN before => KeptLabels("Labels")
    <2> SUFFICES ASSUME "Labels" \in DOMAIN before
                 PROVE  \A l \in DOMAIN before.Labels :
                           /\ l \in DOMAIN spec.Labels
                           /\ l # Stack /\ l \notin DOMAIN given
                              => spec.Labels[l] = before.Labels[l]
      BY <1>10
    <2> DEFINE of == If(IsText(stackOf(edit, before)), Just(Stack, stackOf(edit, before)))
    <2>1. DOMAIN of \subseteq {Stack}
      BY DEF If, Just
    <2> HIDE DEF of
    <2>2. Get(before, "Labels", <<>>) = before.Labels
      BY DEF Get
    <2>3. spec.Labels = (of ++ given) ++ before.Labels
      BY <1>1, <2>2, SpecParts DEF toLabels, of, given
    <2> DEFINE over == of ++ given
    <2>4. DOMAIN over = DOMAIN of \cup DOMAIN given
      BY Merged
    <2> HIDE DEF over
    <2> DEFINE had == before.Labels
               has == spec.Labels
    <2>5. has = over ++ had
      BY <2>3 DEF over
    <2> HIDE DEF had, has
    <2>6. ASSUME NEW l \in DOMAIN had
          PROVE  l \in DOMAIN has /\ (l # Stack /\ l \notin DOMAIN given => has[l] = had[l])
      <3>1. /\ DOMAIN has = DOMAIN over \cup DOMAIN had
            /\ l \notin DOMAIN over => has[l] = had[l]
        BY <2>5 DEF ++
      <3>2. QED
        BY <2>1, <2>4, <3>1
    <2>7. QED
      BY <2>6 DEF had, has
  <1>12. "ContainerLabels" \in DOMAIN before => KeptLabels("ContainerLabels")
    <2> SUFFICES ASSUME "ContainerLabels" \in DOMAIN before
                 PROVE  \A l \in DOMAIN before.ContainerLabels :
                           /\ l \in DOMAIN spec.ContainerLabels
                           /\ l # Stack /\ l \notin DOMAIN given
                              => spec.ContainerLabels[l] = before.ContainerLabels[l]
      BY <1>10
    <2>1. Same(previous, before, "ContainerLabels")
      BY <1>1, ContainerKeeps
    <2>2. Get(previous, "ContainerLabels", <<>>) = before.ContainerLabels
      BY <2>1 DEF Get, Same
    <2>3. spec.ContainerLabels = given ++ before.ContainerLabels
      BY <1>1, <2>2, SpecParts DEF toContainerLabels, given
    <2> DEFINE had == before.ContainerLabels
               has == spec.ContainerLabels
    <2>4. has = given ++ had
      BY <2>3
    <2> HIDE DEF had, has
    <2>5. ASSUME NEW l \in DOMAIN had
          PROVE  l \in DOMAIN has /\ (l # Stack /\ l \notin DOMAIN given => has[l] = had[l])
      <3>1. /\ DOMAIN has = DOMAIN given \cup DOMAIN had
            /\ l \notin DOMAIN given => has[l] = had[l]
        BY <2>4 DEF ++
      <3>2. QED
        BY <3>1
    <2>6. QED
      BY <2>5 DEF had, has
  <1> HIDE DEF given
  <1>13. QED
    BY <1>4, <1>5, <1>6, <1>7, <1>8, <1>9, <1>11, <1>12 DEF UpdateKeepsTheRest, Same

\* What Front and Last make of the parts of a reference.
LEMMA FrontOfAppend ==
  ASSUME NEW S, NEW outer \in Seq(S), NEW part \in S
  PROVE  /\ Append(outer, part) \in Seq(S) /\ Append(outer, part) # <<>>
         /\ Front(Append(outer, part)) = outer
         /\ Last(Append(outer, part)) = part
         /\ Len(Append(outer, part)) = Len(outer) + 1
  <1> DEFINE s == Append(outer, part)
             f == Front(s)
  <1>1. /\ s \in Seq(S) /\ Len(s) = Len(outer) + 1
        /\ s[Len(s)] = part /\ \A i \in 1 .. Len(outer) : s[i] = outer[i]
    BY AppendProperties
  <1>2. f \in Seq(S) /\ Len(f) = Len(outer) /\ \A i \in 1 .. Len(outer) : f[i] = outer[i]
    BY <1>1, SubSeqProperties DEF Front
  <1>3. f = outer
    BY <1>2, SeqEqual
  <1>4. QED
    BY <1>1, <1>3 DEF Last

\* The last part, and those before it.
LEMMA FrontAndLast ==
  ASSUME NEW S, NEW parts \in Seq(S), parts # <<>>
  PROVE  Front(parts) \in Seq(S) /\ Last(parts) \in S /\ parts = Append(Front(parts), Last(parts))
  <1>1. Len(parts) \in Nat /\ Len(parts) > 0
    BY EmptySeq, LenProperties
  <1>2. /\ Front(parts) \in Seq(S) /\ Len(Front(parts)) = Len(parts) - 1
        /\ \A i \in 1 .. Len(parts) - 1 : Front(parts)[i] = parts[i]
    <2> DEFINE last == Len(parts) - 1
    <2>1. /\ 1 \in 1 .. last + 1 /\ last \in 1 - 1 .. Len(parts) /\ last \in Nat
          /\ last - 1 + 1 = last
      BY <1>1
    <2>2. Front(parts) = SubSeq(parts, 1, last)
      BY DEF Front
    <2> HIDE DEF last
    <2>3. /\ Front(parts) \in Seq(S) /\ Len(Front(parts)) = last
          /\ \A i \in 1 .. last : Front(parts)[i] = parts[i]
      BY <2>1, <2>2
    <2>4. QED
      BY <2>3 DEF last
  <1>3. Last(parts) \in S
    BY <1>1, ElementOfSeq DEF Last
  <1>4. /\ Append(Front(parts), Last(parts)) \in Seq(S)
        /\ Len(Append(Front(parts), Last(parts))) = Len(parts)
        /\ \A i \in 1 .. Len(parts) : Append(Front(parts), Last(parts))[i] = parts[i]
    BY <1>1, <1>2, <1>3, AppendProperties DEF Last
  <1>5. QED
    BY <1>2, <1>3, <1>4, SeqEqual

\* The first part, and those after it.
LEMMA HeadBack ==
  ASSUME NEW S, NEW outer \in Seq(S), outer # <<>>
  PROVE  /\ Tail(outer) \in Seq(S) /\ outer[1] \in S /\ <<outer[1]>> \o Tail(outer) = outer
         /\ Len(outer) > 0
  <1>1. /\ outer[1] \in S /\ Tail(outer) \in Seq(S) /\ Len(outer) \in Nat /\ Len(outer) > 0
        /\ Len(Tail(outer)) = Len(outer) - 1
        /\ \A i \in 1 .. Len(Tail(outer)) : Tail(outer)[i] = outer[i + 1]
    BY HeadTailProperties, LenProperties, EmptySeq, ElementOfSeq
  <1>2. <<outer[1]>> \in Seq(S) /\ Len(<<outer[1]>>) = 1 /\ <<outer[1]>>[1] = outer[1]
    BY <1>1
  <1> DEFINE h == <<outer[1]>>
             s == h \o Tail(outer)
  <1> HIDE DEF h
  <1>3. /\ s \in Seq(S) /\ Len(s) = Len(outer)
        /\ \A i \in 1 .. Len(outer) : s[i] = IF i <= 1 THEN h[i] ELSE Tail(outer)[i - 1]
    BY <1>1, <1>2, ConcatProperties DEF h
  <1>4. \A i \in 1 .. Len(outer) : s[i] = outer[i]
    BY <1>1, <1>2, <1>3 DEF h
  <1>5. s = outer
    BY <1>3, <1>4, SeqEqual
  <1>6. QED
    BY <1>1, <1>5 DEF h

\* The parts before the last: a host, if they begin with one, and the rest;
\* and the tag of the last part.
Host(outer) == outer # <<>> /\ IsDomain(outer[1])
Inner(outer) == IF Host(outer) THEN Tail(outer) ELSE outer
TagOf(part) == IF HasColon(part) THEN part[2] ELSE Latest

\* What is parsed out of a reference, by its last part and the others.
LEMMA Parsed ==
  ASSUME NEW S, NEW outer \in Seq(S), NEW part \in S, <<part[1]>> \in S,
         NEW reference, reference.parts = Append(outer, part)
  PROVE  LET image == parseDockerImageReference(reference)
         IN  /\ image.domain = IF Host(outer) THEN outer[1] ELSE None
             /\ image.namespace = Inner(outer)
             /\ image.name = part[1]
             /\ image.tag = TagOf(part)
             /\ \/ image.fullname.parts = Append(outer, <<part[1], TagOf(part)>>)
                \/ ~HasColon(part) /\ image.fullname.parts = Append(outer, <<part[1]>>)
  <1> DEFINE parts == reference.parts
             bare == <<part[1]>>
  <1>1. Front(parts) = outer /\ Last(parts) = part
    BY FrontOfAppend
  <1> HIDE DEF parts, bare
  <1>2. Untagged(parts) = Append(outer, bare)
    BY <1>1 DEF Untagged, Text, bare
  <1>3. Front(Untagged(parts)) = outer
    BY <1>2, FrontOfAppend DEF bare
  <1>4. parseDockerImageReference(reference) =
           [domain    |-> IF Host(outer) THEN outer[1] ELSE None,
            namespace |-> Inner(outer),
            name      |-> part[1],
            tag       |-> TagOf(part),
            fullname  |-> IF HasColon(part) \/ reference.digest = None
                          THEN [parts  |-> Append(outer, <<part[1], TagOf(part)>>),
                                digest |-> None]
                          ELSE [parts |-> Append(outer, bare), digest |-> reference.digest],
            id        |-> reference.digest]
    BY <1>1, <1>2, <1>3 DEF parseDockerImageReference, Text, Host, Inner, TagOf, parts
  <1>5. QED
    BY <1>4 DEF bare

\* The host and what is inside it make up the outer parts again.
LEMMA Rejoined ==
  ASSUME NEW S, None \notin S, NEW outer \in Seq(S)
  PROVE  LET domain == IF Host(outer) THEN outer[1] ELSE None
         IN  /\ (IF domain = None THEN <<>> ELSE <<domain>>) \o Inner(outer) = outer
             /\ Inner(outer) \in Seq(S)
  <1>1. CASE Host(outer)
    BY <1>1, HeadBack DEF Host, Inner
  <1>2. CASE ~Host(outer)
    BY <1>2, ConcatEmptySeq DEF Inner
  <1>3. QED
    BY <1>1, <1>2

\* What the pages make of an image that was parsed.
LEMMA Targets ==
  ASSUME NEW reference, IsReference(reference)
  PROVE  LET image == parseDockerImageReference(reference)
             target == serviceRegistryTarget(image)
             inspected == inspectionRegistryTarget(reference)
             Agrees(r) == LET parsed == parseDockerImageReference(r)
                          IN  \A field \in {"domain", "namespace", "name", "tag"} :
                                 parsed[field] = image[field]
         IN  /\ inspected.repository = target.repository
             /\ inspected.tag \in {None, target.tag}
             /\ Agrees(target.fullReference) /\ Agrees(image.fullname)
  <1> DEFINE parts == reference.parts
             outer == Front(parts)
             part == Last(parts)
             bare == <<part[1]>>
             tagged == <<part[1], TagOf(part)>>
             S == Range(parts) \cup {bare, tagged}
             image == parseDockerImageReference(reference)
             target == serviceRegistryTarget(image)
             inspected == inspectionRegistryTarget(reference)
  <1>1. /\ parts \in Seq(Range(parts)) /\ parts # <<>>
        /\ None \notin Range(parts)
    BY DEF IsReference
  <1>2. /\ outer \in Seq(Range(parts)) /\ part \in Range(parts)
        /\ parts = Append(outer, part)
    BY <1>1, FrontAndLast
  <1>3. part = bare \/ part = <<part[1], part[2]>>
    BY <1>2 DEF IsReference
  <1>4. outer \in Seq(S) /\ part \in S /\ bare \in S /\ tagged \in S
    BY <1>2, SeqMonotonic
  <1>5. /\ HasColon(tagged) /\ tagged[1] = part[1] /\ tagged[2] = TagOf(part)
        /\ ~HasColon(bare) /\ bare[1] = part[1]
    BY DEF HasColon
  <1>6. TagOf(tagged) = TagOf(part) /\ TagOf(bare) = Latest
    BY <1>5 DEF TagOf
  <1>7. Untagged(parts) = Append(outer, bare)
    BY DEF Untagged, Text
  <1> HIDE DEF S, bare, tagged
  <1>8. /\ image.domain = IF Host(outer) THEN outer[1] ELSE None
        /\ image.namespace = Inner(outer)
        /\ image.name = part[1]
        /\ image.tag = TagOf(part)
        /\ \/ image.fullname.parts = Append(outer, tagged)
           \/ ~HasColon(part) /\ image.fullname.parts = Append(outer, bare)
    BY <1>2, <1>4, Parsed DEF bare, tagged
  <1> HIDE DEF outer, part, image
  <1>9. /\ (IF image.domain = None THEN <<>> ELSE <<image.domain>>) \o Inner(outer) = outer
        /\ Inner(outer) \in Seq(Range(parts))
    BY <1>1, <1>2, <1>8, Rejoined
  <1>10. /\ target.repository = Append(Inner(outer), bare)
         /\ target.tag = TagOf(part)
         /\ target.fullReference.parts
              = (IF image.domain = None THEN <<>> ELSE <<image.domain>>)
                \o Inner(outer) \o <<tagged>>
    BY <1>8 DEF serviceRegistryTarget, imageRepository, bare, tagged
  <1>11. target.fullReference.parts = Append(outer, tagged)
    BY <1>4, <1>9, <1>10, AppendIsConcat
  <1>12. ASSUME NEW r, NEW last \in {tagged, bare}, r.parts = Append(outer, last),
                TagOf(last) = TagOf(part)
         PROVE  \A field \in {"domain", "namespace", "name", "tag"} :
                   parseDockerImageReference(r)[field] = image[field]
    <2> DEFINE parsed == parseDockerImageReference(r)
    <2>1. <<last[1]>> \in S /\ last \in S /\ last[1] = part[1]
      BY <1>4, <1>5 DEF bare
    <2>2. /\ parsed.domain = IF Host(outer) THEN outer[1] ELSE None
          /\ parsed.namespace = Inner(outer)
          /\ parsed.name = last[1]
          /\ parsed.tag = TagOf(last)
      BY <1>4, <1>12, <2>1, Parsed
    <2>3. QED
      BY <1>8, <1>12, <2>1, <2>2
  <1>13. inspected.tag \in {None, target.tag}
    BY <1>10 DEF inspectionRegistryTarget, TagOf, part
  <1>14. inspected.repository = target.repository
    <2> DEFINE path == Append(outer, bare)
    <2>1. inspected.repository = IF Len(path) > 1 THEN IF IsDomain(path[1]) THEN Tail(path)
                                                       ELSE path
                                 ELSE path
      BY <1>7 DEF inspectionRegistryTarget, projectRegistryTarget
    <2>2. CASE outer = <<>>
      <3>1. Len(path) = 1 /\ Inner(outer) = outer
        BY <1>4, <2>2, FrontOfAppend DEF Inner, Host
      <3>2. QED
        BY <1>10, <2>1, <3>1
    <2>3. CASE outer # <<>>
      <3>1. Len(path) > 1 /\ path[1] = outer[1] /\ Tail(path) = Append(Tail(outer), bare)
        BY <1>4, <2>3, HeadTailAppend, AppendProperties, HeadBack
      <3>2. QED
        BY <1>10, <2>1, <2>3, <3>1 DEF Inner, Host
    <2>4. QED
      BY <2>2, <2>3
  <1>15. \A field \in {"domain", "namespace", "name", "tag"} :
            parseDockerImageReference(target.fullReference)[field] = image[field]
    BY <1>6, <1>11, <1>12
  <1>16. \A field \in {"domain", "namespace", "name", "tag"} :
            parseDockerImageReference(image.fullname)[field] = image[field]
    BY <1>6, <1>8, <1>12 DEF TagOf
  <1>17. QED
    BY <1>13, <1>14, <1>15, <1>16 DEF image

\* A service has an image that can be parsed.
ShownInv == spec # <<>> => "Image" \in DOMAIN spec /\ IsReference(spec.Image)

\* The image the pages get.
LEMMA ShownImage ==
  ASSUME NEW s PROVE Shown(s).image = parseDockerImageReference(s.Image)
  BY DEF Shown, mapInspectToServiceModel

\* What another tool left there.
LEMMA ShownInitInv == EditInit => ShownInv
  BY ForeignAssumption DEF EditInit, ShownInv

\* An edit names an image, or keeps the one there is.
LEMMA ShownNextInv == ASSUME ShownInv, EditNext PROVE ShownInv'
  <1> PICK input \in Inputs : Edit(input)
    BY DEF EditNext
  <1>1. CanBeWritten(input, spec) /\ spec' = toServiceSpec(input, spec)
    BY DEF Edit
  <1> DEFINE previous == Container(spec)
             written == Write("Image", input.image, "image", input, previous)
  <1>2. "image" \in DOMAIN input \/ "Image" \in DOMAIN previous
    BY <1>1 DEF CanBeWritten
  <1>3. Same(spec', written, "Image")
    BY <1>1, SpecParts
  <1>4. CASE "image" \in DOMAIN input
    <2>1. "Image" \in DOMAIN written /\ written["Image"] = input.image
      BY <1>4, Written
    <2>2. IsReference(input.image)
      BY <1>4, InputAssumption DEF WellTyped
    <2>3. QED
      BY <1>3, <2>1, <2>2 DEF ShownInv, Same
  <1>5. CASE "image" \notin DOMAIN input
    <2>1. "Image" \in DOMAIN previous
      BY <1>2, <1>5
    <2>2. previous = spec
      BY <2>1, ContainerWithImage
    <2>3. Same(written, spec, "Image")
      BY <1>5, <2>2, Written
    <2>4. "Image" \in DOMAIN spec' /\ spec'.Image = spec.Image /\ spec # <<>>
      BY <1>3, <2>1, <2>2, <2>3 DEF Same
    <2>5. QED
      BY <2>4 DEF ShownInv
  <1>6. QED
    BY <1>4, <1>5

\* The services of the tags are the services of the repository, and a project
\* counts those of them in its registry.
LEMMA UsageAdds ==
  ASSUME NEW services, NEW prefix
  PROVE  LET usage == buildServiceImageUsage(services)
             project == projectRegistryTarget(prefix)
             used == IF project.repository \in DOMAIN usage
                     THEN usage[project.repository].services ELSE {}
         IN  /\ \A r \in DOMAIN usage : UNION Range(usage[r].tags) = usage[r].services
             /\ projectServiceUsage(services, prefix) =
                  {s \in used : project.registryDomain \in {None, s.image.domain}}
  <1> DEFINE Target(s) == serviceRegistryTarget(s.image)
             Of(r) == {s \in services : Target(s).repository = r}
             Tags(r) == [t \in {Target(s).tag : s \in Of(r)} |->
                           {s \in Of(r) : Target(s).tag = t}]
             usage == buildServiceImageUsage(services)
             project == projectRegistryTarget(prefix)
  <1>1. /\ DOMAIN usage = {Target(s).repository : s \in services}
        /\ \A r \in DOMAIN usage : usage[r].services = Of(r) /\ usage[r].tags = Tags(r)
    BY DEF buildServiceImageUsage
  <1>2. projectServiceUsage(services, prefix) =
           {s \in Of(project.repository) : project.registryDomain \in {None, s.image.domain}}
    BY DEF projectServiceUsage
  <1> HIDE DEF Target, usage, project
  <1>3. ASSUME NEW r PROVE UNION Range(Tags(r)) = Of(r)
    <2>1. Range(Tags(r)) = {{s \in Of(r) : Target(s).tag = t} : t \in {Target(s).tag : s \in Of(r)}}
      BY DEF Range
    <2>2. ASSUME NEW s \in Of(r) PROVE s \in UNION Range(Tags(r))
      <3>1. {x \in Of(r) : Target(x).tag = Target(s).tag} \in Range(Tags(r))
        BY <2>1
      <3>2. QED
        BY <3>1
    <2>3. ASSUME NEW s \in UNION Range(Tags(r)) PROVE s \in Of(r)
      BY <2>1
    <2>4. QED
      BY <2>2, <2>3
  <1>4. project.repository \notin DOMAIN usage => Of(project.repository) = {}
    BY <1>1
  <1>5. (IF project.repository \in DOMAIN usage THEN usage[project.repository].services ELSE {})
           = Of(project.repository)
    BY <1>1, <1>4
  <1> HIDE DEF Of, Tags
  <1>6. \A r \in DOMAIN usage : UNION Range(usage[r].tags) = usage[r].services
    BY <1>1, <1>3
  <1>7. QED
    BY <1>2, <1>5, <1>6 DEF usage, project

\* The links of a service with an image.
LEMMA ShownAgrees == ASSUME ShownInv PROVE LinksAgree
  <1> SUFFICES ASSUME spec # <<>> PROVE LinksAgree
    BY DEF LinksAgree
  <1> DEFINE image == Shown(spec).image
             services == {[id |-> "now", image |-> image]} \cup
                         {[id |-> "before", image |-> Shown(s).image] : s \in {before} \ {<<>>}}
  <1>1. image = parseDockerImageReference(spec.Image) /\ IsReference(spec.Image)
    BY ShownImage DEF ShownInv
  <1>2. [id |-> "now", image |-> image] \in services
    OBVIOUS
  <1> HIDE DEF image, services
  <1>3. fetchImageStatus(services, image.fullname) = "useful"
    BY <1>2 DEF fetchImageStatus
  <1>4. /\ inspectionRegistryTarget(spec.Image).repository = serviceRegistryTarget(image).repository
        /\ inspectionRegistryTarget(spec.Image).tag \in {None, serviceRegistryTarget(image).tag}
        /\ \A field \in {"domain", "namespace", "name", "tag"} :
              parseDockerImageReference(serviceRegistryTarget(image).fullReference)[field]
                = image[field]
        /\ \A field \in {"domain", "namespace", "name", "tag"} :
              parseDockerImageReference(image.fullname)[field] = image[field]
    BY <1>1, Targets
  <1> DEFINE usage == buildServiceImageUsage(services)
  <1>5. \A r \in DOMAIN usage : UNION Range(usage[r].tags) = usage[r].services
    BY UsageAdds
  <1>6. \A prefix : projectServiceUsage(services, prefix) =
           {s \in (IF projectRegistryTarget(prefix).repository \in DOMAIN usage
                   THEN usage[projectRegistryTarget(prefix).repository].services ELSE {}) :
              projectRegistryTarget(prefix).registryDomain \in {None, s.image.domain}}
    BY UsageAdds
  <1> HIDE DEF usage
  <1>7. QED
    BY <1>3, <1>4, <1>5, <1>6 DEF LinksAgree, image, services, usage

\* What the pages get of each field.
LEMMA ShownFields ==
  ASSUME NEW s
  PROVE  LET now == Shown(s)
             resources == Get(s, "Resources", <<>>)
             Limit(of, field) == Get(Get(resources, of, <<>>), field, Null)
             placement == Get(s, "Placement", <<>>)
             mode == Get(s, "Mode", <<>>)
             serviceLabels == Get(s, "Labels", <<>>)
         IN  /\ now.name = Get(s, "Name", Null)
             /\ now.stack = Get(serviceLabels, Stack, Null)
             /\ now.ports = MapAll(portModel, Get(s, "Ports", <<>>))
             /\ now.envs = mapEnvironment(Get(s, "Env", <<>>), TRUE)
             /\ now.volumes = MapAll(volumeModel, Get(s, "Mounts", <<>>))
             /\ now.labels = Get(s, "ContainerLabels", <<>>) ++ Without(serviceLabels, {Stack})
             /\ now.constraints = MapAll(mapConstraint, Get(placement, "Constraints", <<>>))
             /\ now.preferences = MapAll(preferenceModel, Get(placement, "Preferences", <<>>))
             /\ now.limits = [CPULimit          |-> Limit("Limits", "NanoCPUs"),
                              memoryLimit       |-> Limit("Limits", "MemoryBytes"),
                              CPUReservation    |-> Limit("Reservations", "NanoCPUs"),
                              memoryReservation |-> Limit("Reservations", "MemoryBytes")]
             /\ now.mode = (IF "Global" \in DOMAIN mode THEN "global" ELSE "replic")
             /\ now.replicas = Get(mode, "Replicated", 1)
             /\ now.extraHosts = MapAll(mapDockerHost, Get(s, "Hosts", <<>>))
             /\ now.dns = Get(Get(s, "DNSConfig", <<>>), "Nameservers", <<>>)
             /\ now.healthCheck = (IF "HealthCheck" \in DOMAIN s
                                   THEN mapHealthCheck(s.HealthCheck) ELSE Null)
  <1> DEFINE serviceLabels == Get(s, "Labels", <<>>)
             labels == Get(s, "ContainerLabels", <<>>) ++ Without(serviceLabels, {Stack})
  <1>1. labels = [l \in DOMAIN labels |-> labels[l]]
    BY DEF ++
  <1> HIDE DEF labels
  <1>2. Shown(s).labels = labels
    BY <1>1 DEF Shown, mapInspectToServiceModel, labels
  <1>3. QED
    BY <1>2 DEF Shown, mapInspectToServiceModel, labels

\* A field the edit names.
LEMMA AskedIsWritten ==
  ASSUME NEW field, NEW value, NEW from, Named(from),
         Same(spec, Write(field, value, from, edit, Container(before)), field)
  PROVE  field \in DOMAIN spec /\ spec[field] = value
  BY Written DEF Named, Same

\* As many as there were.
LEMMA ListMapped ==
  ASSUME NEW list, IsList(list), NEW to, DOMAIN to = DOMAIN list
  PROVE  Len(to) = Len(list)
  <1>1. Len(list) \in Nat /\ DOMAIN list = 1 .. Len(list)
    BY LenProperties DEF IsList
  <1>2. DOMAIN to = 1 .. Len(list)
    BY <1>1
  <1>3. QED
    BY <1>1, <1>2

\* A variable whose name has no colon in it is read as it was written.
LEMMA EntryRead ==
  ASSUME NEW name, IsList(name), Len(name) = 1, NEW value
  PROVE  /\ Head(name \o <<value>>) = name[1]
         /\ Tail(name \o <<value>>) = <<value>>
  <1>1. name = <<name[1]>>
    BY DEF IsList
  <1> DEFINE first == name[1]
  <1> HIDE DEF first
  <1>2. name = <<first>>
    BY <1>1 DEF first
  <1> DEFINE S == {first, value}
  <1>3. /\ <<first>> \in Seq(S) /\ value \in S
        /\ <<first>> \o <<value>> = Append(<<first>>, value)
    BY AppendIsConcat
  <1> DEFINE entry == Append(<<first>>, value)
             single == <<value>>
  <1>4. /\ entry \in Seq(S) /\ Len(entry) = 2 /\ entry[1] = first /\ entry[2] = value
        /\ entry # <<>>
    BY <1>3, AppendProperties
  <1>5. single \in Seq(S) /\ Len(single) = 1 /\ single[1] = value
    BY <1>3
  <1> HIDE DEF entry, single, S
  <1> DEFINE rest == Tail(entry)
  <1>6. /\ rest \in Seq(S) /\ Len(rest) = 1
        /\ \A i \in 1 .. 1 : rest[i] = entry[i + 1]
    <2>1. /\ rest \in Seq(S) /\ Len(rest) = Len(entry) - 1
          /\ \A i \in 1 .. Len(rest) : rest[i] = entry[i + 1]
      <3>1. entry \in Seq(S) /\ entry # <<>>
        BY <1>4
      <3>2. QED
        BY <3>1, HeadTailProperties
    <2>2. QED
      BY <2>1, <1>4
  <1>9. Head(entry) = entry[1]
    BY <1>4
  <1> HIDE DEF rest
  <1>7. rest = single
    BY <1>4, <1>5, <1>6, SeqEqual
  <1>8. QED
    BY <1>2, <1>3, <1>4, <1>7, <1>9 DEF first, entry, single, rest

\* An extra host of two words.
LEMMA HostRead ==
  ASSUME NEW host, IsList(host), Len(host) = 2
  PROVE  mapDockerHost(toHost(host)) = host
  <1>1. host = <<host[1], host[2]>>
    BY DEF IsList
  <1>2. mapDockerHost(toHost(host)) = <<host[1]>> \o <<host[2]>>
    BY DEF mapDockerHost, toHost
  <1>3. QED
    BY <1>1, <1>2

\* The words of a constraint, by their places.
LEMMA Joints ==
  ASSUME NEW S, NEW name \in Seq(S), NEW op \in S, NEW value \in Seq(S),
         NEW text, text = name \o <<op>> \o value
  PROVE  /\ text \in Seq(S) /\ Len(text) = Len(name) + 1 + Len(value)
         /\ \A i \in 1 .. Len(name) : text[i] = name[i]
         /\ text[Len(name) + 1] = op
         /\ \A i \in 1 .. Len(value) : text[Len(name) + 1 + i] = value[i]
  <1> DEFINE named == Append(name, op)
             n == Len(name)
             m == Len(value)
  <1>1. n \in Nat /\ m \in Nat
    BY LenProperties
  <1>2. named = name \o <<op>>
    BY AppendIsConcat
  <1>3. /\ named \in Seq(S) /\ Len(named) = n + 1
        /\ \A i \in 1 .. n : named[i] = name[i]
        /\ named[n + 1] = op
    BY AppendProperties
  <1>4. text = named \o value
    BY <1>2
  <1> HIDE DEF named
  <1>5. /\ text \in Seq(S) /\ Len(text) = n + 1 + m
        /\ \A i \in 1 .. n + 1 + m : text[i] = IF i <= n + 1 THEN named[i] ELSE value[i - (n + 1)]
    <2>1. /\ named \o value \in Seq(S)
          /\ Len(named \o value) = Len(named) + Len(value)
          /\ \A i \in 1 .. Len(named) + Len(value) :
                (named \o value)[i] = IF i <= Len(named) THEN named[i]
                                      ELSE value[i - Len(named)]
      <3>1. named \in Seq(S) /\ value \in Seq(S)
        BY <1>3
      <3>2. QED
        BY <3>1, ConcatProperties
    <2>2. QED
      BY <1>3, <1>4, <2>1
  <1>6. \A i \in 1 .. n + 1 : text[i] = named[i]
    <2>1. \A i \in 1 .. n + 1 : i \in 1 .. n + 1 + m /\ i <= n + 1
      BY <1>1
    <2>2. QED
      BY <1>5, <2>1
  <1>7. \A i \in 1 .. m : text[n + 1 + i] = value[i]
    <2>1. \A i \in 1 .. m : /\ n + 1 + i \in 1 .. n + 1 + m /\ ~(n + 1 + i <= n + 1)
                            /\ n + 1 + i - (n + 1) = i
      BY <1>1
    <2>2. QED
      BY <1>5, <2>1
  <1>8. QED
    BY <1>1, <1>3, <1>5, <1>6, <1>7

\* A constraint whose name holds no comparison is cut where it was joined.
LEMMA ConstraintRead ==
  ASSUME NEW name, IsList(name), name # <<>>, NEW value, IsList(value), value # <<>>,
         NEW op \in {"==", "!="}, Range(name) \cap {"==", "!="} = {}
  PROVE  mapConstraint(name \o <<op>> \o value)
            = [name |-> name, operation |-> op, value |-> value]
  <1> DEFINE S == Range(name) \cup Range(value) \cup {op}
             text == name \o <<op>> \o value
             n == Len(name)
             m == Len(value)
             at == {i \in 2 .. Len(text) - 1 : text[i] \in {"==", "!="}}
  <1>1. name \in Seq(S) /\ value \in Seq(S) /\ op \in S
    <2>1. /\ Range(name) \subseteq S /\ Range(value) \subseteq S /\ op \in S
      OBVIOUS
    <2> HIDE DEF S
    <2>2. QED
      BY <2>1, SeqMonotonic DEF IsList
  <1>2. n \in Nat /\ m \in Nat /\ n > 0 /\ m > 0
    BY <1>1, LenProperties, EmptySeq
  <1>3. \A i \in 1 .. n : name[i] \notin {"==", "!="}
    <2>1. \A i \in 1 .. n : name[i] \in Range(name)
      BY <1>1 DEF Range
    <2>2. QED
      BY <2>1
  <1>4. /\ text \in Seq(S) /\ Len(text) = n + 1 + m
        /\ \A i \in 1 .. n : text[i] = name[i]
        /\ text[n + 1] = op
        /\ \A i \in 1 .. m : text[n + 1 + i] = value[i]
    BY <1>1, Joints
  <1> HIDE DEF S, text
  <1>5. n + 1 \in at /\ \A i \in at : n + 1 <= i
    <2>1. n + 1 \in 2 .. Len(text) - 1
      BY <1>2, <1>4
    <2>2. text[n + 1] \in {"==", "!="}
      BY <1>4
    <2>3. ASSUME NEW i \in 2 .. Len(text) - 1, ~(n + 1 <= i) PROVE i \notin at
      <3>1. i \in 1 .. n
        BY <1>2, <1>4, <2>3
      <3>2. QED
        BY <1>3, <1>4, <3>1
    <2>4. QED
      BY <2>1, <2>2, <2>3
  <1>6. (CHOOSE i \in at : \A j \in at : i <= j) = n + 1
    <2>1. at \subseteq Int
      OBVIOUS
    <2> HIDE DEF at
    <2>2. \A i \in at : (\A j \in at : i <= j) => i = n + 1
      BY <1>2, <1>5, <2>1
    <2>3. QED
      BY <1>5, <2>2
  <1>7. mapConstraint(text) = [name      |-> SubSeq(text, 1, n),
                               operation |-> op,
                               value     |-> SubSeq(text, n + 2, n + 1 + m)]
    <2> DEFINE first == CHOOSE i \in at : \A j \in at : i <= j
    <2>1. mapConstraint(text) =
             IF at = {} THEN [name |-> text, operation |-> "", value |-> <<>>]
             ELSE [name      |-> SubSeq(text, 1, first - 1),
                   operation |-> text[first],
                   value     |-> SubSeq(text, first + 1, Len(text))]
      BY DEF mapConstraint
    <2> HIDE DEF at
    <2>2. at # {}
      BY <1>5
    <2>3. first = n + 1
      BY <1>6
    <2> HIDE DEF first
    <2>4. first - 1 = n /\ first + 1 = n + 2
      BY <1>2, <2>3
    <2>5. QED
      BY <1>4, <2>1, <2>2, <2>3, <2>4
  <1>8. SubSeq(text, 1, n) = name
    <2> DEFINE piece == SubSeq(text, 1, n)
    <2>1. \A i \in 1 .. n : text[i] \in S
      BY <1>1, <1>4, ElementOfSeq
    <2>2. /\ piece \in Seq(S) /\ Len(piece) = n
          /\ \A i \in 1 .. n : piece[i] = text[i]
      BY <1>2, <2>1, SubSeqProperties
    <2> HIDE DEF piece
    <2>3. piece = name
      BY <1>1, <1>4, <2>2, SeqEqual
    <2>4. QED
      BY <2>3 DEF piece
  <1>9. SubSeq(text, n + 2, n + 1 + m) = value
    <2> DEFINE piece == SubSeq(text, n + 2, n + 1 + m)
    <2>1. \A i \in n + 2 .. n + 1 + m : text[i] \in S
      <3>1. \A i \in n + 2 .. n + 1 + m : i \in 1 .. Len(text)
        BY <1>2, <1>4
      <3>2. QED
        BY <1>4, <3>1, ElementOfSeq
    <2>2. /\ piece \in Seq(S) /\ Len(piece) = m
          /\ \A i \in 1 .. m : piece[i] = text[n + 1 + i]
      <3>1. /\ n + 2 \in Int /\ n + 1 + m \in Int /\ n + 2 <= n + 1 + m
            /\ n + 1 + m - (n + 2) + 1 = m
            /\ \A i \in 1 .. m : n + 2 + i - 1 = n + 1 + i
        BY <1>2
      <3>2. QED
        BY <3>1, <2>1, SubSeqProperties
    <2> HIDE DEF piece
    <2>3. piece = value
      BY <1>1, <1>4, <2>2, SeqEqual
    <2>4. QED
      BY <2>3 DEF piece
  <1>10. QED
    BY <1>7, <1>8, <1>9 DEF text

\* A word put in front and taken off again.
LEMMA Prefixed ==
  ASSUME NEW S, NEW x \in S, NEW text \in Seq(S)
  PROVE  <<x>> \o text # <<>> /\ (<<x>> \o text)[1] = x /\ Tail(<<x>> \o text) = text
  <1> DEFINE n == Len(text)
             head == <<x>>
             s == head \o text
             rest == Tail(s)
  <1>1. head \in Seq(S) /\ Len(head) = 1 /\ head[1] = x
    OBVIOUS
  <1> HIDE DEF head
  <1>2. n \in Nat
    BY LenProperties
  <1>3. /\ s \in Seq(S) /\ Len(s) = Len(head) + Len(text)
        /\ \A i \in 1 .. Len(head) + Len(text) :
              s[i] = IF i <= Len(head) THEN head[i] ELSE text[i - Len(head)]
    BY <1>1, ConcatProperties
  <1>4. Len(s) = 1 + n /\ \A i \in 1 .. 1 + n : s[i] = IF i <= 1 THEN head[i] ELSE text[i - 1]
    BY <1>1, <1>3
  <1> HIDE DEF s
  <1>5. s # <<>> /\ s[1] = x
    BY <1>1, <1>2, <1>3, <1>4, EmptySeq
  <1>6. /\ rest \in Seq(S) /\ Len(rest) = Len(s) - 1
        /\ \A i \in 1 .. Len(rest) : rest[i] = s[i + 1]
    BY <1>3, <1>5, HeadTailProperties
  <1> HIDE DEF rest
  <1>7. Len(rest) = n
    BY <1>2, <1>4, <1>6
  <1>8. ASSUME NEW i \in 1 .. n PROVE rest[i] = text[i]
    <2>1. i + 1 \in 1 .. 1 + n /\ ~(i + 1 <= 1) /\ i + 1 - 1 = i
      BY <1>2
    <2>2. s[i + 1] = text[i + 1 - 1]
      BY <1>4, <2>1
    <2>3. QED
      BY <1>6, <1>7, <2>1, <2>2
  <1>9. rest = text
    BY <1>6, <1>7, <1>8, SeqEqual
  <1>10. QED
    BY <1>5, <1>9 DEF head, s, rest

\* Which part of a check that is not Docker's own each field comes from.
LEMMA CheckParts ==
  ASSUME NEW check, "Test" \notin DOMAIN check
  PROVE  LET c == toContainerHealthcheck(check)
         IN  /\ Same(c, If("test" \in DOMAIN check,
                           [Test |-> IF check.test.array THEN check.test.text
                                     ELSE <<<<"CMD-SHELL">>>> \o check.test.text]), "Test")
             /\ Same(c, toNanoseconds(check, "interval", "Interval"), "Interval")
             /\ Same(c, toNanoseconds(check, "timeout", "Timeout"), "Timeout")
             /\ Same(c, If("retries" \in DOMAIN check, [Retries |-> check.retries]), "Retries")
             /\ Same(c, toNanoseconds(check, "startPeriod", "StartPeriod"), "StartPeriod")
  <1> DEFINE p1 == If("test" \in DOMAIN check,
                      [Test |-> IF check.test.array THEN check.test.text
                                ELSE <<<<"CMD-SHELL">>>> \o check.test.text])
             p2 == toNanoseconds(check, "interval", "Interval")
             p3 == toNanoseconds(check, "timeout", "Timeout")
             p4 == If("retries" \in DOMAIN check, [Retries |-> check.retries])
             p5 == toNanoseconds(check, "startPeriod", "StartPeriod")
             parts == <<p1, p2, p3, p4, p5>>
             c == toContainerHealthcheck(check)
  <1>1. c = Joined(parts)
    BY DEF toContainerHealthcheck
  <1>2. /\ DOMAIN p1 \subseteq {"Test"} /\ DOMAIN p2 \subseteq {"Interval"}
        /\ DOMAIN p3 \subseteq {"Timeout"} /\ DOMAIN p4 \subseteq {"Retries"}
        /\ DOMAIN p5 \subseteq {"StartPeriod"}
    BY DEF If, toNanoseconds, Just
  <1> HIDE DEF p1, p2, p3, p4, p5, c
  <1>3. /\ DOMAIN parts = 1 .. 5
        /\ parts[1] = p1 /\ parts[2] = p2 /\ parts[3] = p3 /\ parts[4] = p4 /\ parts[5] = p5
    OBVIOUS
  <1> HIDE DEF parts
  <1>4. /\ 1 \in DOMAIN parts /\ 2 \in DOMAIN parts /\ 3 \in DOMAIN parts
        /\ 4 \in DOMAIN parts /\ 5 \in DOMAIN parts
        /\ \A j \in DOMAIN parts : j \in {1, 2, 3, 4, 5}
    BY <1>3
  <1>5. /\ \A j \in DOMAIN parts : j # 1 => "Test" \notin DOMAIN parts[j]
        /\ \A j \in DOMAIN parts : j # 2 => "Interval" \notin DOMAIN parts[j]
        /\ \A j \in DOMAIN parts : j # 3 => "Timeout" \notin DOMAIN parts[j]
        /\ \A j \in DOMAIN parts : j # 4 => "Retries" \notin DOMAIN parts[j]
        /\ \A j \in DOMAIN parts : j # 5 => "StartPeriod" \notin DOMAIN parts[j]
    BY <1>2, <1>3, <1>4
  <1>6. /\ Same(c, p1, "Test") /\ Same(c, p2, "Interval") /\ Same(c, p3, "Timeout")
        /\ Same(c, p4, "Retries") /\ Same(c, p5, "StartPeriod")
    BY <1>1, <1>3, <1>4, <1>5, JoinedAt
  <1>7. QED
    BY <1>6 DEF p1, p2, p3, p4, p5, c

\* The shell put in front of a test is taken off again.
LEMMA ShellOff ==
  ASSUME NEW text, IsList(text)
  PROVE  WordsOf(<<<<"CMD-SHELL">>>> \o text) = FlattenSeq(text)
  <1> DEFINE S == Range(text) \cup {<<"CMD-SHELL">>}
  <1>1. text \in Seq(Range(text)) /\ Range(text) \subseteq S /\ <<"CMD-SHELL">> \in S
    BY DEF IsList
  <1> HIDE DEF S
  <1>2. text \in Seq(S)
    BY <1>1, SeqMonotonic
  <1> DEFINE test == <<<<"CMD-SHELL">>>> \o text
  <1>3. test # <<>> /\ test[1] = <<"CMD-SHELL">> /\ Tail(test) = text
    BY <1>1, <1>2, Prefixed
  <1> HIDE DEF test
  <1>4. WordsOf(test) = FlattenSeq(text)
    BY <1>3 DEF WordsOf
  <1>5. QED
    BY <1>4 DEF test

\* The test of a health check, in each of its forms.
LEMMA TestRead ==
  ASSUME NEW check, "test" \in DOMAIN check => IsList(check.test.text),
         DockerCheck(check) \/ LegacyCheck(check)
  PROVE  mapHealthCheck(toContainerHealthcheck(check)).command = TestAsked(check)
  <1> DEFINE c == toContainerHealthcheck(check)
  <1>1. mapHealthCheck(c).command = WordsOf(Get(c, "Test", <<>>))
    BY DEF mapHealthCheck, WordsOf
  <1>2. WordsOf(<<>>) = FlattenSeq(<<>>)
    BY DEF WordsOf
  <1>3. CASE "Test" \in DOMAIN check
    <2>1. c = check /\ Get(c, "Test", <<>>) = check.Test
      BY <1>3 DEF toContainerHealthcheck, Get
    <2>2. TestAsked(check) = WordsOf(check.Test)
      BY <1>3 DEF TestAsked, DockerCheck, LegacyCheck
    <2>3. QED
      BY <1>1, <2>1, <2>2
  <1>4. CASE "Test" \notin DOMAIN check
    <2> DEFINE part == If("test" \in DOMAIN check,
                          [Test |-> IF check.test.array THEN check.test.text
                                    ELSE <<<<"CMD-SHELL">>>> \o check.test.text])
    <2>1. Same(c, part, "Test")
      BY <1>4, CheckParts
    <2>2. CASE "test" \notin DOMAIN check
      <3>1. Get(c, "Test", <<>>) = <<>>
        BY <2>1, <2>2 DEF Same, If, Get
      <3>2. TestAsked(check) = FlattenSeq(<<>>)
        BY <1>4, <2>2 DEF TestAsked
      <3>3. QED
        BY <1>1, <1>2, <3>1, <3>2
    <2>3. CASE "test" \in DOMAIN check /\ check.test.array
      <3>1. Get(c, "Test", <<>>) = check.test.text
        BY <2>1, <2>3 DEF Same, If, Get
      <3>2. TestAsked(check) = WordsOf(check.test.text)
        BY <1>4, <2>3 DEF TestAsked
      <3>3. QED
        BY <1>1, <3>1, <3>2
    <2>4. CASE "test" \in DOMAIN check /\ ~check.test.array
      <3>1. Get(c, "Test", <<>>) = <<<<"CMD-SHELL">>>> \o check.test.text
        BY <2>1, <2>4 DEF Same, If, Get
      <3>2. TestAsked(check) = FlattenSeq(check.test.text)
        BY <1>4, <2>4 DEF TestAsked
      <3>3. QED
        BY <1>1, <2>4, <3>1, <3>2, ShellOff
    <2>5. QED
      BY <2>2, <2>3, <2>4
  <1>5. QED
    BY <1>3, <1>4

\* A time goes through nanoseconds and back.
LEMMA TimeRead ==
  ASSUME NEW check, NEW field, NEW as, field \in DOMAIN check, check[field] \in Int,
         NEW c, Same(c, toNanoseconds(check, field, as), as)
  PROVE  nanosecondsToSeconds(c, as) = check[field]
  <1> DEFINE nanos == check[field] * NanosPerSecond
  <1>1. toNanoseconds(check, field, as) = Just(as, nanos)
    BY DEF toNanoseconds, If
  <1> HIDE DEF nanos
  <1>2. as \in DOMAIN c /\ c[as] = nanos
    BY <1>1 DEF Same, Just
  <1>3. nanosecondsToSeconds(c, as) = nanos \div NanosPerSecond
    BY <1>2 DEF nanosecondsToSeconds
  <1>4. nanos \div NanosPerSecond = check[field]
    BY DEF nanos, NanosPerSecond
  <1>5. QED
    BY <1>3, <1>4

\* A health check is read as it was asked, or is Docker's as it was asked.
LEMMA CheckRead ==
  ASSUME NEW check, DockerCheck(check) \/ LegacyCheck(check),
         "test" \in DOMAIN check => IsList(check.test.text),
         \A time \in {"interval", "timeout", "startPeriod"} \cap DOMAIN check : check[time] \in Int,
         "HealthCheck" \in DOMAIN spec, spec["HealthCheck"] = toContainerHealthcheck(check)
  PROVE  CheckIsRead(check, mapHealthCheck(toContainerHealthcheck(check)))
  <1> DEFINE c == toContainerHealthcheck(check)
             shown == mapHealthCheck(c)
  <1>1. shown.command = TestAsked(check)
    BY TestRead
  <1>2. /\ shown.interval = nanosecondsToSeconds(c, "Interval")
        /\ shown.timeout = nanosecondsToSeconds(c, "Timeout")
        /\ shown.startPeriod = nanosecondsToSeconds(c, "StartPeriod")
        /\ shown.retries = Get(c, "Retries", Null)
    BY DEF mapHealthCheck
  <1>3. "Test" \in DOMAIN check => c = check
    BY DEF toContainerHealthcheck
  <1>4. ASSUME "Test" \notin DOMAIN check, LegacyCheck(check), NEW field \in DOMAIN check \ {"test"}
        PROVE  shown[field] = check[field]
    <2>1. field \in {"interval", "timeout", "retries", "startPeriod"}
      BY <1>4 DEF LegacyCheck
    <2>2. CASE field = "interval"
      BY <1>2, <1>4, <2>2, CheckParts, TimeRead
    <2>3. CASE field = "timeout"
      BY <1>2, <1>4, <2>3, CheckParts, TimeRead
    <2>4. CASE field = "startPeriod"
      BY <1>2, <1>4, <2>4, CheckParts, TimeRead
    <2>5. CASE field = "retries"
      <3>1. Same(c, If("retries" \in DOMAIN check, [Retries |-> check.retries]), "Retries")
        BY <1>4, CheckParts
      <3>2. Get(c, "Retries", Null) = check.retries
        BY <1>4, <2>5, <3>1 DEF Same, If, Get
      <3>3. QED
        BY <1>2, <2>5, <3>2
    <2>6. QED
      BY <2>1, <2>2, <2>3, <2>4, <2>5
  <1> HIDE DEF c, shown
  <1>5. spec.HealthCheck = c
    BY DEF c
  <1>6. CheckIsRead(check, shown)
    BY <1>1, <1>3, <1>4, <1>5 DEF CheckIsRead
  <1>7. QED
    BY <1>6 DEF c, shown

\* A limit that is given is where Docker has it, and one that is not is nowhere.
LEMMA LimitsRead ==
  ASSUME NEW limits, NEW resources, resources = toServiceResources(limits)
  PROVE  /\ Get(Get(resources, "Limits", <<>>), "NanoCPUs", Null)
              = Get(limits, "CPULimit", Null)
         /\ Get(Get(resources, "Limits", <<>>), "MemoryBytes", Null)
              = Get(limits, "memoryLimit", Null)
         /\ Get(Get(resources, "Reservations", <<>>), "NanoCPUs", Null)
              = Get(limits, "CPUReservation", Null)
         /\ Get(Get(resources, "Reservations", <<>>), "MemoryBytes", Null)
              = Get(limits, "memoryReservation", Null)
  <1> DEFINE Given(field, as) == If(Get(limits, field, Null) # Null, Just(as, limits[field]))
             dockerLimits == Given("CPULimit", "NanoCPUs") ++ Given("memoryLimit", "MemoryBytes")
             reservations == Given("CPUReservation", "NanoCPUs")
                             ++ Given("memoryReservation", "MemoryBytes")
             first == If(dockerLimits # <<>>, [Limits |-> dockerLimits])
             second == If(reservations # <<>>, [Reservations |-> reservations])
  <1>1. ASSUME NEW field, NEW as
        PROVE  /\ DOMAIN Given(field, as) \subseteq {as}
               /\ Get(Given(field, as), as, Null) = Get(limits, field, Null)
    <2>1. CASE Get(limits, field, Null) = Null
      <3> DEFINE none == <<>>
      <3>1. Given(field, as) = none /\ DOMAIN none = {}
        BY <2>1 DEF If
      <3> HIDE DEF none
      <3>2. QED
        BY <2>1, <3>1 DEF Get
    <2>2. CASE Get(limits, field, Null) # Null
      <3>1. field \in DOMAIN limits /\ Get(limits, field, Null) = limits[field]
        BY <2>2 DEF Get
      <3>2. Given(field, as) = Just(as, limits[field])
        BY <2>2 DEF If
      <3>3. QED
        BY <3>1, <3>2 DEF Just, Get
    <2>3. QED
      BY <2>1, <2>2
  <1>2. resources = first ++ second
    BY DEF toServiceResources
  <1> HIDE DEF Given
  <1>3. ASSUME NEW f, NEW g, NEW x, NEW y, x # y,
               DOMAIN f \subseteq {x}, DOMAIN g \subseteq {y}
        PROVE  /\ Get(f ++ g, x, Null) = Get(f, x, Null)
               /\ Get(f ++ g, y, Null) = Get(g, y, Null)
    BY <1>3 DEF ++, Get
  <1>4. /\ Get(dockerLimits, "NanoCPUs", Null) = Get(limits, "CPULimit", Null)
        /\ Get(dockerLimits, "MemoryBytes", Null) = Get(limits, "memoryLimit", Null)
        /\ Get(reservations, "NanoCPUs", Null) = Get(limits, "CPUReservation", Null)
        /\ Get(reservations, "MemoryBytes", Null) = Get(limits, "memoryReservation", Null)
    <2> DEFINE cpu == Given("CPULimit", "NanoCPUs")
               memory == Given("memoryLimit", "MemoryBytes")
               cpuKept == Given("CPUReservation", "NanoCPUs")
               memoryKept == Given("memoryReservation", "MemoryBytes")
    <2>1. DOMAIN cpu \subseteq {"NanoCPUs"} /\ DOMAIN cpuKept \subseteq {"NanoCPUs"}
      BY <1>1
    <2>2. DOMAIN memory \subseteq {"MemoryBytes"} /\ DOMAIN memoryKept \subseteq {"MemoryBytes"}
      BY <1>1
    <2>3. /\ Get(cpu, "NanoCPUs", Null) = Get(limits, "CPULimit", Null)
          /\ Get(memory, "MemoryBytes", Null) = Get(limits, "memoryLimit", Null)
          /\ Get(cpuKept, "NanoCPUs", Null) = Get(limits, "CPUReservation", Null)
          /\ Get(memoryKept, "MemoryBytes", Null) = Get(limits, "memoryReservation", Null)
      BY <1>1
    <2> HIDE DEF cpu, memory, cpuKept, memoryKept
    <2>4. /\ Get(cpu ++ memory, "NanoCPUs", Null) = Get(cpu, "NanoCPUs", Null)
          /\ Get(cpu ++ memory, "MemoryBytes", Null) = Get(memory, "MemoryBytes", Null)
      BY <1>3, <2>1, <2>2
    <2>5. /\ Get(cpuKept ++ memoryKept, "NanoCPUs", Null) = Get(cpuKept, "NanoCPUs", Null)
          /\ Get(cpuKept ++ memoryKept, "MemoryBytes", Null)
               = Get(memoryKept, "MemoryBytes", Null)
      BY <1>3, <2>1, <2>2
    <2>6. QED
      BY <2>3, <2>4, <2>5 DEF cpu, memory, cpuKept, memoryKept
  <1> HIDE DEF dockerLimits, reservations
  <1>5. /\ DOMAIN first \subseteq {"Limits"} /\ Get(first, "Limits", <<>>) = dockerLimits
        /\ DOMAIN second \subseteq {"Reservations"}
        /\ Get(second, "Reservations", <<>>) = reservations
    BY DEF If, Get
  <1> HIDE DEF first, second
  <1>6. /\ Get(resources, "Limits", <<>>) = dockerLimits
        /\ Get(resources, "Reservations", <<>>) = reservations
    BY <1>2, <1>5 DEF ++, Get
  <1>7. QED
    BY <1>4, <1>6

\* The stack that is shown is the one that was asked for or was there; where
\* neither is a name, the label of the stack is what it was.
LEMMA StackRead ==
  ASSUME spec = toServiceSpec(edit, before)
  PROVE  LET stack == stackOf(edit, before)
             now == Shown(spec)
         IN  /\ IsText(stack) => now.stack = stack
             /\ ~IsText(stack) /\ Stack \notin DOMAIN labelsToObject(Get(edit, "labels", <<>>))
                => now.stack = stackBefore(before)
  <1> DEFINE stack == stackOf(edit, before)
             of == If(IsText(stack), Just(Stack, stack))
             given == labelsToObject(Get(edit, "labels", <<>>))
             had == Get(before, "Labels", <<>>)
             over == of ++ given
             labels == over ++ had
  <1>1. "Labels" \in DOMAIN spec /\ spec.Labels = toLabels(edit, stack, before)
    BY SpecParts
  <1>2. spec.Labels = labels
    BY <1>1 DEF toLabels
  <1>3. Shown(spec).stack = Get(Get(spec, "Labels", <<>>), Stack, Null)
    BY ShownFields
  <1> HIDE DEF labels
  <1>4. Shown(spec).stack = Get(labels, Stack, Null)
    BY <1>1, <1>2, <1>3 DEF Get
  <1>5. stackBefore(before) = Get(had, Stack, Null)
    BY DEF stackBefore
  <1>6. /\ IsText(stack) => Stack \in DOMAIN of /\ of[Stack] = stack
        /\ ~IsText(stack) => Stack \notin DOMAIN of
    BY DEF If, Just
  <1> HIDE DEF of, given, had, stack
  <1>7. /\ DOMAIN over = DOMAIN of \cup DOMAIN given
        /\ Stack \in DOMAIN of => over[Stack] = of[Stack]
    BY Merged
  <1> HIDE DEF over
  <1>8. /\ DOMAIN labels = DOMAIN over \cup DOMAIN had
        /\ Stack \in DOMAIN over => labels[Stack] = over[Stack]
        /\ Stack \in DOMAIN had /\ Stack \notin DOMAIN over => labels[Stack] = had[Stack]
    <2>1. labels = over ++ had
      BY DEF labels
    <2> HIDE DEF labels
    <2>2. QED
      BY <2>1 DEF ++
  <1>9. IsText(stack) => Get(labels, Stack, Null) = stack
    BY <1>6, <1>7, <1>8 DEF Get
  <1>10. ~IsText(stack) /\ Stack \notin DOMAIN given
         => Get(labels, Stack, Null) = Get(had, Stack, Null)
    BY <1>6, <1>7, <1>8 DEF Get
  <1>11. QED
    BY <1>4, <1>5, <1>9, <1>10 DEF stack, given

\* A port, through Docker's form and back.
LEMMA PortRead ==
  ASSUME NEW port
  PROVE  portModel(toServicePort(port)) =
           [hostPort      |-> Get(port, "hostPort", Get(port, "publishedPort", Null)),
            containerPort |-> Get(port, "containerPort", Get(port, "targetPort", Null)),
            protocol      |-> ProtocolAsked(port),
            portsProtocol |-> ProtocolAsked(port)]
  <1> DEFINE text == Get(port, "protocol", Get(port, "portsProtocol", Tcp))
             written == toServicePort(port)
  <1>1. /\ Get(written, "Protocol", Tcp) = toServicePortProtocol(text)
        /\ Get(written, "PublishedPort", Null) = Get(port, "hostPort", Get(port, "publishedPort", Null))
        /\ Get(written, "TargetPort", Null) = Get(port, "containerPort", Get(port, "targetPort", Null))
    <2>1. written = [Protocol      |-> toServicePortProtocol(text),
                     PublishedPort |-> asServicePort(port, "hostPort", "publishedPort"),
                     TargetPort    |-> asServicePort(port, "containerPort", "targetPort")]
      BY DEF toServicePort
    <2>2. /\ asServicePort(port, "hostPort", "publishedPort")
               = Get(port, "hostPort", Get(port, "publishedPort", Null))
          /\ asServicePort(port, "containerPort", "targetPort")
               = Get(port, "containerPort", Get(port, "targetPort", Null))
      BY DEF asServicePort
    <2> HIDE DEF written, text
    <2>3. /\ Get(written, "Protocol", Tcp) = toServicePortProtocol(text)
          /\ Get(written, "PublishedPort", Null) = asServicePort(port, "hostPort", "publishedPort")
          /\ Get(written, "TargetPort", Null) = asServicePort(port, "containerPort", "targetPort")
      BY <2>1 DEF Get
    <2>4. QED
      BY <2>2, <2>3 DEF written, text
  <1>2. toUpperCase(toServicePortProtocol(text)) = ProtocolAsked(port)
    <2>1. ProtocolAsked(port) = [letters |-> IF text.letters \in PROTOCOL_VALUES
                                             THEN text.letters ELSE "tcp",
                                 form    |-> "upper"]
      BY DEF ProtocolAsked
    <2> HIDE DEF text
    <2>2. toServicePortProtocol(text).letters = IF text.letters \in PROTOCOL_VALUES
                                                THEN text.letters ELSE "tcp"
      BY DEF toServicePortProtocol, toLowerCase, Tcp
    <2>3. QED
      BY <2>1, <2>2 DEF toUpperCase
  <1> HIDE DEF written, text
  <1>3. portModel(written) = [hostPort      |-> Get(written, "PublishedPort", Null),
                              containerPort |-> Get(written, "TargetPort", Null),
                              protocol      |-> toUpperCase(Get(written, "Protocol", Tcp)),
                              portsProtocol |-> toUpperCase(Get(written, "Protocol", Tcp))]
    BY DEF portModel
  <1>4. QED
    BY <1>1, <1>2, <1>3 DEF written

\* A volume, through Docker's form and back.
LEMMA VolumeRead ==
  ASSUME NEW volume
  PROVE  volumeModel(toMountSettings(volume)) =
           [type            |-> Get(volume, "type", "bind"),
            hostVolume      |-> Get(volume, "hostVolume", Get(volume, "source", "")),
            containerVolume |-> Get(volume, "containerVolume", Get(volume, "target", "")),
            readOnly        |-> Get(volume, "readOnly", FALSE)]
  <1> DEFINE mount == toMountSettings(volume)
  <1>1. mount = [Type     |-> Get(volume, "type", "bind"),
                 Source   |-> sourceOf(volume),
                 Target   |-> targetOf(volume),
                 ReadOnly |-> Get(volume, "readOnly", FALSE)]
    BY DEF toMountSettings
  <1> HIDE DEF mount
  <1> DEFINE type == Get(volume, "type", "bind")
             readOnly == Get(volume, "readOnly", FALSE)
  <1>2. mount = [Type |-> type, Source |-> sourceOf(volume), Target |-> targetOf(volume),
                 ReadOnly |-> readOnly]
    BY <1>1
  <1> HIDE DEF type, readOnly
  <1>3. /\ Get(mount, "Type", "bind") = type
        /\ Get(mount, "Source", "") = sourceOf(volume)
        /\ Get(mount, "Target", "") = targetOf(volume)
        /\ Get(mount, "ReadOnly", FALSE) = readOnly
    BY <1>2 DEF Get
  <1>4. volumeModel(mount) = [type            |-> Get(mount, "Type", "bind"),
                              hostVolume      |-> Get(mount, "Source", ""),
                              containerVolume |-> Get(mount, "Target", ""),
                              readOnly        |-> Get(mount, "ReadOnly", FALSE)]
    BY DEF volumeModel
  <1>5. QED
    BY <1>3, <1>4 DEF mount, type, readOnly, sourceOf, targetOf

\* A command is written as it was asked.
LEMMA CommandRead ==
  ASSUME spec = toServiceSpec(edit, before), Named("command")
  PROVE  CommandIsWritten(edit.command)
  <1> DEFINE command == edit.command
             part == If(command # Null, [Command |-> toTexts(command)])
  <1>1. Same(spec, part, "Command")
    <2>1. toCommand(edit, Container(before)) = part
      BY DEF toCommand, Named
    <2>2. Same(spec, toCommand(edit, Container(before)), "Command")
      BY SpecParts
    <2>3. QED
      BY <2>1, <2>2
  <1> HIDE DEF command
  <1>2. CASE command = Null
    BY <1>1, <1>2 DEF CommandIsWritten, Same, If, command
  <1>3. CASE command # Null
    <2>1. "Command" \in DOMAIN spec /\ spec.Command = toTexts(command)
      BY <1>1, <1>3 DEF Same, If
    <2>2. /\ command.array => toTexts(command) = command.of
          /\ ~command.array => toTexts(command) = [i \in DOMAIN command.of |-> <<command.of[i]>>]
      BY DEF toTexts
    <2>3. CommandIsWritten(command)
      BY <1>3, <2>1, <2>2 DEF CommandIsWritten
    <2>4. QED
      BY <2>3 DEF command
  <1>4. QED
    BY <1>2, <1>3

\* A network, as Docker has it.
LEMMA AttachmentRead ==
  ASSUME NEW asked
  PROVE  LET written == toNetworkAttachment(asked)
         IN  /\ written.Target
                  = Get(asked, "id", Get(asked, "target", Get(asked, "Target", <<>>)))
             /\ Get(written, "Aliases", Null)
                  = Get(asked, "aliases", Get(asked, "Aliases", Null))
  <1> DEFINE named == {"aliases", "Aliases"} \cap DOMAIN asked # {}
             aliases == Get(asked, "aliases", Get(asked, "Aliases", <<>>))
             target == networkOf(asked)
             first == [Target |-> target]
             second == If(named, [Aliases |-> aliases])
             written == toNetworkAttachment(asked)
  <1>1. written = first ++ second
    BY DEF toNetworkAttachment
  <1>2. /\ named => aliases = Get(asked, "aliases", Get(asked, "Aliases", Null))
        /\ ~named => Get(asked, "aliases", Get(asked, "Aliases", Null)) = Null
    BY DEF Get
  <1> HIDE DEF named, aliases, target
  <1>3. /\ DOMAIN first = {"Target"} /\ first["Target"] = target
        /\ named => "Aliases" \in DOMAIN second /\ second["Aliases"] = aliases
        /\ ~named => "Aliases" \notin DOMAIN second
    BY DEF If
  <1> HIDE DEF first, second, written
  <1>4. /\ written["Target"] = target
        /\ "Aliases" \in DOMAIN written <=> "Aliases" \in DOMAIN second
        /\ "Aliases" \in DOMAIN second => written["Aliases"] = second["Aliases"]
    BY <1>1, <1>3 DEF ++
  <1>5. Get(written, "Aliases", Null) = IF named THEN aliases ELSE Null
    BY <1>3, <1>4 DEF Get
  <1>6. QED
    BY <1>2, <1>4, <1>5 DEF written, target, networkOf

\* The networks that are named come first, and after them at most the default
\* one of the stack.
LEMMA NetworksRead ==
  ASSUME spec = toServiceSpec(edit, before), Named("networks"), IsList(edit.networks)
  PROVE  NetworksAreThere(edit.networks, Shown(spec).stack)
  <1> DEFINE asked == edit.networks
             stack == stackOf(edit, before)
             name == nameOf(edit, before)
             n == Len(asked)
             named == MapAll(toNetworkAttachment, asked)
             absent == /\ IsText(stack)
                       /\ \A i \in DOMAIN named : named[i].Target # DefaultNetwork(stack)
             d == DefaultAttachment(stack, name)
             added == IF absent THEN <<d>> ELSE <<>>
             all == named \o added
             S == Range(named) \cup {d}
  <1>1. n \in Nat /\ DOMAIN asked = 1 .. n
    BY LenProperties DEF IsList
  <1>2. named = [i \in 1 .. n |-> toNetworkAttachment(asked[i])]
    BY <1>1 DEF MapAll
  <1>3. Same(spec, If(all # <<>>, [Networks |-> all]), "Networks")
    <2>1. Get(edit, "networks", <<>>) = asked /\ "networks" \in DOMAIN edit
      BY DEF Get, Named
    <2>2. NamedNetworks(edit, stack, name) = If(all # <<>>, [Networks |-> all])
      BY <2>1 DEF NamedNetworks
    <2> HIDE DEF all
    <2>3. toServiceNetworks(edit, stack, name, Container(before)) = NamedNetworks(edit, stack, name)
      BY <2>1 DEF toServiceNetworks
    <2>4. Same(spec, toServiceNetworks(edit, stack, name, Container(before)), "Networks")
      BY SpecParts
    <2>5. QED
      BY <2>2, <2>3, <2>4
  <1>4. d.Target = DefaultNetwork(stack)
    BY DEF DefaultAttachment
  <1>5. absent => DefaultNetwork(stack) = DefaultNetwork(Shown(spec).stack)
    BY StackRead
  <1> HIDE DEF absent, d, stack, name, asked, n, named
  <1>6. named \in Seq(S) /\ Len(named) = n
    <2>1. \A i \in 1 .. n : toNetworkAttachment(asked[i]) \in S
      <3>1. \A i \in 1 .. n : named[i] \in Range(named) /\ named[i] = toNetworkAttachment(asked[i])
        BY <1>2 DEF Range
      <3>2. QED
        BY <3>1
    <2> HIDE DEF S
    <2>2. QED
      BY <1>1, <1>2, <2>1
  <1>7. /\ added \in Seq(S) /\ (absent => Len(added) = 1 /\ added[1] = d)
        /\ (~absent => Len(added) = 0)
    <2>1. d \in S
      OBVIOUS
    <2> HIDE DEF S
    <2>2. QED
      BY <2>1
  <1> HIDE DEF added, S
  <1>8. /\ all \in Seq(S) /\ Len(all) = n + Len(added)
        /\ \A i \in 1 .. n + Len(added) :
              all[i] = IF i <= n THEN named[i] ELSE added[i - n]
    BY <1>6, <1>7, ConcatProperties
  <1> HIDE DEF all
  <1>9. Get(spec, "Networks", <<>>) = all
    BY <1>3 DEF Same, If, Get
  <1>10. ASSUME NEW i \in 1 .. n
         PROVE  /\ all[i].Target
                     = Get(asked[i], "id", Get(asked[i], "target", Get(asked[i], "Target", <<>>)))
                /\ Get(all[i], "Aliases", Null)
                     = Get(asked[i], "aliases", Get(asked[i], "Aliases", Null))
    <2>1. all[i] = toNetworkAttachment(asked[i])
      <3>1. i \in 1 .. n + Len(added) /\ i <= n
        BY <1>1, <1>7
      <3>2. QED
        BY <1>2, <1>8, <3>1
    <2>2. QED
      BY <2>1, AttachmentRead
  <1>11. \/ Len(all) = n
         \/ Len(all) = n + 1 /\ all[n + 1].Target = DefaultNetwork(Shown(spec).stack)
    <2>1. CASE ~absent
      BY <1>1, <1>7, <1>8, <2>1
    <2>2. CASE absent
      <3> DEFINE m == n + 1
      <3>1. Len(added) = 1 /\ added[1] = d
        BY <1>7, <2>2
      <3>2. Len(all) = m /\ m \in 1 .. n + Len(added) /\ ~(m <= n) /\ m - n = 1
        BY <1>1, <1>8, <3>1
      <3> HIDE DEF m
      <3>3. all[m] = added[m - n]
        BY <1>8, <3>2
      <3>4. all[m] = d
        BY <3>1, <3>2, <3>3
      <3>5. QED
        BY <1>4, <1>5, <2>2, <3>2, <3>4 DEF m
    <2>3. QED
      BY <2>1, <2>2
  <1>12. NetworksAreThere(asked, Shown(spec).stack)
    BY <1>9, <1>10, <1>11 DEF NetworksAreThere, n
  <1>13. QED
    BY <1>12 DEF asked

\* What an edit names, setting by setting.
LEMMA EditReads ==
  ASSUME EditInv PROVE AskedIsRead
  <1> SUFFICES ASSUME edit # Null PROVE AskedIsRead
    BY DEF AskedIsRead
  <1> DEFINE now == Shown(spec)
             previous == Container(before)
             stack == stackOf(edit, before)
  <1>1. /\ spec = toServiceSpec(edit, before) /\ edit \in Inputs
        /\ ServiceUpdateInputSchema(edit) /\ WellTyped(edit)
    BY InputAssumption DEF EditInv
  <1>2. \A f : Named(f) <=> f \in DOMAIN edit
    BY DEF Named
  <1>3. \A f : Asked(f) = edit[f]
    BY DEF Asked
  <1>4. /\ Named("name") => now.name = Asked("name")
        /\ Named("image") => now.image = parseDockerImageReference(Asked("image"))
    <2>1. Named("name") => "Name" \in DOMAIN spec /\ spec["Name"] = edit.name
      BY <1>1, SpecParts, AskedIsWritten
    <2>2. Named("image") => "Image" \in DOMAIN spec /\ spec["Image"] = edit.image
      BY <1>1, SpecParts, AskedIsWritten
    <2>3. now.name = Get(spec, "Name", Null) /\ now.image = parseDockerImageReference(spec.Image)
      BY ShownFields, ShownImage
    <2>4. QED
      BY <1>3, <2>1, <2>2, <2>3 DEF Get
  <1>5. Named("stack") =>
          \/ now.stack = IF Asked("stack") \in {Null, ""} THEN stackBefore(before)
                         ELSE Asked("stack")
          \/ Named("labels") /\ \E i \in DOMAIN Asked("labels") : Asked("labels")[i].name = Stack
    <2> SUFFICES ASSUME Named("stack"),
                        ~(Named("labels") /\ \E i \in DOMAIN Asked("labels") :
                                                Asked("labels")[i].name = Stack)
                 PROVE  now.stack = IF edit.stack \in {Null, ""} THEN stackBefore(before)
                                    ELSE edit.stack
      BY <1>3
    <2> DEFINE given == labelsToObject(Get(edit, "labels", <<>>))
    <2>1. stack = IF edit.stack # Null THEN edit.stack ELSE stackBefore(before)
      BY <1>2 DEF stackOf, Get
    <2>2. Stack \notin DOMAIN given
      <3>1. \A l \in DOMAIN labelsToObject(edit.labels) :
              \E i \in DOMAIN edit.labels : edit.labels[i].name = l
        BY DEF labelsToObject
      <3>2. QED
        BY <1>2, <1>3, <3>1, NothingLabelled DEF Get
    <2> HIDE DEF given, stack, now
    <2>3. /\ IsText(stack) => now.stack = stack
          /\ ~IsText(stack) => now.stack = stackBefore(before)
      BY <1>1, <2>2, StackRead DEF given, stack, now
    <2>4. QED
      BY <2>1, <2>3 DEF IsText
  <1>6. Named("labels") =>
          \A i \in DOMAIN Asked("labels") :
             LET label == Asked("labels")[i]
             IN  GivenLast(Asked("labels"), i) /\ label.name # Stack =>
                    now.labels[label.name] = Get(label, "value", "")
    <2> SUFFICES ASSUME Named("labels"), NEW i \in DOMAIN edit.labels,
                        GivenLast(edit.labels, i)
                 PROVE  now.labels[edit.labels[i].name] = Get(edit.labels[i], "value", "")
      BY <1>3
    <2>0. DOMAIN edit.labels \subseteq Int
      <3>1. IsList(edit.labels)
        BY <1>1, <1>2 DEF WellTyped
      <3>2. edit.labels \in Seq(Range(edit.labels))
        BY <3>1 DEF IsList
      <3>3. QED
        BY <3>2
    <2> DEFINE given == labelsToObject(edit.labels)
               had == Get(previous, "ContainerLabels", <<>>)
               labels == spec.ContainerLabels
               others == Without(Get(spec, "Labels", <<>>), {Stack})
    <2>1. Get(edit, "labels", <<>>) = edit.labels
      BY <1>2 DEF Get
    <2>2. "ContainerLabels" \in DOMAIN spec /\ labels = given ++ had
      BY <1>1, <2>1, SpecParts DEF toContainerLabels
    <2>3. now.labels = Get(spec, "ContainerLabels", <<>>) ++ others
      BY ShownFields
    <2>4. Get(spec, "ContainerLabels", <<>>) = labels
      BY <2>2 DEF Get
    <2> HIDE DEF given, had, labels, others
    <2>5. \A l \in DOMAIN given : l \in DOMAIN labels /\ labels[l] = given[l]
      BY <2>2 DEF ++
    <2>6. \A l \in DOMAIN labels : (labels ++ others)[l] = labels[l]
      BY DEF ++
    <2>7. /\ edit.labels[i].name \in DOMAIN given
          /\ given[edit.labels[i].name] = Get(edit.labels[i], "value", "")
      BY <2>0, LabelRead DEF given
    <2>8. QED
      BY <2>3, <2>4, <2>5, <2>6, <2>7
  <1>7. Named("envs") =>
          /\ Len(now.envs) = Len(Asked("envs"))
          /\ \A i \in DOMAIN now.envs :
                LET env == Asked("envs")[i]
                IN  Len(env.name) = 1 =>
                       now.envs[i] = [name  |-> env.name[1], value |-> <<Get(env, "value", "")>>]
    <2> SUFFICES ASSUME Named("envs")
                 PROVE  /\ Len(now.envs) = Len(edit.envs)
                        /\ \A i \in DOMAIN now.envs :
                              Len(edit.envs[i].name) = 1 =>
                                 now.envs[i] = [name  |-> edit.envs[i].name[1],
                                                value |-> <<Get(edit.envs[i], "value", "")>>]
      BY <1>3
    <2> DEFINE envs == edit.envs
    <2>1. IsList(envs) /\ \A env \in Range(envs) : IsList(env.name)
      BY <1>1, <1>2 DEF WellTyped
    <2>2. "Env" \in DOMAIN spec /\ spec["Env"] = MapAll(toEntry, edit.envs)
      BY <1>1, SpecParts, AskedIsWritten
    <2>3. Get(spec, "Env", <<>>) = [i \in DOMAIN envs |-> toEntry(envs[i])]
      BY <2>2 DEF Get, MapAll
    <2>4. now.envs = mapEnvironment(Get(spec, "Env", <<>>), TRUE)
      BY ShownFields
    <2>5. now.envs = [i \in DOMAIN envs |-> [name  |-> Head(toEntry(envs[i])),
                                             value |-> Tail(toEntry(envs[i]))]]
      BY <2>3, <2>4 DEF mapEnvironment
    <2>6. DOMAIN now.envs = DOMAIN envs
      BY <2>5
    <2>7. Len(now.envs) = Len(envs)
      BY <2>1, <2>6, ListMapped
    <2>8. ASSUME NEW i \in DOMAIN now.envs, Len(envs[i].name) = 1
          PROVE  now.envs[i] = [name  |-> envs[i].name[1],
                                value |-> <<Get(envs[i], "value", "")>>]
      <3>1. i \in DOMAIN envs /\ IsList(envs[i].name)
        BY <2>1, <2>6 DEF Range
      <3>2. toEntry(envs[i]) = envs[i].name \o <<Get(envs[i], "value", "")>>
        BY DEF toEntry
      <3>3. /\ Head(toEntry(envs[i])) = envs[i].name[1]
            /\ Tail(toEntry(envs[i])) = <<Get(envs[i], "value", "")>>
        BY <2>8, <3>1, <3>2, EntryRead
      <3>4. QED
        BY <2>5, <3>1, <3>3
    <2>9. QED
      BY <2>7, <2>8
  <1>8. Named("volumes") => now.volumes = VolumesAsked(Asked("volumes"))
    <2> SUFFICES ASSUME Named("volumes") PROVE now.volumes = VolumesAsked(edit.volumes)
      BY <1>3
    <2>1. "Mounts" \in DOMAIN spec /\ spec["Mounts"] = MapAll(toMountSettings, edit.volumes)
      BY <1>1, SpecParts, AskedIsWritten
    <2>2. Get(spec, "Mounts", <<>>) = [i \in DOMAIN edit.volumes |->
                                          toMountSettings(edit.volumes[i])]
      BY <2>1 DEF Get, MapAll
    <2>3. now.volumes = MapAll(volumeModel, Get(spec, "Mounts", <<>>))
      BY ShownFields
    <2>4. now.volumes = [i \in DOMAIN edit.volumes |-> volumeModel(toMountSettings(edit.volumes[i]))]
      BY <2>2, <2>3 DEF MapAll
    <2>5. QED
      BY <2>4, VolumeRead DEF VolumesAsked
  <1>9. Named("dns") => now.dns = Asked("dns")
    <2> SUFFICES ASSUME Named("dns") PROVE now.dns = edit.dns
      BY <1>3
    <2>1. "DNSConfig" \in DOMAIN spec /\ spec["DNSConfig"] = [Nameservers |-> edit.dns]
      BY <1>1, SpecParts, AskedIsWritten
    <2>2. now.dns = Get(Get(spec, "DNSConfig", <<>>), "Nameservers", <<>>)
      BY ShownFields
    <2>3. QED
      BY <2>1, <2>2 DEF Get
  <1>10. Named("extraHosts") =>
           /\ DOMAIN now.extraHosts = DOMAIN Asked("extraHosts")
           /\ \A i \in DOMAIN Asked("extraHosts") :
                 Len(Asked("extraHosts")[i]) = 2 => now.extraHosts[i] = Asked("extraHosts")[i]
    <2> SUFFICES ASSUME Named("extraHosts")
                 PROVE  /\ DOMAIN now.extraHosts = DOMAIN edit.extraHosts
                        /\ \A i \in DOMAIN edit.extraHosts :
                              Len(edit.extraHosts[i]) = 2 =>
                                 now.extraHosts[i] = edit.extraHosts[i]
      BY <1>3
    <2> DEFINE hosts == edit.extraHosts
    <2>1. \A i \in DOMAIN hosts : IsList(hosts[i])
      <3>1. \A host \in Range(hosts) : IsList(host)
        BY <1>1, <1>2 DEF WellTyped
      <3>2. QED
        BY <3>1 DEF Range
    <2>2. "Hosts" \in DOMAIN spec /\ spec["Hosts"] = MapAll(toHost, edit.extraHosts)
      BY <1>1, SpecParts, AskedIsWritten
    <2>3. Get(spec, "Hosts", <<>>) = [j \in DOMAIN hosts |-> toHost(hosts[j])]
      BY <2>2 DEF Get, MapAll
    <2>4. now.extraHosts = MapAll(mapDockerHost, Get(spec, "Hosts", <<>>))
      BY ShownFields
    <2>5. now.extraHosts = [j \in DOMAIN hosts |-> mapDockerHost(toHost(hosts[j]))]
      BY <2>3, <2>4 DEF MapAll
    <2>6. QED
      BY <2>1, <2>5, HostRead
  <1>11. Named("healthcheck") => CheckIsRead(Asked("healthcheck"), now.healthCheck)
    <2> DEFINE check == edit.healthcheck
    <2> SUFFICES ASSUME Named("healthcheck") PROVE CheckIsRead(check, now.healthCheck)
      BY <1>3
    <2>1. /\ DockerCheck(check) \/ LegacyCheck(check)
          /\ "test" \in DOMAIN check => IsList(check.test.text)
          /\ \A time \in {"interval", "timeout", "startPeriod"} \cap DOMAIN check :
                check[time] \in Int
      BY <1>1, <1>2 DEF WellTyped, ServiceUpdateInputSchema
    <2>2. /\ "HealthCheck" \in DOMAIN spec
          /\ spec["HealthCheck"] = toContainerHealthcheck(edit.healthcheck)
      BY <1>1, SpecParts, AskedIsWritten
    <2>3. now.healthCheck = (IF "HealthCheck" \in DOMAIN spec
                             THEN mapHealthCheck(spec.HealthCheck) ELSE Null)
      BY ShownFields
    <2>4. now.healthCheck = mapHealthCheck(toContainerHealthcheck(check))
      BY <2>2, <2>3
    <2> HIDE DEF now, check
    <2>5. CheckIsRead(check, mapHealthCheck(toContainerHealthcheck(check)))
      BY <2>1, <2>2, CheckRead DEF check
    <2>6. QED
      BY <2>4, <2>5
  <1>12. Named("limits") =>
           \A field \in DOMAIN now.limits :
              now.limits[field] = Get(Asked("limits"), field, Null)
    <2> SUFFICES ASSUME Named("limits")
                 PROVE  \A field \in DOMAIN now.limits :
                           now.limits[field] = Get(edit.limits, field, Null)
      BY <1>3
    <2> DEFINE limits == edit.limits
               resources == toServiceResources(limits)
               Limit(of, field) == Get(Get(resources, of, <<>>), field, Null)
    <2>1. "Resources" \in DOMAIN spec /\ spec["Resources"] = toServiceResources(edit.limits)
      BY <1>1, SpecParts, AskedIsWritten
    <2>2. Get(spec, "Resources", <<>>) = resources
      BY <2>1 DEF Get
    <2>3. now.limits = [CPULimit          |-> Limit("Limits", "NanoCPUs"),
                        memoryLimit       |-> Limit("Limits", "MemoryBytes"),
                        CPUReservation    |-> Limit("Reservations", "NanoCPUs"),
                        memoryReservation |-> Limit("Reservations", "MemoryBytes")]
      BY <2>2, ShownFields
    <2>4. /\ Limit("Limits", "NanoCPUs") = Get(limits, "CPULimit", Null)
          /\ Limit("Limits", "MemoryBytes") = Get(limits, "memoryLimit", Null)
          /\ Limit("Reservations", "NanoCPUs") = Get(limits, "CPUReservation", Null)
          /\ Limit("Reservations", "MemoryBytes") = Get(limits, "memoryReservation", Null)
      BY LimitsRead
    <2> HIDE DEF Limit, limits
    <2>5. QED
      BY <2>3, <2>4 DEF limits
  <1>13. /\ Named("constraints") =>
              /\ DOMAIN now.constraints = DOMAIN Asked("constraints")
              /\ \A i \in DOMAIN Asked("constraints") :
                    LET asked == Asked("constraints")[i]
                    IN  /\ asked.operation \in {"==", "!="}
                        /\ Range(asked.name) \cap {"==", "!="} = {}
                        => now.constraints[i] = asked
         /\ Named("preferences") =>
              now.preferences = [i \in DOMAIN Asked("preferences") |->
                                    [name  |-> "spread",
                                     value |-> Get(Asked("preferences")[i], "value", "")]]
    <2> SUFFICES ASSUME Named("constraints") \/ Named("preferences")
                 PROVE  /\ Named("constraints") =>
                             /\ DOMAIN now.constraints = DOMAIN edit.constraints
                             /\ \A i \in DOMAIN edit.constraints :
                                   LET asked == edit.constraints[i]
                                   IN  /\ asked.operation \in {"==", "!="}
                                       /\ Range(asked.name) \cap {"==", "!="} = {}
                                       => now.constraints[i] = asked
                        /\ Named("preferences") =>
                             now.preferences = [i \in DOMAIN edit.preferences |->
                                [name |-> "spread", value |-> Get(edit.preferences[i], "value", "")]]
      BY <1>3
    <2> DEFINE first == If("constraints" \in DOMAIN edit,
                           [Constraints |-> MapAll(toConstraint, edit.constraints)])
               second == If("preferences" \in DOMAIN edit,
                            [Preferences |-> MapAll(toPreference, edit.preferences)])
               chosen == MapAll(toPreference, edit.preferences)
               rest == Without(Get(before, "Placement", <<>>), {"Constraints", "Preferences"})
               over == first ++ second
               placement == over ++ rest
    <2>1. toPlacement(edit, before) = [Placement |-> placement]
      BY <1>2 DEF toPlacement
    <2>2. "Placement" \in DOMAIN spec /\ spec["Placement"] = placement
      <3>1. Same(spec, toPlacement(edit, before), "Placement")
        BY <1>1, SpecParts
      <3> HIDE DEF placement
      <3>2. QED
        BY <2>1, <3>1 DEF Same
    <2>3. Get(spec, "Placement", <<>>) = placement
      BY <2>2 DEF Get
    <2>4. /\ now.constraints = MapAll(mapConstraint, Get(placement, "Constraints", <<>>))
          /\ now.preferences = MapAll(preferenceModel, Get(placement, "Preferences", <<>>))
      BY <2>3, ShownFields
    <2>5. /\ Named("constraints") =>
               "Constraints" \in DOMAIN first
               /\ first["Constraints"] = MapAll(toConstraint, edit.constraints)
          /\ Named("preferences") =>
               "Preferences" \in DOMAIN second /\ second["Preferences"] = chosen
          /\ "Preferences" \notin DOMAIN first
      BY <1>2 DEF If
    <2> HIDE DEF first, second, rest, chosen
    <2>6. /\ Named("constraints") =>
               "Constraints" \in DOMAIN over
               /\ over["Constraints"] = MapAll(toConstraint, edit.constraints)
          /\ Named("preferences") =>
               "Preferences" \in DOMAIN over /\ over["Preferences"] = chosen
      BY <2>5 DEF ++
    <2> HIDE DEF over
    <2>7. /\ Named("constraints") =>
               "Constraints" \in DOMAIN placement
               /\ placement["Constraints"] = MapAll(toConstraint, edit.constraints)
          /\ Named("preferences") =>
               "Preferences" \in DOMAIN placement /\ placement["Preferences"] = chosen
      BY <2>6 DEF ++
    <2> HIDE DEF placement
    <2>8. Named("preferences") =>
            now.preferences = [i \in DOMAIN edit.preferences |->
                                 [name |-> "spread", value |-> Get(edit.preferences[i], "value", "")]]
      <3> SUFFICES ASSUME Named("preferences")
                   PROVE  now.preferences = [i \in DOMAIN edit.preferences |->
                             [name |-> "spread", value |-> Get(edit.preferences[i], "value", "")]]
        OBVIOUS
      <3>1. now.preferences = MapAll(preferenceModel, chosen)
        BY <2>4, <2>7 DEF Get
      <3>2. \A p : preferenceModel(toPreference(p)) = [name |-> "spread", value |-> Get(p, "value", "")]
        BY DEF preferenceModel, toPreference, Get
      <3>3. now.preferences = [i \in DOMAIN edit.preferences |->
                                 preferenceModel(toPreference(edit.preferences[i]))]
        BY <3>1 DEF MapAll, chosen
      <3>4. QED
        BY <3>2, <3>3
    <2>9. ASSUME Named("constraints"), NEW i \in DOMAIN edit.constraints,
                 edit.constraints[i].operation \in {"==", "!="},
                 Range(edit.constraints[i].name) \cap {"==", "!="} = {}
          PROVE  now.constraints[i] = edit.constraints[i]
      <3> DEFINE all == edit.constraints
      <3>1. /\ IsList(all[i].name) /\ IsList(all[i].value) /\ <<>> \notin {all[i].name, all[i].value}
            /\ all[i] = [name      |-> all[i].name,
                         operation |-> all[i].operation,
                         value     |-> all[i].value]
        <4>1. \A c \in Range(all) :
                 /\ IsList(c.name) /\ IsList(c.value) /\ <<>> \notin {c.name, c.value}
                 /\ c = [name |-> c.name, operation |-> c.operation, value |-> c.value]
          BY <1>1, <1>2, <2>9 DEF WellTyped
        <4>2. all[i] \in Range(all)
          BY DEF Range
        <4>3. QED
          BY <4>1, <4>2
      <3>2. Get(placement, "Constraints", <<>>) = [j \in DOMAIN all |-> toConstraint(all[j])]
        BY <2>7, <2>9 DEF Get, MapAll
      <3>3. now.constraints = [j \in DOMAIN all |-> mapConstraint(toConstraint(all[j]))]
        BY <2>4, <3>2 DEF MapAll
      <3>4. mapConstraint(toConstraint(all[i])) = [name      |-> all[i].name,
                                                   operation |-> all[i].operation,
                                                   value     |-> all[i].value]
        BY <2>9, <3>1, ConstraintRead DEF toConstraint
      <3>5. QED
        BY <3>1, <3>3, <3>4
    <2>10. Named("constraints") => DOMAIN now.constraints = DOMAIN edit.constraints
      BY <2>4, <2>7 DEF Get, MapAll
    <2>11. QED
      BY <2>8, <2>9, <2>10
  <1>14. /\ Named("deployMode") =>
              CASE Asked("deployMode") = "global" -> now.mode = "global"
                [] Asked("deployMode") = "replicated" -> now.mode = "replic"
                [] OTHER -> Named("replicas") => now.mode = "replic"
         /\ Named("replicas") /\ now.mode = "replic" => now.replicas = Asked("replicas")
    <2> DEFINE mode == toMode(edit, before)
               asked == Get(edit, "deployMode", "")
    <2>1. Same(spec, mode, "Mode")
      BY <1>1, SpecParts
    <2>2. /\ now.mode = (IF "Global" \in DOMAIN Get(spec, "Mode", <<>>) THEN "global" ELSE "replic")
          /\ now.replicas = Get(Get(spec, "Mode", <<>>), "Replicated", 1)
      BY ShownFields
    <2>3. Named("deployMode") => asked = Asked("deployMode")
      BY <1>2, <1>3 DEF Get
    <2>4. CASE asked = "global"
      <3>1. mode = [Mode |-> [Global |-> TRUE]]
        BY <2>4 DEF toMode
      <3>2. Get(spec, "Mode", <<>>) = [Global |-> TRUE]
        BY <2>1, <3>1 DEF Same, Get
      <3>3. now.mode = "global"
        BY <2>2, <3>2
      <3>4. QED
        BY <2>3, <2>4, <3>3
    <2>5. CASE asked # "global" /\ (asked = "replicated" \/ Named("replicas"))
      <3>1. mode = [Mode |-> [Replicated |-> asServiceReplicas(edit)]]
        BY <1>2, <2>5 DEF toMode
      <3>2. Get(spec, "Mode", <<>>) = [Replicated |-> asServiceReplicas(edit)]
        BY <2>1, <3>1 DEF Same, Get
      <3>3. now.mode = "replic" /\ now.replicas = asServiceReplicas(edit)
        BY <2>2, <3>2 DEF Get
      <3>4. Named("replicas") => asServiceReplicas(edit) = Asked("replicas")
        BY <1>2, <1>3 DEF asServiceReplicas, Get
      <3>5. QED
        BY <2>3, <2>5, <3>3, <3>4
    <2>6. CASE asked # "global" /\ asked # "replicated" /\ ~Named("replicas")
      BY <2>3, <2>6
    <2>7. QED
      BY <2>4, <2>5, <2>6
  <1>15. Named("ports") => now.ports = PortsAsked(Asked("ports"))
    <2> SUFFICES ASSUME Named("ports") PROVE now.ports = PortsAsked(edit.ports)
      BY <1>3
    <2>1. "Ports" \in DOMAIN spec /\ spec["Ports"] = MapAll(toServicePort, edit.ports)
      BY <1>1, SpecParts, AskedIsWritten
    <2>2. Get(spec, "Ports", <<>>) = [i \in DOMAIN edit.ports |-> toServicePort(edit.ports[i])]
      BY <2>1 DEF Get, MapAll
    <2>3. now.ports = MapAll(portModel, Get(spec, "Ports", <<>>))
      BY ShownFields
    <2>4. now.ports = [i \in DOMAIN edit.ports |-> portModel(toServicePort(edit.ports[i]))]
      BY <2>2, <2>3 DEF MapAll
    <2>5. QED
      BY <2>4, PortRead DEF PortsAsked
  <1>16. Named("networks") => NetworksAreThere(Asked("networks"), now.stack)
    <2>1. Named("networks") => IsList(edit.networks)
      BY <1>1, <1>2 DEF WellTyped
    <2>2. QED
      BY <1>1, <1>3, <2>1, NetworksRead
  <1>17. Named("command") => CommandIsWritten(Asked("command"))
    BY <1>1, <1>3, CommandRead
  <1> HIDE DEF now
  <1>18. QED
    BY <1>4, <1>5, <1>6, <1>7, <1>8, <1>9, <1>10, <1>11, <1>12, <1>13, <1>14, <1>15, <1>16,
       <1>17 DEF AskedIsRead, now

-----------------------------------------------------------------------------
(* ServiceListing.                                                         *)

\* Counting what comes before each member of a set numbers the set in order.
Rank(M, R, i) == Cardinality({j \in M : <<j, i>> \in R})

LEMMA Ranks ==
  ASSUME NEW M, IsFiniteSet(M), NEW R,
         \A i \in M : <<i, i>> \in R,
         \A i, j \in M : <<i, j>> \in R \/ <<j, i>> \in R,
         \A i, j \in M : <<i, j>> \in R /\ <<j, i>> \in R => i = j,
         \A i, j, k \in M : <<i, j>> \in R /\ <<j, k>> \in R => <<i, k>> \in R
  PROVE  /\ Cardinality(M) \in Nat
         /\ \A i \in M : Rank(M, R, i) \in 1 .. Cardinality(M)
         /\ \A i, j \in M : Rank(M, R, i) = Rank(M, R, j) => i = j
         /\ \A p \in 1 .. Cardinality(M) : \E i \in M : Rank(M, R, i) = p
         /\ \A i, j \in M : Rank(M, R, i) < Rank(M, R, j) => <<i, j>> \in R
  <1> DEFINE Upto(i) == {j \in M : <<j, i>> \in R}
             rank == [i \in M |-> Rank(M, R, i)]
  <1>1. Cardinality(M) \in Nat
    BY FS_CardinalityType
  <1>2. /\ \A i \in M : Upto(i) \in SUBSET M /\ i \in Upto(i)
        /\ \A i, j \in M : <<i, j>> \in R /\ i # j =>
              Upto(i) \in SUBSET Upto(j) /\ j \notin Upto(i)
    OBVIOUS
  <1>3. \A i \in M : Rank(M, R, i) = Cardinality(Upto(i))
    BY DEF Rank
  <1> HIDE DEF Upto
  <1>4. ASSUME NEW i \in M
        PROVE  IsFiniteSet(Upto(i)) /\ Rank(M, R, i) \in 1 .. Cardinality(M)
    <2>1. IsFiniteSet(Upto(i)) /\ Cardinality(Upto(i)) <= Cardinality(M)
      BY <1>2, FS_Subset
    <2>2. Cardinality(Upto(i)) \in Nat /\ (Cardinality(Upto(i)) = 0 <=> Upto(i) = {})
      BY <2>1, FS_CardinalityType, FS_EmptySet
    <2>3. QED
      BY <1>1, <1>2, <1>3, <2>1, <2>2
  <1>5. ASSUME NEW i \in M, NEW j \in M, i # j, <<i, j>> \in R
        PROVE  Rank(M, R, i) < Rank(M, R, j)
    <2>1. Upto(i) \in SUBSET Upto(j) /\ Upto(i) # Upto(j) /\ IsFiniteSet(Upto(j))
      BY <1>2, <1>4, <1>5
    <2>2. /\ Cardinality(Upto(i)) <= Cardinality(Upto(j))
          /\ Cardinality(Upto(i)) # Cardinality(Upto(j))
      BY <2>1, FS_Subset
    <2>3. Rank(M, R, i) \in Nat /\ Rank(M, R, j) \in Nat
      BY <1>1, <1>4
    <2>4. QED
      BY <1>3, <2>2, <2>3
  <1>6. /\ \A i, j \in M : Rank(M, R, i) = Rank(M, R, j) => i = j
        /\ \A i, j \in M : Rank(M, R, i) < Rank(M, R, j) => <<i, j>> \in R
    <2>1. \A i \in M : Rank(M, R, i) \in Int
      BY <1>1, <1>4
    <2>2. ASSUME NEW i \in M, NEW j \in M
          PROVE  /\ Rank(M, R, i) = Rank(M, R, j) => i = j
                 /\ Rank(M, R, i) < Rank(M, R, j) => <<i, j>> \in R
      <3>1. Rank(M, R, i) \in Int /\ Rank(M, R, j) \in Int
        BY <2>1
      <3>2. CASE i = j
        BY <3>1, <3>2
      <3>3. CASE i # j /\ <<i, j>> \in R
        BY <1>5, <3>1, <3>3
      <3>4. CASE i # j /\ <<j, i>> \in R
        BY <1>5, <3>1, <3>4
      <3>5. QED
        BY <3>2, <3>3, <3>4
    <2>3. QED
      BY <2>2
  <1>7. \A p \in 1 .. Cardinality(M) : \E i \in M : Rank(M, R, i) = p
    <2>1. /\ rank \in [M -> 1 .. Cardinality(M)]
          /\ \A i, j \in M : rank[i] = rank[j] => i = j
      BY <1>4, <1>6
    <2> HIDE DEF rank
    <2>2. rank \in Injection(M, 1 .. Cardinality(M))
      BY <2>1, Fun_IsInj
    <2>3. /\ IsFiniteSet(1 .. Cardinality(M))
          /\ Cardinality(1 .. Cardinality(M)) = Cardinality(M)
      BY <1>1, FS_Interval
    <2>4. rank \in Surjection(M, 1 .. Cardinality(M))
      BY <2>2, <2>3, FS_Injection
    <2>5. \A p \in 1 .. Cardinality(M) : \E i \in M : rank[i] = p
      BY <2>4, Fun_SurjectionProperties
    <2>6. QED
      BY <2>5 DEF rank
  <1>8. QED
    BY <1>1, <1>4, <1>6, <1>7

\* What services are ordered by is there or not; if it is, it has a rank.
LEMMA Ordered ==
  ASSUME NEW q, NEW s \in Services, NEW t \in Services, NEW u \in Services
  PROVE  /\ ~Before(s, s, q)
         /\ Before(s, t, q) => ~Before(t, s, q)
         /\ Before(s, t, q) /\ Before(t, u, q) => Before(s, u, q)
         /\ Before(s, u, q) => Before(s, t, q) \/ Before(t, u, q)
  <1> DEFINE key(x) == serviceOrderValue(x, q.orderBy)
  <1>1. \A x \in Services : key(x) # NoValue => key(x).rank \in Int
    BY ListingAssumption DEF serviceOrderValue
  <1>2. \A x, y \in Services :
           Before(x, y, q) <=>
              /\ key(x) # NoValue
              /\ key(y) # NoValue =>
                    IF q.order = "desc" THEN key(x).rank > key(y).rank
                                        ELSE key(x).rank < key(y).rank
    BY DEF Before
  <1> HIDE DEF key
  <1>3. QED
    BY <1>1, <1>2

\* So the places of a listing are in one order, and the sort puts each service
\* that matches at the place it has in that order.
SortsWell(listing, q) ==
    LET M == Selected(listing, q)
        sorted == SortStable(listing, q)
    IN  /\ Cardinality(M) \in Nat /\ Len(sorted) = Cardinality(M)
        /\ sorted \in Seq(Services)
        /\ \A p \in 1 .. Cardinality(M) : \E i \in M :
              sorted[p] = listing[i] /\ Place(listing, q, i) = p
        /\ \A i \in M : \E p \in 1 .. Cardinality(M) :
              sorted[p] = listing[i] /\ Place(listing, q, i) = p
        /\ \A p, r \in 1 .. Cardinality(M) :
              p < r => ~Before(sorted[r], sorted[p], q)

LEMMA SortedListing ==
  ASSUME NEW q, NEW n \in Nat, NEW listing \in [1 .. n -> Services]
  PROVE  SortsWell(listing, q)
  <1> DEFINE M == Selected(listing, q)
             sorted == SortStable(listing, q)
             R == {ji \in M \X M : Precedes(listing, q, ji[1], ji[2])}
  <1>1. M \in SUBSET (1 .. n) /\ IsFiniteSet(M) /\ M \subseteq Nat
    <2>1. IsFiniteSet(1 .. n) /\ M \in SUBSET (1 .. n)
      BY FS_Interval DEF Selected
    <2>2. QED
      BY <2>1, FS_Subset
  <1>2. \A i \in M : listing[i] \in Services
    BY <1>1
  <1>3. \A i, j \in M : <<j, i>> \in R <=> Precedes(listing, q, j, i)
    OBVIOUS
  <1>4. \A i \in M : Rank(M, R, i) = Place(listing, q, i)
    <2>1. \A i \in M : {j \in M : <<j, i>> \in R} = {j \in M : Precedes(listing, q, j, i)}
      BY <1>3
    <2>2. QED
      BY <2>1 DEF Place, Rank
  <1> HIDE DEF R
  <1>5. /\ \A i \in M : <<i, i>> \in R
        /\ \A i, j \in M : <<i, j>> \in R \/ <<j, i>> \in R
        /\ \A i, j \in M : <<i, j>> \in R /\ <<j, i>> \in R => i = j
        /\ \A i, j, k \in M : <<i, j>> \in R /\ <<j, k>> \in R => <<i, k>> \in R
    <2>1. ASSUME NEW i \in M, NEW j \in M, NEW k \in M
          PROVE  /\ <<i, i>> \in R
                 /\ <<i, j>> \in R \/ <<j, i>> \in R
                 /\ <<i, j>> \in R /\ <<j, i>> \in R => i = j
                 /\ <<i, j>> \in R /\ <<j, k>> \in R => <<i, k>> \in R
      <3> DEFINE B(x, y) == Before(listing[x], listing[y], q)
      <3>1. \A x, y, z \in M : /\ ~B(x, x) /\ (B(x, y) => ~B(y, x))
                               /\ B(x, y) /\ B(y, z) => B(x, z)
                               /\ B(x, z) => B(x, y) \/ B(y, z)
        BY <1>2, Ordered
      <3>2. \A x, y \in M : <<x, y>> \in R <=> B(x, y) \/ (x <= y /\ ~B(y, x))
        BY <1>3 DEF Precedes
      <3> HIDE DEF B
      <3>3. i \in Nat /\ j \in Nat /\ k \in Nat
        BY <1>1
      <3> HIDE DEF M
      <3>4. QED
        BY <3>1, <3>2, <3>3
    <2>2. QED
      BY <2>1
  <1>6. /\ Cardinality(M) \in Nat
        /\ \A i \in M : Rank(M, R, i) \in 1 .. Cardinality(M)
        /\ \A i, j \in M : Rank(M, R, i) = Rank(M, R, j) => i = j
        /\ \A p \in 1 .. Cardinality(M) : \E i \in M : Rank(M, R, i) = p
        /\ \A i, j \in M : Rank(M, R, i) < Rank(M, R, j) => <<i, j>> \in R
    <2> HIDE DEF M
    <2>1. QED
      BY <1>1, <1>5, Ranks
  <1>7. sorted = [p \in 1 .. Cardinality(M) |->
                    listing[CHOOSE i \in M : Place(listing, q, i) = p]]
    BY DEF SortStable
  <1> HIDE DEF M, sorted
  <1>8. ASSUME NEW p \in 1 .. Cardinality(M)
        PROVE  \E i \in M : sorted[p] = listing[i] /\ Place(listing, q, i) = p
    <2>1. \E i \in M : Place(listing, q, i) = p
      BY <1>4, <1>6
    <2>2. QED
      BY <1>7, <2>1
  <1>9. ASSUME NEW i \in M
        PROVE  \E p \in 1 .. Cardinality(M) :
                  sorted[p] = listing[i] /\ Place(listing, q, i) = p
    <2>1. Place(listing, q, i) \in 1 .. Cardinality(M) /\ Place(listing, q, i) = Place(listing, q, i)
      BY <1>4, <1>6
    <2>2. PICK k \in M : sorted[Place(listing, q, i)] = listing[k] /\ Place(listing, q, k) = Place(listing, q, i)
      BY <1>8, <2>1
    <2>3. k = i
      BY <1>4, <1>6, <2>2
    <2>4. QED
      BY <2>1, <2>2, <2>3
  <1>10. sorted \in Seq(Services) /\ Len(sorted) = Cardinality(M)
    <2>1. \A p \in 1 .. Cardinality(M) : sorted[p] \in Services
      BY <1>2, <1>8
    <2>2. sorted \in [1 .. Cardinality(M) -> Services]
      BY <1>7, <2>1
    <2>3. QED
      BY <1>6, <2>2
  <1>11. ASSUME NEW p \in 1 .. Cardinality(M), NEW r \in 1 .. Cardinality(M), p < r
         PROVE  ~Before(sorted[r], sorted[p], q)
    <2>1. PICK i \in M : sorted[p] = listing[i] /\ Place(listing, q, i) = p
      BY <1>4, <1>8
    <2>2. PICK j \in M : sorted[r] = listing[j] /\ Place(listing, q, j) = r
      BY <1>4, <1>8
    <2>3. <<i, j>> \in R
      BY <1>4, <1>6, <1>11, <2>1, <2>2
    <2>4. Precedes(listing, q, i, j)
      BY <1>3, <2>3
    <2>5. QED
      BY <1>2, <2>1, <2>2, <2>4, Ordered DEF Precedes
  <1>12. QED
    BY <1>6, <1>8, <1>9, <1>10, <1>11 DEF SortsWell, M, sorted

\* Docker lists each service it selects, once.
LEMMA Listed ==
  ASSUME NEW q, NEW listing \in Listings(q)
  PROVE  \E n \in Nat :
            /\ listing \in [1 .. n -> Services]
            /\ \A i, j \in 1 .. n : listing[i] = listing[j] => i = j
            /\ \A s \in Services :
                  (\A stack \in buildDockerListFilters(q) : s.stack = stack)
                  <=> \E i \in 1 .. n : listing[i] = s
  <1> DEFINE S == {s \in Services : \A stack \in buildDockerListFilters(q) : s.stack = stack}
             n == Cardinality(S)
  <1>1. S \in SUBSET Services /\ IsFiniteSet(S)
    BY ListingAssumption, FS_Subset
  <1>2. n \in Nat /\ Cardinality(S) = n
    BY <1>1, FS_CardinalityType
  <1>3. /\ listing \in [1 .. n -> S]
        /\ \A i, j \in 1 .. n : i # j => listing[i] # listing[j]
    BY DEF Listings, SetToSeqs
  <1>4. \A s \in Services : s \in S <=> \A stack \in buildDockerListFilters(q) : s.stack = stack
    OBVIOUS
  <1> HIDE DEF S, n
  <1>5. listing \in Injection(1 .. n, S)
    BY <1>3, Fun_IsInj
  <1>6. IsFiniteSet(1 .. n) /\ Cardinality(1 .. n) = n
    BY <1>2, FS_Interval
  <1>7. listing \in Surjection(1 .. n, S)
    BY <1>1, <1>2, <1>5, <1>6, FS_Injection
  <1>8. \A s \in S : \E i \in 1 .. n : listing[i] = s
    BY <1>7 DEF Surjection
  <1>9. QED
    BY <1>1, <1>2, <1>3, <1>4, <1>8

\* The page asks as the client does but for the filters without a field.
LEMMA Requested ==
  ASSUME query \in Queries
  PROVE  /\ Request.stack = query.stack /\ Request.search = query.search
         /\ Request.orderBy = query.orderBy /\ Request.order = query.order
         /\ Request.limit = query.limit /\ query.limit \in Nat \ {0}
         /\ \A s, t : Before(s, t, Request) <=> Before(s, t, query)
  <1>1. /\ DOMAIN query = {"stack", "filters", "search", "orderBy", "order", "limit"}
        /\ query.limit \in Nat \ {0}
    BY ListingAssumption
  <1>2. /\ Request.stack = query.stack /\ Request.search = query.search
        /\ Request.orderBy = query.orderBy /\ Request.order = query.order
        /\ Request.limit = query.limit
    BY <1>1 DEF Request
  <1>3. \A s, t : Before(s, t, Request) <=> Before(s, t, query)
    BY <1>2 DEF Before
  <1>4. QED
    BY <1>1, <1>2, <1>3

\* Docker leaves out no service that the filters let pass.
LEMMA SelectsMatching ==
  ASSUME query \in Queries, SelectsAlike, NEW s \in Services,
         matchesServiceFilters(s, Request.filters)
  PROVE  query.stack \in {NoValue, s.stack} <=>
            \A stack \in buildDockerListFilters(Request) : s.stack = stack
  <1> DEFINE named == {f \in Range(Request.filters) :
                         /\ f.field = "stack" /\ f.operator = "eq"
                         /\ f.value.array \/ ~isEmptyFilterValue(f.value)}
             StackOf(f) == IF Len(f.value.of) = 1 THEN f.value.of[1] ELSE NoStack
  <1>1. buildDockerListFilters(Request) =
           (IF query.stack = NoValue THEN {} ELSE {query.stack})
           \cup {StackOf(f) : f \in named}
    BY Requested DEF buildDockerListFilters
  <1>2. ASSUME NEW f \in named PROVE s.stack = StackOf(f)
    <2>1. /\ f \in Range(Request.filters) /\ f.field = "stack" /\ f.operator = "eq"
          /\ f.value.array \/ ~isEmptyFilterValue(f.value)
      BY <1>2
    <2>2. \/ Len(f.value.of) = 1 /\ (f.value.array => f.value.of[1] # Empty)
          \/ f.value.of = <<>> /\ ~f.value.array
      BY <2>1 DEF SelectsAlike
    <2>3. /\ Len(f.value.of) = 1 /\ f.value.of # <<>> /\ f.value.of[1] # Empty
          /\ ~isEmptyFilterValue(f.value)
      BY <2>1, <2>2 DEF isEmptyFilterValue
    <2>4. matchesServiceFilter(s, f)
      BY <2>1 DEF matchesServiceFilters
    <2>5. equalFilterValue(serviceFilterValue(s, "stack"), f.value.of[1])
      BY <2>1, <2>3, <2>4 DEF matchesServiceFilter
    <2>6. OrEmpty(s.stack) = f.value.of[1]
      BY <2>5 DEF equalFilterValue, serviceFilterValue
    <2>7. s.stack = f.value.of[1]
      BY <2>3, <2>6 DEF OrEmpty
    <2>8. QED
      BY <2>3, <2>7
  <1> HIDE DEF named, StackOf
  <1>3. QED
    BY <1>1, <1>2

\* Whatever Docker lists, and in whatever order: what is sorted are the services
\* that match, each of them once.
LEMMA SortedMatching ==
  ASSUME query \in Queries, SelectsAlike, NEW listing \in Listings(Request)
  PROVE  LET sorted == SortStable(listing, Request)
         IN  /\ sorted \in Seq(Matching)
             /\ Len(sorted) \in Nat /\ Len(sorted) = Cardinality(Matching)
             /\ \A s \in Matching : \E p \in 1 .. Len(sorted) : sorted[p] = s
             /\ \A p, r \in 1 .. Len(sorted) : sorted[p] = sorted[r] => p = r
             /\ \A p, r \in 1 .. Len(sorted) :
                   p < r => ~Before(sorted[r], sorted[p], query)
  <1> DEFINE sorted == SortStable(listing, Request)
             M == Selected(listing, Request)
             m == Cardinality(M)
  <1>1. PICK n \in Nat :
            /\ listing \in [1 .. n -> Services]
            /\ \A i, j \in 1 .. n : listing[i] = listing[j] => i = j
            /\ \A s \in Services :
                  (\A stack \in buildDockerListFilters(Request) : s.stack = stack)
                  <=> \E i \in 1 .. n : listing[i] = s
    BY Listed
  <1>2. /\ m \in Nat /\ Len(sorted) = m /\ sorted \in Seq(Services)
        /\ \A p \in 1 .. m : \E i \in M :
              sorted[p] = listing[i] /\ Place(listing, Request, i) = p
        /\ \A i \in M : \E p \in 1 .. m :
              sorted[p] = listing[i] /\ Place(listing, Request, i) = p
        /\ \A p, r \in 1 .. m : p < r => ~Before(sorted[r], sorted[p], Request)
    <2>1. listing \in [1 .. n -> Services]
      BY <1>1
    <2>2. SortsWell(listing, Request)
      BY <2>1, SortedListing
    <2>3. QED
      BY <2>2 DEF SortsWell
  <1>3. \A i : i \in M <=> /\ i \in 1 .. n
                           /\ matchesServiceFilters(listing[i], Request.filters)
                           /\ Searched(listing[i], Request.search)
    BY <1>1 DEF Selected
  <1>4. \A s : s \in Matching <=> /\ s \in Services
                                  /\ query.stack \in {NoValue, s.stack}
                                  /\ Searched(s, query.search)
                                  /\ matchesServiceFilters(s, Request.filters)
    BY DEF Matching
  <1> HIDE DEF M, m, sorted
  <1>5. \A i \in M : listing[i] \in Matching
    BY <1>1, <1>3, <1>4, Requested, SelectsMatching
  <1>6. \A s \in Matching : \E i \in M : listing[i] = s
    BY <1>1, <1>3, <1>4, Requested, SelectsMatching
  <1>7. \A p \in 1 .. m : sorted[p] \in Matching
    BY <1>2, <1>5
  <1>8. \A s \in Matching : \E p \in 1 .. m : sorted[p] = s
    BY <1>2, <1>6
  <1>9. \A p, r \in 1 .. m : sorted[p] = sorted[r] => p = r
    <2>1. ASSUME NEW p \in 1 .. m, NEW r \in 1 .. m, sorted[p] = sorted[r] PROVE p = r
      <3>1. PICK i \in M : sorted[p] = listing[i] /\ Place(listing, Request, i) = p
        BY <1>2
      <3>2. PICK j \in M : sorted[r] = listing[j] /\ Place(listing, Request, j) = r
        BY <1>2
      <3>3. i = j
        BY <1>1, <1>3, <2>1, <3>1, <3>2
      <3>4. QED
        BY <3>1, <3>2, <3>3
    <2>2. QED
      BY <2>1
  <1>10. sorted \in [1 .. m -> Matching] /\ sorted \in Seq(Matching)
    <2>1. sorted \in [1 .. m -> Services]
      BY <1>2
    <2>2. QED
      BY <1>2, <1>7, <2>1
  <1>11. m = Cardinality(Matching)
    <2>1. sorted \in Bijection(1 .. m, Matching)
      BY <1>8, <1>9, <1>10, Fun_IsBij
    <2>2. ExistsBijection(1 .. m, Matching)
      BY <2>1, Fun_ExistsBij
    <2>3. IsFiniteSet(1 .. m) /\ Cardinality(1 .. m) = m
      BY <1>2, FS_Interval
    <2>4. QED
      BY <2>2, <2>3, FS_Bijection
  <1>12. QED
    BY <1>2, <1>8, <1>9, <1>10, <1>11, Requested DEF sorted

LEMMA Counted ==
  ASSUME NEW n \in Nat PROVE IsFiniteSet(1 .. n) /\ Cardinality(1 .. n) = n
  BY FS_Interval

\* When none order alike, a place in the list is how many come before.
LEMMA PlaceInList ==
  ASSUME query \in Queries, Distinct, NEW m \in Nat, NEW sorted \in [1 .. m -> Matching],
         \A s \in Matching : \E p \in 1 .. m : sorted[p] = s,
         \A p, r \in 1 .. m : sorted[p] = sorted[r] => p = r,
         \A p, r \in 1 .. m : p < r => ~Before(sorted[r], sorted[p], query),
         NEW k \in 1 .. m
  PROVE  Cardinality({s \in Matching : Before(s, sorted[k], query)}) = k - 1
  <1> DEFINE first == {s \in Matching : Before(s, sorted[k], query)}
             f == [i \in 1 .. k - 1 |-> sorted[i]]
  <1>1. k - 1 \in Nat /\ \A i \in 1 .. k - 1 : i \in 1 .. m /\ i < k
    OBVIOUS
  <1>2. \A s \in Matching : s \in Services
    BY DEF Matching
  <1>3. ASSUME NEW i \in 1 .. k - 1 PROVE sorted[i] \in first
    <2>1. i \in 1 .. m /\ i < k
      BY <1>1
    <2>2. sorted[i] # sorted[k] /\ ~Before(sorted[k], sorted[i], query)
      BY <2>1
    <2>3. sorted[i] \in Matching /\ sorted[k] \in Matching
      BY <2>1
    <2>4. QED
      BY <2>2, <2>3 DEF Distinct
  <1>4. ASSUME NEW s \in first PROVE \E i \in 1 .. k - 1 : sorted[i] = s
    <2>1. PICK p \in 1 .. m : sorted[p] = s
      OBVIOUS
    <2>2. Before(sorted[p], sorted[k], query) /\ sorted[k] \in Services
      BY <1>2, <2>1
    <2>3. p # k
      BY <2>2, Ordered
    <2>4. ~(k < p)
      BY <2>2
    <2>5. p \in 1 .. k - 1
      BY <2>3, <2>4
    <2>6. QED
      BY <2>1, <2>5
  <1> HIDE DEF first
  <1>5. f \in Bijection(1 .. k - 1, first)
    <2>1. f \in [1 .. k - 1 -> first] /\ \A i \in 1 .. k - 1 : f[i] = sorted[i]
      BY <1>3
    <2> HIDE DEF f
    <2>2. \A i, j \in 1 .. k - 1 : f[i] = f[j] => i = j
      BY <1>1, <2>1
    <2>3. \A s \in first : \E i \in 1 .. k - 1 : f[i] = s
      BY <1>4, <2>1
    <2>4. QED
      BY <2>1, <2>2, <2>3, Fun_IsBij
  <1>6. ExistsBijection(1 .. k - 1, first)
    BY <1>5, Fun_ExistsBij
  <1>7. IsFiniteSet(1 .. k - 1) /\ Cardinality(1 .. k - 1) = k - 1
    BY <1>1, Counted
  <1>8. Cardinality(first) = k - 1
    BY <1>6, <1>7, FS_Bijection
  <1>9. QED
    BY <1>8 DEF first

\* What comes before a service in the list.
Earlier(t) == {s \in Matching : Before(s, t, query)}

\* A page as PagesAreTheList has it, and of each service on it how many come
\* before it in the list.
PageIsGood(page, p) ==
    LET total == Cardinality(Matching)
        left == total - (p - 1) * query.limit
    IN  /\ page.total = total
        /\ left > 0 \/ p = 1
        /\ Len(page.items) = IF left > query.limit THEN query.limit ELSE left
        /\ Range(page.items) \subseteq Matching
        /\ \A i, j \in DOMAIN page.items :
              i < j => /\ page.items[i] # page.items[j]
                       /\ ~Before(page.items[j], page.items[i], query)
        /\ Distinct =>
              \A k \in DOMAIN page.items :
                 Cardinality(Earlier(page.items[k])) = (p - 1) * query.limit + k - 1

ListInv ==
    /\ query \in Queries /\ refused \in BOOLEAN
    /\ pages \in Seq([total : Nat, items : Seq(Services)])
    /\ SelectsAlike => \A p \in DOMAIN pages : PageIsGood(pages[p], p)

LEMMA StartOfPage ==
  ASSUME query \in Queries, NEW p \in Nat \ {0}
  PROVE  (p - 1) * query.limit \in Nat /\ query.limit \in Nat \ {0}
  <1>1. query.limit \in Nat \ {0}
    BY Requested
  <1>2. \A a, b \in Nat : a * b \in Nat
    OBVIOUS
  <1>3. QED
    BY <1>1, <1>2

\* A page is cut out of the sorted list.
LEMMA PageIsCut ==
  ASSUME NEW S, NEW total \in Nat, NEW sorted \in Seq(S),
         Len(sorted) = total,
         NEW start \in Nat, NEW limit \in Nat \ {0}, NEW items,
         items = SubSeq(sorted, start + 1,
                        IF start + limit < Len(sorted) THEN start + limit ELSE Len(sorted))
  PROVE  /\ items \in Seq(S)
         /\ start <= total =>
               Len(items) = IF total - start > limit THEN limit ELSE total - start
         /\ \A k \in 1 .. Len(items) : start + k \in 1 .. total /\ items[k] = sorted[start + k]
  <1> DEFINE end == IF start + limit < Len(sorted) THEN start + limit ELSE Len(sorted)
  <1>1. /\ end \in Int /\ start + 1 \in Int /\ end <= total
        /\ end = IF start + limit < total THEN start + limit ELSE total
    OBVIOUS
  <1>2. items = SubSeq(sorted, start + 1, end)
    OBVIOUS
  <1> HIDE DEF end
  <1>3. \A i \in start + 1 .. end : sorted[i] \in S
    BY <1>1
  <1>4. /\ items \in Seq(S)
        /\ Len(items) = IF start + 1 <= end THEN end - (start + 1) + 1 ELSE 0
        /\ \A i \in 1 .. end - (start + 1) + 1 : items[i] = sorted[start + 1 + i - 1]
    BY <1>1, <1>2, <1>3, SubSeqProperties
  <1>5. ASSUME NEW k \in 1 .. Len(items)
        PROVE  start + k \in 1 .. total /\ items[k] = sorted[start + k]
    <2>1. /\ k \in 1 .. end - (start + 1) + 1
          /\ start + 1 + k - 1 = start + k /\ start + k \in 1 .. total
      BY <1>1, <1>4
    <2>2. QED
      BY <1>4, <2>1
  <1>6. QED
    BY <1>1, <1>4, <1>5

LEMMA PageIsTyped ==
  ASSUME query \in Queries, NEW listing \in Listings(Request), NEW p \in Nat \ {0}
  PROVE  paginateServices(listing, Request, p) \in [total : Nat, items : Seq(Services)]
  <1> DEFINE sorted == SortStable(listing, Request)
             start == (p - 1) * query.limit
             page == paginateServices(listing, Request, p)
  <1>1. PICK n \in Nat : listing \in [1 .. n -> Services]
    BY Listed
  <1>2. SortsWell(listing, Request)
    BY <1>1, SortedListing
  <1>3. sorted \in Seq(Services) /\ Len(sorted) \in Nat
    BY <1>2 DEF SortsWell
  <1>4. /\ page.total = Len(sorted) /\ page = [total |-> page.total, items |-> page.items]
        /\ page.items = SubSeq(sorted, start + 1,
                               IF start + query.limit < Len(sorted) THEN start + query.limit
                                                                    ELSE Len(sorted))
    BY Requested DEF paginateServices
  <1>5. start \in Nat /\ query.limit \in Nat \ {0}
    BY StartOfPage
  <1> HIDE DEF sorted, start, page
  <1>6. page.items \in Seq(Services)
    BY <1>3, <1>4, <1>5, PageIsCut
  <1>7. page \in [total : Nat, items : Seq(Services)]
    BY <1>3, <1>4, <1>6
  <1>8. QED
    BY <1>7 DEF page

LEMMA NextPage ==
  ASSUME query \in Queries, SelectsAlike, NEW listing \in Listings(Request),
         NEW p \in Nat \ {0},
         p = 1 \/ (p - 1) * query.limit < Cardinality(Matching)
  PROVE  PageIsGood(paginateServices(listing, Request, p), p)
  <1> DEFINE sorted == SortStable(listing, Request)
             start == (p - 1) * query.limit
             total == Cardinality(Matching)
             page == paginateServices(listing, Request, p)
  <1>1. /\ sorted \in Seq(Matching) /\ Len(sorted) \in Nat /\ Len(sorted) = total
        /\ \A s \in Matching : \E i \in 1 .. total : sorted[i] = s
        /\ \A i, j \in 1 .. total : sorted[i] = sorted[j] => i = j
        /\ \A i, j \in 1 .. total : i < j => ~Before(sorted[j], sorted[i], query)
    <2>1. Len(sorted) = total
      BY SortedMatching
    <2>2. QED
      BY <2>1, SortedMatching
  <1>2. /\ page.total = Len(sorted)
        /\ page.items = SubSeq(sorted, start + 1,
                               IF start + query.limit < Len(sorted) THEN start + query.limit
                                                                    ELSE Len(sorted))
    BY Requested DEF paginateServices
  <1>3. /\ start \in Nat /\ query.limit \in Nat \ {0} /\ (p = 1 => start = 0)
        /\ p = 1 \/ start < total
    BY StartOfPage, Requested
  <1> HIDE DEF sorted, start, total, page
  <1>4. /\ page.items \in Seq(Matching)
        /\ Len(page.items) = IF total - start > query.limit THEN query.limit
                                                            ELSE total - start
        /\ \A k \in 1 .. Len(page.items) :
              start + k \in 1 .. total /\ page.items[k] = sorted[start + k]
    <2>1. /\ start <= total /\ total \in Nat
          /\ sorted \in Seq(Matching) /\ Len(sorted) = total
      BY <1>1, <1>3
    <2>2. start \in Nat /\ query.limit \in Nat \ {0}
      BY <1>3
    <2>3. page.items = SubSeq(sorted, start + 1,
                              IF start + query.limit < Len(sorted) THEN start + query.limit
                                                                   ELSE Len(sorted))
      BY <1>2
    <2>4. QED
      BY <2>1, <2>2, <2>3, PageIsCut
  <1>5. Range(page.items) \subseteq Matching /\ DOMAIN page.items = 1 .. Len(page.items)
    BY <1>4 DEF Range
  <1>6. ASSUME Distinct, NEW k \in 1 .. Len(page.items)
        PROVE  Cardinality(Earlier(page.items[k])) = start + k - 1
    <2>1. start + k \in 1 .. total /\ page.items[k] = sorted[start + k]
      BY <1>4
    <2>2. sorted \in [1 .. total -> Matching] /\ total \in Nat
      BY <1>1
    <2> DEFINE place == start + k
    <2>3. place \in 1 .. total
      BY <2>1
    <2> HIDE DEF place
    <2>4. Cardinality({s \in Matching : Before(s, sorted[place], query)}) = place - 1
      <3>1. \A s \in Matching : \E i \in 1 .. total : sorted[i] = s
        BY <1>1
      <3>2. \A i, j \in 1 .. total : sorted[i] = sorted[j] => i = j
        BY <1>1
      <3>3. \A i, j \in 1 .. total : i < j => ~Before(sorted[j], sorted[i], query)
        BY <1>1
      <3>4. QED
        BY <1>6, <2>2, <2>3, <3>1, <3>2, <3>3, PlaceInList
    <2>5. Cardinality(Earlier(sorted[place])) = place - 1
      BY <2>4 DEF Earlier
    <2>6. place - 1 = start + k - 1
      BY <1>3 DEF place
    <2>7. QED
      BY <2>1, <2>5, <2>6 DEF place
  <1>7. ASSUME NEW i \in 1 .. Len(page.items), NEW j \in 1 .. Len(page.items), i < j
        PROVE  /\ page.items[i] # page.items[j]
               /\ ~Before(page.items[j], page.items[i], query)
    <2>1. /\ start + i \in 1 .. total /\ start + j \in 1 .. total /\ start + i < start + j
          /\ page.items[i] = sorted[start + i] /\ page.items[j] = sorted[start + j]
      BY <1>3, <1>4, <1>7
    <2>2. start + i # start + j
      BY <1>3, <1>7
    <2>3. QED
      BY <1>1, <2>1, <2>2
  <1>8. total - start > 0 \/ p = 1
    BY <1>1, <1>3
  <1>9. QED
    BY <1>1, <1>2, <1>4, <1>5, <1>6, <1>7, <1>8 DEF PageIsGood, start, total, page

LEMMA ListInitInv == ListInit => ListInv
  <1> SUFFICES ASSUME ListInit PROVE ListInv
    OBVIOUS
  <1>1. query \in Queries /\ pages = <<>> /\ refused = FALSE
    BY DEF ListInit
  <1>2. <<>> \in Seq([total : Nat, items : Seq(Services)]) /\ DOMAIN <<>> = {}
    OBVIOUS
  <1>3. QED
    BY <1>1, <1>2 DEF ListInv

\* What the invariant says of a query that stays.
LEMMA QueryStays ==
  ASSUME UNCHANGED query
  PROVE  /\ SelectsAlike' <=> SelectsAlike
         /\ \A page, p : PageIsGood(page, p)' <=> PageIsGood(page, p)
  <1>1. Request' = Request
    BY DEF Request
  <1>2. Matching' = Matching
    BY <1>1 DEF Matching
  <1>3. SelectsAlike' <=> SelectsAlike
    BY <1>1 DEF SelectsAlike
  <1>4. Distinct' <=> Distinct
    BY <1>2 DEF Distinct
  <1>5. \A t : Earlier(t)' = Earlier(t)
    BY <1>2 DEF Earlier
  <1>6. \A page, p : PageIsGood(page, p)' <=> PageIsGood(page, p)
    BY <1>2, <1>4, <1>5 DEF PageIsGood
  <1>7. QED
    BY <1>3, <1>6

LEMMA ReadPageStep == ASSUME ListInv, ReadPage PROVE ListInv'
  <1> DEFINE Pages == [total : Nat, items : Seq(Services)]
             n == Len(pages) + 1
  <1>1. PICK listing \in Listings(Request) :
            pages' = Append(pages, paginateServices(listing, Request, Len(pages) + 1))
    BY DEF ReadPage
  <1> DEFINE page == paginateServices(listing, Request, n)
  <1>2. /\ UNCHANGED <<query, refused>> /\ query \in Queries /\ refused \in BOOLEAN
        /\ pages # <<>> => Len(pages) * query.limit < Last(pages).total
        /\ pages \in Seq(Pages)
        /\ SelectsAlike => \A p \in DOMAIN pages : PageIsGood(pages[p], p)
    BY DEF ReadPage, ListInv
  <1>3. Len(pages) \in Nat /\ n \in Nat \ {0} /\ n - 1 = Len(pages)
    BY <1>2
  <1>4. page \in Pages
    BY <1>2, <1>3, PageIsTyped
  <1>5. pages' = Append(pages, page)
    BY <1>1
  <1>6. ASSUME SelectsAlike PROVE PageIsGood(page, n)
    <2>1. CASE pages = <<>>
      <3>1. n = 1
        BY <2>1
      <3>2. QED
        BY <1>2, <1>3, <1>6, <3>1, NextPage
    <2>2. CASE pages # <<>>
      <3>1. Len(pages) \in DOMAIN pages /\ Last(pages) = pages[Len(pages)]
        BY <1>2, <2>2 DEF Last
      <3>2. Last(pages).total = Cardinality(Matching)
        BY <1>2, <1>6, <3>1 DEF PageIsGood
      <3>3. (n - 1) * query.limit < Cardinality(Matching)
        BY <1>2, <1>3, <2>2, <3>2
      <3> HIDE DEF n
      <3>4. QED
        BY <1>2, <1>3, <1>6, <3>3, NextPage
    <2>3. QED
      BY <2>1, <2>2
  <1> HIDE DEF page
  <1>7. /\ pages' \in Seq(Pages) /\ DOMAIN pages' = 1 .. n
        /\ pages'[n] = page
        /\ \A p \in 1 .. n : p # n => p \in DOMAIN pages /\ pages'[p] = pages[p]
    <2> HIDE DEF Pages
    <2>1. QED
      BY <1>2, <1>3, <1>4, <1>5
  <1> HIDE DEF n, Pages
  <1>8. ASSUME SelectsAlike, NEW p \in 1 .. n PROVE PageIsGood(pages'[p], p)
    BY <1>2, <1>6, <1>7, <1>8
  <1>9. SelectsAlike' <=> SelectsAlike
    BY <1>2, QueryStays
  <1>10. ASSUME SelectsAlike, NEW p \in 1 .. n PROVE PageIsGood(pages[p], p)'
    <2>1. PageIsGood(pages'[p], p)
      BY <1>8, <1>10
    <2>2. QED
      BY <1>2, <2>1, QueryStays
  <1>11. QED
    BY <1>2, <1>7, <1>9, <1>10 DEF ListInv, Pages

LEMMA ListNextInv == ASSUME ListInv, ListNext PROVE ListInv'
  <1>1. CASE Refuse
    <2>1. UNCHANGED <<query, pages>> /\ refused' = TRUE
      BY <1>1 DEF Refuse
    <2>2. SelectsAlike' <=> SelectsAlike
      BY <2>1, QueryStays
    <2>3. \A p : PageIsGood(pages[p], p)' <=> PageIsGood(pages[p], p)
      BY <2>1, QueryStays
    <2>4. QED
      BY <2>1, <2>2, <2>3 DEF ListInv
  <1>2. QED
    BY <1>1, ReadPageStep DEF ListNext

\* Of two services the one that has fewer before it comes first.
LEMMA FewerBefore ==
  ASSUME Distinct, NEW s \in Matching, NEW t \in Matching,
         Cardinality(Earlier(s)) < Cardinality(Earlier(t)),
         Cardinality(Earlier(s)) \in Nat, Cardinality(Earlier(t)) \in Nat
  PROVE  Before(s, t, query)
  <1>1. s # t
    OBVIOUS
  <1>2. SUFFICES ASSUME Before(t, s, query) PROVE FALSE
    BY <1>1 DEF Distinct
  <1>3. \A x \in Matching : x \in Services
    BY DEF Matching
  <1>4. Earlier(t) \in SUBSET Earlier(s)
    BY <1>2, <1>3, Ordered DEF Earlier
  <1>5. Earlier(s) \in SUBSET Services /\ IsFiniteSet(Services)
    BY <1>3, ListingAssumption DEF Earlier
  <1>6. IsFiniteSet(Earlier(s))
    BY <1>5, FS_Subset
  <1>7. Cardinality(Earlier(t)) <= Cardinality(Earlier(s))
    BY <1>4, <1>6, FS_Subset
  <1>8. QED
    BY <1>7

LEMMA PagesTyped ==
  ASSUME ListInv
  PROVE  /\ DOMAIN pages \subseteq Nat \ {0}
         /\ \A p \in DOMAIN pages :
               /\ pages[p].items \in Seq(Services) /\ Len(pages[p].items) \in Nat
               /\ DOMAIN pages[p].items = 1 .. Len(pages[p].items)
  <1> DEFINE Pages == [total : Nat, items : Seq(Services)]
  <1>1. pages \in Seq(Pages)
    BY DEF ListInv
  <1> HIDE DEF Pages
  <1>2. DOMAIN pages \subseteq Nat \ {0} /\ \A p \in DOMAIN pages : pages[p] \in Pages
    BY <1>1
  <1>3. \A page \in Pages : page.items \in Seq(Services)
    BY DEF Pages
  <1>4. QED
    BY <1>2, <1>3

\* So the pages are the list.
LEMMA GoodPages == ListInv => PagesAreTheList
  <1> SUFFICES ASSUME ListInv, SelectsAlike PROVE PagesAreTheList
    BY DEF PagesAreTheList
  <1> DEFINE L == query.limit
             total == Cardinality(Matching)
  <1>1. /\ query \in Queries /\ pages \in Seq([total : Nat, items : Seq(Services)])
        /\ \A p \in DOMAIN pages : PageIsGood(pages[p], p)
    BY DEF ListInv
  <1>2. L \in Nat \ {0}
    BY <1>1, Requested
  <1>3. total \in Nat
    <2>1. Matching \in SUBSET Services /\ IsFiniteSet(Services)
      BY ListingAssumption DEF Matching
    <2>2. IsFiniteSet(Matching)
      BY <2>1, FS_Subset
    <2>3. QED
      BY <2>2, FS_CardinalityType
  <1>4. ASSUME NEW p \in DOMAIN pages
        PROVE  /\ p \in Nat \ {0} /\ (p - 1) * L \in Nat
               /\ pages[p].items \in Seq(Services)
               /\ DOMAIN pages[p].items = 1 .. Len(pages[p].items)
               /\ Len(pages[p].items) \in Nat /\ Len(pages[p].items) <= L
    <2>1. /\ p \in Nat \ {0} /\ pages[p].items \in Seq(Services)
          /\ DOMAIN pages[p].items = 1 .. Len(pages[p].items)
          /\ Len(pages[p].items) \in Nat
      BY PagesTyped
    <2>2. (p - 1) * L \in Nat
      BY <1>1, <2>1, StartOfPage
    <2>3. Len(pages[p].items) = IF total - (p - 1) * L > L THEN L ELSE total - (p - 1) * L
      BY <1>1 DEF PageIsGood
    <2>4. Len(pages[p].items) <= L
      <3> DEFINE start == (p - 1) * L
      <3>1. start \in Nat /\ Len(pages[p].items) = IF total - start > L THEN L ELSE total - start
        BY <2>2, <2>3
      <3> HIDE DEF start, L, total
      <3>2. QED
        BY <1>2, <1>3, <3>1
    <2>5. QED
      BY <2>1, <2>2, <2>4
  <1>5. ASSUME Distinct, NEW o \in DOMAIN pages, NEW p \in DOMAIN pages,
               NEW i \in DOMAIN pages[o].items, NEW j \in DOMAIN pages[p].items,
               o < p \/ (o = p /\ i < j)
        PROVE  Before(pages[o].items[i], pages[p].items[j], query)
    <2> DEFINE s == pages[o].items[i]
               t == pages[p].items[j]
               first == (o - 1) * L
               second == (p - 1) * L
    <2>1. s \in Matching /\ t \in Matching
      BY <1>1 DEF PageIsGood, Range
    <2>2. /\ Cardinality(Earlier(s)) = first + i - 1
          /\ Cardinality(Earlier(t)) = second + j - 1
      BY <1>1, <1>5 DEF PageIsGood
    <2>3. /\ first \in Nat /\ second \in Nat /\ i \in Nat /\ j \in Nat
          /\ i >= 1 /\ j >= 1 /\ i <= L
          /\ o \in Nat \ {0} /\ p \in Nat \ {0}
      <3>1. first \in Nat /\ second \in Nat /\ o \in Nat \ {0} /\ p \in Nat \ {0}
        BY <1>4
      <3>2. i \in 1 .. Len(pages[o].items) /\ j \in 1 .. Len(pages[p].items)
        BY <1>4, <1>5
      <3>3. /\ Len(pages[o].items) \in Nat /\ Len(pages[o].items) <= L
            /\ Len(pages[p].items) \in Nat
        BY <1>4
      <3> HIDE DEF first, second, L
      <3>4. QED
        BY <1>2, <3>1, <3>2, <3>3
    <2>4. o < p => first + L <= second
      <3>1. SUFFICES ASSUME o < p PROVE first + L <= second
        OBVIOUS
      <3>2. \A a, b, c \in Nat : a + 1 <= b => a * c + c <= b * c
        <4>1. ASSUME NEW a \in Nat, NEW b \in Nat, NEW c \in Nat, a + 1 <= b
              PROVE  a * c + c <= b * c
          <5>1. b * c = a * c + c + (b - a - 1) * c /\ b - a - 1 \in Nat
            BY <4>1
          <5>2. \A x, y \in Nat : x * y \in Nat
            OBVIOUS
          <5>3. a * c \in Nat /\ (b - a - 1) * c \in Nat
            BY <5>1, <5>2
          <5>4. QED
            BY <5>1, <5>3
        <4>2. QED
          BY <4>1
      <3>3. o - 1 \in Nat /\ p - 1 \in Nat /\ (o - 1) + 1 <= p - 1 /\ L \in Nat
        BY <1>2, <2>3, <3>1
      <3> HIDE DEF L
      <3>4. QED
        BY <3>2, <3>3
    <2>5. o = p => first = second
      OBVIOUS
    <2> HIDE DEF s, t, first, second, L
    <2>6. /\ Cardinality(Earlier(s)) < Cardinality(Earlier(t))
          /\ Cardinality(Earlier(s)) \in Nat /\ Cardinality(Earlier(t)) \in Nat
      BY <1>2, <1>5, <2>2, <2>3, <2>4, <2>5
    <2>7. Before(s, t, query)
      BY <1>5, <2>1, <2>6, FewerBefore
    <2>8. QED
      BY <2>7 DEF s, t
  <1>6. QED
    BY <1>1, <1>5 DEF PagesAreTheList, PageIsGood

LEMMA ListTypes == ListInv => ListTypeOK
  <1> SUFFICES ASSUME ListInv PROVE ListTypeOK
    OBVIOUS
  <1>1. ASSUME NEW page \in Range(pages) PROVE Range(page.items) \subseteq Services
    <2>1. page.items \in Seq(Services)
      BY PagesTyped DEF Range
    <2>2. QED
      BY <2>1 DEF Range
  <1>2. QED
    BY <1>1 DEF ListInv, ListTypeOK

-----------------------------------------------------------------------------
(* Types.                                                                  *)

LEMMA NetTypes == ASSUME NetTypeOK, NetNext, NetInv' PROVE NetTypeOK'
  <1>1. ASSUME NEW r \in Requests, createNetwork(r)
        PROVE  network' = network \/ network'.from \in Requests \cup {Default}
    BY <1>1 DEF createNetwork
  <1>2. network' \in {network, Missing} \/ network'.from \in Requests \cup {Default}
    BY <1>1 DEF NetNext, fetchNetwork, removeNetwork, registerNetworkMutation,
                DockerRefuses, AnswerLost, ManagerDies
  <1>3. network' = Missing \/ network'.from \in Requests \cup {Original, Default}
    BY <1>2 DEF NetTypeOK
  <1>4. requests' \in [Requests -> HowFar]
    BY DEF NetInv
  <1>5. QED
    BY <1>3, <1>4 DEF NetTypeOK, HowFar

LEMMA EditTypesInit == EditInit => EditTypeOK
  BY ForeignAssumption, InputAssumption DEF EditInit, EditTypeOK

LEMMA EditTypes == ASSUME EditTypeOK, EditNext PROVE EditTypeOK'
  <1> PICK input \in Inputs : Edit(input)
    BY DEF EditNext
  <1>1. /\ edits < MaxEdits /\ edits' = edits + 1 /\ edit' = input
        /\ CanBeWritten(input, spec) /\ spec' = toServiceSpec(input, spec)
    BY DEF Edit
  <1>2. edits' \in 0 .. MaxEdits
    BY <1>1, InputAssumption DEF EditTypeOK
  <1>3. "Name" \in DOMAIN spec'
    <2>1. "name" \notin DOMAIN input => "Name" \in DOMAIN Container(spec)
      BY <1>1 DEF CanBeWritten, Container, Without, ContainerFields
    <2>2. "Name" \in DOMAIN Write("Name", input.name, "name", input, Container(spec))
      BY <2>1 DEF Write, Just, Restricted
    <2>3. QED
      BY <1>1, <2>2, SpecParts DEF Same
  <1>4. "Image" \in DOMAIN spec'
    <2>1. "image" \notin DOMAIN input => "Image" \in DOMAIN Container(spec)
      BY <1>1 DEF CanBeWritten
    <2>2. "Image" \in DOMAIN Write("Image", input.image, "image", input, Container(spec))
      BY <2>1 DEF Write, Just, Restricted
    <2>3. QED
      BY <1>1, <2>2, SpecParts DEF Same
  <1>5. QED
    BY <1>1, <1>2, <1>3, <1>4 DEF EditTypeOK

\* What has been read of the tasks says what a task may be.
ScanTypes ==
    /\ ScanTypeOK
    /\ question # Nobody => question \in Questions
    /\ "tasks" \in DOMAIN read => read.tasks \in [Tasks -> Containers \cup {Nobody}]
    /\ agentAt \in [Addresses -> (Nodes \ {Manager}) \cup {Nobody}]

LEMMA ScanTypesInit == ScanInit => ScanTypes
  <1> SUFFICES ASSUME ScanInit PROVE ScanTypes
    OBVIOUS
  <1>1. read = <<>> /\ question = Nobody /\ DOMAIN <<>> = {}
    BY NothingRead DEF ScanInit
  <1>2. agentAt \in [Addresses -> (Nodes \ {Manager}) \cup {Nobody}]
    BY DEF ScanInit
  <1>3. ScanTypeOK
    BY ScanAssumption DEF ScanInit, ScanTypeOK
  <1>4. QED
    BY <1>1, <1>2, <1>3 DEF ScanTypes

LEMMA ClusterTypes == ASSUME ScanTypes, Cluster PROVE ScanTypes'
  <1>1. /\ UNCHANGED <<question, read, toAsk>>
        /\ changes < MaxChanges /\ changes' = changes + 1
    BY DEF Cluster, Start, Stop, TaskRuns, TaskEnds, NodeDown, AgentMoves, Change, call
  <1>2. changes' \in 0 .. MaxChanges
    BY <1>1, ScanAssumption DEF ScanTypes, ScanTypeOK
  <1>3. /\ running' \subseteq Containers
        /\ tasks' \in [Tasks -> Containers \cup {Nobody}]
        /\ down' \subseteq Nodes
        /\ agentAt' \in [Addresses -> (Nodes \ {Manager}) \cup {Nobody}]
    <2>1. ASSUME NEW c \in Containers, Start(c) \/ Stop(c) \/ TaskRuns(c)
          PROVE  /\ running' \subseteq Containers
                 /\ tasks' \in [Tasks -> Containers \cup {Nobody}]
                 /\ UNCHANGED <<down, agentAt>>
      BY <2>1 DEF ScanTypes, ScanTypeOK, Start, Stop, TaskRuns
    <2>2. ASSUME NEW t \in Tasks, TaskEnds(t)
          PROVE  /\ tasks' \in [Tasks -> Containers \cup {Nobody}]
                 /\ UNCHANGED <<running, down, agentAt>>
      BY <2>2 DEF ScanTypes, ScanTypeOK, TaskEnds
    <2>3. ASSUME NEW n \in Nodes \ {Manager}, NodeDown(n)
          PROVE  down' \subseteq Nodes /\ UNCHANGED <<running, tasks, agentAt>>
      BY <2>3 DEF ScanTypes, ScanTypeOK, NodeDown
    <2>4. ASSUME NEW a \in Addresses, NEW n \in (Nodes \ {Manager}) \cup {Nobody},
                 AgentMoves(a, n)
          PROVE  /\ agentAt' \in [Addresses -> (Nodes \ {Manager}) \cup {Nobody}]
                 /\ UNCHANGED <<running, tasks, down>>
      BY <2>4 DEF ScanTypes, AgentMoves
    <2>5. QED
      BY <2>1, <2>2, <2>3, <2>4 DEF Cluster, ScanTypes, ScanTypeOK
  <1>4. QED
    BY <1>1, <1>2, <1>3 DEF ScanTypes, ScanTypeOK

\* The cluster does not move while the manager does.
LEMMA ManagerTypes ==
  ASSUME ScanTypes, Unchanged, toAsk' \subseteq Nodes,
         question' # Nobody => question' \in Questions,
         "tasks" \in DOMAIN read' => read'.tasks \in [Tasks -> Containers \cup {Nobody}]
  PROVE  ScanTypes'
  BY DEF ScanTypes, ScanTypeOK, Unchanged, world

LEMMA AskTypes ==
  ASSUME ScanTypes, ManagerAsks PROVE ScanTypes'
  <1>1. ASSUME NEW q \in Questions, Ask(q) PROVE ScanTypes'
    <2>1. question' = q /\ UNCHANGED <<read, toAsk>> /\ Unchanged
      BY <1>1 DEF Ask
    <2>2. QED
      BY <2>1, ManagerTypes DEF ScanTypes, ScanTypeOK
  <1>2. ASSUME NEW what \in {"containers", "tasks", "info", "nodes"}, Read(what)
        PROVE  ScanTypes'
    <2>1. UNCHANGED <<question, toAsk>> /\ Unchanged
      BY <1>2 DEF Read
    <2>2. "tasks" \in DOMAIN read' => read'.tasks \in [Tasks -> Containers \cup {Nobody}]
      <3>1. CASE what = "tasks"
        <4>1. read'.tasks = tasks
          BY <1>2, <3>1 DEF Read
        <4>2. QED
          BY <4>1 DEF ScanTypes, ScanTypeOK
      <3>2. CASE what # "tasks"
        <4>1. "tasks" \in DOMAIN read' => "tasks" \in DOMAIN read /\ read'.tasks = read.tasks
          BY <1>2, <3>2 DEF Read
        <4>2. QED
          BY <4>1 DEF ScanTypes
      <3>3. QED
        BY <3>1, <3>2
    <2>3. QED
      BY <2>1, <2>2, ManagerTypes DEF ScanTypes, ScanTypeOK
  <1>3. ASSUME UNCHANGED <<question, read>>, Unchanged, toAsk' \subseteq Nodes
        PROVE  ScanTypes'
    BY <1>3, ManagerTypes DEF ScanTypes
  <1>4. CASE DockerFails \/ Answer
    <2>1. UNCHANGED <<question, read, toAsk>> /\ Unchanged
      BY <1>4 DEF DockerFails, Answer
    <2>2. QED
      BY <1>3, <2>1 DEF ScanTypes, ScanTypeOK
  <1>5. CASE fetchGhostContainers \/ fetchNodes
    <2>1. UNCHANGED <<question, read>> /\ Unchanged /\ toAsk' \subseteq Nodes
      BY <1>5 DEF fetchGhostContainers, fetchNodes
    <2>2. QED
      BY <1>3, <2>1
  <1>6. CASE fetchTaskContainerStats
    <2>1. /\ AllRead /\ question.of = "stats"
          /\ UNCHANGED <<question, read>> /\ Unchanged
      BY <1>6 DEF fetchTaskContainerStats
    <2>2. question \in Questions /\ DOMAIN read = Reads[question.of]
      BY <2>1 DEF AllRead, ScanTypes
    <2>3. question.task \in Tasks /\ "tasks" \in DOMAIN read
      BY <2>1, <2>2 DEF Questions, Reads
    <2>4. read.tasks[question.task] \in Containers \cup {Nobody}
      BY <2>3 DEF ScanTypes
    <2>5. toAsk' = toAsk \/ (/\ read.tasks[question.task] # Nobody
                             /\ toAsk' = {Home[read.tasks[question.task]]})
      BY <1>6 DEF fetchTaskContainerStats
    <2>6. toAsk' \subseteq Nodes
      BY <2>4, <2>5, ScanAssumption DEF ScanTypes, ScanTypeOK
    <2>7. QED
      BY <1>3, <2>1, <2>6
  <1>7. ASSUME NEW n \in Nodes, resolveNodeAddress(n) PROVE ScanTypes'
    <2>1. UNCHANGED <<question, read>> /\ Unchanged /\ toAsk' \in {toAsk, toAsk \ {n}}
      BY <1>7 DEF resolveNodeAddress, Fail
    <2>2. QED
      BY <1>3, <2>1 DEF ScanTypes, ScanTypeOK
  <1>8. CASE askAgent
    <2>1. /\ UNCHANGED <<question, read>> /\ Unchanged
          /\ toAsk' \in {toAsk, toAsk \ {asking.node}}
      BY <1>8 DEF askAgent, Fail
    <2>2. QED
      BY <1>3, <2>1 DEF ScanTypes, ScanTypeOK
  <1>9. QED
    BY <1>1, <1>2, <1>4, <1>5, <1>6, <1>7, <1>8 DEF ManagerAsks

\* The updates that found no document, and will each leave a new one.
NewDocuments == {update \in process.updates : ~update.found}
\* The documents there are and those on the way are no more than the two reads
\* and the updates that began without one.
Counts ==
    /\ IsFiniteSet(NewDocuments)
    /\ process.reading \in 0..2
    /\ decisions <= MaxDecisions
    /\ settings = <<>> => Cardinality(NewDocuments) <= decisions
    /\ Len(settings) + (process.reading + Cardinality(NewDocuments)) <= 2 + decisions
RolesTyped == \A name \in RoleNames : roles[name].permissions \subseteq Permissions
StartTypes == Counts /\ RolesTyped

LEMMA StartTypesInit == StartInit => StartTypes
  <1> SUFFICES ASSUME StartInit PROVE StartTypes
    OBVIOUS
  <1>1. /\ process = Down /\ decisions = 0 /\ roles \in RoleStores /\ settings = <<>>
    BY DEF StartInit
  <1>2. NewDocuments = {} /\ process.reading = 0 /\ Len(settings) = 0
    BY <1>1 DEF NewDocuments, Down
  <1>3. Counts
    BY <1>1, <1>2, FS_EmptySet, StartAssumption DEF Counts
  <1>4. RolesTyped
    BY <1>1, StartAssumption, Names DEF RolesTyped
  <1>5. QED
    BY <1>3, <1>4 DEF StartTypes

\* The roles hold permissions that are looked at.
LEMMA RolesStep == ASSUME StartInv, RolesTyped, StartNext PROVE RolesTyped'
  <1>1. ASSUME WriteRole PROVE RolesTyped'
    <2>1. \A name \in Defaults : RolesByDefault[name] \subseteq Permissions
      BY DEF Defaults, RolesByDefault, Permissions
    <2>2. Head(process.todo) \in Defaults
      <3>1. /\ process.phase = "roles" /\ process.todo # <<>>
            /\ process.todo \in {<<"Admin", "Sudo", "Desarrollo">>,
                                 <<"Sudo", "Desarrollo">>, <<"Desarrollo">>, <<>>}
        BY <1>1 DEF StartInv, Shapes, WriteRole
      <3>2. QED
        BY <3>1 DEF Defaults
    <2> DEFINE name == Head(process.todo)
               role == [permissions |-> RolesByDefault[name], exists |-> TRUE,
                        readonly |-> name \in OnlyRead]
    <2>3. roles' = roles \/ roles' = [roles EXCEPT ![name] = role]
      BY <1>1 DEF WriteRole
    <2>4. role.permissions \subseteq Permissions
      BY <2>1, <2>2
    <2> HIDE DEF name, role
    <2>5. QED
      BY <2>3, <2>4 DEF RolesTyped, StartInv, Shapes, AreRoles
  <1>2. ASSUME MigrateRole PROVE RolesTyped'
    <2>1. PICK name \in WithConsole :
             roles' = [roles EXCEPT ![name].permissions = Renamed(@)]
      BY <1>2 DEF MigrateRole
    <2>2. name \in RoleNames /\ Renamed(roles[name].permissions) \subseteq Permissions
      BY <2>1 DEF WithConsole, Renamed, RolesTyped, Permissions
    <2>3. ASSUME NEW other \in RoleNames
          PROVE  roles'[other].permissions \subseteq Permissions
      BY <2>1, <2>2 DEF RolesTyped, StartInv, Shapes, AreRoles, IsRole
    <2>4. QED
      BY <2>3 DEF RolesTyped
  <1>3. ASSUME NEW name \in RoleNames, EditRole(name) PROVE RolesTyped'
    <2>1. roles' = [roles EXCEPT ![name].permissions = {"view"}]
      BY <1>3 DEF EditRole
    <2>2. ASSUME NEW other \in RoleNames
          PROVE  roles'[other].permissions \subseteq Permissions
      BY <2>1 DEF RolesTyped, Permissions, StartInv, Shapes, AreRoles, IsRole
    <2>3. QED
      BY <2>2 DEF RolesTyped
  <1>4. ASSUME UNCHANGED roles PROVE RolesTyped'
    BY <1>4 DEF RolesTyped
  <1>5. QED
    BY <1>1, <1>2, <1>3, <1>4 DEF StartNext, StartProcess, Dies, LoadSecrets, Validate,
       RolesDone, BootstrapUser, FirstRead, FirstReadFails, ReadBegins, ReadCreates,
       UpdateBegins, UpdateSaves, ChangePassword, Stored, Listen, Phase

\* No step but the reads and the updates comes near the settings.
LEMMA CountsStay ==
  ASSUME StartInv, StartInv', Counts, settings' = settings, MaxDecisions \in Nat,
         decisions' \in {decisions, decisions + 1}, decisions' <= MaxDecisions,
         \/ process'.updates = process.updates /\ process'.reading = process.reading
         \/ process'.updates = {} /\ process'.reading = 0
  PROVE  Counts'
  <1>1. /\ settings \in Seq(Nat) /\ Len(settings) \in Nat
        /\ decisions \in Nat /\ process.reading \in Nat
    BY SettingsFacts
  <1>2. Cardinality(NewDocuments) \in Nat /\ Cardinality({}) = 0 /\ IsFiniteSet({})
    BY FS_CardinalityType, FS_EmptySet DEF Counts
  <1>3. CASE process'.updates = process.updates /\ process'.reading = process.reading
    <2>1. NewDocuments' = NewDocuments
      BY <1>3 DEF NewDocuments
    <2>2. QED
      BY <1>1, <1>2, <1>3, <2>1 DEF Counts
  <1>4. CASE process'.updates = {} /\ process'.reading = 0
    <2>1. NewDocuments' = {}
      BY <1>4 DEF NewDocuments
    <2>2. QED
      BY <1>1, <1>2, <1>4, <2>1 DEF Counts
  <1>5. QED
    BY <1>3, <1>4

LEMMA CountsStep ==
  ASSUME StartInv, StartInv', Counts, StartNext PROVE Counts'
  <1>1. /\ settings \in Seq(Nat) /\ Len(settings) \in Nat
        /\ settings = <<>> <=> Len(settings) = 0
        /\ decisions \in Nat /\ process.reading \in Nat
        /\ DOMAIN process = {"phase", "environment", "todo", "reading", "updates"}
        /\ process.updates \subseteq [limit : Nat, found : BOOLEAN]
    BY SettingsFacts
  <1>2. MaxDecisions \in Nat /\ decisions <= MaxDecisions /\ FirstLimit = 1
    BY StartAssumption DEF Counts, FirstLimit
  <1>3. Cardinality(NewDocuments) \in Nat
    BY FS_CardinalityType DEF Counts
  <1>4. process.phase # "serving" => process.reading = 0 /\ process.updates = {}
    BY SettingsFacts DEF SettingsAreOne
  <1>5. CASE StartProcess \/ Dies \/ LoadSecrets \/ Validate \/ WriteRole \/ MigrateRole
             \/ RolesDone \/ BootstrapUser \/ FirstReadFails
             \/ (\E name \in RoleNames : EditRole(name)) \/ ChangePassword
    <2>1. settings' = settings
      BY <1>5 DEF StartProcess, Dies, LoadSecrets, Validate, WriteRole, MigrateRole,
         RolesDone, BootstrapUser, FirstReadFails, EditRole, ChangePassword, Stored
    <2>2. decisions' \in {decisions, decisions + 1} /\ decisions' <= MaxDecisions
      <3>1. CASE (\E name \in RoleNames : EditRole(name)) \/ ChangePassword
        BY <1>1, <1>2, <3>1 DEF EditRole, ChangePassword
      <3>2. CASE decisions' = decisions
        BY <1>2, <3>2
      <3>3. QED
        BY <1>5, <3>1, <3>2 DEF StartProcess, Dies, LoadSecrets, Validate, WriteRole,
           MigrateRole, RolesDone, BootstrapUser, FirstReadFails
    <2>3. \/ process'.updates = process.updates /\ process'.reading = process.reading
          \/ process'.updates = {} /\ process'.reading = 0
      <3>1. CASE StartProcess
        <4>1. PICK environment \in Environments :
                 process' = [Down EXCEPT !.phase = "secrets", !.environment = environment]
          BY <3>1 DEF StartProcess
        <4>2. QED
          BY <4>1 DEF Down
      <3>2. CASE Dies
        BY <3>2 DEF Dies, Down
      <3>3. CASE LoadSecrets
        BY <1>1, <3>3 DEF LoadSecrets
      <3>4. CASE Validate
        BY <1>1, <3>4 DEF Validate
      <3>5. CASE WriteRole
        BY <1>1, <3>5 DEF WriteRole
      <3>6. CASE RolesDone
        BY <1>1, <3>6 DEF RolesDone, Phase
      <3>7. CASE BootstrapUser
        BY <1>1, <3>7 DEF BootstrapUser, Phase
      <3>8. CASE FirstReadFails
        BY <1>1, <3>8 DEF FirstReadFails, Listen, Phase
      <3>9. CASE process' = process
        BY <3>9
      <3>10. QED
        BY <1>5, <3>1, <3>2, <3>3, <3>4, <3>5, <3>6, <3>7, <3>8, <3>9
           DEF MigrateRole, EditRole, ChangePassword
    <2>4. QED
      BY <1>2, <2>1, <2>2, <2>3, CountsStay
  <1>6. CASE FirstRead
    <2>1. /\ process.phase = "load" /\ process' = [process EXCEPT !.phase = "serving"]
          /\ settings' = IF settings = <<>> THEN <<FirstLimit>> ELSE settings
          /\ decisions' = decisions
      BY <1>6 DEF FirstRead, Listen, Phase
    <2>2. process'.updates = {} /\ process'.reading = 0
      BY <1>1, <1>4, <2>1
    <2>3. NewDocuments' = {} /\ NewDocuments = {}
      BY <1>4, <2>1, <2>2 DEF NewDocuments
    <2>4. Cardinality({}) = 0 /\ IsFiniteSet({})
      BY FS_EmptySet
    <2>5. Len(settings') <= 2 + decisions
      <3>1. CASE settings = <<>>
        BY <1>1, <2>1, <3>1
      <3>2. CASE settings # <<>>
        BY <1>1, <1>3, <2>1, <3>2 DEF Counts
      <3>3. QED
        BY <3>1, <3>2
    <2>6. Len(settings') \in Nat
      BY <1>1, <1>2, <2>1
    <2>7. Len(settings') + (process'.reading + Cardinality(NewDocuments')) <= 2 + decisions'
      <3>1. Cardinality(NewDocuments') = 0 /\ decisions' = decisions
        BY <2>1, <2>3, <2>4
      <3>2. QED
        BY <1>1, <2>2, <2>5, <2>6, <3>1
    <2>8. Cardinality(NewDocuments') <= decisions' /\ process'.reading \in 0..2
      BY <1>1, <2>1, <2>2, <2>3, <2>4
    <2>9. QED
      BY <1>2, <2>1, <2>3, <2>4, <2>7, <2>8 DEF Counts
  <1>7. CASE ReadBegins
    <2>1. /\ process.reading < 2 /\ settings = <<>>
          /\ process' = [process EXCEPT !.reading = @ + 1]
          /\ settings' = settings /\ decisions' = decisions
      BY <1>7 DEF ReadBegins, FoundNothing, Stored
    <2>2. process'.reading = process.reading + 1 /\ process'.updates = process.updates
      BY <1>1, <2>1
    <2>3. NewDocuments' = NewDocuments
      BY <2>2 DEF NewDocuments
    <2>4. QED
      BY <1>1, <1>2, <1>3, <2>1, <2>2, <2>3 DEF Counts
  <1>8. CASE ReadCreates
    <2>1. /\ process.reading > 0 /\ settings' = Append(settings, FirstLimit)
          /\ process' = [process EXCEPT !.reading = @ - 1]
          /\ decisions' = decisions
      BY <1>8 DEF ReadCreates
    <2>2. process'.reading = process.reading - 1 /\ process'.updates = process.updates
      BY <1>1, <2>1
    <2>3. NewDocuments' = NewDocuments
      BY <2>2 DEF NewDocuments
    <2>4. Len(settings') = Len(settings) + 1 /\ settings' # <<>>
      BY <1>1, <1>2, <2>1
    <2>5. /\ process.reading \in 0..2
          /\ Len(settings) + (process.reading + Cardinality(NewDocuments)) <= 2 + decisions
      BY DEF Counts
    <2>6. process'.reading \in 0..2
      BY <2>1, <2>2, <2>5
    <2>7. Len(settings') + (process'.reading + Cardinality(NewDocuments')) <= 2 + decisions'
      BY <1>1, <1>3, <2>1, <2>2, <2>3, <2>4, <2>5
    <2>8. QED
      BY <1>2, <2>1, <2>3, <2>4, <2>6, <2>7 DEF Counts
  <1>9. CASE UpdateBegins
    <2> DEFINE update == [limit |-> FirstLimit + decisions', found |-> settings # <<>>]
    <2>1. /\ decisions < MaxDecisions /\ decisions' = decisions + 1
          /\ process' = [process EXCEPT !.updates = @ \cup {update}]
          /\ settings' = settings
      BY <1>9 DEF UpdateBegins, Stored
    <2>2. update.found = (settings # <<>>)
      OBVIOUS
    <2> HIDE DEF update
    <2>3. /\ process'.reading = process.reading
          /\ process'.updates = process.updates \cup {update}
      BY <1>1, <2>1
    <2>4. NewDocuments' = IF settings = <<>> THEN NewDocuments \cup {update}
                          ELSE NewDocuments
      BY <2>2, <2>3 DEF NewDocuments
    <2>5. /\ IsFiniteSet(NewDocuments \cup {update})
          /\ Cardinality(NewDocuments \cup {update}) \in Nat
          /\ Cardinality(NewDocuments \cup {update}) <= Cardinality(NewDocuments) + 1
      <3>1. IsFiniteSet(NewDocuments)
        BY DEF Counts
      <3>2. /\ IsFiniteSet(NewDocuments \cup {update})
            /\ Cardinality(NewDocuments \cup {update})
                 = IF update \in NewDocuments THEN Cardinality(NewDocuments)
                   ELSE Cardinality(NewDocuments) + 1
        BY <3>1, FS_AddElement
      <3>3. QED
        BY <1>3, <3>2
    <2>6. QED
      <3>1. CASE settings = <<>>
        <4>1. NewDocuments' = NewDocuments \cup {update} /\ Len(settings) = 0
          BY <1>1, <2>4, <3>1
        <4>2. QED
          BY <1>1, <1>2, <1>3, <2>1, <2>3, <2>5, <3>1, <4>1 DEF Counts
      <3>2. CASE settings # <<>>
        BY <1>1, <1>2, <1>3, <2>1, <2>3, <2>4, <3>2 DEF Counts
      <3>3. QED
        BY <3>1, <3>2
  <1>10. CASE UpdateSaves
    <2>1. PICK update \in process.updates :
             /\ settings' = IF update.found THEN [settings EXCEPT ![1] = update.limit]
                            ELSE Append(settings, update.limit)
             /\ process' = [process EXCEPT !.updates = @ \ {update}]
      BY <1>10 DEF UpdateSaves
    <2>2. decisions' = decisions
      BY <1>10 DEF UpdateSaves
    <2>3. /\ process'.reading = process.reading
          /\ process'.updates = process.updates \ {update}
      BY <1>1, <2>1
    <2>4. update.limit \in Nat /\ update.found \in BOOLEAN
      BY <1>1, <2>1
    <2>5. CASE update.found
      <3>1. settings' = [settings EXCEPT ![1] = update.limit] /\ settings # <<>>
        BY <2>1, <2>5, SettingsFacts DEF SettingsAreOne
      <3>2. Len(settings') = Len(settings) /\ settings' # <<>>
        <4>1. Len(settings') = Len(settings) /\ settings' \in Seq(Nat)
          BY <1>1, <2>4, <3>1
        <4>2. QED
          BY <1>1, <3>1, <4>1
      <3>3. NewDocuments' = NewDocuments
        BY <2>3, <2>5 DEF NewDocuments
      <3>4. QED
        BY <1>1, <1>2, <1>3, <2>2, <2>3, <3>2, <3>3 DEF Counts
    <2>6. CASE ~update.found
      <3>1. settings' = Append(settings, update.limit)
        BY <2>1, <2>6
      <3>2. Len(settings') = Len(settings) + 1 /\ settings' # <<>>
        BY <1>1, <2>4, <3>1
      <3>3. NewDocuments' = NewDocuments \ {update} /\ update \in NewDocuments
        BY <2>1, <2>3, <2>6 DEF NewDocuments
      <3>4. /\ IsFiniteSet(NewDocuments \ {update})
            /\ Cardinality(NewDocuments \ {update}) = Cardinality(NewDocuments) - 1
        BY <3>3, FS_RemoveElement DEF Counts
      <3>5. QED
        BY <1>1, <1>2, <1>3, <2>2, <2>3, <3>2, <3>3, <3>4 DEF Counts
    <2>7. QED
      BY <2>4, <2>5, <2>6
  <1>11. QED
    BY <1>5, <1>6, <1>7, <1>8, <1>9, <1>10 DEF StartNext

LEMMA StartTypesHold == ASSUME StartInv, StartTypes PROVE StartTypeOK
  <1>1. Len(settings) \in Nat /\ decisions \in Nat /\ process.reading \in Nat
    BY SettingsFacts
  <1>2. Cardinality(NewDocuments) \in Nat /\ MaxDecisions \in Nat
    BY FS_CardinalityType, StartAssumption DEF StartTypes, Counts
  <1>3. Len(settings) <= 2 + MaxDecisions
    BY <1>1, <1>2 DEF StartTypes, Counts
  <1>4. QED
    BY <1>3 DEF StartTypes, Counts, RolesTyped, StartTypeOK, StartInv, Shapes

-----------------------------------------------------------------------------
(* One part moves, and the others wait.                                    *)

Inv == NetInv /\ ScanInv /\ StartInv /\ EditInv /\ ShownInv /\ ListInv
Types == NetTypeOK /\ ScanTypes /\ StartTypes /\ EditTypeOK

LEMMA Waits ==
  /\ NetInv /\ UNCHANGED netVars => NetInv'
  /\ ScanInv /\ UNCHANGED scanVars => ScanInv'
  /\ StartInv /\ UNCHANGED startVars => StartInv'
  /\ EditInv /\ UNCHANGED editVars => EditInv'
  /\ ShownInv /\ UNCHANGED editVars => ShownInv'
  /\ ListInv /\ UNCHANGED listVars => ListInv'
  <1>1. ASSUME NetInv, UNCHANGED netVars PROVE NetInv'
    BY <1>1 DEF netVars, NetInv, NetworkSurvives
  <1>2. ASSUME ScanInv, UNCHANGED scanVars PROVE ScanInv'
    <2>1. /\ UNCHANGED <<running, tasks, down, owned, ghosts, ran, question, read,
                         asking, toAsk, gathered, answer>>
      BY <1>2 DEF scanVars, world, call
    <2>2. Remembered' /\ ReadIsTrue' /\ Gathering'
      BY <1>2, <2>1 DEF ScanInv, Remembered, OwnedNow, GhostsNow, Owned, ReadIsTrue,
                        Gathering, IsScan
    <2>3. GhostsAreExact'
      BY <1>2, <2>1 DEF ScanInv, GhostsAreExact, GhostsAreReal, GhostsAreFound, Answered
    <2>4. QED
      BY <1>2, <2>1, <2>2, <2>3 DEF ScanInv
  <1>3. ASSUME StartInv, UNCHANGED startVars PROVE StartInv'
    <2>1. UNCHANGED <<process, roles, password, settings, wanted, decisions>>
      BY <1>3 DEF startVars
    <2>2. Shapes' /\ EnvironmentIsGood' /\ RolesAreGood' /\ UserIsGood'
          /\ SettingsAreOne' /\ StartUpKeeps'
      BY <1>3, <2>1 DEF StartInv, Shapes, EnvironmentIsGood, RolesAreGood, WithConsole,
                        UserIsGood, SettingsAreOne, StartUpKeeps
    <2>3. QED
      BY <2>2 DEF StartInv
  <1>4. ASSUME EditInv, UNCHANGED editVars PROVE EditInv'
    <2>1. spec' = spec /\ before' = before /\ edit' = edit
      BY <1>4 DEF editVars
    <2>2. OneKind(spec)' /\ OneKind(before)' = OneKind(before)
      BY <1>4, <2>1 DEF EditInv
    <2>3. QED
      BY <1>4, <2>1, <2>2 DEF EditInv
  <1>5. ASSUME ShownInv, UNCHANGED editVars PROVE ShownInv'
    BY <1>5 DEF editVars, ShownInv
  <1>6. ASSUME ListInv, UNCHANGED listVars PROVE ListInv'
    <2>1. UNCHANGED <<query, pages, refused>>
      BY <1>6 DEF listVars
    <2>2. /\ SelectsAlike' <=> SelectsAlike
          /\ \A p : PageIsGood(pages[p], p)' <=> PageIsGood(pages[p], p)
      BY <2>1, QueryStays
    <2>3. QED
      BY <1>6, <2>1, <2>2 DEF ListInv
  <1>7. QED
    BY <1>1, <1>2, <1>3, <1>4, <1>5, <1>6

LEMMA TypesWait ==
  /\ NetTypeOK /\ UNCHANGED netVars => NetTypeOK'
  /\ ScanTypes /\ UNCHANGED scanVars => ScanTypes'
  /\ StartTypes /\ UNCHANGED startVars => StartTypes'
  /\ EditTypeOK /\ UNCHANGED editVars => EditTypeOK'
  <1>1. ASSUME NetTypeOK, UNCHANGED netVars PROVE NetTypeOK'
    BY <1>1 DEF netVars, NetTypeOK
  <1>2. ASSUME ScanTypes, UNCHANGED scanVars PROVE ScanTypes'
    BY <1>2 DEF scanVars, world, call, ScanTypes, ScanTypeOK
  <1>3. ASSUME StartTypes, UNCHANGED startVars PROVE StartTypes'
    <2>1. UNCHANGED <<process, roles, settings, decisions>>
      BY <1>3 DEF startVars
    <2>2. NewDocuments' = NewDocuments
      BY <2>1 DEF NewDocuments
    <2>3. QED
      BY <1>3, <2>1, <2>2 DEF StartTypes, Counts, RolesTyped
  <1>4. ASSUME EditTypeOK, UNCHANGED editVars PROVE EditTypeOK'
    BY <1>4 DEF editVars, EditTypeOK
  <1>5. QED
    BY <1>1, <1>2, <1>3, <1>4

LEMMA InitInv == Init => Inv /\ Types
  <1> SUFFICES ASSUME Init PROVE Inv /\ Types
    OBVIOUS
  <1>1. NetInit /\ ScanInit /\ StartInit /\ EditInit /\ ListInit
    BY DEF Init, ScanIdle, StartIdle, EditsIdle, ListIdle
  <1>2. Inv
    BY <1>1, NetInitInv, ScanInitInv, StartInitInv, EditInitInv, ShownInitInv,
       ListInitInv DEF Inv
  <1>3. NetTypeOK
    BY <1>1 DEF NetInit, NetTypeOK
  <1>4. QED
    BY <1>1, <1>2, <1>3, ScanTypesInit, StartTypesInit, EditTypesInit DEF Types

LEMMA NextInv == Inv /\ Types /\ [Next]_vars => Inv' /\ Types'
  <1> SUFFICES ASSUME Inv, Types, [Next]_vars PROVE Inv' /\ Types'
    OBVIOUS
  <1>1. /\ NetNext \/ UNCHANGED netVars
        /\ ScanNext \/ UNCHANGED scanVars
        /\ StartNext \/ UNCHANGED startVars
        /\ EditNext \/ UNCHANGED editVars
        /\ ListNext \/ UNCHANGED listVars
    BY DEF Next, vars
  <1>2. NetInv' /\ ScanInv' /\ StartInv'
    BY <1>1, Waits, NetNextInv, ScanNextInv, StartNextInv DEF Inv
  <1>3. EditInv' /\ ShownInv' /\ ListInv'
    BY <1>1, Waits, EditNextInv, ShownNextInv, ListNextInv DEF Inv
  <1>4. NetTypeOK'
    <2>1. CASE NetNext
      BY <1>2, <2>1, NetTypes DEF Inv, Types
    <2>2. QED
      BY <1>1, <2>1, TypesWait DEF Types
  <1>5. ScanTypes'
    BY <1>1, ClusterTypes, AskTypes, TypesWait DEF ScanNext, Types
  <1>6. StartTypes'
    <2>1. CASE StartNext
      BY <1>2, <2>1, CountsStep, RolesStep DEF Inv, Types, StartTypes
    <2>2. QED
      BY <1>1, <2>1, TypesWait DEF Types
  <1>7. EditTypeOK'
    BY <1>1, EditTypes, TypesWait DEF Types
  <1>8. QED
    BY <1>2, <1>3, <1>4, <1>5, <1>6, <1>7 DEF Inv, Types

THEOREM InvHolds == Spec => [](Inv /\ Types)
  BY InitInv, NextInv, PTL DEF Spec

\* Whatever the five parts do and whatever they are given: an edit is one of the
\* inputs and leaves a service with a name and an image; the pages hold
\* services; what is known of the cluster is about its nodes, tasks and
\* containers; the network is the original, the default or a request's; and
\* the roles hold permissions that are looked at, in no more documents of
\* settings than the readers and the decisions can have made.
THEOREM TypesHold == Spec => []TypeOK
  <1>1. Inv /\ Types => TypeOK
    BY ListTypes, StartTypesHold DEF Inv, Types, ScanTypes, TypeOK
  <1>2. QED
    BY <1>1, InvHolds, PTL

\* Whatever requests there are about one network, and wherever each of them
\* fails or the manager dies: a network that nobody deleted is missing only
\* between the two calls of an update, or because an update was cut short
\* there (updateNetwork removes and creates).
THEOREM NetworkSurvivesAlways == Spec => []NetworkSurvives
  <1>1. Inv => NetworkSurvives
    BY DEF Inv, NetInv
  <1>2. QED
    BY <1>1, InvHolds, PTL

\* However the cluster moves between the reads a scan is made of, in a cluster
\* of any size: fetchGhostContainers reports no container its task owned up to
\* all along, and every ghost that was there all along.
THEOREM GhostsAreExactAlways == Spec => []GhostsAreExact
  <1>1. Inv => GhostsAreExact
    BY DEF Inv, ScanInv
  <1>2. QED
    BY <1>1, InvHolds, PTL

\* However often SetupContainerHub is interrupted and started again, in any
\* environment and over any roles: what people chose is kept, and what serves
\* has been set up.
THEOREM StoreIsKeptAlways == Spec => []StoreIsKept
  <1>1. Inv => StoreIsKept
    BY StartIsSafe DEF Inv
  <1>2. QED
    BY <1>1, InvHolds, PTL

\* Whatever edits the form sends, one after the other, and whatever service
\* another tool left there: an edit keeps every setting it does not name and
\* every label it neither writes nor unsets (toServiceSpec over the service
\* that was read).
THEOREM UpdateKeepsTheRestAlways == Spec => []UpdateKeepsTheRest
  <1>1. Inv => UpdateKeepsTheRest
    BY EditKeeps DEF Inv
  <1>2. QED
    BY <1>1, InvHolds, PTL

\* What an edit names is what the next read shows, but for the losses that
\* AskedIsRead lists (toServiceSpec, then mapInspectToServiceModel).
THEOREM AskedIsReadAlways == Spec => []AskedIsRead
  <1>1. Inv => AskedIsRead
    BY EditReads DEF Inv
  <1>2. QED
    BY <1>1, InvHolds, PTL

\* For a service with any image: the links the pages make out of it, and the
\* services they count for it, agree with each other and with the image.
THEOREM LinksAgreeAlways == Spec => []LinksAgree
  <1>1. Inv => LinksAgree
    BY ShownAgrees DEF Inv
  <1>2. QED
    BY <1>1, InvHolds, PTL

\* For any services, query and page size: when Docker and the manager choose
\* alike (SelectsAlike), each page has its share of the services that match, each
\* once and none before one that it is ordered after; and when none order alike,
\* this holds over the pages, however Docker orders them for each (listServices:
\* filter, sort and slice).
THEOREM PagesAreTheListAlways == Spec => []PagesAreTheList
  <1>1. Inv => PagesAreTheList
    BY GoodPages DEF Inv
  <1>2. QED
    BY <1>1, InvHolds, PTL
=============================================================================
