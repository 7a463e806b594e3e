---------------------------- MODULE ClusterScan ----------------------------
(***************************************************************************)
(* The manager's questions about the whole cluster: which containers are   *)
(* ghosts, how the nodes are, what a task uses.  Every answer joins several*)
(* reads of Docker and of the node agents, and the cluster moves on between*)
(* any two of them.                                                        *)
(*                                                                         *)
(* A ghost is a running container that no running task owns up to.         *)
(***************************************************************************)
EXTENDS Integers, FiniteSets

CONSTANTS
    Nodes, Manager,    \* the nodes, and the one the manager runs on
    Tasks, Containers,
    Labels,            \* of each container: its task, NoLabels or OtherLabels
    Home,              \* of each container: the node it runs on when it runs
    NoLabels, OtherLabels,
    Addresses,         \* what the name of the agents resolves to
    Nobody,            \* no node, no container, no task
    MaxChanges         \* bound: changes of the cluster while a question is open

ASSUME ScanAssumption == Home \in [Containers -> Nodes] /\ MaxChanges \in Nat

VARIABLES
    running,       \* the containers that run
    tasks,         \* what Docker knows of each task: its container while running
    down,          \* the nodes Docker reports as down
    agentAt,       \* which node's agent answers at each address
    changes,
    question,      \* what is asked: ghosts, nodes, or the statistics of a task
    read,          \* what the calls to Docker have returned
    asking,        \* the node whose agent is asked, and the address found for it
    toAsk,         \* the nodes whose agents are still to be asked
    gathered,      \* what the agents have returned
    answer,
    owned, ghosts, ran   \* for the properties: see Remember

world == <<running, tasks, down, agentAt, changes>>
call == <<question, read, asking, toAsk, gathered, answer>>
scanVars == <<world, call, owned, ghosts, ran>>

NotAsked == [node |-> Nobody, address |-> Nobody]
Failed == [failed |-> TRUE]

-----------------------------------------------------------------------------
(* What is so now, and what was so all along or ever since the question.   *)

Owned(c) == Labels[c] \in Tasks /\ tasks[Labels[c]] = c
Claims(c) == Labels[c] # OtherLabels
OwnedNow == {c \in running : Owned(c)}
GhostsNow == {c \in running : Claims(c) /\ ~Owned(c) /\ Home[c] \notin down \ {Manager}}

Remember == /\ owned' = owned \cap OwnedNow'
            /\ ghosts' = ghosts \cap GhostsNow'
            /\ ran' = ran \cup running'

ScanInit ==
    /\ running \in SUBSET Containers
    /\ tasks \in [Tasks -> Containers \cup {Nobody}]
    /\ \A t \in Tasks : tasks[t] # Nobody => Labels[tasks[t]] = t
    /\ down = {}
    /\ agentAt \in [Addresses -> Nodes \ {Manager}]
    /\ changes = 0
    /\ question = Nobody /\ read = <<>> /\ asking = NotAsked
    /\ toAsk = {} /\ gathered = {} /\ answer = Nobody
    /\ owned = OwnedNow /\ ghosts = GhostsNow /\ ran = running

-----------------------------------------------------------------------------
(* The cluster, while a question is open.                                  *)

Change == /\ question # Nobody /\ answer = Nobody
          /\ changes < MaxChanges
          /\ changes' = changes + 1
          /\ Remember
          /\ UNCHANGED call

Start(c) == /\ c \notin running
            /\ running' = running \cup {c}
            /\ UNCHANGED <<tasks, down, agentAt>> /\ Change
Stop(c) == /\ c \in running
           /\ running' = running \ {c}
           /\ UNCHANGED <<tasks, down, agentAt>> /\ Change
\* A task is reported running once its container runs, and is reported over,
\* or forgotten, whether or not its container has stopped.
TaskRuns(c) == /\ c \in running /\ Labels[c] \in Tasks /\ ~Owned(c)
               /\ tasks' = [tasks EXCEPT ![Labels[c]] = c]
               /\ UNCHANGED <<running, down, agentAt>> /\ Change
TaskEnds(t) == /\ tasks[t] # Nobody
               /\ tasks' = [tasks EXCEPT ![t] = Nobody]
               /\ UNCHANGED <<running, down, agentAt>> /\ Change
NodeDown(n) == /\ n \notin down
               /\ down' = down \cup {n}
               /\ UNCHANGED <<running, tasks, agentAt>> /\ Change
AgentMoves(a, n) == /\ agentAt[a] # n
                    /\ agentAt' = [agentAt EXCEPT ![a] = n]
                    /\ UNCHANGED <<running, tasks, down>> /\ Change

Cluster == \/ \E c \in Containers : Start(c) \/ Stop(c) \/ TaskRuns(c)
           \/ \E t \in Tasks : TaskEnds(t)
           \/ \E n \in Nodes \ {Manager} : NodeDown(n)
           \/ \E a \in Addresses, n \in (Nodes \ {Manager}) \cup {Nobody} : AgentMoves(a, n)

-----------------------------------------------------------------------------
(* The manager.                                                            *)

\* The calls to Docker each question starts with; they are made at once and
\* answered in any order.
Reads == [ghosts |-> {"containers", "tasks", "info", "nodes"}, nodes |-> {"nodes"},
          nodesAndTasks |-> {"nodes", "tasks"}, stats |-> {"tasks", "info"}]

Unchanged == UNCHANGED <<world, owned, ghosts, ran>>

Ask(q) ==
    /\ question = Nobody
    /\ question' = q
    /\ UNCHANGED <<read, asking, toAsk, gathered, answer>>
    /\ Unchanged

\* The statistics of a task are an exception: first the task, then the node.
Read(what) ==
    /\ question # Nobody /\ answer = Nobody
    /\ what \in Reads[question.of] \ DOMAIN read
    /\ (question.of = "stats" /\ what = "info") => "tasks" \in DOMAIN read
    /\ read' = [w \in DOMAIN read \cup {what} |->
                  IF w # what THEN read[w]
                  ELSE CASE w = "containers" -> {c \in running : Home[c] = Manager}
                         [] w = "tasks" -> tasks
                         [] w = "nodes" -> [n \in Nodes |-> n \in down]
                         [] w = "info" -> Manager]
    /\ UNCHANGED <<question, asking, toAsk, gathered, answer>>
    /\ Unchanged

\* One call that fails fails the question.
DockerFails ==
    /\ question # Nobody /\ answer = Nobody
    /\ DOMAIN read # Reads[question.of]
    /\ answer' = Failed
    /\ UNCHANGED <<question, read, asking, toAsk, gathered>>
    /\ Unchanged

AllRead == question # Nobody /\ answer = Nobody /\ DOMAIN read = Reads[question.of]

\* A scan goes on to every other node that is not down; it fails at the first
\* agent that does not answer.
fetchGhostContainers ==
    /\ AllRead /\ question.of = "ghosts" /\ gathered = {} /\ toAsk = {}
    /\ gathered' = {[id |-> c, node |-> read.info] : c \in read.containers} \cup {NotAsked}
    /\ toAsk' = {n \in Nodes \ {read.info} : ~read.nodes[n]}
    /\ UNCHANGED <<question, read, asking, answer>>
    /\ Unchanged

\* Every worker's agent is asked how it is.
fetchNodes ==
    /\ AllRead /\ question.of = "nodes" /\ gathered = {} /\ toAsk = {}
    /\ gathered' = {NotAsked}
    /\ toAsk' = Nodes \ {Manager}
    /\ UNCHANGED <<question, read, asking, answer>>
    /\ Unchanged

\* Docker has statistics of a container that is over until it is removed.
StatsOf(c, there) == {[stats |-> c]} \cup (IF c \in there THEN {} ELSE {Failed})

\* A task without a container has no statistics; one on this node is asked of
\* Docker, where the container may be gone; any other one of its node's agent.
fetchTaskContainerStats ==
    /\ AllRead /\ question.of = "stats" /\ gathered = {} /\ toAsk = {}
    /\ LET c == read.tasks[question.task]
       IN  CASE c = Nobody ->
                  answer' = [stats |-> Nobody] /\ UNCHANGED <<gathered, toAsk>>
             [] c # Nobody /\ Home[c] = read.info ->
                  /\ answer' \in StatsOf(c, running)
                  /\ UNCHANGED <<gathered, toAsk>>
             [] OTHER -> /\ gathered' = {NotAsked}
                         /\ toAsk' = {Home[c]}
                         /\ UNCHANGED answer
    /\ UNCHANGED <<question, read, asking>>
    /\ Unchanged

Fail(n) == IF question.of = "nodes"
           THEN /\ gathered' = gathered \cup {[id |-> FALSE, node |-> n]}
                /\ toAsk' = toAsk \ {n} /\ UNCHANGED answer
           ELSE answer' = Failed /\ UNCHANGED <<gathered, toAsk>>

\* The address whose agent says it is the node's, of all the name resolves to.
resolveNodeAddress(n) ==
    /\ asking = NotAsked /\ n \in toAsk /\ answer = Nobody
    /\ \/ \E a \in Addresses :
             /\ agentAt[a] = n
             /\ IF question.of = "nodes"
                THEN /\ gathered' = gathered \cup {[id |-> TRUE, node |-> n]}
                     /\ toAsk' = toAsk \ {n}
                     /\ UNCHANGED asking
                ELSE /\ asking' = [node |-> n, address |-> a]
                     /\ UNCHANGED <<toAsk, gathered>>
             /\ UNCHANGED answer
       \/ /\ \A a \in Addresses : agentAt[a] # n
          /\ Fail(n)
          /\ UNCHANGED asking
    /\ UNCHANGED <<question, read>>
    /\ Unchanged

\* What the agent at an address says: it names the node it is the agent of.
AgentAnswer(a) ==
    [nodeId     |-> agentAt[a],
     containers |-> {c \in running : Home[c] = agentAt[a]}]
\* Defect: whoever answers at the address is taken for the node.
FromAnyone(response, n) == response.nodeId # Nobody
FromNode(response, n) == response.nodeId = n

\* The agent that is at the address now answers, if there is one.
askAgent ==
    LET n == asking.node
        response == AgentAnswer(asking.address)
        c == read.tasks[question.task]
    IN  /\ asking # NotAsked
        /\ asking' = NotAsked
        /\ CASE ~FromNode(response, n) -> Fail(n)
             [] FromNode(response, n) /\ question.of = "ghosts" ->
                  /\ gathered' = gathered \cup
                        {[id |-> d, node |-> n] : d \in response.containers}
                  /\ toAsk' = toAsk \ {n} /\ UNCHANGED answer
             [] OTHER ->
                  /\ answer' \in StatsOf(c, response.containers)
                  /\ UNCHANGED <<gathered, toAsk>>
        /\ UNCHANGED <<question, read>>
        /\ Unchanged

\* Defect: any running container of the task stands for the one it runs in.
IsGhostByTask(c) ==
    /\ Claims(c)
    /\ ~(Labels[c] \in Tasks /\ read.tasks[Labels[c]] # Nobody)

\* A container is left out when it has labels but none of a task, and when its
\* task, as read, is running in it.
IsGhost(c) ==
    /\ Claims(c)
    /\ ~(Labels[c] \in Tasks /\ read.tasks[Labels[c]] = c)

Answer ==
    /\ AllRead /\ toAsk = {} /\ asking = NotAsked
    /\ question.of = "nodesAndTasks" \/ NotAsked \in gathered
    /\ answer' = CASE question.of = "ghosts" ->
                        [ghosts |-> {g \in gathered \ {NotAsked} : IsGhost(g.id)}]
                   [] question.of = "nodes" -> [healthy |-> gathered \ {NotAsked}]
                   [] question.of = "nodesAndTasks" ->
                        [tasks |-> [n \in DOMAIN read.nodes |->
                            {t \in Tasks : read.tasks[t] # Nobody /\ Home[read.tasks[t]] = n}]]
    /\ UNCHANGED <<question, read, asking, toAsk, gathered>>
    /\ Unchanged

Questions == [of : {"ghosts", "nodes", "nodesAndTasks"}] \cup [of : {"stats"}, task : Tasks]

ManagerAsks ==
    \/ \E q \in Questions : Ask(q)
    \/ \E what \in {"containers", "tasks", "info", "nodes"} : Read(what)
    \/ DockerFails
    \/ fetchGhostContainers \/ fetchNodes \/ fetchTaskContainerStats
    \/ \E n \in Nodes : resolveNodeAddress(n)
    \/ askAgent
    \/ Answer

ScanNext == ManagerAsks \/ Cluster

-----------------------------------------------------------------------------
ScanTypeOK ==
    /\ running \subseteq Containers
    /\ tasks \in [Tasks -> Containers \cup {Nobody}]
    /\ down \subseteq Nodes
    /\ toAsk \subseteq Nodes
    /\ changes \in 0 .. MaxChanges

Answered(of) == question # Nobody /\ question.of = of /\ answer \notin {Nobody, Failed}

(* A container that its running task owned up to all the while a scan went  *)
(* on is never reported, and each one that is reported did run during the   *)
(* scan, on the node it is reported on, although that node's agent may have *)
(* left the address it was found at for another node's.                     *)
GhostsAreReal ==
    Answered("ghosts") =>
        \A g \in answer.ghosts : g.id \in ran \ owned /\ Home[g.id] = g.node

(* A ghost that was there all the while, on a node that was not down, is in *)
(* the answer, if there is one.                                             *)
GhostsAreFound ==
    Answered("ghosts") => ghosts \subseteq {g.id : g \in answer.ghosts}

\* Both: the list is exactly what there is to clean up.
GhostsAreExact == GhostsAreReal /\ GhostsAreFound
=============================================================================
