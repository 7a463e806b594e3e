--------------------------- MODULE HostProvisioning ---------------------------
(***************************************************************************)
(* Folders and files that a request creates on every node of the swarm:    *)
(* the backend on its own node (createFolders, createFiles and             *)
(* HostVolumeProvisioning), the agents on the others (AgentHealthClient    *)
(* and the agent's provisioning routes, which hold the same file code).    *)
(*                                                                         *)
(* Every item of a request is a task of its own on every node, and each    *)
(* awaited call on the file system is a step.  A path is the sequence of   *)
(* its segments under the configured root; what lies outside of the root   *)
(* is known only as what a symbolic link leads to.  A text is a sequence   *)
(* of letters, written in one call as texts below 512 KiB are.  The        *)
(* backend stops waiting for an agent at a deadline; the agent goes on, or *)
(* takes no further step, which is also how an agent that dies appears.    *)
(***************************************************************************)
EXTENDS Naturals, Sequences, FiniteSets

CONSTANTS Nodes,      \* nodes of the swarm
          Local,      \* the node of the backend
          Paths,      \* paths under the root, with every prefix
          Requests,   \* HTTP requests the backend may receive
          Items,      \* folders and files that may be asked for
          Asked,      \* the path of an item, and its text or None
          Jobs,       \* what a request may ask for
          Disks,      \* what the disks of the nodes may hold at first
          Appearing,  \* what others may put under a name that was free
          Faults,     \* which of "docker", "agent", "disk", "host"
          MaxFaults,  \* bound: how many faults happen
          None

Kinds == {"none", "dir", "file", "link", "pipe", "database"}

Texts == Seq(STRING)
ASSUME LocalAssumption == Local \in Nodes /\ IsFiniteSet(Nodes)
ASSUME PathsAssumption ==
    \A p \in Paths : /\ p \in Seq(STRING) /\ p # <<>>
                     /\ \A k \in 1..Len(p) : SubSeq(p, 1, k) \in Paths
ASSUME AskedAssumption ==
    \A i \in Items : /\ Asked[i].path \in Paths
                     /\ Asked[i].text # None => Asked[i].text \in Texts
ASSUME JobsAssumption ==
    \A j \in Jobs : /\ j.op \in {"folders", "files"} /\ j.items \subseteq Items
                    /\ \A i \in j.items : Asked[i].text = None <=> j.op = "folders"
ASSUME DisksAssumption ==
    \A d \in Disks : \A n \in Nodes : /\ d[n].entry \in [Paths -> Kinds]
                                     /\ d[n].text \in [Paths -> Texts]
\* The database is where it is before a request comes; nobody gives it one more name.
ASSUME BoundsAssumption == MaxFaults \in Nat /\ Appearing \subseteq Kinds \ {"database"}
ASSUME NoneAssumption == None \notin [task : Requests \X Nodes \X Items, shared : BOOLEAN]

VARIABLES
    req,     \* handlers of the backend
    call,    \* per request and node: the promise the backend waits for
    task,    \* per request, node and item: the work on the disk of the node
    entry,   \* per node and path: what is there
    text,    \* per node and path: what a file holds
    last,    \* history: per node and path, who truncated it last, and whether
             \* somebody else was about to write
    strays,  \* history: tasks that got a handle through a symbolic link
    faults

disk == <<entry, text, last, strays>>
vars == <<req, call, task, disk, faults>>

TaskIds == Requests \X Nodes \X Items
NodeOf(t) == t[2]
PathOf(t) == Asked[t[3]].path
IsFolder(t) == Asked[t[3]].text = None
TasksOf(r, n) == {t \in TaskIds : t[1] = r /\ t[2] = n /\ t[3] \in req[r].job.items}

Prefixes(p) == {SubSeq(p, 1, k) : k \in 1..Len(p)}

Quiet == [pc |-> "none", depth |-> 0, ok |-> TRUE]
Over == {"done", "failed"}

Init ==
    /\ req = [r \in Requests |-> [pc |-> "idle", job |-> None, ok |-> FALSE, success |-> 0]]
    /\ call = [r \in Requests |-> [n \in Nodes |-> "none"]]
    /\ task = [t \in TaskIds |-> Quiet]
    /\ \E d \in Disks :
          /\ entry = [n \in Nodes |-> d[n].entry]
          /\ text = [n \in Nodes |-> d[n].text]
    /\ last = [n \in Nodes |-> [p \in Paths |-> None]]
    /\ strays = {}
    /\ faults = 0

Fault(kind) == kind \in Faults /\ faults < MaxFaults /\ faults' = faults + 1
NoFault == UNCHANGED faults

------------------------------------------------------------------------------
(* The work on one node. *)

\* isDatabaseFile, also under another name of the same file.
IsDatabaseFile(n, p) == entry[n][p] = "database"

\* safeDataPath: no component that exists is a symbolic link or, before the
\* last, anything but a directory, and the target is not the database.
SafeDataPath(n, p) ==
    /\ ~IsDatabaseFile(n, p)
    /\ \A q \in Prefixes(p) : entry[n][q] # "link"
    /\ \A q \in Prefixes(p) \ {p} : entry[n][q] \in {"none", "dir"}

Goto(t, pc) == task' = [task EXCEPT ![t].pc = pc]

\* The error of a call is thrown on after the handles are closed.
Fails(t) == task' = [task EXCEPT ![t].pc = "close", ![t].ok = FALSE]

\* How many segments are walked: all of a folder, all but the name of a file.
Walk(t) == IF IsFolder(t) THEN Len(PathOf(t)) ELSE Len(PathOf(t)) - 1
\* Defect: the name of a file is walked like a segment of its directory.
OnwardPastName(t, depth) ==
    IF depth < Len(PathOf(t)) THEN "mkdir" ELSE IF IsFolder(t) THEN "close" ELSE "openFile"
\* What follows once depth segments are walked.
Onward(t, depth) ==
    IF depth < Walk(t) THEN "mkdir" ELSE IF IsFolder(t) THEN "close" ELSE "openFile"
\* The entry the next step is about.
Child(t) == SubSeq(PathOf(t), 1, task[t].depth + 1)

\* safeDataPath, and the root is opened.
Check(t) ==
    /\ task[t].pc = "check"
    /\ IF SafeDataPath(NodeOf(t), PathOf(t))
       THEN task' = [task EXCEPT ![t].pc = Onward(t, 0)]
       ELSE task' = [task EXCEPT ![t].pc = "failed", ![t].ok = FALSE]
    /\ UNCHANGED <<req, call, disk, faults>>

\* mkdir; EEXIST is fine.
Mkdir(t) ==
    /\ task[t].pc = "mkdir"
    /\ LET n == NodeOf(t) IN
       entry' = IF entry[n][Child(t)] = "none"
                THEN [entry EXCEPT ![n][Child(t)] = "dir"] ELSE entry
    /\ Goto(t, "openDir")
    /\ UNCHANGED <<req, call, text, last, strays, faults>>

\* Defect: a symbolic link is followed.
FollowedAlways(kind) == kind = "link"
\* O_NOFOLLOW
Followed(kind) == FALSE

\* The child is opened and the handle of its parent closed.
OpenDirectory(t) ==
    /\ task[t].pc = "openDir"
    /\ LET kind == entry[NodeOf(t)][Child(t)] IN
       IF kind = "dir" \/ Followed(kind)
       THEN /\ task' = [task EXCEPT ![t].depth = @ + 1,
                                    ![t].pc = Onward(t, task[t].depth + 1)]
            /\ strays' = IF kind = "dir" THEN strays ELSE strays \cup {t}
       ELSE Fails(t) /\ UNCHANGED strays
    /\ UNCHANGED <<req, call, entry, text, last, faults>>

\* Defect: opening a pipe waits for a reader.
ReturnsForFiles(kind) == kind # "pipe"
\* O_NONBLOCK
Returns(kind) == TRUE

\* The file is a regular one and, on the other nodes, not the database; the
\* backend compares it with the directory of its data instead.
Accepted(n, kind) == kind = "file" \/ (kind = "database" /\ n = Local)

\* open of what is there, for the first or the second time.
OpenFile(t) ==
    /\ task[t].pc \in {"openFile", "reopen"}
    /\ LET n == NodeOf(t)
           kind == entry[n][PathOf(t)]
       IN  \/ kind = "none" /\ task[t].pc = "openFile" /\ Goto(t, "createFile") /\ UNCHANGED strays
           \/ /\ kind = "none" => task[t].pc = "reopen"
              /\ Returns(kind)
              /\ IF Accepted(n, kind) \/ Followed(kind)
                 THEN /\ task' = [task EXCEPT ![t].pc = "truncate"]
                      /\ strays' = IF kind = "link" THEN strays \cup {t} ELSE strays
                 ELSE Fails(t) /\ UNCHANGED strays
    /\ UNCHANGED <<req, call, entry, text, last, faults>>

\* open with O_CREAT and O_EXCL; if somebody was faster it is opened as it is.
CreateFile(t) ==
    /\ task[t].pc = "createFile"
    /\ LET n == NodeOf(t) p == PathOf(t) IN
       IF entry[n][p] = "none"
       THEN /\ entry' = [entry EXCEPT ![n][p] = "file"]
            /\ text' = [text EXCEPT ![n][p] = <<>>]
            /\ task' = [task EXCEPT ![t].pc = "truncate"]
       ELSE Goto(t, "reopen") /\ UNCHANGED <<entry, text>>
    /\ UNCHANGED <<req, call, last, strays, faults>>

\* Defect: what the file held is not cut off.
CutNothing(old) == old
\* truncate(0)
Cut(old) == <<>>

\* Another task has truncated the file and not written it yet.
Shared(t) ==
    \E u \in TaskIds \ {t} :
        NodeOf(u) = NodeOf(t) /\ PathOf(u) = PathOf(t) /\ task[u].pc = "write"

Truncate(t) ==
    /\ task[t].pc = "truncate"
    /\ LET n == NodeOf(t) p == PathOf(t) IN
       /\ text' = [text EXCEPT ![n][p] = Cut(@)]
       /\ last' = [last EXCEPT ![n][p] = [task |-> t, shared |-> Shared(t)]]
    /\ Goto(t, "write")
    /\ UNCHANGED <<req, call, entry, strays, faults>>

\* Writing from the start of the file leaves what lies beyond.
Overlay(new, old) == new \o SubSeq(old, Len(new) + 1, Len(old))

WriteFile(t) ==
    /\ task[t].pc = "write"
    /\ text' = [text EXCEPT ![NodeOf(t)][PathOf(t)] = Overlay(Asked[t[3]].text, @)]
    /\ Goto(t, "close")
    /\ UNCHANGED <<req, call, entry, last, strays, faults>>

\* finally: the file and the directory are closed, whatever came before.
Close(t) ==
    /\ task[t].pc = "close"
    /\ task' = [task EXCEPT ![t].pc = IF task[t].ok THEN "done" ELSE "failed"]
    /\ UNCHANGED <<req, call, disk, faults>>

\* A call on the file system fails: no space, an error of the device.
DiskFails(t) ==
    /\ task[t].pc \notin Over \cup {"none", "close"}
    /\ Fault("disk")
    /\ IF task[t].pc = "check"
       THEN task' = [task EXCEPT ![t].pc = "failed", ![t].ok = FALSE]
       ELSE Fails(t)
    /\ UNCHANGED <<req, call, disk>>

Step(t) ==
    \/ Check(t) \/ Mkdir(t) \/ OpenDirectory(t) \/ OpenFile(t)
    \/ CreateFile(t) \/ Truncate(t) \/ WriteFile(t) \/ Close(t)

------------------------------------------------------------------------------
(* The backend. *)

\* The route parsed the input.  Without files there is nothing to do.
Receive(r) ==
    /\ req[r].pc = "idle"
    /\ \E job \in Jobs :
          req' = [req EXCEPT ![r] =
              IF job.op = "files" /\ job.items = {}
              THEN [@ EXCEPT !.pc = "answered", !.job = job, !.ok = TRUE]
              ELSE [@ EXCEPT !.pc = "nodes", !.job = job]]
    /\ UNCHANGED <<call, task, disk, faults>>

\* docker.info and fetchNodes; all nodes are begun at once, the backend's own
\* without asking an agent.
ListNodes(r) ==
    /\ req[r].pc = "nodes"
    /\ \/ /\ NoFault
          /\ req' = [req EXCEPT ![r].pc = "wait"]
          /\ call' = [call EXCEPT ![r] =
                [n \in Nodes |-> IF n = Local THEN "sent" ELSE "resolve"]]
          /\ task' = [t \in TaskIds |->
                IF t \in TasksOf(r, Local) THEN [Quiet EXCEPT !.pc = "check"] ELSE task[t]]
       \/ /\ Fault("docker")
          /\ req' = [req EXCEPT ![r].pc = "answered"]
          /\ UNCHANGED <<call, task>>
    /\ UNCHANGED disk

\* resolveNodeAddress and, if an agent says it is the one of this node, the
\* request to it; the agent begins all items at once.
Resolve(r, n) ==
    /\ call[r][n] = "resolve"
    /\ \/ /\ NoFault
          /\ call' = [call EXCEPT ![r][n] = "sent"]
          /\ task' = [t \in TaskIds |->
                IF t \in TasksOf(r, n) THEN [Quiet EXCEPT !.pc = "check"] ELSE task[t]]
       \/ /\ Fault("agent")
          /\ call' = [call EXCEPT ![r][n] = "failed"]
          /\ UNCHANGED task
    /\ UNCHANGED <<req, disk>>

\* Defect: a node is done when one of its items is.
ServedIfAny(r, n) == \E t \in TasksOf(r, n) : task[t].pc = "done"
\* Promise.all over the items of a node.
Served(r, n) == \A t \in TasksOf(r, n) : task[t].pc = "done"

\* The node's promise is settled, by the backend's own work or by the answer of
\* an agent: as soon as an item failed, or when all are done.
Settle(r, n) ==
    /\ call[r][n] = "sent"
    /\ \/ Served(r, n) /\ call' = [call EXCEPT ![r][n] = "ok"]
       \/ /\ \E t \in TasksOf(r, n) : task[t].pc = "failed"
          /\ call' = [call EXCEPT ![r][n] = "failed"]
    /\ UNCHANGED <<req, task, disk, faults>>

\* The deadlines of the calls to an agent, 2 and 10 seconds; the agent goes on.
Timeout(r, n) ==
    /\ n # Local
    /\ call[r][n] \in {"resolve", "sent"}
    /\ call' = [call EXCEPT ![r][n] = "failed"]
    /\ UNCHANGED <<req, task, disk, faults>>

With(r, outcome) == {n \in Nodes : call[r][n] = outcome}

\* createFolders waits for all nodes and counts those that succeeded.
AnswerFolders(r) ==
    /\ req[r].pc = "wait" /\ req[r].job.op = "folders"
    /\ With(r, "ok") \cup With(r, "failed") = Nodes
    /\ req' = [req EXCEPT ![r].pc = "answered", ![r].ok = With(r, "ok") # {},
                          ![r].success = Cardinality(With(r, "ok"))]
    /\ UNCHANGED <<call, task, disk, faults>>

\* Defect: createFiles, like createFolders, is content with some nodes.
WrittenSomewhere(r) == With(r, "ok") # {} /\ With(r, "ok") \cup With(r, "failed") = Nodes
\* Promise.all over the nodes.
Written(r) == With(r, "ok") = Nodes

\* createFiles fails at the first node that does.
AnswerFiles(r) ==
    /\ req[r].pc = "wait" /\ req[r].job.op = "files"
    /\ Written(r) \/ With(r, "failed") # {}
    /\ req' = [req EXCEPT ![r].pc = "answered", ![r].ok = Written(r)]
    /\ UNCHANGED <<call, task, disk, faults>>

Answer(r) == AnswerFolders(r) \/ AnswerFiles(r)

------------------------------------------------------------------------------
\* Somebody else on a node takes a free name in a directory that is there.
Appear(n, p) ==
    /\ entry[n][p] = "none"
    /\ \A q \in Prefixes(p) \ {p} : entry[n][q] = "dir"
    /\ Fault("host")
    /\ \E kind \in Appearing : entry' = [entry EXCEPT ![n][p] = kind]
    /\ UNCHANGED <<req, call, task, text, last, strays>>

Next ==
    \/ \E r \in Requests : Receive(r) \/ ListNodes(r) \/ Answer(r)
    \/ \E r \in Requests, n \in Nodes : Resolve(r, n) \/ Settle(r, n) \/ Timeout(r, n)
    \/ \E t \in TaskIds : Step(t) \/ DiskFails(t)
    \/ \E n \in Nodes, p \in Paths : Appear(n, p)

\* What the backend does without an agent.
Backend ==
    \/ \E r \in Requests : ListNodes(r) \/ Answer(r) \/ Settle(r, Local)
    \/ \E r \in Requests, i \in Items : Step(<<r, Local, i>>)

\* The backend and its disk make progress and deadlines pass; of an agent
\* nothing is expected.
Spec ==
    /\ Init /\ [][Next]_vars
    /\ WF_vars(Backend)
    /\ WF_vars(\E r \in Requests, n \in Nodes : Timeout(r, n))

------------------------------------------------------------------------------
\* Requests, calls, tasks and disks keep their types.
TypeOK ==
    /\ \A r \in Requests : /\ req[r].pc \in {"idle", "nodes", "wait", "answered"}
                           /\ req[r].job \in Jobs \cup {None}
                           /\ req[r].success \in 0..Cardinality(Nodes)
    /\ call \in [Requests -> [Nodes -> {"none", "resolve", "sent", "ok", "failed"}]]
    /\ \A t \in TaskIds : task[t].depth \in 0..Walk(t)
    /\ entry \in [Nodes -> [Paths -> Kinds]]
    /\ \A n \in Nodes, p \in Paths : text[n][p] \in Texts

\* Nothing is opened through a symbolic link, also one that appears after the
\* path was checked.
StaysUnderTheRoot == strays = {}

\* createFolders does not count a node that lacks one of the folders.
FoldersAreThere ==
    \A r \in Requests : req[r].pc = "answered" /\ req[r].job.op = "folders" =>
        req[r].success <=
            Cardinality({n \in Nodes : \A i \in req[r].job.items : entry[n][Asked[i].path] = "dir"})

\* createFiles succeeds only if every file has been written on every node,
\* by this request or by one that came after.
FilesAreEverywhere ==
    \A r \in Requests : req[r].pc = "answered" /\ req[r].ok /\ req[r].job.op = "files" =>
        \A n \in Nodes, i \in req[r].job.items :
            LET p == Asked[i].path IN entry[n][p] = "file" /\ last[n][p] # None

\* The last to truncate a file, unless another was about to write, leaves it
\* with its text: nothing of an older, longer one stays behind.
LastWriterWins ==
    \A n \in Nodes, p \in Paths :
        last[n][p] # None =>
            LET t == last[n][p].task IN
            task[t].pc = "done" /\ ~last[n][p].shared => text[n][p] = Asked[t[3]].text

\* What is answered is true of every node, and so are the files.
NodesHoldWhatIsAnswered ==
    TypeOK /\ FoldersAreThere /\ FilesAreEverywhere /\ LastWriterWins

\* Every request is answered, also when agents are silent or a target is not a
\* file.
EveryRequestIsAnswered ==
    \A r \in Requests : req[r].pc # "idle" ~> req[r].pc = "answered"
==============================================================================
