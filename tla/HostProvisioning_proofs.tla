----------------------- MODULE HostProvisioning_proofs -----------------------
(***************************************************************************)
(* Proofs about HostProvisioning, for all nodes, paths, items, jobs and    *)
(* disks: what the backend answers is true of the disks of the nodes.      *)
(*                                                                         *)
(* The backend counts a node by its promise, and the promise by the work   *)
(* on each item; the work is true of the disk because a name that is taken *)
(* is never given to anything else.  Of a file, the last to truncate it is *)
(* the only one that can be about to write, unless another already was.    *)
(***************************************************************************)
EXTENDS HostProvisioning, FiniteSetTheorems, SequenceTheorems, TLAPS

-----------------------------------------------------------------------------
(* The inductive invariant.                                                *)

RequestType == [pc : {"idle", "nodes", "wait", "answered"}, job : Jobs \cup {None},
                ok : BOOLEAN, success : 0..Cardinality(Nodes)]
Walking == {"mkdir", "openDir"}
Opening == {"openFile", "createFile", "reopen"}
TaskType == [pc : {"none", "check", "truncate", "write", "close"}
                  \cup Walking \cup Opening \cup Over,
             depth : Nat, ok : BOOLEAN]
Truncation == [task : TaskIds, shared : BOOLEAN]

Types ==
    /\ req \in [Requests -> RequestType]
    /\ call \in [Requests -> [Nodes -> {"none", "resolve", "sent", "ok", "failed"}]]
    /\ task \in [TaskIds -> TaskType]
    /\ entry \in [Nodes -> [Paths -> Kinds]]
    /\ text \in [Nodes -> [Paths -> Texts]]
    /\ last \in [Nodes -> [Paths -> Truncation \cup {None}]]
    /\ strays = {}

\* Work is begun once, and a promise that is kept is about work that is done.
PromiseOf(r, n) ==
    /\ req[r].pc \in {"idle", "nodes"} => call[r][n] = "none"
    /\ call[r][n] \in {"none", "resolve"} => \A i \in Items : task[<<r, n, i>>] = Quiet
    /\ call[r][n] = "ok" => \A t \in TasksOf(r, n) : task[t].pc = "done"
Promises ==
    /\ \A r \in Requests : /\ req[r].pc # "idle" => req[r].job \in Jobs
                           /\ req[r].pc # "answered" => ~req[r].ok /\ req[r].success = 0
    /\ \A r \in Requests, n \in Nodes : PromiseOf(r, n)

\* What the work on an item has done so far is there.
HasWalked(t) ==
    /\ task[t].depth <= Walk(t)
    /\ task[t].pc \in {"none", "check"} => task[t].depth = 0
    /\ task[t].pc \in Walking => task[t].depth < Walk(t)
    /\ \A k \in 1..task[t].depth : entry[NodeOf(t)][SubSeq(PathOf(t), 1, k)] = "dir"
    /\ ~task[t].ok => task[t].pc \in {"close", "failed"}
HasMade(t) ==
    IF IsFolder(t)
    THEN /\ task[t].pc \notin Opening \cup {"truncate", "write"}
         /\ task[t].ok /\ task[t].pc \in {"close", "done"} => task[t].depth = Walk(t)
    ELSE LET kind == entry[NodeOf(t)][PathOf(t)] IN
         /\ task[t].pc \notin {"none", "check", "failed"} => kind # "database"
         /\ task[t].ok /\ task[t].pc \in {"truncate", "write", "close", "done"} =>
               kind = "file"
         /\ task[t].ok /\ task[t].pc \in {"write", "close", "done"} =>
               last[NodeOf(t)][PathOf(t)] # None
Progress == \A t \in TaskIds : HasWalked(t) /\ HasMade(t)

\* Of the last to truncate a file.
At(t, n, p) == NodeOf(t) = n /\ PathOf(t) = p
WrittenBy(t, n, p) ==
    /\ \A u \in TaskIds : At(u, n, p) /\ task[u].pc = "write" => u = t
    /\ task[t].pc = "write" => text[n][p] = <<>>
    /\ task[t].ok /\ task[t].pc \in {"close", "done"} => text[n][p] = Asked[t[3]].text
Truncated(n, p) ==
    last[n][p] # None =>
        /\ entry[n][p] # "none"
        /\ At(last[n][p].task, n, p) /\ ~IsFolder(last[n][p].task)
        /\ task[last[n][p].task].pc \in {"write", "close", "done", "failed"}
        /\ ~last[n][p].shared => WrittenBy(last[n][p].task, n, p)
Files == \A n \in Nodes, p \in Paths : Truncated(n, p)

Inv == Types /\ Promises /\ Progress /\ Files /\ FoldersAreThere /\ FilesAreEverywhere

-----------------------------------------------------------------------------
(* What every task, text and step is made of.                              *)

LEMMA TaskFacts ==
  ASSUME NEW t \in TaskIds
  PROVE  /\ NodeOf(t) \in Nodes /\ t[3] \in Items /\ PathOf(t) \in Paths
         /\ t = <<t[1], t[2], t[3]>> /\ t[1] \in Requests
         /\ PathOf(t) \in Seq(STRING) /\ Len(PathOf(t)) \in Nat \ {0}
         /\ Walk(t) = IF IsFolder(t) THEN Len(PathOf(t)) ELSE Len(PathOf(t)) - 1
         /\ Walk(t) \in Nat /\ Walk(t) <= Len(PathOf(t))
         /\ \A k \in 1..Len(PathOf(t)) : SubSeq(PathOf(t), 1, k) \in Paths
         /\ SubSeq(PathOf(t), 1, Len(PathOf(t))) = PathOf(t)
         /\ ~IsFolder(t) => Asked[t[3]].text \in Texts
  <1>1. /\ NodeOf(t) \in Nodes /\ t[3] \in Items
        /\ t = <<t[1], t[2], t[3]>> /\ t[1] \in Requests
    BY DEF TaskIds, NodeOf
  <1>2. PathOf(t) \in Paths /\ (~IsFolder(t) => Asked[t[3]].text \in Texts)
    BY <1>1, AskedAssumption DEF PathOf, IsFolder
  <1>3. /\ PathOf(t) \in Seq(STRING) /\ PathOf(t) # <<>>
        /\ \A k \in 1..Len(PathOf(t)) : SubSeq(PathOf(t), 1, k) \in Paths
    BY <1>2, PathsAssumption
  <1>4. Len(PathOf(t)) \in Nat \ {0}
    BY <1>3
  <1>5. Walk(t) = IF IsFolder(t) THEN Len(PathOf(t)) ELSE Len(PathOf(t)) - 1
    BY DEF Walk
  <1>6. SubSeq(PathOf(t), 1, Len(PathOf(t))) = PathOf(t)
    BY <1>3, SubSeqFull
  <1> QED
    BY <1>1, <1>2, <1>3, <1>4, <1>5, <1>6

\* The entry a walk is at.
LEMMA ChildFacts ==
  ASSUME NEW t \in TaskIds, task[t].depth \in Nat, task[t].depth < Walk(t)
  PROVE  /\ Child(t) \in Paths
         /\ Child(t) = SubSeq(PathOf(t), 1, task[t].depth + 1)
  <1>1. task[t].depth + 1 \in 1..Len(PathOf(t))
    BY TaskFacts
  <1> QED
    BY <1>1, TaskFacts DEF Child

LEMMA OverlayFacts ==
  ASSUME NEW new \in Texts, NEW old \in Texts
  PROVE  /\ Overlay(new, old) \in Texts
         /\ old = <<>> => Overlay(new, old) = new
  <1> DEFINE rest == SubSeq(old, Len(new) + 1, Len(old))
  <1>1. Len(new) \in Nat /\ Len(old) \in Nat
    BY DEF Texts
  <1>2. rest \in Seq(STRING)
    <2>1. \A i \in Len(new) + 1 .. Len(old) : old[i] \in STRING
      BY <1>1 DEF Texts
    <2>2. QED
      BY <1>1, <2>1, SubSeqProperties
  <1>3. old = <<>> => rest = <<>>
    <2>1. old = <<>> => Len(old) < Len(new) + 1
      BY <1>1
    <2>2. QED
      BY <1>1, <2>1, SubSeqEmpty
  <1>4. Overlay(new, old) = new \o rest
    BY DEF Overlay
  <1> HIDE DEF rest
  <1>5. new \o rest \in Seq(STRING) /\ (rest = <<>> => new \o rest = new)
    BY <1>2 DEF Texts
  <1> QED
    BY <1>3, <1>4, <1>5 DEF Texts

\* A name that is taken keeps what it names, the database gets no other name,
\* and it stays known who truncated a file.
Grown ==
    /\ \A n \in Nodes, p \in Paths : entry[n][p] # "none" => entry'[n][p] = entry[n][p]
    /\ \A n \in Nodes, p \in Paths : entry'[n][p] = "database" => entry[n][p] = "database"
    /\ \A n \in Nodes, p \in Paths : last[n][p] # None => last'[n][p] # None

LEMMA Unchanged ==
  ASSUME UNCHANGED <<entry, last>>
  PROVE  Grown
  BY DEF Grown

\* A free name is taken.
LEMMA Taken ==
  ASSUME Types, NEW n \in Nodes, NEW p \in Paths, NEW kind \in Kinds \ {"database"},
         entry[n][p] = "none", entry' = [entry EXCEPT ![n][p] = kind], last' = last
  PROVE  Grown /\ entry' \in [Nodes -> [Paths -> Kinds]]
  BY DEF Grown, Types

-----------------------------------------------------------------------------
(* What a step of one task leaves as it was.                               *)

Others(t) == \A u \in TaskIds \ {t} : task'[u] = task[u]
Working(t) == task[t].pc \notin {"none", "done", "failed"}

LEMMA PromisesKept ==
  ASSUME Inv, NEW t \in TaskIds, Others(t), Working(t), UNCHANGED <<req, call>>
  PROVE  Promises'
  <1>1. ASSUME NEW r \in Requests, NEW n \in Nodes
        PROVE  PromiseOf(r, n)'
    <2> USE <1>1
    <2>1. PromiseOf(r, n)
      BY DEF Inv, Promises
    <2>2. ASSUME call[r][n] \in {"none", "resolve"}, NEW i \in Items
          PROVE  task'[<<r, n, i>>] = Quiet
      <3>1. task[<<r, n, i>>] = Quiet /\ <<r, n, i>> \in TaskIds
        BY <2>1, <2>2 DEF PromiseOf, TaskIds
      <3>2. <<r, n, i>> # t
        BY <3>1 DEF Working, Quiet
      <3>3. QED
        BY <3>1, <3>2 DEF Others
    <2>3. ASSUME call[r][n] = "ok", NEW u \in TasksOf(r, n)
          PROVE  task'[u].pc = "done"
      <3>1. task[u].pc = "done" /\ u \in TaskIds
        BY <2>1, <2>3 DEF PromiseOf, TasksOf
      <3>2. QED
        BY <3>1 DEF Others, Working
    <2>4. TasksOf(r, n)' = TasksOf(r, n)
      BY DEF TasksOf
    <2>5. QED
      BY <2>1, <2>2, <2>3, <2>4 DEF PromiseOf
  <1> QED
    BY <1>1 DEF Inv, Promises

\* What a task has done is there as long as nothing is taken back.
LEMMA ProgressStands ==
  ASSUME Inv, Grown, NEW u \in TaskIds, task'[u] = task[u]
  PROVE  (HasWalked(u) /\ HasMade(u))'
  <1> DEFINE n == NodeOf(u) p == PathOf(u)
  <1>1. HasWalked(u) /\ HasMade(u) /\ n \in Nodes /\ p \in Paths
    BY TaskFacts DEF Inv, Progress
  <1>2. task[u].depth \in Nat /\ task[u].depth <= Walk(u)
    BY <1>1 DEF Inv, Types, TaskType, HasWalked
  <1>3. \A k \in 1..task[u].depth : SubSeq(p, 1, k) \in Paths
    BY <1>2, TaskFacts
  <1>4. Walk(u)' = Walk(u) /\ NodeOf(u)' = n /\ PathOf(u)' = p
        /\ IsFolder(u)' = IsFolder(u)
    BY DEF Walk, NodeOf, PathOf, IsFolder
  <1>5. HasWalked(u)'
    <2>1. \A k \in 1..task[u].depth : entry'[n][SubSeq(p, 1, k)] = "dir"
      BY <1>1, <1>3 DEF Grown, HasWalked
    <2>2. QED
      BY <1>1, <1>4, <2>1 DEF HasWalked
  <1>6. HasMade(u)'
    <2>1. CASE IsFolder(u)
      BY <2>1, <1>1, <1>4 DEF HasMade
    <2>2. CASE ~IsFolder(u)
      <3>1. entry[n][p] # "database" => entry'[n][p] # "database"
        BY <1>1 DEF Grown
      <3>2. entry[n][p] = "file" => entry'[n][p] = "file"
        BY <1>1 DEF Grown
      <3>3. last[n][p] # None => last'[n][p] # None
        BY <1>1 DEF Grown
      <3> HIDE DEF n, p
      <3>4. QED
        BY <2>2, <3>1, <3>2, <3>3, <1>1, <1>4 DEF HasMade, n, p
    <2>3. QED
      BY <2>1, <2>2
  <1> QED
    BY <1>5, <1>6

LEMMA ProgressKept ==
  ASSUME Inv, Grown, NEW t \in TaskIds, Others(t), (HasWalked(t) /\ HasMade(t))'
  PROVE  Progress'
  <1>1. \A u \in TaskIds : u # t => (HasWalked(u) /\ HasMade(u))'
    BY ProgressStands DEF Others
  <1>2. \A u \in TaskIds : (HasWalked(u) /\ HasMade(u))'
    BY <1>1
  <1> QED
    BY <1>2 DEF Progress

\* What is answered stays true.
HasFolders(r) == {n \in Nodes : \A i \in req[r].job.items : entry[n][Asked[i].path] = "dir"}
HasFiles(r) ==
    \A n \in Nodes, i \in req[r].job.items :
        entry[n][Asked[i].path] = "file" /\ last[n][Asked[i].path] # None

LEMMA AnswerStands ==
  ASSUME Inv, Grown, NEW r \in Requests, req'[r] = req[r], req[r].job \in Jobs
  PROVE  /\ Cardinality(HasFolders(r)) <= Cardinality(HasFolders(r)')
         /\ Cardinality(HasFolders(r)) \in Nat /\ Cardinality(HasFolders(r)') \in Nat
         /\ HasFiles(r) => HasFiles(r)'
  <1>1. \A i \in req[r].job.items : Asked[i].path \in Paths
    BY JobsAssumption, AskedAssumption
  <1>2. HasFolders(r) \in SUBSET (HasFolders(r)')
    BY <1>1 DEF Grown, HasFolders
  <1>3. HasFolders(r)' \in SUBSET Nodes /\ IsFiniteSet(Nodes)
    BY LocalAssumption DEF HasFolders
  <1>4. IsFiniteSet(HasFolders(r)') /\ IsFiniteSet(HasFolders(r))
    BY <1>2, <1>3, FS_Subset
  <1>5. Cardinality(HasFolders(r)) <= Cardinality(HasFolders(r)')
    BY <1>2, <1>4, FS_Subset
  <1>6. Cardinality(HasFolders(r)) \in Nat /\ Cardinality(HasFolders(r)') \in Nat
    BY <1>4, FS_CardinalityType
  <1>7. HasFiles(r) => HasFiles(r)'
    BY <1>1 DEF Grown, HasFiles
  <1> QED
    BY <1>5, <1>6, <1>7

AnsweredWell(r) ==
    /\ req[r].pc = "answered" /\ req[r].job.op = "folders" =>
          req[r].success <= Cardinality(HasFolders(r))
    /\ req[r].pc = "answered" /\ req[r].ok /\ req[r].job.op = "files" => HasFiles(r)
LEMMA Answers ==
  (FoldersAreThere /\ FilesAreEverywhere) <=> \A r \in Requests : AnsweredWell(r)
  BY DEF FoldersAreThere, FilesAreEverywhere, AnsweredWell, HasFolders, HasFiles

LEMMA AnsweredStands ==
  ASSUME Inv, Types', Grown, NEW r \in Requests, req'[r] = req[r]
  PROVE  AnsweredWell(r)'
  <1>1. CASE req[r].pc # "answered"
    BY <1>1 DEF AnsweredWell
  <1>2. CASE req[r].pc = "answered"
    <2>1. req[r].job \in Jobs /\ req[r].success \in Nat
      <3>1. req[r].success \in 0..Cardinality(Nodes) /\ Cardinality(Nodes) \in Nat
        BY LocalAssumption, FS_CardinalityType DEF Inv, Types, RequestType
      <3>2. QED
        BY <1>2, <3>1 DEF Inv, Promises
    <2>2. AnsweredWell(r)
      BY Answers DEF Inv
    <2>3. /\ Cardinality(HasFolders(r)) <= Cardinality(HasFolders(r)')
          /\ Cardinality(HasFolders(r)) \in Nat /\ Cardinality(HasFolders(r)') \in Nat
          /\ HasFiles(r) => HasFiles(r)'
      BY <2>1, AnswerStands
    <2>4. QED
      BY <1>2, <2>1, <2>2, <2>3 DEF AnsweredWell
  <1> QED
    BY <1>1, <1>2

LEMMA AnswersKept ==
  ASSUME Inv, Types', Grown, UNCHANGED req
  PROVE  (FoldersAreThere /\ FilesAreEverywhere)'
  <1>1. \A r \in Requests : AnsweredWell(r)'
    BY AnsweredStands
  <1> QED
    BY <1>1 DEF FoldersAreThere, FilesAreEverywhere, AnsweredWell, HasFolders, HasFiles

\* A step that writes nothing to a file somebody has truncated.
LEMMA FilesKept ==
  ASSUME Inv, Grown, NEW t \in TaskIds, Others(t), Working(t), last' = last,
         \A n \in Nodes, p \in Paths : last[n][p] # None => text'[n][p] = text[n][p],
         task'[t].pc # "write",
         task[t].pc \in {"write", "close"} =>
             /\ task'[t].pc \in {"close", "done", "failed"}
             /\ task'[t].ok /\ task'[t].pc # "failed" => task[t].ok /\ task[t].pc = "close"
  PROVE  Files'
  <1> SUFFICES ASSUME NEW n \in Nodes, NEW p \in Paths, last[n][p] # None
               PROVE  Truncated(n, p)'
    BY DEF Files, Truncated
  <1> DEFINE T == last[n][p].task
  <1>1. T \in TaskIds
    BY NoneAssumption DEF Inv, Types, Truncation
  <1>2. /\ entry[n][p] # "none" /\ At(T, n, p) /\ ~IsFolder(T)
        /\ task[T].pc \in {"write", "close", "done", "failed"}
        /\ ~last[n][p].shared => WrittenBy(T, n, p)
    BY DEF Inv, Files, Truncated
  <1>3. entry'[n][p] # "none"
    BY <1>2 DEF Grown
  <1>4. task'[T].pc \in {"write", "close", "done", "failed"}
    BY <1>1, <1>2 DEF Others, Working
  <1>5. T' = T /\ last'[n][p] = last[n][p]
    OBVIOUS
  <1>6. ASSUME ~last[n][p].shared
        PROVE  WrittenBy(T, n, p)'
    <2>1. WrittenBy(T, n, p)
      BY <1>2, <1>6
    <2>2. text'[n][p] = text[n][p]
      OBVIOUS
    <2>3. ASSUME NEW u \in TaskIds, At(u, n, p), task'[u].pc = "write"
          PROVE  u = T
      <3>1. task[u].pc = "write"
        BY <2>3 DEF Others
      <3>2. QED
        BY <2>1, <2>3, <3>1 DEF WrittenBy
    <2>4. ASSUME task'[T].pc = "write"
          PROVE  text'[n][p] = <<>>
      <3>1. task[T].pc = "write"
        BY <1>1, <2>4 DEF Others
      <3>2. QED
        BY <2>1, <2>2, <3>1 DEF WrittenBy
    <2>5. ASSUME task'[T].ok, task'[T].pc \in {"close", "done"}
          PROVE  text'[n][p] = Asked[T[3]].text
      <3>1. task[T].ok /\ task[T].pc \in {"close", "done"}
        BY <1>1, <1>2, <2>5 DEF Others, Working
      <3>2. QED
        BY <2>1, <2>2, <3>1 DEF WrittenBy
    <2>6. \A u : At(u, n, p)' = At(u, n, p)
      BY DEF At, NodeOf, PathOf
    <2> HIDE DEF T
    <2> QED
      BY <1>5, <2>3, <2>4, <2>5, <2>6 DEF WrittenBy
  <1>7. At(T, n, p)' = At(T, n, p) /\ IsFolder(T)' = IsFolder(T)
    BY <1>5 DEF At, NodeOf, PathOf, IsFolder
  <1> HIDE DEF T
  <1> QED
    BY <1>2, <1>3, <1>4, <1>5, <1>6, <1>7 DEF Truncated, T

\* A step of a task that keeps the disk and the record of the task.
LEMMA TaskStep ==
  ASSUME Inv, Types', Grown, NEW t \in TaskIds, Others(t), Working(t),
         UNCHANGED <<req, call>>, (HasWalked(t) /\ HasMade(t))', Files'
  PROVE  Inv'
  BY PromisesKept, ProgressKept, AnswersKept DEF Inv

-----------------------------------------------------------------------------
(* The work on one node.                                                   *)

LEMMA OnwardFacts ==
  ASSUME NEW t \in TaskIds, NEW depth \in Nat, depth <= Walk(t)
  PROVE  /\ Onward(t, depth) \in {"mkdir", "close", "openFile"}
         /\ Onward(t, depth) = "mkdir" => depth < Walk(t)
         /\ Onward(t, depth) = "close" => IsFolder(t) /\ depth = Walk(t)
         /\ Onward(t, depth) = "openFile" => ~IsFolder(t)
  <1>1. Walk(t) \in Nat
    BY TaskFacts
  <1> QED
    BY <1>1 DEF Onward

\* What the invariant says of one task before its step.
LEMMA Before ==
  ASSUME Inv, NEW t \in TaskIds
  PROVE  /\ HasWalked(t) /\ HasMade(t) /\ task[t] \in TaskType
         /\ task[t].depth \in Nat /\ task[t].ok \in BOOLEAN /\ task \in [TaskIds -> TaskType]
         /\ Walk(t) \in Nat /\ NodeOf(t) \in Nodes /\ PathOf(t) \in Paths
         /\ UNCHANGED <<Walk(t), NodeOf(t), PathOf(t), IsFolder(t)>>
  <1>1. HasWalked(t) /\ HasMade(t) /\ task \in [TaskIds -> TaskType]
    BY DEF Inv, Types, Progress
  <1>2. task[t] \in TaskType /\ task[t].depth \in Nat /\ task[t].ok \in BOOLEAN
    BY <1>1 DEF TaskType
  <1>3. UNCHANGED <<Walk(t), NodeOf(t), PathOf(t), IsFolder(t)>>
    BY DEF Walk, NodeOf, PathOf, IsFolder
  <1> QED
    BY <1>1, <1>2, <1>3, TaskFacts

\* A step that only says where the task goes on, and whether it still does well.
LEMMA Turned ==
  ASSUME Inv, NEW t \in TaskIds, Working(t), UNCHANGED <<req, call, disk>>,
         NEW pc \in {"close", "failed", "done", "truncate", "createFile", "reopen"},
         NEW ok \in BOOLEAN,
         task' = [task EXCEPT ![t].pc = pc, ![t].ok = ok],
         ok => task[t].ok /\ pc # "close",
         pc = "close" => task[t].pc # "check",
         pc = "done" => ok /\ task[t].pc = "close",
         ~ok => pc \in {"close", "failed"},
         pc \in {"truncate", "createFile", "reopen"} => ~IsFolder(t) /\ task[t].pc \in Opening,
         pc = "truncate" => entry[NodeOf(t)][PathOf(t)] = "file"
  PROVE  Inv'
  <1> USE Before
  <1>1. UNCHANGED <<req, call, entry, text, last, strays>>
    BY DEF disk
  <1>2. Types /\ Grown
    BY <1>1, Unchanged DEF Inv
  <1>3. /\ task' \in [TaskIds -> TaskType] /\ Others(t)
        /\ task'[t].pc = pc /\ task'[t].ok = ok /\ task'[t].depth = task[t].depth
    BY DEF TaskType, Walking, Opening, Over, Others
  <1>4. Types'
    BY <1>1, <1>2, <1>3 DEF Types
  <1>5. HasWalked(t)'
    BY <1>1, <1>3 DEF HasWalked, Walking
  <1>6. HasMade(t)'
    <2>1. CASE IsFolder(t)
      BY <2>1, <1>1, <1>3 DEF HasMade, Opening
    <2>2. CASE ~IsFolder(t)
      <3> DEFINE kind == entry[NodeOf(t)][PathOf(t)]
                 writer == last[NodeOf(t)][PathOf(t)]
      <3>1. /\ task[t].pc \notin {"none", "check", "failed"} => kind # "database"
            /\ task[t].ok /\ task[t].pc = "close" => kind = "file" /\ writer # None
        BY <2>2 DEF HasMade
      <3>2. kind' = kind /\ writer' = writer
        BY <1>1 DEF NodeOf, PathOf
      <3> HIDE DEF kind, writer
      <3>3. /\ pc # "failed" => kind # "database"
            /\ ok /\ pc \in {"truncate", "done"} => kind = "file"
            /\ ok /\ pc = "done" => writer # None
        BY <3>1 DEF Working, Opening, kind
      <3>4. /\ task'[t].pc \notin {"none", "check", "failed"} => kind' # "database"
            /\ task'[t].ok /\ task'[t].pc \in {"truncate", "write", "close", "done"} =>
                  kind' = "file"
            /\ task'[t].ok /\ task'[t].pc \in {"write", "close", "done"} => writer' # None
        BY <1>3, <3>2, <3>3
      <3>5. ~IsFolder(t)'
        BY <2>2
      <3>6. QED
        BY <3>4, <3>5 DEF HasMade, kind, writer
    <2>3. QED
      BY <2>1, <2>2
  <1>7. Files'
    <2>1. task[t].pc \in {"write", "close"} =>
              /\ task'[t].pc \in {"close", "done", "failed"}
              /\ task'[t].ok /\ task'[t].pc # "failed" => task[t].ok /\ task[t].pc = "close"
      BY <1>3 DEF Opening
    <2>2. task'[t].pc # "write"
      BY <1>3
    <2>3. QED
      BY <1>1, <1>2, <1>3, <2>1, <2>2, FilesKept
  <1> QED
    BY <1>1, <1>2, <1>3, <1>4, <1>5, <1>6, <1>7, TaskStep

LEMMA CheckInv ==
  ASSUME Inv, NEW t \in TaskIds, Check(t)
  PROVE  Inv'
  <1> USE Before
  <1>1. /\ task[t].pc = "check" /\ UNCHANGED <<req, call, entry, text, last, strays>>
        /\ task[t].depth = 0 /\ task[t].ok
    BY DEF Check, disk, HasWalked
  <1>2. Onward(t, 0) \in {"mkdir", "openFile"}
        /\ (Onward(t, 0) = "mkdir" => 0 < Walk(t))
        /\ (Onward(t, 0) = "openFile" => ~IsFolder(t))
    BY OnwardFacts, TaskFacts
  <1>3. CASE SafeDataPath(NodeOf(t), PathOf(t))
    <2>1. task' = [task EXCEPT ![t].pc = Onward(t, 0)]
      BY <1>3 DEF Check
    <2>2. /\ task' \in [TaskIds -> TaskType] /\ Others(t) /\ Working(t)
          /\ task'[t].pc = Onward(t, 0) /\ task'[t].ok /\ task'[t].depth = 0
      BY <1>1, <1>2, <2>1 DEF TaskType, Walking, Opening, Others, Working
    <2>3. Types' /\ Grown
      BY <1>1, <2>2, Unchanged DEF Inv, Types
    <2>4. HasWalked(t)'
      BY <1>1, <1>2, <2>2 DEF HasWalked, Walking
    <2>5. HasMade(t)'
      <3>1. entry[NodeOf(t)][PathOf(t)] # "database"
        BY <1>3 DEF SafeDataPath, IsDatabaseFile
      <3>2. QED
        BY <1>1, <1>2, <2>2, <3>1 DEF HasMade, Opening
    <2>6. Files'
      BY <1>1, <1>2, <2>2, <2>3, FilesKept
    <2>7. QED
      BY <1>1, <2>2, <2>3, <2>4, <2>5, <2>6, TaskStep
  <1>4. CASE ~SafeDataPath(NodeOf(t), PathOf(t))
    <2>1. task' = [task EXCEPT ![t].pc = "failed", ![t].ok = FALSE]
          /\ UNCHANGED <<req, call, disk>> /\ Working(t)
      BY <1>1, <1>4 DEF Check, Working
    <2>2. QED
      BY <2>1, Turned
  <1> QED
    BY <1>3, <1>4

LEMMA MkdirInv ==
  ASSUME Inv, NEW t \in TaskIds, Mkdir(t)
  PROVE  Inv'
  <1> USE Before
  <1> DEFINE n == NodeOf(t)
  <1>1. /\ task[t].pc = "mkdir" /\ UNCHANGED <<req, call, text, last, strays>>
        /\ task' = [task EXCEPT ![t].pc = "openDir"]
        /\ entry' = IF entry[n][Child(t)] = "none"
                    THEN [entry EXCEPT ![n][Child(t)] = "dir"] ELSE entry
    BY DEF Mkdir, Goto
  <1>2. task[t].depth < Walk(t) /\ task[t].ok
    BY <1>1 DEF HasWalked, Walking
  <1>3. Child(t) \in Paths
    BY <1>2, ChildFacts
  <1>4. Grown /\ entry' \in [Nodes -> [Paths -> Kinds]]
    <2>1. CASE entry[n][Child(t)] = "none"
      <3>1. "dir" \in Kinds \ {"database"}
        BY DEF Kinds
      <3>2. entry' = [entry EXCEPT ![n][Child(t)] = "dir"]
        BY <1>1, <2>1
      <3> HIDE DEF n
      <3>3. n \in Nodes /\ last' = last /\ Types
        BY <1>1 DEF n, Inv
      <3>4. QED
        BY <2>1, <3>1, <3>2, <3>3, <1>3, Taken
    <2>2. CASE entry[n][Child(t)] # "none"
      BY <2>2, <1>1, Unchanged DEF Inv, Types
    <2>3. QED
      BY <2>1, <2>2
  <1>5. /\ task' \in [TaskIds -> TaskType] /\ Others(t) /\ Working(t)
        /\ task'[t].pc = "openDir" /\ task'[t].ok /\ task'[t].depth = task[t].depth
    BY <1>1, <1>2 DEF TaskType, Walking, Others, Working
  <1>6. Types'
    BY <1>1, <1>4, <1>5 DEF Inv, Types
  <1>7. HasWalked(t)'
    <2>1. \A k \in 1..task[t].depth : SubSeq(PathOf(t), 1, k) \in Paths
      BY <1>2, TaskFacts
    <2>2. \A k \in 1..task[t].depth : entry'[n][SubSeq(PathOf(t), 1, k)] = "dir"
      BY <2>1, <1>4 DEF HasWalked, Grown
    <2>3. QED
      BY <1>1, <1>2, <1>5, <2>2 DEF HasWalked, Walking
  <1>8. HasMade(t)'
    <2>1. entry[n][PathOf(t)] # "database" => entry'[n][PathOf(t)] # "database"
      BY <1>4 DEF Grown
    <2>2. ~IsFolder(t) => entry[n][PathOf(t)] # "database"
      BY <1>1 DEF HasMade
    <2>3. QED
      BY <1>1, <1>5, <2>1, <2>2 DEF HasMade, Opening
  <1>9. Files'
    BY <1>1, <1>4, <1>5, FilesKept
  <1> QED
    BY <1>1, <1>4, <1>5, <1>6, <1>7, <1>8, <1>9, TaskStep

LEMMA OpenDirectoryInv ==
  ASSUME Inv, NEW t \in TaskIds, OpenDirectory(t)
  PROVE  Inv'
  <1> USE Before
  <1> DEFINE d == task[t].depth + 1
  <1>1. /\ task[t].pc = "openDir" /\ UNCHANGED <<req, call, entry, text, last>>
        /\ task[t].depth < Walk(t) /\ task[t].ok
    BY DEF OpenDirectory, HasWalked, Walking
  <1>2. Types /\ Grown
    BY <1>1, Unchanged DEF Inv
  <1>3. d \in Nat /\ d <= Walk(t)
    BY <1>1
  <1>4. /\ Onward(t, d) \in {"mkdir", "close", "openFile"}
        /\ Onward(t, d) = "mkdir" => d < Walk(t)
        /\ Onward(t, d) = "close" => IsFolder(t) /\ d = Walk(t)
        /\ Onward(t, d) = "openFile" => ~IsFolder(t)
    BY <1>3, OnwardFacts
  <1>5. CASE entry[NodeOf(t)][Child(t)] = "dir"
    <2>1. /\ task' = [task EXCEPT ![t].depth = @ + 1, ![t].pc = Onward(t, d)]
          /\ strays' = strays
      BY <1>5 DEF OpenDirectory
    <2> HIDE DEF d
    <2>2. d = task[t].depth + 1
      BY DEF d
    <2>3. /\ task' \in [TaskIds -> TaskType] /\ Others(t) /\ Working(t)
          /\ task'[t].pc = Onward(t, d) /\ task'[t].ok /\ task'[t].depth = d
      BY <1>1, <1>3, <1>4, <2>1, <2>2 DEF TaskType, Walking, Opening, Others, Working
    <2>4. Types'
      BY <1>1, <1>2, <2>1, <2>3 DEF Types
    <2>5. HasWalked(t)'
      <3>1. Child(t) = SubSeq(PathOf(t), 1, d)
        BY <1>1, <2>2, ChildFacts
      <3>2. \A k \in 1..d : entry[NodeOf(t)][SubSeq(PathOf(t), 1, k)] = "dir"
        <4>1. \A k \in 1..d : k \in 1..task[t].depth \/ k = d
          BY <1>3, <2>2
        <4>2. QED
          BY <1>5, <3>1, <4>1 DEF HasWalked
      <3>3. QED
        BY <1>1, <1>3, <1>4, <2>3, <3>2 DEF HasWalked, Walking
    <2>6. HasMade(t)'
      <3>1. ~IsFolder(t) => entry[NodeOf(t)][PathOf(t)] # "database"
        BY <1>1 DEF HasMade
      <3>2. QED
        BY <1>1, <1>4, <2>3, <3>1 DEF HasMade, Opening
    <2>7. Files'
      BY <1>1, <1>2, <1>4, <2>3, FilesKept
    <2>8. QED
      BY <1>1, <1>2, <2>3, <2>4, <2>5, <2>6, <2>7, TaskStep
  <1>6. CASE entry[NodeOf(t)][Child(t)] # "dir"
    <2>1. /\ task' = [task EXCEPT ![t].pc = "close", ![t].ok = FALSE]
          /\ UNCHANGED <<req, call, disk>> /\ Working(t)
      BY <1>1, <1>6 DEF OpenDirectory, Followed, Fails, Working, disk
    <2>2. QED
      BY <1>1, <2>1, Turned
  <1> QED
    BY <1>5, <1>6

LEMMA PcOnly ==
  ASSUME Types, NEW t \in TaskIds, task[t].ok, NEW pc
  PROVE  [task EXCEPT ![t].pc = pc] = [task EXCEPT ![t].pc = pc, ![t].ok = TRUE]
  <1>1. task[t] \in TaskType /\ task[t].ok = TRUE /\ task \in [TaskIds -> TaskType]
    BY DEF Types, TaskType
  <1> QED
    BY <1>1 DEF TaskType

LEMMA OpenFileInv ==
  ASSUME Inv, NEW t \in TaskIds, OpenFile(t)
  PROVE  Inv'
  <1> USE Before
  <1> DEFINE n == NodeOf(t)
             kind == entry[n][PathOf(t)]
  <1>1. /\ task[t].pc \in {"openFile", "reopen"} /\ ~IsFolder(t) /\ task[t].ok
        /\ Working(t) /\ kind # "database" /\ Types
        /\ UNCHANGED <<req, call, entry, text, last>>
    BY DEF OpenFile, HasMade, Opening, HasWalked, Working, Inv
  <1>2. CASE Goto(t, "createFile") /\ UNCHANGED strays
    <2>1. task' = [task EXCEPT ![t].pc = "createFile", ![t].ok = TRUE]
      BY <1>1, <1>2, PcOnly DEF Goto
    <2>2. QED
      BY <1>1, <1>2, <2>1, Turned DEF Opening, disk
  <1>3. CASE /\ IF Accepted(n, kind) \/ Followed(kind)
                THEN /\ task' = [task EXCEPT ![t].pc = "truncate"]
                     /\ strays' = IF kind = "link" THEN strays \cup {t} ELSE strays
                ELSE Fails(t) /\ UNCHANGED strays
    <2>1. CASE Accepted(n, kind)
      <3>1. kind = "file"
        BY <1>1, <2>1 DEF Accepted
      <3>2. UNCHANGED strays /\ task' = [task EXCEPT ![t].pc = "truncate"]
        BY <1>3, <2>1, <3>1
      <3>3. task' = [task EXCEPT ![t].pc = "truncate", ![t].ok = TRUE]
        BY <1>1, <3>2, PcOnly
      <3>4. QED
        BY <1>1, <3>1, <3>2, <3>3, Turned DEF Opening, disk
    <2>2. CASE ~Accepted(n, kind)
      <3>1. UNCHANGED strays /\ task' = [task EXCEPT ![t].pc = "close", ![t].ok = FALSE]
        BY <1>3, <2>2 DEF Followed, Fails
      <3>2. QED
        BY <1>1, <3>1, Turned DEF disk
    <2>3. QED
      BY <2>1, <2>2
  <1> QED
    BY <1>2, <1>3 DEF OpenFile

LEMMA CloseInv ==
  ASSUME Inv, NEW t \in TaskIds, Close(t)
  PROVE  Inv'
  <1> USE Before
  <1>1. /\ task[t].pc = "close" /\ Working(t) /\ UNCHANGED <<req, call, disk>> /\ Types
    BY DEF Close, Working, Inv
  <1>2. CASE task[t].ok
    <2>1. task' = [task EXCEPT ![t].pc = "done", ![t].ok = TRUE]
      BY <1>1, <1>2, PcOnly DEF Close
    <2>2. QED
      BY <1>1, <1>2, <2>1, Turned
  <1>3. CASE ~task[t].ok
    <2>1. task' = [task EXCEPT ![t].pc = "failed"]
      BY <1>3 DEF Close
    <2>2. task' = [task EXCEPT ![t].pc = "failed", ![t].ok = FALSE]
      <3>1. task[t].ok = FALSE
        BY <1>3
      <3>2. QED
        BY <2>1, <3>1 DEF TaskType
    <2>3. QED
      BY <1>1, <2>2, Turned
  <1> QED
    BY <1>2, <1>3

LEMMA DiskFailsInv ==
  ASSUME Inv, NEW t \in TaskIds, DiskFails(t)
  PROVE  Inv'
  <1>1. Working(t) /\ UNCHANGED <<req, call, disk>>
    BY DEF DiskFails, Working, Over
  <1>2. CASE task[t].pc = "check"
    <2>1. task' = [task EXCEPT ![t].pc = "failed", ![t].ok = FALSE]
      BY <1>2 DEF DiskFails
    <2>2. QED
      BY <1>1, <2>1, Turned
  <1>3. CASE task[t].pc # "check"
    <2>1. task' = [task EXCEPT ![t].pc = "close", ![t].ok = FALSE]
      BY <1>3 DEF DiskFails, Fails
    <2>2. QED
      BY <1>1, <1>3, <2>1, Turned
  <1> QED
    BY <1>2, <1>3

LEMMA CreateFileInv ==
  ASSUME Inv, NEW t \in TaskIds, CreateFile(t)
  PROVE  Inv'
  <1> USE Before
  <1> DEFINE n == NodeOf(t) p == PathOf(t)
  <1>1. /\ task[t].pc = "createFile" /\ ~IsFolder(t) /\ task[t].ok
        /\ Working(t) /\ Types /\ UNCHANGED <<req, call, last, strays>>
    BY DEF CreateFile, HasMade, Opening, HasWalked, Working, Inv
  <1>2. CASE entry[n][p] = "none"
    <2>1. /\ entry' = [entry EXCEPT ![n][p] = "file"]
          /\ text' = [text EXCEPT ![n][p] = <<>>]
          /\ task' = [task EXCEPT ![t].pc = "truncate"]
      BY <1>2 DEF CreateFile
    <2>2. Grown /\ entry' \in [Nodes -> [Paths -> Kinds]]
      <3>1. n \in Nodes /\ p \in Paths /\ "file" \in Kinds \ {"database"} /\ last' = last
        BY <1>1 DEF Kinds
      <3> HIDE DEF n, p
      <3>2. QED
        BY <1>1, <1>2, <2>1, <3>1, Taken
    <2>3. /\ task' \in [TaskIds -> TaskType] /\ Others(t)
          /\ task'[t].pc = "truncate" /\ task'[t].ok /\ task'[t].depth = task[t].depth
      BY <1>1, <2>1 DEF TaskType, Others
    <2>4. text' \in [Nodes -> [Paths -> Texts]] /\ entry'[n][p] = "file"
      <3>1. <<>> \in Texts
        BY DEF Texts
      <3> DEFINE e == <<>>
      <3>2. e \in Texts /\ text' = [text EXCEPT ![n][p] = e]
        BY <2>1, <3>1
      <3> HIDE DEF e
      <3>3. QED
        BY <1>1, <2>1, <3>2 DEF Types
    <2>5. Types'
      BY <1>1, <2>2, <2>3, <2>4 DEF Types
    <2>6. HasWalked(t)'
      <3>1. task[t].depth <= Walk(t) /\ HasWalked(t)
        BY DEF HasWalked
      <3>2. \A k \in 1..task[t].depth : SubSeq(p, 1, k) \in Paths
        BY <3>1, TaskFacts
      <3>3. \A k \in 1..task[t].depth : entry'[n][SubSeq(p, 1, k)] = "dir"
        BY <3>1, <3>2, <2>2 DEF HasWalked, Grown
      <3>4. QED
        BY <1>1, <2>3, <3>1, <3>3 DEF HasWalked, Walking
    <2>7. HasMade(t)'
      <3>1. ~IsFolder(t)'
        BY <1>1
      <3>2. entry'[NodeOf(t)'][PathOf(t)'] = "file"
        BY <2>4
      <3> HIDE DEF n, p
      <3>3. QED
        BY <2>3, <3>1, <3>2 DEF HasMade
    <2>8. Files'
      <3>1. last[n][p] = None
        BY <1>2 DEF Inv, Files, Truncated
      <3>2. \A m \in Nodes, q \in Paths : last[m][q] # None => text'[m][q] = text[m][q]
        BY <2>1, <3>1, <1>1 DEF Types
      <3>3. QED
        BY <1>1, <2>2, <2>3, <3>2, FilesKept
    <2>9. QED
      BY <1>1, <2>2, <2>3, <2>5, <2>6, <2>7, <2>8, TaskStep
  <1>3. CASE entry[n][p] # "none"
    <2>1. Goto(t, "reopen") /\ UNCHANGED <<entry, text>>
      BY <1>3 DEF CreateFile
    <2>2. task' = [task EXCEPT ![t].pc = "reopen", ![t].ok = TRUE]
      BY <1>1, <2>1, PcOnly DEF Goto
    <2>3. QED
      BY <1>1, <2>1, <2>2, Turned DEF Opening, disk
  <1> QED
    BY <1>2, <1>3

\* A file no task has touched in a step.
LEMMA FilesElsewhere ==
  ASSUME Inv, Grown, NEW n \in Nodes, NEW p \in Paths, last'[n][p] = last[n][p],
         text'[n][p] = text[n][p],
         \A u \in TaskIds : At(u, n, p) => task'[u] = task[u]
  PROVE  Truncated(n, p)'
  <1> SUFFICES ASSUME last[n][p] # None
               PROVE  Truncated(n, p)'
    BY DEF Truncated
  <1> DEFINE T == last[n][p].task
  <1>1. T \in TaskIds
    BY NoneAssumption DEF Inv, Types, Truncation
  <1>2. /\ entry[n][p] # "none" /\ At(T, n, p) /\ ~IsFolder(T)
        /\ task[T].pc \in {"write", "close", "done", "failed"}
        /\ ~last[n][p].shared => WrittenBy(T, n, p)
    BY DEF Inv, Files, Truncated
  <1>3. entry'[n][p] # "none"
    BY <1>2 DEF Grown
  <1>4. T' = T /\ task'[T] = task[T] /\ last'[n][p] = last[n][p]
    BY <1>1, <1>2
  <1>5. At(T, n, p)' = At(T, n, p) /\ IsFolder(T)' = IsFolder(T)
        /\ \A u : At(u, n, p)' = At(u, n, p)
    BY <1>4 DEF At, NodeOf, PathOf, IsFolder
  <1> HIDE DEF T
  <1>6. ASSUME WrittenBy(T, n, p)
        PROVE  WrittenBy(T, n, p)'
    BY <1>4, <1>5, <1>6 DEF WrittenBy
  <1> QED
    BY <1>2, <1>3, <1>4, <1>5, <1>6 DEF Truncated, T

LEMMA TruncateInv ==
  ASSUME Inv, NEW t \in TaskIds, Truncate(t)
  PROVE  Inv'
  <1> USE Before
  <1> DEFINE n == NodeOf(t) p == PathOf(t)
  <1>1. /\ task[t].pc = "truncate" /\ ~IsFolder(t) /\ task[t].ok /\ entry[n][p] = "file"
        /\ Working(t) /\ Types /\ UNCHANGED <<req, call, entry, strays>>
        /\ task' = [task EXCEPT ![t].pc = "write"]
        /\ n \in Nodes /\ p \in Paths
    BY DEF Truncate, HasMade, Opening, HasWalked, Working, Inv, Goto
  <1>2. /\ text' = [text EXCEPT ![n][p] = Cut(@)]
        /\ last' = [last EXCEPT ![n][p] = [task |-> t, shared |-> Shared(t)]]
    BY DEF Truncate
  <1>3. /\ task' \in [TaskIds -> TaskType] /\ Others(t)
        /\ task'[t].pc = "write" /\ task'[t].ok /\ task'[t].depth = task[t].depth
    BY <1>1 DEF TaskType, Others
  <1> DEFINE e == <<>>
  <1>4. e \in Texts /\ text' = [text EXCEPT ![n][p] = e]
    <2>1. e \in Texts
      BY DEF Texts
    <2>2. QED
      BY <1>2, <2>1 DEF Cut
  <1> DEFINE mine == [task |-> t, shared |-> Shared(t)]
  <1>5. mine \in Truncation /\ mine # None /\ mine.task = t /\ mine.shared = Shared(t)
        /\ last' = [last EXCEPT ![n][p] = mine]
    <2>1. Shared(t) \in BOOLEAN
      BY DEF Shared
    <2>2. mine \in Truncation /\ mine.task = t /\ mine.shared = Shared(t)
      BY <2>1 DEF Truncation
    <2>3. QED
      BY <1>2, <2>2, NoneAssumption DEF Truncation, TaskIds
  <1> HIDE DEF e, mine, n, p
  <1>6. /\ text' \in [Nodes -> [Paths -> Texts]] /\ text'[n][p] = e
        /\ last' \in [Nodes -> [Paths -> Truncation \cup {None}]] /\ last'[n][p] = mine
        /\ \A m \in Nodes, q \in Paths : m # n \/ q # p =>
              text'[m][q] = text[m][q] /\ last'[m][q] = last[m][q]
    BY <1>1, <1>4, <1>5 DEF Types
  <1>7. Types'
    BY <1>1, <1>3, <1>6 DEF Types
  <1>8. Grown
    <2>1. \A m \in Nodes, q \in Paths : last[m][q] # None => last'[m][q] # None
      BY <1>5, <1>6
    <2>2. QED
      BY <1>1, <2>1 DEF Grown
  <1>9. HasWalked(t)'
    BY <1>1, <1>3 DEF HasWalked, Walking
  <1>10. HasMade(t)'
    <2>1. entry'[NodeOf(t)'][PathOf(t)'] = "file" /\ last'[NodeOf(t)'][PathOf(t)'] # None
      BY <1>1, <1>5, <1>6 DEF n, p
    <2>2. QED
      BY <1>1, <1>3, <2>1 DEF HasMade
  <1>11. Truncated(n, p)'
    <2>1. At(t, n, p) /\ At(t, n, p)' /\ \A u : At(u, n, p)' = At(u, n, p)
      BY DEF At, n, p, NodeOf, PathOf
    <2>2. ASSUME ~Shared(t)
          PROVE  WrittenBy(t, n, p)'
      <3>1. ASSUME NEW u \in TaskIds, At(u, n, p), task'[u].pc = "write"
            PROVE  u = t
        <4>1. SUFFICES ASSUME u # t
                       PROVE  FALSE
          OBVIOUS
        <4>2. task[u].pc = "write" /\ NodeOf(u) = NodeOf(t) /\ PathOf(u) = PathOf(t)
          BY <3>1, <4>1, <1>3 DEF Others, At, n, p
        <4>3. QED
          BY <2>2, <4>1, <4>2 DEF Shared
      <3>2. text'[n][p] = <<>>
        BY <1>6 DEF e
      <3>3. QED
        BY <1>3, <2>1, <3>1, <3>2 DEF WrittenBy
    <2>3. entry'[n][p] # "none" /\ ~IsFolder(t)'
      BY <1>1
    <2>4. last'[n][p].task = t /\ last'[n][p].shared = Shared(t)
      BY <1>5, <1>6
    <2>5. QED
      BY <1>3, <2>1, <2>2, <2>3, <2>4 DEF Truncated
  <1>12. Files'
    <2>1. ASSUME NEW m \in Nodes, NEW q \in Paths, m # n \/ q # p
          PROVE  Truncated(m, q)'
      <3>1. \A u \in TaskIds : At(u, m, q) => task'[u] = task[u]
        BY <2>1, <1>3 DEF At, Others, n, p
      <3>2. QED
        BY <2>1, <3>1, <1>6, <1>8, FilesElsewhere
    <2>2. QED
      BY <1>11, <2>1 DEF Files
  <1> QED
    BY <1>1, <1>3, <1>7, <1>8, <1>9, <1>10, <1>12, TaskStep

LEMMA WriteFileInv ==
  ASSUME Inv, NEW t \in TaskIds, WriteFile(t)
  PROVE  Inv'
  <1> USE Before
  <1> DEFINE n == NodeOf(t) p == PathOf(t) new == Asked[t[3]].text
  <1>1. /\ task[t].pc = "write" /\ ~IsFolder(t) /\ task[t].ok /\ entry[n][p] = "file"
        /\ last[n][p] # None
        /\ Working(t) /\ Types /\ UNCHANGED <<req, call, entry, last, strays>>
        /\ task' = [task EXCEPT ![t].pc = "close"]
        /\ n \in Nodes /\ p \in Paths /\ new \in Texts
    BY TaskFacts DEF WriteFile, HasMade, Opening, HasWalked, Working, Inv, Goto
  <1>2. text' = [text EXCEPT ![n][p] = Overlay(new, text[n][p])]
    BY DEF WriteFile
  <1>3. /\ task' \in [TaskIds -> TaskType] /\ Others(t)
        /\ task'[t].pc = "close" /\ task'[t].ok /\ task'[t].depth = task[t].depth
    BY <1>1 DEF TaskType, Others
  <1>4. /\ Overlay(new, text[n][p]) \in Texts
        /\ text[n][p] = <<>> => Overlay(new, text[n][p]) = new
    BY <1>1, OverlayFacts DEF Types
  <1> HIDE DEF n, p, new
  <1>6. /\ text' \in [Nodes -> [Paths -> Texts]] /\ text'[n][p] = Overlay(new, text[n][p])
        /\ \A m \in Nodes, q \in Paths : m # n \/ q # p => text'[m][q] = text[m][q]
    BY <1>1, <1>2, <1>4 DEF Types
  <1>7. Types' /\ Grown
    BY <1>1, <1>3, <1>6, Unchanged DEF Types
  <1>8. HasWalked(t)'
    BY <1>1, <1>3 DEF HasWalked, Walking
  <1>9. HasMade(t)'
    <2>1. entry'[NodeOf(t)'][PathOf(t)'] = "file" /\ last'[NodeOf(t)'][PathOf(t)'] # None
      BY <1>1 DEF n, p
    <2>2. QED
      BY <1>1, <1>3, <2>1 DEF HasMade
  <1>10. Truncated(n, p)'
    <2> DEFINE T == last[n][p].task
    <2>1. T \in TaskIds
      BY <1>1, NoneAssumption DEF Types, Truncation
    <2>2. /\ At(T, n, p) /\ ~IsFolder(T)
          /\ task[T].pc \in {"write", "close", "done", "failed"}
          /\ ~last[n][p].shared => WrittenBy(T, n, p)
      BY <1>1 DEF Inv, Files, Truncated
    <2>3. At(t, n, p) /\ (\A u : At(u, n, p)' = At(u, n, p)) /\ T' = T
          /\ IsFolder(T)' = IsFolder(T) /\ last'[n][p] = last[n][p]
      BY <1>1 DEF At, n, p, NodeOf, PathOf, IsFolder
    <2>4. task'[T].pc \in {"write", "close", "done", "failed"}
      BY <2>1, <2>2, <1>3 DEF Others
    <2>5. ASSUME ~last[n][p].shared
          PROVE  WrittenBy(T, n, p)'
      <3>1. T = t /\ text[n][p] = <<>>
        BY <1>1, <2>2, <2>3, <2>5 DEF WrittenBy
      <3>2. \A u \in TaskIds : At(u, n, p) /\ task'[u].pc = "write" => u = t
        BY <1>3, <2>2, <2>5, <3>1 DEF WrittenBy, Others
      <3>3. text'[n][p] = new
        BY <1>4, <1>6, <3>1
      <3> HIDE DEF T
      <3>4. QED
        BY <1>3, <2>3, <3>1, <3>2, <3>3 DEF WrittenBy, new
    <2> HIDE DEF T
    <2>6. QED
      BY <1>1, <2>2, <2>3, <2>4, <2>5 DEF Truncated, T
  <1>11. Files'
    <2>1. ASSUME NEW m \in Nodes, NEW q \in Paths, m # n \/ q # p
          PROVE  Truncated(m, q)'
      <3>1. \A u \in TaskIds : At(u, m, q) => task'[u] = task[u]
        BY <2>1, <1>3 DEF At, Others, n, p
      <3>2. QED
        BY <2>1, <3>1, <1>1, <1>6, <1>7, FilesElsewhere
    <2>2. QED
      BY <1>10, <2>1 DEF Files
  <1> QED
    BY <1>1, <1>3, <1>7, <1>8, <1>9, <1>11, TaskStep

-----------------------------------------------------------------------------
(* The backend, and what others put on a disk.                             *)

LEMMA WorkKept ==
  ASSUME Inv, Grown, UNCHANGED <<task, text, last>>
  PROVE  Progress' /\ Files'
  <1>1. \A u \in TaskIds : (HasWalked(u) /\ HasMade(u))'
    BY ProgressStands
  <1>2. \A n \in Nodes, p \in Paths : Truncated(n, p)'
    BY FilesElsewhere
  <1> QED
    BY <1>1, <1>2 DEF Progress, Files

\* Only one request goes on.
LEMMA OthersAnswers ==
  ASSUME Inv, Types', Grown, NEW r \in Requests, AnsweredWell(r)',
         \A r2 \in Requests \ {r} : req'[r2] = req[r2]
  PROVE  (FoldersAreThere /\ FilesAreEverywhere)'
  <1>1. \A r2 \in Requests : AnsweredWell(r2)'
    BY AnsweredStands
  <1> QED
    BY <1>1 DEF FoldersAreThere, FilesAreEverywhere, AnsweredWell, HasFolders, HasFiles

\* The record of one request changes, and nothing else.
LEMMA RequestStep ==
  ASSUME Inv, NEW r \in Requests, NEW record \in RequestType,
         req' = [req EXCEPT ![r] = record], UNCHANGED <<call, task, disk>>,
         record.pc \notin {"idle"}, record.job \in Jobs,
         record.pc # "answered" => ~record.ok /\ record.success = 0,
         req[r].pc # "idle" => record.job = req[r].job,
         record.pc = "nodes" => req[r].pc = "idle",
         AnsweredWell(r)'
  PROVE  Inv'
  <1>1. /\ UNCHANGED <<entry, text, last, strays>> /\ Types
        /\ req'[r] = record /\ \A r2 \in Requests \ {r} : req'[r2] = req[r2]
    BY DEF disk, Inv, Types
  <1>2. Types' /\ Grown
    BY <1>1, Unchanged DEF Types
  <1>3. Promises'
    <2>1. ASSUME NEW q \in Requests, NEW n \in Nodes
          PROVE  PromiseOf(q, n)'
      <3>1. PromiseOf(q, n)
        BY <2>1 DEF Inv, Promises
      <3>2. CASE q # r
        <4>1. TasksOf(q, n)' = TasksOf(q, n)
          BY <1>1, <2>1, <3>2 DEF TasksOf
        <4>2. QED
          BY <1>1, <2>1, <3>1, <3>2, <4>1 DEF PromiseOf
      <3>3. CASE q = r
        <4>1. req[r].pc = "idle" => call[r][n] = "none"
          BY <3>1, <3>3 DEF PromiseOf
        <4>2. req[r].pc # "idle" => TasksOf(q, n)' = TasksOf(q, n)
          BY <1>1, <3>3 DEF TasksOf
        <4>3. QED
          BY <1>1, <3>1, <3>3, <4>1, <4>2 DEF PromiseOf
      <3>4. QED
        BY <3>2, <3>3
    <2>2. QED
      BY <1>1, <2>1 DEF Inv, Promises
  <1>4. Progress' /\ Files'
    BY <1>1, <1>2, WorkKept
  <1>5. (FoldersAreThere /\ FilesAreEverywhere)'
    BY <1>1, <1>2, OthersAnswers
  <1> QED
    BY <1>2, <1>3, <1>4, <1>5 DEF Inv

LEMMA ReceiveInv ==
  ASSUME Inv, NEW r \in Requests, Receive(r)
  PROVE  Inv'
  <1>1. /\ req[r].pc = "idle" /\ ~req[r].ok /\ req[r].success = 0 /\ req[r] \in RequestType
        /\ UNCHANGED <<call, task, disk>> /\ req \in [Requests -> RequestType]
    BY DEF Receive, Inv, Types, Promises
  <1>2. CASE \E job \in Jobs : /\ job.op = "files" /\ job.items = {}
                               /\ req' = [req EXCEPT ![r] = [@ EXCEPT !.pc = "answered",
                                                            !.job = job, !.ok = TRUE]]
    <2>1. PICK job \in Jobs : /\ job.op = "files" /\ job.items = {}
                              /\ req' = [req EXCEPT ![r] = [@ EXCEPT !.pc = "answered",
                                                           !.job = job, !.ok = TRUE]]
      BY <1>2
    <2> DEFINE record == [req[r] EXCEPT !.pc = "answered", !.job = job, !.ok = TRUE]
    <2>2. /\ record \in RequestType /\ record.job = job /\ record.pc = "answered"
          /\ req' = [req EXCEPT ![r] = record]
      BY <1>1, <2>1 DEF RequestType
    <2> HIDE DEF record
    <2>3. req'[r] = record
      BY <1>1, <2>2
    <2>4. AnsweredWell(r)'
      BY <2>1, <2>2, <2>3 DEF AnsweredWell, HasFiles
    <2>5. QED
      BY <1>1, <2>2, <2>4, RequestStep
  <1>3. CASE \E job \in Jobs :
                req' = [req EXCEPT ![r] = [@ EXCEPT !.pc = "nodes", !.job = job]]
    <2>1. PICK job \in Jobs :
              req' = [req EXCEPT ![r] = [@ EXCEPT !.pc = "nodes", !.job = job]]
      BY <1>3
    <2> DEFINE record == [req[r] EXCEPT !.pc = "nodes", !.job = job]
    <2>2. /\ record \in RequestType /\ record.job = job /\ record.pc = "nodes"
          /\ ~record.ok /\ record.success = 0
          /\ req' = [req EXCEPT ![r] = record]
      BY <1>1, <2>1 DEF RequestType
    <2> HIDE DEF record
    <2>3. req'[r] = record
      BY <1>1, <2>2
    <2>4. AnsweredWell(r)'
      BY <2>2, <2>3 DEF AnsweredWell
    <2>5. QED
      BY <1>1, <2>2, <2>4, RequestStep
  <1> QED
    BY <1>2, <1>3 DEF Receive

\* The work on the items of a node begins.
LEMMA Begun ==
  ASSUME Inv, UNCHANGED disk, NEW r \in Requests, NEW n \in Nodes,
         \A t \in TasksOf(r, n) : task[t] = Quiet,
         task' = [t \in TaskIds |-> IF t \in TasksOf(r, n)
                                    THEN [Quiet EXCEPT !.pc = "check"] ELSE task[t]]
  PROVE  /\ task' \in [TaskIds -> TaskType] /\ Grown /\ Progress' /\ Files'
         /\ \A t \in TaskIds : t \notin TasksOf(r, n) => task'[t] = task[t]
  <1>1. UNCHANGED <<entry, text, last>> /\ Grown
    BY Unchanged DEF disk
  <1>2. /\ task' \in [TaskIds -> TaskType]
        /\ \A t \in TaskIds : t \notin TasksOf(r, n) => task'[t] = task[t]
        /\ \A t \in TasksOf(r, n) :
              task'[t].pc = "check" /\ task'[t].depth = 0 /\ task'[t].ok
    BY DEF Inv, Types, TaskType, Quiet, TasksOf
  <1>3. ASSUME NEW t \in TaskIds
        PROVE  (HasWalked(t) /\ HasMade(t))'
    <2>1. CASE t \in TasksOf(r, n)
      <3>1. Walk(t)' \in Nat
        BY <1>3, Before
      <3>2. task'[t].pc = "check" /\ task'[t].depth = 0 /\ task'[t].ok
        BY <1>2, <2>1
      <3>3. HasWalked(t)'
        BY <3>1, <3>2 DEF HasWalked, Walking
      <3>4. HasMade(t)'
        BY <3>2 DEF HasMade, Opening
      <3>5. QED
        BY <3>3, <3>4
    <2>2. CASE t \notin TasksOf(r, n)
      BY <1>1, <1>2, <1>3, <2>2, ProgressStands
    <2>3. QED
      BY <2>1, <2>2
  <1>4. ASSUME NEW m \in Nodes, NEW q \in Paths, last[m][q] # None
        PROVE  Truncated(m, q)'
    <2> DEFINE T == last[m][q].task
    <2>1. T \in TaskIds
      BY <1>4, NoneAssumption DEF Inv, Types, Truncation
    <2>2. /\ entry[m][q] # "none" /\ At(T, m, q) /\ ~IsFolder(T)
          /\ task[T].pc \in {"write", "close", "done", "failed"}
          /\ ~last[m][q].shared => WrittenBy(T, m, q)
      BY <1>4 DEF Inv, Files, Truncated
    <2>3. T' = T /\ (\A u : At(u, m, q)' = At(u, m, q)) /\ IsFolder(T)' = IsFolder(T)
      BY <1>1 DEF At, NodeOf, PathOf, IsFolder
    <2>4. task'[T] = task[T]
      BY <1>2, <2>1, <2>2 DEF Quiet
    <2> HIDE DEF T
    <2>5. ASSUME WrittenBy(T, m, q)
          PROVE  WrittenBy(T, m, q)'
      <3>1. \A u \in TaskIds : At(u, m, q) /\ task'[u].pc = "write" => u = T
        BY <1>2, <2>5 DEF WrittenBy
      <3>2. QED
        BY <1>1, <2>3, <2>4, <2>5, <3>1 DEF WrittenBy
    <2>6. QED
      BY <1>1, <2>2, <2>3, <2>4, <2>5 DEF Truncated, T
  <1>5. \A m \in Nodes, q \in Paths : Truncated(m, q)'
    BY <1>1, <1>4 DEF Truncated
  <1> QED
    BY <1>1, <1>2, <1>3, <1>5 DEF Progress, Files

LEMMA ListNodesInv ==
  ASSUME Inv, NEW r \in Requests, ListNodes(r)
  PROVE  Inv'
  <1>1. /\ req[r].pc = "nodes" /\ ~req[r].ok /\ req[r].success = 0 /\ req[r].job \in Jobs
        /\ req[r] \in RequestType /\ UNCHANGED disk /\ Types
        /\ req \in [Requests -> RequestType]
        /\ \A n \in Nodes : call[r][n] = "none"
    BY DEF ListNodes, Inv, Types, Promises, PromiseOf
  <1>2. CASE /\ req' = [req EXCEPT ![r].pc = "answered"] /\ UNCHANGED <<call, task>>
    <2> DEFINE record == [req[r] EXCEPT !.pc = "answered"]
    <2>1. /\ record \in RequestType /\ record.job = req[r].job /\ record.pc = "answered"
          /\ ~record.ok /\ record.success = 0
          /\ req' = [req EXCEPT ![r] = record]
      BY <1>1, <1>2 DEF RequestType
    <2> HIDE DEF record
    <2>2. req'[r] = record
      BY <1>1, <2>1
    <2>3. Cardinality(HasFolders(r)') \in Nat
      <3>1. HasFolders(r)' \in SUBSET Nodes
        BY DEF HasFolders
      <3>2. IsFiniteSet(HasFolders(r)')
        BY <3>1, LocalAssumption, FS_Subset
      <3>3. QED
        BY <3>2, FS_CardinalityType
    <2>4. AnsweredWell(r)'
      BY <2>1, <2>2, <2>3 DEF AnsweredWell
    <2>5. QED
      BY <1>1, <1>2, <2>1, <2>4, RequestStep
  <1>3. CASE /\ req' = [req EXCEPT ![r].pc = "wait"]
             /\ call' = [call EXCEPT ![r] =
                   [n \in Nodes |-> IF n = Local THEN "sent" ELSE "resolve"]]
             /\ task' = [t \in TaskIds |->
                   IF t \in TasksOf(r, Local) THEN [Quiet EXCEPT !.pc = "check"] ELSE task[t]]
    <2>1. \A t \in TasksOf(r, Local) : task[t] = Quiet
      <3>1. \A i \in Items : task[<<r, Local, i>>] = Quiet
        BY <1>1, LocalAssumption DEF Inv, Promises, PromiseOf
      <3>2. QED
        BY <3>1 DEF TasksOf, TaskIds
    <2>2. /\ task' \in [TaskIds -> TaskType] /\ Grown /\ Progress' /\ Files'
          /\ \A t \in TaskIds : t \notin TasksOf(r, Local) => task'[t] = task[t]
      BY <1>1, <1>3, <2>1, LocalAssumption, Begun
    <2>3. /\ req'[r].pc = "wait" /\ req'[r].job = req[r].job /\ req'[r].ok = req[r].ok
          /\ req'[r].success = req[r].success /\ req' \in [Requests -> RequestType]
          /\ \A q \in Requests \ {r} : req'[q] = req[q]
      BY <1>1, <1>3 DEF RequestType
    <2>4. /\ call' \in [Requests -> [Nodes -> {"none", "resolve", "sent", "ok", "failed"}]]
          /\ \A n \in Nodes : call'[r][n] = IF n = Local THEN "sent" ELSE "resolve"
          /\ \A q \in Requests \ {r} : call'[q] = call[q]
      BY <1>1, <1>3 DEF Types
    <2>5. Types'
      BY <1>1, <2>2, <2>3, <2>4 DEF Types, disk
    <2>6. ASSUME NEW q \in Requests, NEW n \in Nodes
          PROVE  PromiseOf(q, n)'
      <3>1. PromiseOf(q, n)
        BY <2>6 DEF Inv, Promises
      <3>2. q # r \/ n # Local => \A t \in TasksOf(q, n) : task'[t] = task[t]
        BY <2>2 DEF TasksOf
      <3>3. q # r \/ n # Local => \A i \in Items : task'[<<q, n, i>>] = task[<<q, n, i>>]
        BY <2>2, <2>6 DEF TasksOf, TaskIds
      <3>4. CASE q # r
        <4>1. TasksOf(q, n)' = TasksOf(q, n)
          BY <2>3, <2>6, <3>4 DEF TasksOf
        <4>2. QED
          BY <2>3, <2>4, <2>6, <3>1, <3>2, <3>3, <3>4, <4>1 DEF PromiseOf
      <3>5. CASE q = r /\ n # Local
        BY <1>1, <2>3, <2>4, <2>6, <3>1, <3>3, <3>5 DEF PromiseOf
      <3>6. CASE q = r /\ n = Local
        BY <2>3, <2>4, <2>6, <3>6 DEF PromiseOf
      <3>7. QED
        BY <3>4, <3>5, <3>6
    <2>7. Promises'
      BY <1>1, <2>3, <2>6 DEF Inv, Promises
    <2>8. AnsweredWell(r)'
      BY <2>3 DEF AnsweredWell
    <2>9. (FoldersAreThere /\ FilesAreEverywhere)'
      BY <2>2, <2>3, <2>5, <2>8, OthersAnswers
    <2>10. QED
      BY <2>2, <2>5, <2>7, <2>9 DEF Inv
  <1> QED
    BY <1>2, <1>3 DEF ListNodes

\* One promise changes, and perhaps the tasks behind it.
LEMMA CallStep ==
  ASSUME Inv, UNCHANGED <<req, disk>>, NEW r \in Requests, NEW n \in Nodes,
         NEW outcome \in {"sent", "ok", "failed"}, call' = [call EXCEPT ![r][n] = outcome],
         call[r][n] \in {"resolve", "sent"},
         task' \in [TaskIds -> TaskType], Progress', Files',
         \A t \in TaskIds : t \notin TasksOf(r, n) => task'[t] = task[t],
         outcome = "ok" => \A t \in TasksOf(r, n) : task'[t].pc = "done"
  PROVE  Inv'
  <1>1. UNCHANGED <<entry, text, last, strays>> /\ Types
    BY DEF disk, Inv
  <1>2. Grown
    BY <1>1, Unchanged
  <1>3. /\ call' \in [Requests -> [Nodes -> {"none", "resolve", "sent", "ok", "failed"}]]
        /\ call'[r][n] = outcome
        /\ \A q \in Requests, m \in Nodes : q # r \/ m # n => call'[q][m] = call[q][m]
    BY <1>1 DEF Types
  <1>4. Types'
    BY <1>1, <1>3 DEF Types
  <1>5. ASSUME NEW q \in Requests, NEW m \in Nodes
        PROVE  PromiseOf(q, m)'
    <2>1. PromiseOf(q, m) /\ TasksOf(q, m)' = TasksOf(q, m)
      BY <1>5 DEF Inv, Promises, TasksOf
    <2>2. CASE q = r /\ m = n
      BY <1>3, <2>1, <2>2 DEF PromiseOf
    <2>3. CASE q # r \/ m # n
      <3>1. \A t \in TasksOf(q, m) : task'[t] = task[t]
        BY <2>3 DEF TasksOf
      <3>2. \A i \in Items : task'[<<q, m, i>>] = task[<<q, m, i>>]
        BY <1>5, <2>3 DEF TasksOf, TaskIds
      <3>3. call'[q][m] = call[q][m]
        BY <1>3, <1>5, <2>3
      <3>4. QED
        BY <2>1, <3>1, <3>2, <3>3 DEF PromiseOf
    <2>4. QED
      BY <2>2, <2>3
  <1>6. Promises'
    BY <1>5 DEF Inv, Promises
  <1>7. (FoldersAreThere /\ FilesAreEverywhere)'
    BY <1>2, <1>4, AnswersKept
  <1> QED
    BY <1>4, <1>6, <1>7 DEF Inv

LEMMA ResolveInv ==
  ASSUME Inv, NEW r \in Requests, NEW n \in Nodes, Resolve(r, n)
  PROVE  Inv'
  <1>1. UNCHANGED <<req, disk>> /\ call[r][n] = "resolve" /\ task \in [TaskIds -> TaskType]
    BY DEF Resolve, Inv, Types
  <1>2. CASE /\ call' = [call EXCEPT ![r][n] = "sent"]
             /\ task' = [t \in TaskIds |->
                   IF t \in TasksOf(r, n) THEN [Quiet EXCEPT !.pc = "check"] ELSE task[t]]
    <2>1. \A t \in TasksOf(r, n) : task[t] = Quiet
      <3>1. \A i \in Items : task[<<r, n, i>>] = Quiet
        BY <1>1 DEF Inv, Promises, PromiseOf
      <3>2. QED
        BY <3>1 DEF TasksOf, TaskIds
    <2>2. /\ task' \in [TaskIds -> TaskType] /\ Grown /\ Progress' /\ Files'
          /\ \A t \in TaskIds : t \notin TasksOf(r, n) => task'[t] = task[t]
      BY <1>1, <1>2, <2>1, Begun
    <2>3. QED
      BY <1>1, <1>2, <2>2, CallStep
  <1>3. CASE call' = [call EXCEPT ![r][n] = "failed"] /\ UNCHANGED task
    <2>1. Progress' /\ Files'
      BY <1>1, <1>3, Unchanged, WorkKept DEF disk
    <2>2. QED
      BY <1>1, <1>3, <2>1, CallStep
  <1> QED
    BY <1>2, <1>3 DEF Resolve

LEMMA SettleInv ==
  ASSUME Inv, NEW r \in Requests, NEW n \in Nodes, Settle(r, n) \/ Timeout(r, n)
  PROVE  Inv'
  <1>1. /\ UNCHANGED <<req, task, disk>> /\ call[r][n] \in {"resolve", "sent"}
        /\ task \in [TaskIds -> TaskType]
    BY DEF Settle, Timeout, Inv, Types
  <1>2. PICK outcome \in {"ok", "failed"} :
            /\ call' = [call EXCEPT ![r][n] = outcome]
            /\ outcome = "ok" => \A t \in TasksOf(r, n) : task[t].pc = "done"
    BY DEF Settle, Timeout, Served
  <1>3. Progress' /\ Files'
    BY <1>1, Unchanged, WorkKept DEF disk
  <1>4. outcome \in {"sent", "ok", "failed"}
    OBVIOUS
  <1> QED
    BY <1>1, <1>2, <1>3, <1>4, CallStep

\* What a promise that is kept says of the disk.
LEMMA OkIsThere ==
  ASSUME Inv, NEW r \in Requests, NEW n \in Nodes, req[r].pc # "idle", call[r][n] = "ok",
         NEW i \in req[r].job.items
  PROVE  /\ req[r].job.op = "folders" => entry[n][Asked[i].path] = "dir"
         /\ req[r].job.op = "files" =>
               entry[n][Asked[i].path] = "file" /\ last[n][Asked[i].path] # None
  <1> DEFINE t == <<r, n, i>>
  <1>1. /\ req[r].job \in Jobs /\ i \in Items
        /\ Asked[i].text = None <=> req[r].job.op = "folders"
    BY JobsAssumption DEF Inv, Promises
  <1>2. /\ t \in TaskIds /\ t \in TasksOf(r, n)
        /\ NodeOf(t) = n /\ PathOf(t) = Asked[i].path
        /\ IsFolder(t) <=> req[r].job.op = "folders"
    BY <1>1 DEF TaskIds, TasksOf, NodeOf, PathOf, IsFolder
  <1> HIDE DEF t
  <1>3. task[t].pc = "done"
    BY <1>2 DEF Inv, Promises, PromiseOf
  <1>4. HasWalked(t) /\ HasMade(t) /\ task[t].ok
    BY <1>2, <1>3 DEF Inv, Progress, HasWalked
  <1>5. CASE req[r].job.op = "folders"
    <2>1. task[t].depth = Len(PathOf(t)) /\ Len(PathOf(t)) \in Nat \ {0}
      BY <1>2, <1>3, <1>4, <1>5, TaskFacts DEF HasMade
    <2>2. entry[n][SubSeq(PathOf(t), 1, Len(PathOf(t)))] = "dir"
      BY <1>2, <1>4, <2>1 DEF HasWalked
    <2>3. QED
      BY <1>2, <1>5, <2>2, TaskFacts
  <1>6. CASE req[r].job.op # "folders"
    <2>1. /\ entry[NodeOf(t)][PathOf(t)] = "file"
          /\ last[NodeOf(t)][PathOf(t)] # None
      BY <1>2, <1>3, <1>4, <1>6 DEF HasMade
    <2>2. QED
      BY <1>2, <1>6, <2>1
  <1> QED
    BY <1>5, <1>6

LEMMA AnswerInv ==
  ASSUME Inv, NEW r \in Requests, Answer(r)
  PROVE  Inv'
  <1>1. /\ req[r].pc = "wait" /\ req[r].job \in Jobs /\ UNCHANGED <<call, task, disk>>
        /\ req[r] \in RequestType /\ req \in [Requests -> RequestType]
        /\ UNCHANGED <<entry, last>>
    BY DEF Answer, AnswerFolders, AnswerFiles, Inv, Types, Promises, disk
  <1>2. CASE AnswerFolders(r)
    <2> DEFINE count == Cardinality(With(r, "ok"))
               some == With(r, "ok") # {}
               record == [req[r] EXCEPT !.pc = "answered", !.ok = some, !.success = count]
    <2>1. With(r, "ok") \in SUBSET Nodes /\ IsFiniteSet(Nodes)
      BY LocalAssumption DEF With
    <2>2. count \in Nat /\ Cardinality(Nodes) \in Nat /\ count <= Cardinality(Nodes)
      BY <2>1, FS_Subset, FS_CardinalityType
    <2>3. req' = [req EXCEPT ![r].pc = "answered", ![r].ok = some, ![r].success = count]
      BY <1>2 DEF AnswerFolders
    <2>4. some \in BOOLEAN /\ count \in 0..Cardinality(Nodes)
      BY <2>2
    <2> HIDE DEF count, some
    <2>5. /\ record \in RequestType /\ record.job = req[r].job /\ record.pc = "answered"
          /\ record.success = count /\ req' = [req EXCEPT ![r] = record]
      BY <1>1, <2>3, <2>4 DEF RequestType
    <2> HIDE DEF record
    <2>6. req'[r] = record
      BY <1>1, <2>5
    <2>7. count <= Cardinality(HasFolders(r)')
      <3>1. With(r, "ok") \in SUBSET (HasFolders(r)')
        <4>1. req[r].job.op = "folders"
          BY <1>2 DEF AnswerFolders
        <4>2. \A n \in With(r, "ok") : \A i \in req[r].job.items :
                  entry[n][Asked[i].path] = "dir"
          BY <1>1, <4>1, OkIsThere DEF With
        <4>3. QED
          BY <1>1, <2>1, <2>5, <2>6, <4>2 DEF HasFolders
      <3>2. IsFiniteSet(HasFolders(r)')
        <4>1. HasFolders(r)' \in SUBSET Nodes
          BY DEF HasFolders
        <4>2. QED
          BY <2>1, <4>1, FS_Subset
      <3>3. QED
        BY <3>1, <3>2, FS_Subset DEF count
    <2>8. AnsweredWell(r)'
      <3>1. req[r].job.op = "folders"
        BY <1>2 DEF AnswerFolders
      <3>2. QED
        BY <2>5, <2>6, <2>7, <3>1 DEF AnsweredWell
    <2>9. QED
      BY <1>1, <2>5, <2>8, RequestStep
  <1>3. CASE AnswerFiles(r)
    <2> DEFINE record == [req[r] EXCEPT !.pc = "answered", !.ok = Written(r)]
    <2>1. Written(r) \in BOOLEAN
      BY DEF Written
    <2>2. /\ record \in RequestType /\ record.job = req[r].job /\ record.pc = "answered"
          /\ record.ok = Written(r) /\ req' = [req EXCEPT ![r] = record]
      BY <1>1, <1>3, <2>1 DEF RequestType, AnswerFiles
    <2> HIDE DEF record
    <2>3. req'[r] = record /\ req[r].job.op = "files"
      BY <1>1, <1>3, <2>2 DEF AnswerFiles
    <2>4. ASSUME Written(r)
          PROVE  HasFiles(r)'
      <3>1. \A n \in Nodes : call[r][n] = "ok"
        BY <2>4 DEF Written, With
      <3>2. \A n \in Nodes, i \in req[r].job.items :
                entry[n][Asked[i].path] = "file" /\ last[n][Asked[i].path] # None
        BY <1>1, <2>3, <3>1, OkIsThere
      <3>3. QED
        BY <1>1, <2>2, <2>3, <3>2 DEF HasFiles
    <2>5. AnsweredWell(r)'
      BY <2>2, <2>3, <2>4 DEF AnsweredWell
    <2>6. QED
      BY <1>1, <2>2, <2>5, RequestStep
  <1> QED
    BY <1>2, <1>3 DEF Answer

LEMMA AppearInv ==
  ASSUME Inv, NEW n \in Nodes, NEW p \in Paths, Appear(n, p)
  PROVE  Inv'
  <1>1. /\ entry[n][p] = "none" /\ UNCHANGED <<req, call, task, text, last, strays>> /\ Types
        /\ \E kind \in Kinds \ {"database"} : entry' = [entry EXCEPT ![n][p] = kind]
    BY BoundsAssumption DEF Appear, Inv
  <1>2. Grown /\ entry' \in [Nodes -> [Paths -> Kinds]]
    BY <1>1, Taken
  <1>3. Types'
    BY <1>1, <1>2 DEF Types
  <1>4. Promises'
    <2>1. \A r \in Requests, m \in Nodes : TasksOf(r, m)' = TasksOf(r, m)
      BY <1>1 DEF TasksOf
    <2>2. QED
      BY <1>1, <2>1 DEF Inv, Promises, PromiseOf
  <1>5. Progress' /\ Files'
    BY <1>1, <1>2, WorkKept
  <1>6. (FoldersAreThere /\ FilesAreEverywhere)'
    BY <1>1, <1>2, <1>3, AnswersKept
  <1> QED
    BY <1>3, <1>4, <1>5, <1>6 DEF Inv

-----------------------------------------------------------------------------
(* The theorems.                                                           *)

LEMMA InitInv ==
  Init => Inv
  <1> SUFFICES ASSUME Init
               PROVE  Inv
    OBVIOUS
  <1>1. Types
    <2>1. req \in [Requests -> RequestType]
      <3>1. 0 \in 0..Cardinality(Nodes)
        BY LocalAssumption, FS_CardinalityType
      <3>2. QED
        BY <3>1 DEF Init, RequestType
    <2>2. task \in [TaskIds -> TaskType]
      BY DEF Init, Quiet, TaskType
    <2>3. entry \in [Nodes -> [Paths -> Kinds]] /\ text \in [Nodes -> [Paths -> Texts]]
      BY DisksAssumption DEF Init
    <2>4. QED
      BY <2>1, <2>2, <2>3 DEF Init, Types
  <1>2. Promises
    BY DEF Init, Promises, PromiseOf, TaskIds
  <1>3. Progress
    <2>1. ASSUME NEW t \in TaskIds
          PROVE  HasWalked(t) /\ HasMade(t)
      <3>1. task[t] = Quiet /\ Walk(t) \in Nat
        BY <2>1, TaskFacts DEF Init
      <3>2. task[t].pc = "none" /\ task[t].depth = 0 /\ task[t].ok
        BY <3>1 DEF Quiet
      <3>3. QED
        BY <3>1, <3>2 DEF HasWalked, HasMade, Walking, Opening
    <2>2. QED
      BY <2>1 DEF Progress
  <1>4. Files
    BY DEF Init, Files, Truncated
  <1>5. FoldersAreThere /\ FilesAreEverywhere
    BY DEF Init, FoldersAreThere, FilesAreEverywhere
  <1> QED
    BY <1>1, <1>2, <1>3, <1>4, <1>5 DEF Inv

LEMMA NextInv ==
  ASSUME Inv, [Next]_vars
  PROVE  Inv'
  <1>1. CASE UNCHANGED vars
    <2>1. UNCHANGED <<req, call, task, entry, text, last, strays>>
      BY <1>1 DEF vars, disk
    <2>2. Types' /\ Grown
      BY <2>1, Unchanged DEF Inv, Types
    <2>3. Promises'
      <3>1. \A r \in Requests, m \in Nodes : TasksOf(r, m)' = TasksOf(r, m)
        BY <2>1 DEF TasksOf
      <3>2. QED
        BY <2>1, <3>1 DEF Inv, Promises, PromiseOf
    <2>4. QED
      BY <2>1, <2>2, <2>3, WorkKept, AnswersKept DEF Inv
  <1>2. CASE \E r \in Requests : Receive(r) \/ ListNodes(r) \/ Answer(r)
    BY <1>2, ReceiveInv, ListNodesInv, AnswerInv
  <1>3. CASE \E r \in Requests, n \in Nodes : Resolve(r, n) \/ Settle(r, n) \/ Timeout(r, n)
    BY <1>3, ResolveInv, SettleInv
  <1>4. CASE \E t \in TaskIds : Step(t) \/ DiskFails(t)
    <2>1. PICK t \in TaskIds : Step(t) \/ DiskFails(t)
      BY <1>4
    <2>2. QED
      BY <2>1, CheckInv, MkdirInv, OpenDirectoryInv, OpenFileInv, CreateFileInv,
         TruncateInv, WriteFileInv, CloseInv, DiskFailsInv DEF Step
  <1>5. CASE \E n \in Nodes, p \in Paths : Appear(n, p)
    BY <1>5, AppearInv
  <1> QED
    BY <1>1, <1>2, <1>3, <1>4, <1>5 DEF Next

THEOREM InvHolds == Spec => []Inv
  <1>1. Init => Inv
    BY InitInv
  <1>2. Inv /\ [Next]_vars => Inv'
    BY NextInv
  <1> QED
    BY <1>1, <1>2, PTL DEF Spec

LEMMA InvImplies ==
  ASSUME Inv
  PROVE  TypeOK /\ LastWriterWins
  <1>1. TypeOK
    <2>1. \A r \in Requests : req[r] \in RequestType
      BY DEF Inv, Types
    <2>2. \A t \in TaskIds : task[t].depth \in 0..Walk(t)
      <3>1. \A t \in TaskIds : task[t].depth \in Nat /\ task[t].depth <= Walk(t)
        BY Before DEF HasWalked
      <3>2. QED
        BY <3>1, TaskFacts
    <2>3. \A n \in Nodes, p \in Paths : text[n][p] \in Texts
      BY DEF Inv, Types
    <2>4. QED
      BY <2>1, <2>2, <2>3 DEF TypeOK, RequestType, Inv, Types
  <1>2. LastWriterWins
    <2> SUFFICES ASSUME NEW n \in Nodes, NEW p \in Paths, last[n][p] # None,
                        task[last[n][p].task].pc = "done", ~last[n][p].shared
                 PROVE  text[n][p] = Asked[last[n][p].task[3]].text
      BY DEF LastWriterWins
    <2> DEFINE T == last[n][p].task
    <2>1. WrittenBy(T, n, p) /\ T \in TaskIds
      BY NoneAssumption DEF Inv, Types, Truncation, Files, Truncated
    <2>2. task[T].ok
      BY <2>1 DEF Inv, Progress, HasWalked
    <2>3. QED
      BY <2>1, <2>2 DEF WrittenBy
  <1> QED
    BY <1>1, <1>2

\* Requests, promises, tasks and disks keep their types, also when others take
\* names and calls fail (createFolders, createFiles and the agent's routes).
THEOREM TypeCorrect == Spec => []TypeOK
  BY InvHolds, InvImplies, PTL

\* No handle is got through a symbolic link, whatever is put under a name after
\* the path was checked (O_NOFOLLOW in ensureDirectory and openFile).
THEOREM NoHandleAstray == Spec => []StaysUnderTheRoot
  <1>1. Inv => StaysUnderTheRoot
    BY DEF Inv, Types, StaysUnderTheRoot
  <1> QED
    BY <1>1, InvHolds, PTL

\* What createFolders and createFiles answer is true of the disks of the nodes,
\* and the last to truncate a file leaves its text in it.
THEOREM AnswersAreTrue == Spec => []NodesHoldWhatIsAnswered
  <1>1. Inv => NodesHoldWhatIsAnswered
    BY InvImplies DEF Inv, NodesHoldWhatIsAnswered
  <1> QED
    BY <1>1, InvHolds, PTL
==============================================================================
