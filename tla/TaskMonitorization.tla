-------------------------- MODULE TaskMonitorization --------------------------
(***************************************************************************)
(* The lifecycle history of Swarm tasks: TaskMonitorizationsManager and    *)
(* the repositories it writes to.                                          *)
(*                                                                         *)
(* Every checkInterval the manager lists the tasks that are meant to run,  *)
(* writes a `running` record for each it has no such record of in memory,  *)
(* and a `removed` record for each it has one of and that is not listed    *)
(* any more; then memory and collection are cut to the newest records.     *)
(* The memory is lost when the process dies and loaded from the collection *)
(* when it starts.  One check is a chain of awaited calls; Docker, the     *)
(* settings page and crashes act between any two of them.                  *)
(*                                                                         *)
(* A record is the identity of its document, its task, status and date;    *)
(* the names and the modifiedBy heuristic copied into it are left out, the *)
(* lookup behind modifiedBy never fails.  The audit query, createDoc and   *)
(* the unshift after it are one step: nothing else touches the memory, and *)
(* a crash between them loses the memory anyway.                           *)
(***************************************************************************)
EXTENDS Naturals, Sequences, FiniteSets

CONSTANTS Tasks,        \* Swarm tasks; an identifier is never used again
          Quantities,   \* values of the setting maxMonitoredTasksQuantity
          DefaultMax,   \* maxTaskMonitorizationsQuantity before any setting
          Faults,       \* which of "docker", "db", "lost", "load", "crash"
          MaxFaults,    \* bound: how many faults happen
          MaxRecords,   \* bound: documents ever written
          MaxChanges    \* bound: changes of the setting

ASSUME QuantitiesAssumption ==
    Quantities \subseteq Nat \ {0} /\ Quantities # {} /\ DefaultMax \in Nat \ {0}
ASSUME BoundsAssumption ==
    MaxFaults \in Nat /\ MaxRecords \in Nat /\ MaxChanges \in Nat

VARIABLES state,    \* Docker: the state of every task
          setting,  \* maxMonitoredTasksQuantity in the settings collection
          db,       \* the documents in the collection
          memory,   \* memoryTaskMonitorizations, newest first
          max,      \* maxTaskMonitorizationsQuantity
          pc,       \* the call the manager awaits
          listed,   \* the tasks of this check's listing, with their state
          todo,     \* listed tasks the first loop has not come to
          pos,      \* position of the second loop in memory
          clock,    \* the date a record written now would bear
          written,  \* history: every document ever written
          faults,   \* how many faults have happened
          changes   \* how often the setting was changed

outside == <<state, setting, changes>>
vars == <<outside, db, memory, max, pc, listed, todo, pos, clock, written, faults>>

\* A task is meant to run ("desired-state") from "starting" to "ending".
TaskStates == <<"new", "starting", "running", "ending", "gone">>
Meant == {"starting", "running", "ending"}

Statuses == {"running", "removed"}
Record == [id : Nat, task : Tasks, status : Statuses, date : Nat]

InMemory(t, status) ==
    \E k \in DOMAIN memory : memory[k].task = t /\ memory[k].status = status

\* ORDER BY date DESC LIMIT n: dates may tie, and then the choice is free.
Newest(S, n) ==
    {K \in SUBSET S :
        /\ Cardinality(K) = IF Cardinality(S) < n THEN Cardinality(S) ELSE n
        /\ \A k \in K, s \in S \ K : s.date <= k.date}
ByDate(K) ==
    {q \in [1..Cardinality(K) -> K] :
        \A j, k \in DOMAIN q : j < k => q[j] # q[k] /\ q[j].date >= q[k].date}

\* Only the order of dates matters: a date that no document bears is not
\* passed over.  Two documents of one check may bear the same one.
Dated(date) == \E d \in written : d.date = date
Later == IF Dated(clock) THEN clock + 1 ELSE clock
Dates == {clock, Later}

Init ==
    /\ state = [t \in Tasks |-> "new"]
    /\ setting \in Quantities
    /\ db = {} /\ written = {}
    /\ memory = <<>> /\ max = DefaultMax
    /\ pc = "down"
    /\ listed = <<>> /\ todo = {} /\ pos = 1
    /\ clock = 0
    /\ faults = 0 /\ changes = 0

Fault(kind) == kind \in Faults /\ faults < MaxFaults /\ faults' = faults + 1
NoFault == UNCHANGED faults

------------------------------------------------------------------------------
\* start(), called once by the entry point of the process.
Boot ==
    /\ pc = "down"
    /\ pc' = "loadSettings"
    /\ memory' = <<>> /\ max' = DefaultMax
    /\ clock' = Later
    /\ UNCHANGED <<outside, db, listed, todo, pos, written, faults>>

\* Any error while loading is logged, and the first check begins.
LoadFails ==
    /\ pc \in {"loadSettings", "load"}
    /\ Fault("load")
    /\ pc' = "settings"
    /\ UNCHANGED <<outside, db, memory, max, listed, todo, pos, clock, written>>

LoadSettings ==
    /\ pc = "loadSettings"
    /\ max' = setting
    /\ pc' = "load"
    /\ UNCHANGED <<outside, db, memory, listed, todo, pos, clock, written, faults>>

\* Defect: the process starts with an empty memory.
Recalled(q) == <<>>
\* What getRecent returned becomes the memory.
Loaded(q) == q

LoadRecent ==
    /\ pc = "load"
    /\ \E K \in Newest(db, max) : \E q \in ByDate(K) : memory' = Loaded(q)
    /\ pc' = "loadPurge"
    /\ UNCHANGED <<outside, db, max, listed, todo, pos, clock, written, faults>>

\* purgeOld on the collection; a failure is logged and changes nothing.
PurgeCollection ==
    \/ NoFault /\ db' \in Newest(db, max)
    \/ Fault("db") /\ UNCHANGED db

LoadPurge ==
    /\ pc = "loadPurge"
    /\ PurgeCollection
    /\ pc' = "settings"
    /\ UNCHANGED <<outside, memory, max, listed, todo, pos, clock, written>>

------------------------------------------------------------------------------
\* checkTasks: the settings first.
ReadSettings ==
    /\ pc = "settings"
    /\ \/ max' = setting /\ pc' = "list" /\ NoFault
       \/ Fault("db") /\ pc' = "sleep" /\ UNCHANGED max
    /\ UNCHANGED <<outside, db, memory, listed, todo, pos, clock, written>>

\* Defect: only the tasks that run are listed, not those meant to.
ListedRunning == {t \in Tasks : state[t] = "running"}
\* The tasks docker.listTasks answers for desired-state running.
Listed == {t \in Tasks : state[t] \in Meant}

\* Defect: the timer is set again only after a check that succeeded.
ListTasksHalting ==
    /\ pc = "list"
    /\ \/ /\ NoFault
          /\ listed' = [t \in Listed |-> state[t]]
          /\ todo' = Listed
          /\ pc' = "running"
       \/ Fault("docker") /\ pc' = "halted" /\ UNCHANGED <<listed, todo>>
    /\ UNCHANGED <<outside, db, memory, max, pos, clock, written>>

\* Tasks, nodes and services are listed; if one listing fails the check ends.
ListTasks ==
    /\ pc = "list"
    /\ \/ /\ NoFault
          /\ listed' = [t \in Listed |-> state[t]]
          /\ todo' = Listed
          /\ pc' = "running"
       \/ Fault("docker") /\ pc' = "sleep" /\ UNCHANGED <<listed, todo>>
    /\ UNCHANGED <<outside, db, memory, max, pos, clock, written>>

\* Defect: the newest record goes to the end of the memory.
RememberLast(doc) == Append(memory, doc)
\* memoryTaskMonitorizations.unshift
Remember(doc) == <<doc>> \o memory

\* saveTaskMonitorization: the document is written and remembered; an error is
\* swallowed, and then the document is not remembered, even if it was written.
Save(t, status) ==
    /\ Cardinality(written) < MaxRecords
    /\ \E date \in Dates :
       LET doc == [id |-> Cardinality(written) + 1, task |-> t,
                   status |-> status, date |-> date]
       IN  \/ /\ NoFault
              /\ db' = db \cup {doc} /\ written' = written \cup {doc}
              /\ memory' = Remember(doc)
              /\ clock' = date
           \/ /\ Fault("lost")
              /\ db' = db \cup {doc} /\ written' = written \cup {doc}
              /\ clock' = date
              /\ UNCHANGED memory
           \/ Fault("db") /\ UNCHANGED <<db, written, memory, clock>>

\* Defect: a task is recorded in whatever state it is listed.
RecordableAny(t) == ~InMemory(t, "running")
\* The task runs, and the memory has no record that it does.
Recordable(t) == listed[t] = "running" /\ ~InMemory(t, "running")

\* createTaskMonitorizationsFromRunningTasks, one listed task.
RecordRunning(t) ==
    /\ pc = "running" /\ t \in todo
    /\ todo' = todo \ {t}
    /\ IF Recordable(t) THEN Save(t, listed[t])
       ELSE UNCHANGED <<db, written, memory, clock, faults>>
    /\ UNCHANGED <<outside, max, pc, listed, pos>>

RunningDone ==
    /\ pc = "running" /\ todo = {}
    /\ pc' = "removed" /\ pos' = 1
    /\ UNCHANGED <<outside, db, memory, max, listed, todo, clock, written, faults>>

\* Defect: the second loop asks Docker again.
GoneNow(t) == state[t] = "gone"
\* The task is not in the listing of this check.
Gone(t) == t \notin DOMAIN listed

Removable(k) ==
    /\ memory[k].status = "running"
    /\ Gone(memory[k].task)
    /\ ~InMemory(memory[k].task, "removed")

ToRemove == {k \in DOMAIN memory : k >= pos /\ Removable(k)}

\* createTaskMonitorizationsFromRemovedTasks: the next entry of the memory, at
\* or after pos, that calls for a record.  The loop runs over the array that
\* Save extends at its front, so the entry is met again one position later.
RecordRemoved ==
    /\ pc = "removed"
    /\ \E k \in ToRemove :
          /\ \A j \in ToRemove : k <= j
          /\ Save(memory[k].task, "removed")
          /\ pos' = k + 1
    /\ UNCHANGED <<outside, max, pc, listed, todo>>

Kept == IF Len(memory) > max THEN SubSeq(memory, 1, max) ELSE memory

\* The loop is over and the memory is cut.
RemovedDone ==
    /\ pc = "removed" /\ ToRemove = {}
    /\ memory' = Kept
    /\ pc' = "purge"
    /\ listed' = <<>> /\ pos' = 1
    /\ UNCHANGED <<outside, db, max, todo, clock, written, faults>>

Purge ==
    /\ pc = "purge"
    /\ PurgeCollection
    /\ pc' = "sleep"
    /\ UNCHANGED <<outside, memory, max, listed, todo, pos, clock, written>>

\* The timer of the next check; checkInterval is at least a second.
Wake ==
    /\ pc = "sleep"
    /\ pc' = "settings"
    /\ clock' = Later
    /\ UNCHANGED <<outside, db, memory, max, listed, todo, pos, written, faults>>

Crash ==
    /\ pc # "down"
    /\ Fault("crash")
    /\ pc' = "down"
    /\ memory' = <<>> /\ max' = DefaultMax
    /\ listed' = <<>> /\ todo' = {} /\ pos' = 1
    /\ UNCHANGED <<outside, db, clock, written>>

------------------------------------------------------------------------------
\* Docker: a task gets on, and may skip states nobody saw.
Progress(t) ==
    /\ \E i, j \in DOMAIN TaskStates :
          /\ i < j /\ TaskStates[i] = state[t]
          /\ state' = [state EXCEPT ![t] = TaskStates[j]]
    /\ UNCHANGED <<setting, changes, db, memory, max, pc, listed, todo, pos,
                   clock, written, faults>>

\* The settings page.
ChangeSetting ==
    /\ changes < MaxChanges
    /\ changes' = changes + 1
    /\ setting' \in Quantities \ {setting}
    /\ UNCHANGED <<state, db, memory, max, pc, listed, todo, pos, clock,
                   written, faults>>

Manager ==
    \/ Boot \/ LoadFails \/ LoadSettings \/ LoadRecent \/ LoadPurge
    \/ ReadSettings \/ ListTasks
    \/ \E t \in Tasks : RecordRunning(t)
    \/ RunningDone \/ RecordRemoved \/ RemovedDone \/ Purge \/ Wake

Next ==
    \/ Manager
    \/ Crash
    \/ \E t \in Tasks : Progress(t)
    \/ ChangeSetting

\* The manager's calls are answered or fail, its timer fires, and the process
\* is restarted when it dies.  Faults are bounded.
Spec == Init /\ [][Next]_vars /\ WF_vars(Manager)

------------------------------------------------------------------------------
PC == {"down", "loadSettings", "load", "loadPurge", "settings", "list",
       "running", "removed", "purge", "sleep"}

\* A document bears one of the two statuses the schema allows.
TypeOK ==
    /\ state \in [Tasks -> {"new", "starting", "running", "ending", "gone"}]
    /\ setting \in Quantities
    /\ db \subseteq Record
    /\ memory \in Seq(Record)
    /\ max \in Nat \ {0}
    /\ pc \in PC
    /\ DOMAIN listed \subseteq Tasks
    /\ todo \subseteq Tasks
    /\ pos \in Nat
    /\ clock \in Nat
    /\ written \subseteq Record
    /\ faults \in Nat
    /\ changes \in Nat

\* A task is only reported removed when it is, although listing and report are
\* many calls apart and the memory may come from an earlier process.
RemovedIsTrue ==
    \A d \in written : d.status = "removed" => state[d.task] = "gone"

\* A removal is reported once, whatever is cut from memory and collection in
\* between and however often the process restarts.
RemovedOnce ==
    \A c, d \in written :
        c.status = "removed" /\ d.status = "removed" /\ c.task = d.task => c = d

\* In the history a task first runs and then is removed, strictly by date.
LifecycleInOrder ==
    \A c, d \in written :
        c.task = d.task /\ c.status = "running" /\ d.status = "removed"
        => c.date < d.date

\* The history tells the truth, in its order.
HistoryIsTrue == RemovedIsTrue /\ LifecycleInOrder

\* A task that runs is reported once: what has been seen is not new again.
SeenOnce ==
    \A c, d \in written :
        c.status = "running" /\ d.status = "running" /\ c.task = d.task => c = d

\* The inductive invariant behind RemovedIsTrue and LifecycleInOrder.  What
\* collection and memory hold was written:
Stored ==
    /\ IsFiniteSet(written)
    /\ db \subseteq written
    /\ \A k \in DOMAIN memory : memory[k] \in written

\* a task in the history has been running;
Met == \A d \in written : state[d.task] \notin {"new", "starting"}

\* dates do not run ahead of the clock, and lie behind it when a check begins;
Starting == {"loadSettings", "load", "loadPurge", "settings", "list"}
Dating ==
    /\ \A d \in written : d.date <= clock
    /\ pc \in Starting => \A d \in written : d.date < clock

\* and between the listing and the end of the second loop, what the listing
\* says of a task that is not on it stays so, whatever has been written since.
Looping == pc \in {"running", "removed"}
ListingHolds ==
    Looping =>
        /\ todo \subseteq DOMAIN listed
        /\ \A t \in DOMAIN listed :
              listed[t] = "running" => state[t] \notin {"new", "starting"}
        /\ \A d \in written : Gone(d.task) =>
              /\ state[d.task] = "gone"
              /\ d.status = "running" => d.date < clock
        /\ \A d \in written : d.status = "removed" => Gone(d.task)

IInv ==
    /\ TypeOK /\ Stored /\ Met /\ Dating /\ ListingHolds
    /\ RemovedIsTrue /\ LifecycleInOrder

Reported(t, status) == \E d \in written : d.task = t /\ d.status = status

\* A task that keeps running is reported.
RunningIsReported ==
    \A t \in Tasks : <>[](state[t] = "running") => <>Reported(t, "running")

\* A task that was reported running and is gone is reported removed.
RemovalIsReported ==
    \A t \in Tasks :
        Reported(t, "running") /\ state[t] = "gone" ~> Reported(t, "removed")

\* Nothing that lasts goes unreported.
ChangesAreReported == RunningIsReported /\ RemovalIsReported
==============================================================================
