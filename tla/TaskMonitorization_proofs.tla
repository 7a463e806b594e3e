----------------------- MODULE TaskMonitorization_proofs -----------------------
(***************************************************************************)
(* What the task history says is so, for every number of tasks, value of   *)
(* the setting, and kind and number of faults: IInv is an inductive        *)
(* invariant, and it contains RemovedIsTrue and LifecycleInOrder.          *)
(*                                                                         *)
(* That a removal is reported once needs more: memory and collection are   *)
(* cut by date, so whatever still holds that a task ran holds that it was  *)
(* removed.  That a running task is reported once holds as long as nothing *)
(* is cut at all.                                                          *)
(***************************************************************************)
EXTENDS TaskMonitorization, FiniteSetTheorems, TLAPS

USE DEF Statuses, Record, Meant, outside

LEMMA InitIInv == Init => IInv
<1> SUFFICES ASSUME Init PROVE IInv
  OBVIOUS
<1>1. IsFiniteSet(written)
  BY FS_EmptySet DEF Init
<1>2. TypeOK
  BY QuantitiesAssumption DEF Init, TypeOK, PC
<1>3. QED
  BY <1>1, <1>2 DEF Init, IInv, Stored, Met, Dating, Starting, ListingHolds,
     Looping, RemovedIsTrue, LifecycleInOrder

\* getRecent and purgeOld invent nothing.
LEMMA NewestIsThere == ASSUME NEW S, NEW n, NEW K \in Newest(S, n)
                       PROVE K \subseteq S
BY DEF Newest

LEMMA SeqMonotone == ASSUME NEW A, NEW B, A \subseteq B, NEW q \in Seq(A)
                     PROVE q \in Seq(B)
<1>1. Len(q) \in Nat /\ q \in [1..Len(q) -> A]
  OBVIOUS
<1>2. q \in [1..Len(q) -> B]
  BY <1>1
<1>3. QED
  BY <1>1, <1>2

LEMMA ByDateIsSeq ==
    ASSUME NEW K, IsFiniteSet(K), NEW q \in ByDate(K)
    PROVE q \in Seq(K) /\ \A k \in DOMAIN q : q[k] \in K
<1>1. Cardinality(K) \in Nat
  BY FS_CardinalityType
<1>2. QED
  BY <1>1 DEF ByDate

\* The clock only stands or advances.
LEMMA ClockAdvances ==
    ASSUME IInv
    PROVE /\ Later \in Nat /\ clock <= Later
          /\ \A date \in Dates : date \in Nat /\ clock <= date
          /\ \A d \in written : d.date \in Nat /\ d.date < Later
BY DEF IInv, TypeOK, Dating, Later, Dates, Dated

------------------------------------------------------------------------------
\* Saving a document keeps everything but the two statements about its own
\* task, which the two loops have to supply.
LEMMA SaveTypes ==
    ASSUME IInv, NEW t \in Tasks, NEW status \in Statuses, Save(t, status)
    PROVE /\ IsFiniteSet(written') /\ written' \subseteq Record
          /\ db' \subseteq written' /\ memory' \in Seq(Record)
          /\ \A k \in DOMAIN memory' : memory'[k] \in written'
          /\ clock' \in Nat /\ clock <= clock' /\ faults' \in Nat
          /\ \A d \in written' : d.date <= clock'
          /\ \/ written' = written
             \/ \E id \in Nat, date \in Nat :
                  /\ clock <= date
                  /\ written' = written \cup
                       {[id |-> id, task |-> t, status |-> status, date |-> date]}
<1>1. PICK date \in Dates :
        LET doc == [id |-> Cardinality(written) + 1, task |-> t,
                    status |-> status, date |-> date]
        IN  \/ /\ NoFault
               /\ db' = db \cup {doc} /\ written' = written \cup {doc}
               /\ memory' = Remember(doc)
               /\ clock' = date
            \/ /\ Fault("lost")
               /\ db' = db \cup {doc} /\ written' = written \cup {doc}
               /\ clock' = date
               /\ UNCHANGED memory
            \/ Fault("db") /\ UNCHANGED <<db, written, memory, clock>>
  BY DEF Save
<1> DEFINE doc == [id |-> Cardinality(written) + 1, task |-> t,
                   status |-> status, date |-> date]
<1>2. date \in Nat /\ clock <= date /\ clock \in Nat
  BY ClockAdvances DEF IInv, TypeOK
<1>3. doc \in Record /\ doc.date = date
  BY <1>2, FS_CardinalityType DEF IInv, Stored
<1>4. IsFiniteSet(written \cup {doc})
  BY FS_AddElement DEF IInv, Stored
<1>5. faults' \in Nat
  BY <1>1 DEF Fault, NoFault, IInv, TypeOK
<1>6. ASSUME db' = db \cup {doc}, written' = written \cup {doc}, clock' = date,
             memory' = Remember(doc) \/ memory' = memory
      PROVE  /\ IsFiniteSet(written') /\ written' \subseteq Record
             /\ db' \subseteq written' /\ memory' \in Seq(Record)
             /\ \A k \in DOMAIN memory' : memory'[k] \in written'
             /\ \A d \in written' : d.date <= clock'
  <2>1. IsFiniteSet(written') /\ written' \subseteq Record /\ db' \subseteq written'
    BY <1>3, <1>4, <1>6 DEF IInv, Stored, TypeOK
  <2>2. memory' \in Seq(Record) /\ \A k \in DOMAIN memory' : memory'[k] \in written'
    <3>1. CASE memory' = memory
      BY <3>1, <1>6 DEF IInv, Stored, TypeOK
    <3>2. CASE memory' = Remember(doc)
      <4> HIDE DEF doc
      <4>1. memory \in Seq(Record) /\ \A k \in DOMAIN memory : memory[k] \in written
        BY DEF IInv, Stored, TypeOK
      <4>2. QED
        BY <3>2, <4>1, <1>3, <1>6 DEF Remember
    <3>3. QED
      BY <1>6, <3>1, <3>2
  <2>3. \A d \in written' : d.date <= clock'
    BY <1>2, <1>3, <1>6 DEF IInv, Dating, TypeOK
  <2>4. QED
    BY <2>1, <2>2, <2>3
<1>7. CASE written' = written /\ UNCHANGED <<db, memory, clock>>
  BY <1>7, <1>5 DEF IInv, Stored, Dating, TypeOK
<1>8. CASE /\ db' = db \cup {doc} /\ written' = written \cup {doc}
           /\ clock' = date
           /\ memory' = Remember(doc) \/ memory' = memory
  BY <1>8, <1>6, <1>5, <1>2, FS_CardinalityType DEF IInv, Stored
<1>9. QED
  BY <1>1, <1>7, <1>8

LEMMA RecordRunningInv ==
    ASSUME IInv, NEW t \in Tasks, RecordRunning(t) PROVE IInv'
<1> USE DEF RecordRunning
<1>1. CASE ~Recordable(t)
  BY <1>1 DEF IInv, TypeOK, Stored, Met, Dating, Starting, ListingHolds, Looping,
     Gone, RemovedIsTrue, LifecycleInOrder
<1>2. CASE Recordable(t)
  <2>1. Save(t, "running") /\ t \in DOMAIN listed /\ pc = "running"
        /\ state[t] \notin {"new", "starting"}
    BY <1>2 DEF Recordable, IInv, ListingHolds, Looping
  <2>2. /\ IsFiniteSet(written') /\ written' \subseteq Record
        /\ db' \subseteq written' /\ memory' \in Seq(Record)
        /\ \A k \in DOMAIN memory' : memory'[k] \in written'
        /\ clock' \in Nat /\ clock <= clock' /\ faults' \in Nat
        /\ \A d \in written' : d.date <= clock'
    BY <2>1, SaveTypes, Zenon
  <2>3. /\ written \subseteq written'
        /\ \A d \in written' \ written : d.task = t /\ d.status = "running"
    <3>1. \/ written' = written
          \/ \E id \in Nat, date \in Nat :
                /\ clock <= date
                /\ written' = written \cup {[id |-> id, task |-> t,
                                  status |-> "running", date |-> date]}
      BY <2>1, SaveTypes
    <3>2. QED
      BY <3>1
  <2>4. TypeOK' /\ Stored'
    BY <2>2 DEF IInv, TypeOK, Stored
  <2>5. Met' /\ RemovedIsTrue'
    BY <2>1, <2>3 DEF IInv, Met, RemovedIsTrue
  <2>6. Dating'
    BY <2>1, <2>2 DEF Dating, Starting
  <2>7. ListingHolds'
    <3>1. \A d \in written' : Gone(d.task) => d \in written
      BY <2>1, <2>3 DEF Gone
    <3>2. \A d \in written : d.date \in Nat /\ clock \in Nat
      BY DEF IInv, TypeOK
    <3>3. todo' \subseteq DOMAIN listed' /\ listed' = listed /\ state' = state
      BY <2>1 DEF IInv, ListingHolds, Looping
    <3>4. \A d \in written' : Gone(d.task)' =>
              state'[d.task] = "gone" /\ (d.status = "running" => d.date < clock')
      BY <2>1, <2>2, <3>1, <3>2, <3>3 DEF IInv, ListingHolds, Looping, Gone
    <3>5. \A d \in written' : d.status = "removed" => Gone(d.task)'
      BY <2>1, <2>3, <3>3 DEF IInv, ListingHolds, Looping, Gone
    <3>6. QED
      BY <2>1, <3>3, <3>4, <3>5 DEF IInv, ListingHolds, Looping
  <2>8. LifecycleInOrder'
    BY <2>1, <2>3 DEF IInv, LifecycleInOrder, ListingHolds, Looping, Gone
  <2>9. QED
    BY <2>4, <2>5, <2>6, <2>7, <2>8 DEF IInv
<1>3. QED
  BY <1>1, <1>2

LEMMA RecordRemovedInv == ASSUME IInv, RecordRemoved PROVE IInv'
<1>1. PICK k \in DOMAIN memory :
        /\ Removable(k) /\ Save(memory[k].task, "removed") /\ pos' = k + 1
        /\ pc = "removed"
        /\ UNCHANGED <<outside, max, pc, listed, todo>>
  BY DEF RecordRemoved, ToRemove
<1> DEFINE t == memory[k].task
<1>2. /\ memory[k] \in written /\ memory[k].status = "running"
      /\ t \in Tasks /\ Gone(t) /\ state[t] = "gone" /\ k \in Nat
  BY <1>1 DEF IInv, TypeOK, Stored, ListingHolds, Looping, Removable
<1>3. /\ IsFiniteSet(written') /\ written' \subseteq Record
      /\ db' \subseteq written' /\ memory' \in Seq(Record)
      /\ \A j \in DOMAIN memory' : memory'[j] \in written'
      /\ clock' \in Nat /\ clock <= clock' /\ faults' \in Nat
      /\ \A d \in written' : d.date <= clock'
  BY <1>1, <1>2, SaveTypes
<1>4. /\ written \subseteq written'
      /\ \A d \in written' \ written :
            d.task = t /\ d.status = "removed" /\ d.date \in Nat /\ clock <= d.date
  <2>1. \/ written' = written
        \/ \E id \in Nat, date \in Nat :
              /\ clock <= date
              /\ written' = written \cup {[id |-> id, task |-> t,
                                status |-> "removed", date |-> date]}
    BY <1>1, <1>2, SaveTypes
  <2>2. QED
    BY <2>1
<1> HIDE DEF t
<1>5. TypeOK' /\ Stored'
  BY <1>1, <1>2, <1>3 DEF IInv, TypeOK, Stored
<1>6. Met' /\ RemovedIsTrue'
  BY <1>1, <1>2, <1>4 DEF IInv, Met, RemovedIsTrue
<1>7. Dating'
  BY <1>1, <1>3 DEF Dating, Starting
<1>8. \A d \in written : d.date \in Nat /\ clock \in Nat
  BY DEF IInv, TypeOK
<1>9. ListingHolds'
  BY <1>1, <1>2, <1>3, <1>4, <1>8 DEF IInv, ListingHolds, Looping, Gone
<1>10. LifecycleInOrder'
  BY <1>1, <1>2, <1>4, <1>8 DEF IInv, LifecycleInOrder, ListingHolds, Looping
<1>11. QED
  BY <1>5, <1>6, <1>7, <1>9, <1>10 DEF IInv

------------------------------------------------------------------------------
LEMMA ListTasksInv == ASSUME IInv, ListTasks PROVE IInv'
<1> USE DEF ListTasks
<1>1. CASE pc' = "sleep"
  BY <1>1 DEF IInv, TypeOK, PC, Fault, Stored, Met, Dating, Starting,
     ListingHolds, Looping, RemovedIsTrue, LifecycleInOrder
<1>2. CASE /\ NoFault /\ listed' = [t \in Listed |-> state[t]]
           /\ todo' = Listed /\ pc' = "running"
  <2>1. DOMAIN listed' = Listed /\ Listed \subseteq Tasks
    BY <1>2 DEF Listed
  <2>2. \A d \in written : d.task \in Tasks /\ d.date < clock
                           /\ (d.task \notin Listed <=> state[d.task] = "gone")
    BY DEF IInv, TypeOK, Met, Dating, Starting, Listed
  <2>3. ListingHolds'
    BY <1>2, <2>1, <2>2 DEF IInv, ListingHolds, RemovedIsTrue, Gone
  <2>4. TypeOK'
    BY <1>2, <2>1 DEF IInv, TypeOK, PC, NoFault
  <2>5. QED
    BY <1>2, <2>3, <2>4 DEF IInv, Stored, Met, Dating, Starting, NoFault,
       RemovedIsTrue, LifecycleInOrder
<1>3. QED
  BY <1>1, <1>2

LEMMA ProgressInv == ASSUME IInv, NEW t \in Tasks, Progress(t) PROVE IInv'
<1>1. /\ state'[t] \in {"starting", "running", "ending", "gone"}
      /\ state[t] # "gone"
      /\ state[t] \notin {"new", "starting"} => state'[t] \notin {"new", "starting"}
      /\ \A u \in Tasks \ {t} : state'[u] = state[u]
      /\ state' \in [Tasks -> {"new", "starting", "running", "ending", "gone"}]
  <2>1. state \in [Tasks -> {"new", "starting", "running", "ending", "gone"}]
    BY DEF IInv, TypeOK
  <2>2. PICK i \in 1..5, j \in 1..5 :
          /\ i < j /\ TaskStates[i] = state[t]
          /\ state' = [state EXCEPT ![t] = TaskStates[j]]
    <3>1. DOMAIN TaskStates = 1..5
      BY DEF TaskStates
    <3>2. QED
      BY <3>1 DEF Progress
  <2>3. /\ TaskStates[1] = "new" /\ TaskStates[2] = "starting"
        /\ TaskStates[3] = "running" /\ TaskStates[4] = "ending"
        /\ TaskStates[5] = "gone"
    BY DEF TaskStates
  <2>4. i \in {1, 2, 3, 4, 5} /\ j \in {1, 2, 3, 4, 5}
    BY <2>2
  <2>5. state'[t] = TaskStates[j]
    BY <2>1, <2>2
  <2>6. QED
    BY <2>1, <2>2, <2>3, <2>4, <2>5
<1>2. \A d \in written : d.task \in Tasks
  BY DEF IInv, TypeOK
<1> USE DEF Progress
<1>3. TypeOK'
  BY <1>1 DEF IInv, TypeOK, PC
<1>4. Met' /\ RemovedIsTrue'
  BY <1>1, <1>2 DEF IInv, Met, RemovedIsTrue
<1>5. ListingHolds'
  BY <1>1, <1>2 DEF IInv, TypeOK, ListingHolds, Looping, Gone
<1>6. QED
  BY <1>3, <1>4, <1>5 DEF IInv, Stored, Dating, Starting, LifecycleInOrder

\* The steps that write no document and list no task.
LEMMA OtherInv ==
    ASSUME IInv,
           \/ Boot \/ LoadFails \/ LoadSettings \/ LoadRecent \/ LoadPurge
           \/ ReadSettings \/ RunningDone \/ RemovedDone \/ Purge \/ Wake
           \/ Crash \/ ChangeSetting \/ UNCHANGED vars
    PROVE IInv'
<1>1. \A n, K : K \in Newest(db, n) => K \subseteq db
  BY NewestIsThere
<1>2. /\ TypeOK /\ Stored /\ Met /\ Dating /\ ListingHolds
      /\ RemovedIsTrue /\ LifecycleInOrder
  BY DEF IInv
<1>3. CASE LoadRecent
  <2>1. PICK K \in Newest(db, max) : \E q \in ByDate(K) : memory' = q
    BY <1>3 DEF LoadRecent, Loaded
  <2>2. K \subseteq db /\ K \subseteq Record /\ IsFiniteSet(K) /\ K \subseteq written
    BY <1>1, <1>2, FS_Subset DEF TypeOK, Stored
  <2>3. memory' \in Seq(K) /\ \A k \in DOMAIN memory' : memory'[k] \in K
    BY <2>1, <2>2, ByDateIsSeq
  <2>4. memory' \in Seq(Record)
    BY <2>2, <2>3, SeqMonotone
  <2>5. QED
    BY <1>2, <1>3, <2>2, <2>3, <2>4 DEF LoadRecent, IInv, TypeOK, PC, Stored, Met,
       Dating, Starting, ListingHolds, Looping, RemovedIsTrue, LifecycleInOrder
<1>4. CASE LoadPurge \/ Purge
  BY <1>1, <1>2, <1>4 DEF LoadPurge, Purge, PurgeCollection, Fault, NoFault, IInv,
     TypeOK, PC, Stored, Met, Dating, Starting, ListingHolds, Looping,
     RemovedIsTrue, LifecycleInOrder
<1>5. CASE RunningDone
  BY <1>2, <1>5 DEF RunningDone, IInv, TypeOK, PC, Stored, Met, Dating, Starting,
     ListingHolds, Looping, Gone, RemovedIsTrue, LifecycleInOrder
<1>6. CASE RemovedDone
  <2>1. memory' \in Seq(Record) /\ \A k \in DOMAIN memory' : memory'[k] \in written
    BY <1>2, <1>6 DEF RemovedDone, Kept, TypeOK, Stored
  <2>2. QED
    BY <1>2, <1>6, <2>1 DEF RemovedDone, IInv, TypeOK, PC, Stored, Met, Dating,
       Starting, ListingHolds, Looping, RemovedIsTrue, LifecycleInOrder
<1>7. CASE Boot \/ Wake
  <2>1. Later \in Nat /\ \A d \in written : d.date \in Nat /\ d.date < Later
    BY ClockAdvances
  <2>2. TypeOK' /\ Stored'
    <3>1. CASE Boot
      <4>1. memory' \in Seq(Record) /\ max' \in Nat \ {0} /\ pc' \in PC
        BY <3>1, QuantitiesAssumption DEF Boot, PC
      <4>2. QED
        BY <1>2, <2>1, <3>1, <4>1 DEF Boot, TypeOK, Stored
    <3>2. CASE Wake
      <4>1. pc' \in PC
        BY <3>2 DEF Wake, PC
      <4>2. QED
        BY <1>2, <2>1, <3>2, <4>1 DEF Wake, TypeOK, Stored
    <3>3. QED
      BY <1>7, <3>1, <3>2
  <2>3. QED
    BY <1>2, <1>7, <2>1, <2>2 DEF Boot, Wake, IInv, Met, Dating, Starting,
       ListingHolds, Looping, RemovedIsTrue, LifecycleInOrder
<1>8. CASE LoadFails \/ LoadSettings \/ ReadSettings \/ Crash
  <2>1. TypeOK'
    <3>1. CASE LoadFails
      BY <1>2, <3>1 DEF LoadFails, Fault, TypeOK, PC
    <3>2. CASE LoadSettings
      BY <1>2, <3>2, QuantitiesAssumption DEF LoadSettings, TypeOK, PC
    <3>3. CASE ReadSettings
      BY <1>2, <3>3, QuantitiesAssumption DEF ReadSettings, Fault, NoFault, TypeOK, PC
    <3>4. CASE Crash
      <4>1. memory' \in Seq(Record) /\ DOMAIN listed' \subseteq Tasks
        BY <3>4 DEF Crash
      <4>2. faults' \in Nat /\ max' \in Nat \ {0} /\ pc' \in PC
        BY <1>2, <3>4, QuantitiesAssumption DEF Crash, Fault, TypeOK, PC
      <4>3. QED
        BY <1>2, <3>4, <4>1, <4>2 DEF Crash, TypeOK
    <3>5. QED
      BY <1>8, <3>1, <3>2, <3>3, <3>4
  <2>2. Stored'
    BY <1>2, <1>8 DEF LoadFails, LoadSettings, ReadSettings, Crash, Stored
  <2>3. QED
    BY <1>2, <1>8, <2>1, <2>2 DEF LoadFails, LoadSettings, ReadSettings, Crash,
       IInv, Met, Dating, Starting, ListingHolds, Looping, RemovedIsTrue,
       LifecycleInOrder
<1>9. CASE ChangeSetting
  <2>1. TypeOK'
    BY <1>2, <1>9 DEF ChangeSetting, TypeOK, PC
  <2>2. QED
    BY <1>2, <1>9, <2>1 DEF ChangeSetting, IInv, Stored, Met, Dating, Starting,
       ListingHolds, Looping, Gone, RemovedIsTrue, LifecycleInOrder
<1>10. CASE UNCHANGED vars
  <2>1. TypeOK'
    BY <1>2, <1>10 DEF vars, TypeOK, PC
  <2>2. QED
    BY <1>2, <1>10, <2>1 DEF vars, IInv, Stored, Met, Dating, Starting,
       ListingHolds, Looping, Gone, RemovedIsTrue, LifecycleInOrder
<1>11. QED
  BY <1>3, <1>4, <1>5, <1>6, <1>7, <1>8, <1>9, <1>10

LEMMA StepIInv == IInv /\ [Next]_vars => IInv'
BY RecordRunningInv, RecordRemovedInv, ListTasksInv, ProgressInv, OtherInv
   DEF Next, Manager

THEOREM Invariance == Spec => []IInv
BY InitIInv, StepIInv, PTL DEF Spec

\* Collection, memory and the manager's counters keep their types; no
\* document bears a status the schema does not allow.
THEOREM TypesHold == Spec => []TypeOK
  <1>1. IInv => TypeOK
    BY DEF IInv
  <1>2. QED
    BY <1>1, Invariance, PTL

\* A removed record is only ever written of a task that Docker has given up,
\* whatever fails and whatever memory an earlier process left behind.
THEOREM RemovedIsAlwaysTrue == Spec => []RemovedIsTrue
<1>1. IInv => RemovedIsTrue
  BY DEF IInv
<1>2. QED
  BY Invariance, <1>1, PTL

\* The running records of a task bear earlier dates than its removed ones.
THEOREM LifecycleIsInOrder == Spec => []LifecycleInOrder
<1>1. IInv => LifecycleInOrder
  BY DEF IInv
<1>2. QED
  BY Invariance, <1>1, PTL

\* The history is true and in order, over restarts and faults.
THEOREM HistoryIsAlwaysTrue == Spec => []HistoryIsTrue
BY RemovedIsAlwaysTrue, LifecycleIsInOrder, PTL DEF HistoryIsTrue

------------------------------------------------------------------------------
(* A removal is reported once.                                              *)

\* Who holds that a task ran also holds that it was removed, if it was.
Held(S) ==
    \A c, d \in written :
        c.task = d.task /\ c.status = "running" /\ d.status = "removed" /\ c \in S => d \in S
Remembered == {memory[k] : k \in DOMAIN memory}
NewestFirst ==
    \A j, k \in DOMAIN memory : j < k => memory[k].date <= memory[j].date
OnceInv == IInv /\ Held(db) /\ Held(Remembered) /\ NewestFirst /\ RemovedOnce

\* The cut by date takes the removal of a task after its running.
LEMMA NewestHolds ==
    ASSUME IInv, NEW S, S \subseteq written, Held(S), NEW n, NEW K \in Newest(S, n)
    PROVE  Held(K)
<1> SUFFICES ASSUME NEW c \in written, NEW d \in written, c.task = d.task,
                    c.status = "running", d.status = "removed", c \in K, d \notin K
             PROVE  FALSE
  BY DEF Held
<1>1. d \in S /\ c \in S
  BY NewestIsThere DEF Held
<1>2. d.date <= c.date
  BY <1>1 DEF Newest
<1>3. c.date < d.date /\ c.date \in Nat /\ d.date \in Nat
  BY DEF IInv, LifecycleInOrder, TypeOK
<1>4. QED
  BY <1>2, <1>3

\* Without a document whose answer was lost, what is written is remembered.
LEMMA SaveOne ==
    ASSUME IInv, "lost" \notin Faults, NEW t \in Tasks, NEW status \in Statuses,
           Save(t, status)
    PROVE  \/ UNCHANGED <<db, written, memory, clock>>
           \/ \E doc \in Record :
                 /\ doc.task = t /\ doc.status = status /\ clock <= doc.date
                 /\ db' = db \cup {doc} /\ written' = written \cup {doc}
                 /\ memory' = Remember(doc)
<1>1. PICK date \in Dates :
        LET doc == [id |-> Cardinality(written) + 1, task |-> t,
                    status |-> status, date |-> date]
        IN  \/ /\ db' = db \cup {doc} /\ written' = written \cup {doc}
               /\ memory' = Remember(doc)
            \/ UNCHANGED <<db, written, memory, clock>>
  BY DEF Save, Fault
<1>2. date \in Nat /\ clock <= date /\ Cardinality(written) + 1 \in Nat
  BY ClockAdvances, FS_CardinalityType DEF IInv, Stored
<1> DEFINE doc == [id |-> Cardinality(written) + 1, task |-> t,
                   status |-> status, date |-> date]
<1>3. doc \in Record /\ doc.task = t /\ doc.status = status /\ clock <= doc.date
  BY <1>2
<1>4. \/ /\ db' = db \cup {doc} /\ written' = written \cup {doc}
         /\ memory' = Remember(doc)
      \/ UNCHANGED <<db, written, memory, clock>>
  BY <1>1
<1> HIDE DEF doc
<1>5. QED
  BY <1>3, <1>4

\* The newest document goes to the front.
LEMMA RememberFacts ==
    ASSUME memory \in Seq(Record), NEW doc \in Record, memory' = Remember(doc)
    PROVE  /\ Remembered' = Remembered \cup {doc}
           /\ NewestFirst /\ (\A d \in Remembered : d.date <= doc.date) => NewestFirst'
<1>1. /\ Len(memory) \in Nat /\ DOMAIN memory = 1..Len(memory)
      /\ DOMAIN memory' = 1..Len(memory) + 1
      /\ memory'[1] = doc /\ \A k \in 1..Len(memory) : memory'[k + 1] = memory[k]
  BY DEF Remember
<1>2. \A k \in DOMAIN memory' : k = 1 \/ (k - 1 \in DOMAIN memory /\ memory'[k] = memory[k - 1])
  <2>1. \A k \in DOMAIN memory' : k = 1 \/ (k - 1 \in 1..Len(memory) /\ k = (k - 1) + 1)
    BY <1>1
  <2>2. QED
    BY <1>1, <2>1
<1>3. Remembered' = Remembered \cup {doc}
  <2>1. ASSUME NEW d \in Remembered'
        PROVE  d \in Remembered \cup {doc}
    BY <1>1, <1>2, <2>1 DEF Remembered
  <2>2. ASSUME NEW d \in Remembered
        PROVE  d \in Remembered'
    <3>1. PICK k \in DOMAIN memory : d = memory[k]
      BY <2>2 DEF Remembered
    <3>2. k + 1 \in DOMAIN memory' /\ d = memory'[k + 1]
      BY <1>1, <3>1
    <3>3. QED
      BY <3>2 DEF Remembered
  <2>3. doc \in Remembered'
    BY <1>1 DEF Remembered
  <2>4. QED
    BY <2>1, <2>2, <2>3
<1>4. ASSUME NewestFirst, \A d \in Remembered : d.date <= doc.date,
             NEW j \in DOMAIN memory', NEW k \in DOMAIN memory', j < k
      PROVE  memory'[k].date <= memory'[j].date
  <2>1. k # 1 /\ k - 1 \in DOMAIN memory /\ memory'[k] = memory[k - 1]
    BY <1>1, <1>2, <1>4
  <2>2. CASE j = 1
    BY <1>1, <1>4, <2>1, <2>2 DEF Remembered
  <2>3. CASE j # 1
    <3>1. j - 1 \in DOMAIN memory /\ memory'[j] = memory[j - 1] /\ j - 1 < k - 1
      BY <1>1, <1>2, <1>4, <2>3
    <3>2. QED
      BY <1>4, <2>1, <3>1 DEF NewestFirst
  <2>4. QED
    BY <2>2, <2>3
<1>5. QED
  BY <1>3, <1>4 DEF NewestFirst

\* A query by date answers every document it has picked, the newest first.
LEMMA ByDateIsAll ==
    ASSUME NEW K, IsFiniteSet(K), NEW q \in ByDate(K)
    PROVE  /\ {q[k] : k \in DOMAIN q} = K
           /\ \A j, k \in DOMAIN q : j < k => q[k].date <= q[j].date
<1> DEFINE n == Cardinality(K)
<1>1. n \in Nat /\ q \in [1..n -> K]
      /\ \A j, k \in 1..n : j < k => q[j] # q[k] /\ q[k].date <= q[j].date
  BY FS_CardinalityType DEF ByDate
<1>2. IsFiniteSet(1..n) /\ Cardinality(1..n) = n
  BY <1>1, FS_Interval
<1> HIDE DEF n
<1>3. q \in Injection(1..n, K)
  <2>1. \A j, k \in 1..n : q[j] = q[k] => j = k
    BY <1>1
  <2>2. QED
    BY <1>1, <2>1 DEF Injection, IsInjective
<1>4. q \in Surjection(1..n, K)
  BY <1>2, <1>3, FS_Injection DEF n
<1>5. QED
  BY <1>1, <1>4 DEF Surjection

LEMMA OnceInit == Init => OnceInv
<1> SUFFICES ASSUME Init PROVE OnceInv
  OBVIOUS
<1>1. IInv /\ written = {} /\ memory = <<>>
  BY InitIInv DEF Init
<1>2. NewestFirst
  BY <1>1 DEF NewestFirst
<1>3. QED
  BY <1>1, <1>2 DEF OnceInv, Held, RemovedOnce

\* A document is written and remembered, or nothing has happened.
LEMMA OnceSave ==
    ASSUME OnceInv, IInv', "lost" \notin Faults, NEW t \in Tasks, NEW status \in Statuses,
           Save(t, status), \A d \in written : d.task = t => d.status # "removed"
    PROVE  OnceInv'
<1>1. CASE UNCHANGED <<db, written, memory, clock>>
  BY <1>1 DEF OnceInv, Held, Remembered, NewestFirst, RemovedOnce
<1>2. CASE \E doc \in Record :
              /\ doc.task = t /\ doc.status = status /\ clock <= doc.date
              /\ db' = db \cup {doc} /\ written' = written \cup {doc}
              /\ memory' = Remember(doc)
  <2>1. PICK doc \in Record :
              /\ doc.task = t /\ doc.status = status /\ clock <= doc.date
              /\ db' = db \cup {doc} /\ written' = written \cup {doc}
              /\ memory' = Remember(doc)
    BY <1>2
  <2>2. /\ memory \in Seq(Record) /\ Remembered \subseteq written
        /\ clock \in Nat /\ \A d \in written : d.date <= clock /\ d.date \in Nat
    BY DEF OnceInv, IInv, TypeOK, Stored, Dating, Remembered
  <2>3. \A d \in Remembered : d.date <= doc.date
    BY <2>1, <2>2
  <2>4. Remembered' = Remembered \cup {doc} /\ NewestFirst'
    BY <2>1, <2>2, <2>3, RememberFacts DEF OnceInv
  <2>5. \A d \in written : d.task = t => d.status # "removed"
    OBVIOUS
  <2>6. ASSUME NEW S, Held(S), S \subseteq written, NEW c \in written', NEW d \in written',
               c.task = d.task, c.status = "running", d.status = "removed",
               c \in S \cup {doc}
        PROVE  d \in S \cup {doc}
    <3>1. CASE d = doc
      BY <3>1
    <3>2. CASE d # doc
      <4>1. d \in written /\ d.task # t
        BY <2>1, <2>5, <2>6, <3>2
      <4>2. c # doc
        BY <2>1, <2>6, <4>1
      <4>3. QED
        BY <2>1, <2>6, <4>1, <4>2 DEF Held
    <3>3. QED
      BY <3>1, <3>2
  <2>7. Held(db)' /\ Held(Remembered)'
    <3>1. db \subseteq written /\ Held(db) /\ Held(Remembered)
      BY DEF OnceInv, IInv, Stored
    <3>2. Held(db)'
      BY <2>1, <2>6, <3>1 DEF Held
    <3>3. Held(Remembered)'
      BY <2>2, <2>4, <2>6, <3>1 DEF Held
    <3>4. QED
      BY <3>2, <3>3
  <2>8. RemovedOnce'
    BY <2>1, <2>5 DEF OnceInv, RemovedOnce
  <2>9. QED
    BY <2>4, <2>7, <2>8 DEF OnceInv
<1>3. QED
  BY <1>1, <1>2, SaveOne DEF OnceInv

LEMMA OnceRunning ==
    ASSUME OnceInv, IInv', "lost" \notin Faults, NEW t \in Tasks, RecordRunning(t)
    PROVE  OnceInv'
<1>1. CASE ~Recordable(t)
  BY <1>1 DEF RecordRunning, OnceInv, Held, Remembered, NewestFirst, RemovedOnce
<1>2. CASE Recordable(t)
  <2>1. Save(t, "running") /\ t \in DOMAIN listed /\ pc = "running"
    BY <1>2 DEF RecordRunning, Recordable, OnceInv, IInv, ListingHolds, Looping
  <2>2. \A d \in written : d.task = t => d.status # "removed"
    BY <2>1 DEF OnceInv, IInv, ListingHolds, Looping, Gone
  <2>3. QED
    BY <2>1, <2>2, OnceSave
<1>3. QED
  BY <1>1, <1>2

LEMMA OnceRemoved ==
    ASSUME OnceInv, IInv', "lost" \notin Faults, RecordRemoved
    PROVE  OnceInv'
<1>1. PICK k \in DOMAIN memory : Removable(k) /\ Save(memory[k].task, "removed")
  BY DEF RecordRemoved, ToRemove
<1> DEFINE t == memory[k].task
<1>2. /\ memory[k] \in written /\ memory[k] \in Remembered /\ memory[k].status = "running"
      /\ t \in Tasks /\ ~InMemory(t, "removed")
  BY <1>1 DEF OnceInv, IInv, TypeOK, Stored, Removable, Remembered
<1>3. ASSUME NEW d \in written, d.task = t, d.status = "removed"
      PROVE  FALSE
  <2>1. d \in Remembered
    BY <1>2, <1>3 DEF OnceInv, Held
  <2>2. QED
    BY <1>2, <1>3, <2>1 DEF InMemory, Remembered
<1>4. QED
  BY <1>1, <1>2, <1>3, OnceSave

LEMMA OnceLoad ==
    ASSUME OnceInv, IInv', LoadRecent
    PROVE  OnceInv'
<1>1. PICK K \in Newest(db, max) : memory' \in ByDate(K)
  BY DEF LoadRecent, Loaded
<1>2. UNCHANGED <<db, written>>
  BY DEF LoadRecent
<1>3. Held(K) /\ IsFiniteSet(K)
  <2>1. Held(db) /\ db \subseteq written /\ IsFiniteSet(written) /\ IInv
    BY DEF OnceInv, IInv, Stored
  <2>2. K \subseteq db
    BY <1>1, NewestIsThere
  <2>3. QED
    BY <1>1, <2>1, <2>2, NewestHolds, FS_Subset
<1>4. Remembered' = K /\ NewestFirst'
  BY <1>1, <1>3, ByDateIsAll DEF Remembered, NewestFirst
<1>5. QED
  BY <1>2, <1>3, <1>4 DEF OnceInv, Held, RemovedOnce

LEMMA OncePurge ==
    ASSUME OnceInv, IInv', LoadPurge \/ Purge
    PROVE  OnceInv'
<1>1. UNCHANGED <<memory, written>> /\ (db' \in Newest(db, max) \/ db' = db)
  BY DEF LoadPurge, Purge, PurgeCollection
<1>2. Held(db')
  <2>1. Held(db) /\ db \subseteq written /\ IInv
    BY DEF OnceInv, IInv, Stored
  <2>2. QED
    BY <1>1, <2>1, NewestHolds
<1>3. Held(db)'
  BY <1>1, <1>2 DEF Held
<1>4. QED
  BY <1>1, <1>3 DEF OnceInv, Held, Remembered, NewestFirst, RemovedOnce

LEMMA OnceCut ==
    ASSUME OnceInv, IInv', RemovedDone
    PROVE  OnceInv'
<1>1. UNCHANGED <<db, written>> /\ memory' = Kept
  BY DEF RemovedDone
<1>2. memory \in Seq(Record) /\ Len(memory) \in Nat /\ max \in Nat \ {0}
      /\ DOMAIN memory = 1..Len(memory)
  BY DEF OnceInv, IInv, TypeOK
<1>3. /\ DOMAIN memory' \subseteq DOMAIN memory
      /\ \A k \in DOMAIN memory' : memory'[k] = memory[k]
      /\ \A j, k \in DOMAIN memory : k \in DOMAIN memory' /\ j < k => j \in DOMAIN memory'
  BY <1>1, <1>2 DEF Kept
<1>4. NewestFirst'
  BY <1>3 DEF OnceInv, NewestFirst
<1>5. ASSUME NEW c \in written, NEW d \in written, c.task = d.task,
             c.status = "running", d.status = "removed", c \in Remembered'
      PROVE  d \in Remembered'
  <2>1. PICK k \in DOMAIN memory' : c = memory[k] /\ k \in DOMAIN memory
    BY <1>3, <1>5 DEF Remembered
  <2>2. d \in Remembered
    BY <1>5, <2>1 DEF OnceInv, Held, Remembered
  <2>3. PICK j \in DOMAIN memory : d = memory[j]
    BY <2>2 DEF Remembered
  <2>4. c.date < d.date /\ c.date \in Nat /\ d.date \in Nat
    BY <1>5 DEF OnceInv, IInv, LifecycleInOrder, TypeOK
  <2>5. j < k
    <3>1. j # k /\ (k < j => d.date <= c.date)
      BY <2>1, <2>3, <2>4 DEF OnceInv, NewestFirst
    <3>2. QED
      BY <1>2, <2>1, <2>3, <2>4, <3>1
  <2>6. j \in DOMAIN memory' /\ d = memory'[j]
    BY <1>3, <2>1, <2>3, <2>5
  <2>7. QED
    BY <2>6 DEF Remembered
<1>6. QED
  BY <1>1, <1>4, <1>5 DEF OnceInv, Held, RemovedOnce

LEMMA OnceStep == "lost" \notin Faults /\ OnceInv /\ [Next]_vars => OnceInv'
<1> SUFFICES ASSUME "lost" \notin Faults, OnceInv, [Next]_vars PROVE OnceInv'
  OBVIOUS
<1>1. IInv'
  BY StepIInv DEF OnceInv
<1>2. CASE UNCHANGED <<db, written, memory>>
  BY <1>1, <1>2 DEF OnceInv, Held, Remembered, NewestFirst, RemovedOnce
<1>3. CASE UNCHANGED <<db, written>> /\ memory' = <<>>
  <2>1. NewestFirst' /\ Remembered' = {}
    BY <1>3 DEF NewestFirst, Remembered
  <2>2. QED
    BY <1>1, <1>3, <2>1 DEF OnceInv, Held, RemovedOnce
<1>4. CASE \E t \in Tasks : RecordRunning(t)
  BY <1>1, <1>4, OnceRunning
<1>5. CASE RecordRemoved \/ LoadRecent \/ LoadPurge \/ Purge \/ RemovedDone
  BY <1>1, <1>5, OnceRemoved, OnceLoad, OncePurge, OnceCut
<1>6. CASE LoadFails \/ LoadSettings \/ ReadSettings \/ ListTasks \/ RunningDone
           \/ Wake \/ ChangeSetting \/ UNCHANGED vars \/ \E t \in Tasks : Progress(t)
  BY <1>2, <1>6 DEF LoadFails, LoadSettings, ReadSettings, ListTasks, RunningDone,
     Wake, ChangeSetting, Progress, vars
<1>7. CASE Boot \/ Crash
  BY <1>3, <1>7 DEF Boot, Crash
<1>8. QED
  BY <1>4, <1>5, <1>6, <1>7 DEF Next, Manager

\* A removal is reported once, whatever is cut from memory and collection and
\* however often the process restarts, unless a document is written and the
\* manager is told it was not (saveTaskMonitorization swallows the error).
THEOREM RemovedIsReportedOnce == "lost" \notin Faults => (Spec => []RemovedOnce)
<1> SUFFICES ASSUME "lost" \notin Faults PROVE Spec => []RemovedOnce
  OBVIOUS
<1>1. OnceInv /\ [Next]_vars => OnceInv'
  BY OnceStep
<1>2. OnceInv => RemovedOnce
  BY DEF OnceInv
<1>3. QED
  BY OnceInit, <1>1, <1>2, PTL DEF Spec

------------------------------------------------------------------------------
(* A running task is reported once.                                         *)

\* The retention never has to cut, every write is answered, and the collection
\* can be read when the process starts.
NothingForgotten ==
    /\ "lost" \notin Faults /\ "load" \notin Faults
    /\ \A n \in Quantities : MaxRecords <= n

Booting == {"down", "loadSettings", "load"}
SeenInv ==
    /\ IInv /\ SeenOnce
    /\ db = written /\ Cardinality(written) <= MaxRecords
    /\ Len(memory) <= Cardinality(written)
    /\ pc \notin Booting => Remembered = written
    /\ pc \notin {"down", "loadSettings"} => max \in Quantities

LEMMA SeenInit == Init => SeenInv
<1> SUFFICES ASSUME Init PROVE SeenInv
  OBVIOUS
<1>1. IInv /\ written = {} /\ db = {} /\ memory = <<>> /\ pc = "down"
  BY InitIInv DEF Init
<1>2. Cardinality(written) = 0 /\ Len(memory) = 0
  BY <1>1, FS_EmptySet
<1>3. QED
  BY <1>1, <1>2, BoundsAssumption DEF SeenInv, SeenOnce, Booting

LEMMA SeenSave ==
    ASSUME SeenInv, IInv', "lost" \notin Faults, NEW t \in Tasks, NEW status \in Statuses,
           Save(t, status), pc \in {"running", "removed"}, pc' = pc, max' = max,
           ~InMemory(t, status)
    PROVE  SeenInv'
<1>1. CASE UNCHANGED <<db, written, memory, clock>>
  BY <1>1 DEF SeenInv, Remembered, SeenOnce, Booting
<1>2. CASE \E doc \in Record :
              /\ doc.task = t /\ doc.status = status /\ clock <= doc.date
              /\ db' = db \cup {doc} /\ written' = written \cup {doc}
              /\ memory' = Remember(doc)
  <2>1. PICK doc \in Record :
              /\ doc.task = t /\ doc.status = status
              /\ db' = db \cup {doc} /\ written' = written \cup {doc}
              /\ memory' = Remember(doc)
    BY <1>2
  <2>2. /\ memory \in Seq(Record) /\ Len(memory) \in Nat /\ IsFiniteSet(written)
        /\ Cardinality(written) \in Nat
        /\ Remembered = written /\ max \in Quantities /\ db = written
    BY FS_CardinalityType DEF SeenInv, IInv, TypeOK, Stored, Booting
  <2>3. \A d \in written : d.task = t => d.status # status
    BY <2>2 DEF InMemory, Remembered
  <2>4. doc \notin written
    BY <2>1, <2>3
  <2>5. Cardinality(written') = Cardinality(written) + 1
    BY <2>1, <2>2, <2>4, FS_AddElement
  <2>6. Cardinality(written) < MaxRecords /\ MaxRecords \in Nat
    BY BoundsAssumption DEF Save
  <2>7. Len(memory') = Len(memory) + 1
    BY <2>1, <2>2 DEF Remember
  <2>8. Remembered' = written'
    BY <2>1, <2>2, RememberFacts
  <2>9. SeenOnce'
    BY <2>1, <2>3 DEF SeenInv, SeenOnce
  <2>10. Cardinality(written') <= MaxRecords /\ Len(memory') <= Cardinality(written')
    BY <2>2, <2>5, <2>6, <2>7 DEF SeenInv
  <2>11. QED
    BY <2>1, <2>2, <2>8, <2>9, <2>10 DEF SeenInv
<1>3. QED
  BY <1>1, <1>2, SaveOne DEF SeenInv

LEMMA SeenRunning ==
    ASSUME SeenInv, IInv', "lost" \notin Faults, NEW t \in Tasks, RecordRunning(t)
    PROVE  SeenInv'
<1>1. CASE ~Recordable(t)
  BY <1>1 DEF RecordRunning, SeenInv, Remembered, SeenOnce, Booting
<1>2. CASE Recordable(t)
  BY <1>2, SeenSave DEF RecordRunning, Recordable
<1>3. QED
  BY <1>1, <1>2

LEMMA SeenRemoved ==
    ASSUME SeenInv, IInv', "lost" \notin Faults, RecordRemoved
    PROVE  SeenInv'
<1>1. PICK k \in DOMAIN memory : Removable(k) /\ Save(memory[k].task, "removed")
  BY DEF RecordRemoved, ToRemove
<1>2. memory[k].task \in Tasks
  <2>1. memory[k] \in written /\ written \subseteq Record
    BY DEF SeenInv, IInv, TypeOK, Stored
  <2>2. QED
    BY <2>1
<1>3. QED
  BY <1>1, <1>2, SeenSave DEF RecordRemoved, Removable

\* What is small enough is answered and kept whole.
LEMMA NewestIsAll ==
    ASSUME SeenInv, NothingForgotten, max \in Quantities, NEW K \in Newest(db, max)
    PROVE  K = written /\ IsFiniteSet(K)
<1>1. /\ IsFiniteSet(written) /\ Cardinality(written) \in Nat /\ db = written
      /\ Cardinality(written) <= MaxRecords
  BY FS_CardinalityType DEF SeenInv, IInv, Stored
<1>2. Cardinality(written) <= max /\ max \in Nat
  BY <1>1, QuantitiesAssumption, BoundsAssumption DEF NothingForgotten
<1>3. K \subseteq written /\ Cardinality(K) = Cardinality(written)
  BY <1>1, <1>2 DEF Newest
<1>4. QED
  BY <1>1, <1>3, FS_Subset

LEMMA SeenLoad ==
    ASSUME SeenInv, IInv', NothingForgotten, LoadRecent
    PROVE  SeenInv'
<1>1. PICK K \in Newest(db, max) : memory' \in ByDate(K)
  BY DEF LoadRecent, Loaded
<1>2. UNCHANGED <<db, written, max>> /\ pc = "load" /\ max \in Quantities
  BY DEF LoadRecent, SeenInv
<1>3. K = written /\ IsFiniteSet(K)
  BY <1>1, <1>2, NewestIsAll
<1>4. Remembered' = written'
  BY <1>1, <1>2, <1>3, ByDateIsAll DEF Remembered
<1>5. Len(memory') = Cardinality(K)
  <2>1. Cardinality(K) \in Nat /\ memory' \in [1..Cardinality(K) -> K]
    BY <1>1, <1>3, FS_CardinalityType DEF ByDate
  <2>2. QED
    BY <2>1
<1>6. Cardinality(K) \in Nat
  BY <1>3, FS_CardinalityType
<1>7. QED
  BY <1>2, <1>3, <1>4, <1>5, <1>6 DEF SeenInv, SeenOnce

LEMMA SeenPurge ==
    ASSUME SeenInv, IInv', NothingForgotten, LoadPurge \/ Purge
    PROVE  SeenInv'
<1>1. UNCHANGED <<memory, written, max>> /\ (db' \in Newest(db, max) \/ db' = db)
      /\ pc \in {"loadPurge", "purge"} /\ pc' \in {"settings", "sleep"}
  BY DEF LoadPurge, Purge, PurgeCollection
<1>2. max \in Quantities
  BY <1>1 DEF SeenInv
<1>3. db' = written
  BY <1>1, <1>2, NewestIsAll DEF SeenInv
<1>4. QED
  BY <1>1, <1>2, <1>3 DEF SeenInv, SeenOnce, Remembered, Booting

LEMMA SeenCut ==
    ASSUME SeenInv, IInv', NothingForgotten, RemovedDone
    PROVE  SeenInv'
<1>1. UNCHANGED <<db, written, max>> /\ memory' = Kept /\ pc = "removed" /\ pc' = "purge"
  BY DEF RemovedDone
<1>2. /\ max \in Quantities /\ max \in Nat /\ MaxRecords <= max
      /\ Len(memory) \in Nat /\ Cardinality(written) \in Nat
  BY <1>1, QuantitiesAssumption, FS_CardinalityType
     DEF SeenInv, NothingForgotten, IInv, TypeOK, Stored
<1>3. ~(Len(memory) > max)
  BY <1>2, BoundsAssumption DEF SeenInv
<1>4. memory' = memory
  BY <1>1, <1>3 DEF Kept
<1>5. QED
  BY <1>1, <1>2, <1>4 DEF SeenInv, SeenOnce, Remembered, Booting

LEMMA SeenStep == NothingForgotten /\ SeenInv /\ [Next]_vars => SeenInv'
<1> SUFFICES ASSUME NothingForgotten, SeenInv, [Next]_vars PROVE SeenInv'
  OBVIOUS
<1>1. IInv' /\ "lost" \notin Faults /\ ~LoadFails
  BY StepIInv DEF SeenInv, NothingForgotten, LoadFails, Fault
<1>2. /\ Cardinality(written) \in Nat /\ setting \in Quantities
      /\ IsFiniteSet(written)
  BY FS_CardinalityType DEF SeenInv, IInv, TypeOK, Stored
<1>3. CASE LoadSettings \/ ReadSettings
  BY <1>1, <1>2, <1>3 DEF LoadSettings, ReadSettings, SeenInv, SeenOnce, Remembered, Booting
<1>4. CASE ListTasks \/ RunningDone \/ Wake \/ ChangeSetting \/ UNCHANGED vars
           \/ \E t \in Tasks : Progress(t)
  <2>1. UNCHANGED <<db, written, memory, max>>
        /\ (pc' \in Booting => pc \in Booting)
        /\ (pc' \in {"down", "loadSettings"} <=> pc \in {"down", "loadSettings"})
    BY <1>4 DEF ListTasks, RunningDone, Wake, ChangeSetting, vars, Progress, Booting
  <2>2. pc \in Booting => pc' = pc
    BY <1>4 DEF ListTasks, RunningDone, Wake, ChangeSetting, vars, Progress, Booting
  <2>3. QED
    BY <1>1, <2>1, <2>2 DEF SeenInv, SeenOnce, Remembered
<1>5. CASE Boot \/ Crash
  <2>1. UNCHANGED <<db, written>> /\ memory' = <<>> /\ pc' \in {"down", "loadSettings"}
    BY <1>5 DEF Boot, Crash
  <2>2. Len(memory') = 0
    BY <2>1
  <2>3. QED
    BY <1>1, <1>2, <2>1, <2>2 DEF SeenInv, SeenOnce, Booting
<1>6. CASE \E t \in Tasks : RecordRunning(t)
  BY <1>1, <1>6, SeenRunning
<1>7. CASE RecordRemoved \/ LoadRecent \/ LoadPurge \/ Purge \/ RemovedDone
  BY <1>1, <1>7, SeenRemoved, SeenLoad, SeenPurge, SeenCut
<1>8. QED
  BY <1>1, <1>3, <1>4, <1>5, <1>6, <1>7 DEF Next, Manager

\* As long as nothing is cut and every write is answered, a running task is
\* reported once, over every restart of the process (start, getRecent).
THEOREM RunningIsReportedOnce == NothingForgotten => (Spec => []SeenOnce)
<1> SUFFICES ASSUME NothingForgotten PROVE Spec => []SeenOnce
  OBVIOUS
<1>1. SeenInv /\ [Next]_vars => SeenInv'
  BY SeenStep
<1>2. SeenInv => SeenOnce
  BY DEF SeenInv
<1>3. QED
  BY SeenInit, <1>1, <1>2, PTL DEF Spec
==============================================================================
