------------------------- MODULE MonitoringCollection -------------------------
(***************************************************************************)
(* Monitoring configurations and the samples collected for them: the       *)
(* collector process (MonitoringCollector, MonitoringWorker) and the       *)
(* requests of the backend that create, pause, resume and delete           *)
(* configurations (MonitoringRoutes, MonitoringService), two processes     *)
(* that share nothing but the database.                                    *)
(*                                                                         *)
(* A collection is one call of collect(); the guard that keeps calls from  *)
(* overlapping is part of the model, so a collection runs in a slot of its *)
(* own.  It takes its configurations and its time when it begins and works *)
(* through them one awaited call at a time, while requests, the clock and  *)
(* Docker go on.  Time is in units of which an interval, a retention and a *)
(* date window are small multiples.  A sample is known by configuration,   *)
(* task and instant; its metrics are left out.                             *)
(***************************************************************************)
EXTENDS Naturals, FiniteSets

CONSTANTS Services,   \* names of Swarm services
          Configs,    \* identifiers of configuration documents, used once
          Tasks,      \* tasks that may run for a service
          Slots,      \* room for collections that would overlap
          Requests,   \* HTTP requests the backend may receive
          Jobs,       \* what a request may ask for
          Page,       \* how many samples are looked up at once, 500
          Faults,     \* which of "stats", "db" may happen
          MaxFaults,  \* bound: how many faults happen
          MaxTime,    \* bound: the clock stops here
          MaxIds,     \* bound: identifiers a service has one after the other
          Stored,     \* what the collection of configurations may hold at first
          None

Options == [type : {"permanent"}, interval : Nat \ {0}, scope : {"replic", "global"},
            holding : Nat \ {0}]
           \cup [type : {"calendar"}, interval : Nat \ {0},
                 scope : {"replic", "global"}, since : Nat, until : Nat]
Job == [op : {"create"}, services : SUBSET Services \ {{}}, options : Options]
       \cup [op : {"pause", "resume", "delete"}, config : Configs]
Document == [service : [name : Services, n : Nat], live : BOOLEAN,
             status : {"monitoring", "paused"}, options : Options]
ASSUME JobsAssumption == \A j \in Jobs : j \in Job
ASSUME StoredAssumption ==
    /\ Stored \subseteq [Configs -> Document \cup {None}]
    /\ \A D \in Stored :
          /\ IsFiniteSet({c \in Configs : D[c] # None})
          /\ \A c \in Configs : D[c] # None => D[c].service.n = 1
ASSUME BoundsAssumption ==
    /\ {MaxFaults, MaxTime, MaxIds} \subseteq Nat
    /\ Page \in Nat \ {0}
ASSUME SlotsAssumption == Slots \subseteq Nat \ {0}
ASSUME NoneAssumption == None \notin Configs \cup Services \cup Document \cup Job

VARIABLES
    now,             \* Date.now()
    identity,        \* Docker: the current identifier of a service
    configs,         \* configurations, also those that were deleted
    samples,         \* collection of samples
    req,             \* the handlers of the requests
    worker,          \* the collector process
    collecting,      \* the collector's flag
    scheduled,       \* scheduledCollection: the slot stop() waits for, or 0
    nextCollection,  \* per configuration, when it is due again
    slot,            \* the collections
    scans,           \* history: [config, start] of every turn of a collection
    failures,        \* history: [config, service] of turns that failed without
                     \* a fault, with the state of Docker they met
    faults

store == <<configs, samples>>
process == <<worker, collecting, scheduled, nextCollection, slot, scans, failures>>
vars == <<now, identity, store, req, process, faults>>

ServiceId(s, n) == [name |-> s, n |-> n]
Current(s) == ServiceId(s, identity[s])
Exists(c) == configs[c] # None /\ configs[c].live
Sample(c, t, at) == [config |-> c, task |-> t, at |-> at]

\* A lookup by configuration: at most a page of what matches, oldest first.
Oldest(S) ==
    {P \in SUBSET S :
        /\ Cardinality(P) = IF Cardinality(S) < Page THEN Cardinality(S) ELSE Page
        /\ \A p \in P, s \in S \ P : p.at <= s.at}

OfConfig(c) == {s \in samples : s.config = c}

Waiting == [pc |-> "free", start |-> 0, todo |-> {}, read |-> [c \in Configs |-> None],
            config |-> None, left |-> {}]
Idle == [pc |-> "idle", job |-> None, ids |-> {}, todo |-> {}, left |-> {},
         created |-> {}, skipped |-> {}]

Init ==
    /\ now = 0
    /\ identity = [s \in Services |-> 1]
    /\ configs \in Stored
    /\ samples = {}
    /\ req = [r \in Requests |-> Idle]
    /\ worker = "off" /\ collecting = FALSE /\ scheduled = 0
    /\ nextCollection = [c \in Configs |-> 0]
    /\ slot = [k \in Slots |-> Waiting]
    /\ scans = {} /\ failures = {}
    /\ faults = 0

Fault(kind) == kind \in Faults /\ faults < MaxFaults /\ faults' = faults + 1
NoFault == UNCHANGED faults

------------------------------------------------------------------------------
(* The collector. *)

\* Defect: nobody looks whether a collection is under way.
MayCollectAlways == TRUE
\* if (this.collecting) return
MayCollect == ~collecting

Begin(k) ==
    /\ slot[k].pc = "free"
    /\ MayCollect
    /\ collecting' = TRUE
    /\ scheduled' = k
    /\ slot' = [slot EXCEPT ![k] = [Waiting EXCEPT !.pc = "read", !.start = now]]

\* start() collects at once; the timer of a second repeats it.
Start ==
    /\ worker = "off"
    /\ worker' = "on"
    /\ \E k \in Slots : Begin(k)
    /\ UNCHANGED <<now, identity, store, req, nextCollection, scans, failures, faults>>

Fire(k) ==
    /\ worker = "on"
    /\ Begin(k)
    /\ UNCHANGED <<now, identity, store, req, worker, nextCollection, scans,
                   failures, faults>>

\* Defect: the flag is not reset when a collection fails.
FreedIfDone(k) == IF slot[k].pc = "read" THEN collecting ELSE FALSE
\* finally { this.collecting = false }
Freed(k) == FALSE

\* The call of collect() is over.
Over(k) ==
    /\ slot' = [slot EXCEPT ![k] = Waiting]
    /\ collecting' = Freed(k)
    /\ scheduled' = IF scheduled = k THEN 0 ELSE scheduled

InWindow(o, t) == o.type = "calendar" => o.since <= t /\ t <= o.until

\* Defect: a configuration is due whatever its interval.
IsDueAlways(c, doc, t) == doc.status = "monitoring" /\ InWindow(doc.options, t)
\* isDue
IsDue(c, doc, t) ==
    /\ doc.status = "monitoring"
    /\ nextCollection[c] <= t
    /\ InWindow(doc.options, t)

\* configurations.fetchAll(); if it fails the collection is over.
FetchAll(k) ==
    /\ slot[k].pc = "read"
    /\ \/ /\ NoFault
          /\ LET due == {c \in Configs : Exists(c) /\ IsDue(c, configs[c], slot[k].start)}
             IN  IF due = {} THEN Over(k)
                 ELSE /\ slot' = [slot EXCEPT ![k].pc = "next", ![k].todo = due,
                                              ![k].read = configs]
                      /\ UNCHANGED <<collecting, scheduled>>
       \/ Fault("db") /\ Over(k)
    /\ UNCHANGED <<now, identity, store, req, worker, nextCollection, scans, failures>>

\* Defect: "15s" is taken for a number as it is.
PostponedNaN(k, c) == [nextCollection EXCEPT ![c] = None]
\* nextCollection.set, before anything can fail.
Postponed(k, c) ==
    [nextCollection EXCEPT ![c] = slot[k].start + slot[k].read[c].options.interval]

\* The next configuration of the collection.
Turn(k) ==
    /\ slot[k].pc = "next"
    /\ \E c \in slot[k].todo :
          /\ nextCollection' = Postponed(k, c)
          /\ slot' = [slot EXCEPT ![k].pc = "stats", ![k].config = c,
                                  ![k].todo = @ \ {c}]
          /\ scans' = scans \cup {[config |-> c, start |-> slot[k].start]}
    /\ UNCHANGED <<now, identity, store, req, worker, collecting, scheduled,
                   failures, faults>>

\* This configuration is done with, well or badly.
TurnOver(k) ==
    IF slot[k].todo = {} THEN Over(k)
    ELSE /\ slot' = [slot EXCEPT ![k].pc = "next", ![k].config = None, ![k].left = {}]
         /\ UNCHANGED <<collecting, scheduled>>

\* What Docker answers for an identifier that is unknown: findServiceById
\* fails with 404, no service bears it as its name either, and the error is
\* Drax's NotFoundError(`Service ${identifier}`).
NotFoundMessage == "Service <identifier>"
\* The message on which fetchConfigurationStatistics asks by name instead.
FollowsName == NotFoundMessage = "Service not found"

\* The tasks of which there is a sample to record; one of them if the
\* configuration is for a replica.
Selections(o) ==
    {T \in SUBSET Tasks : o.scope = "replic" => Cardinality(T) <= 1}

\* fetchConfigurationStatistics, by identifier and perhaps by name.
FetchStatistics(k) ==
    /\ slot[k].pc = "stats"
    /\ LET c == slot[k].config
           doc == slot[k].read[c]
       IN  \/ /\ NoFault
              /\ (doc.service = Current(doc.service.name) \/ FollowsName)
              /\ \E T \in Selections(doc.options) :
                    slot' = [slot EXCEPT ![k].pc = IF T = {} THEN "prune" ELSE "record",
                                         ![k].left = {Sample(c, t, now) : t \in T}]
              /\ UNCHANGED <<collecting, scheduled, failures>>
           \/ /\ NoFault
              /\ doc.service # Current(doc.service.name) /\ ~FollowsName
              /\ failures' = failures \cup {[config |-> c, service |-> doc.service.name]}
              /\ TurnOver(k)
           \/ Fault("stats") /\ TurnOver(k) /\ UNCHANGED failures
    /\ UNCHANGED <<now, identity, store, req, worker, nextCollection, scans>>

\* samples.record, one sample.
Record(k) ==
    /\ slot[k].pc = "record"
    /\ \/ /\ NoFault
          /\ \E s \in slot[k].left :
                /\ samples' = samples \cup {s}
                /\ slot' = [slot EXCEPT ![k].left = @ \ {s},
                                        ![k].pc = IF slot[k].left = {s} THEN "prune" ELSE @]
          /\ UNCHANGED <<collecting, scheduled>>
       \/ Fault("db") /\ TurnOver(k) /\ UNCHANGED samples
    /\ UNCHANGED <<now, identity, configs, req, worker, nextCollection, scans, failures>>

\* Defect: off by one at the end of the retention.
ExpiredAtOnce(c, o, t) ==
    IF o.type = "calendar" THEN {} ELSE {s \in OfConfig(c) : s.at + o.holding <= t}
\* What prune deletes at time t.
Expired(c, o, t) ==
    IF o.type = "calendar" THEN {} ELSE {s \in OfConfig(c) : s.at + o.holding < t}

\* deleteMatching: a page is looked up, its samples are deleted one by one, and
\* again until a look-up finds none.
PruneFind(k) ==
    /\ slot[k].pc = "prune"
    /\ LET c == slot[k].config
           old == Expired(c, slot[k].read[c].options, slot[k].start)
       IN  \/ /\ NoFault /\ old # {}
              /\ \E P \in Oldest(old) :
                    slot' = [slot EXCEPT ![k].pc = "pruneDelete", ![k].left = P]
              /\ UNCHANGED <<collecting, scheduled>>
           \/ NoFault /\ old = {} /\ TurnOver(k)
           \/ Fault("db") /\ TurnOver(k)
    /\ UNCHANGED <<now, identity, store, req, worker, nextCollection, scans, failures>>

\* Somebody else may have deleted a sample meanwhile; the database takes that
\* for a success or for an error.
PruneDelete(k) ==
    /\ slot[k].pc = "pruneDelete"
    /\ \E s \in slot[k].left :
       \/ /\ NoFault
          /\ samples' = samples \ {s}
          /\ slot' = [slot EXCEPT ![k].left = @ \ {s},
                                  ![k].pc = IF slot[k].left = {s} THEN "prune" ELSE @]
          /\ UNCHANGED <<collecting, scheduled>>
       \/ /\ \/ s \notin samples /\ NoFault
             \/ Fault("db")
          /\ TurnOver(k) /\ UNCHANGED samples
    /\ UNCHANGED <<now, identity, configs, req, worker, nextCollection, scans, failures>>

\* SIGINT or SIGTERM: stop() clears the timer and awaits the collection.
Stop ==
    /\ worker = "on"
    /\ worker' = "stopping"
    /\ UNCHANGED <<now, identity, store, req, collecting, scheduled,
                   nextCollection, slot, scans, failures, faults>>

\* Defect: the collection under way is not awaited.
MayExitAtOnce == TRUE
\* await this.scheduledCollection
MayExit == scheduled = 0

Exit ==
    /\ worker = "stopping" /\ MayExit
    /\ worker' = "ended"
    /\ UNCHANGED <<now, identity, store, req, collecting, scheduled,
                   nextCollection, slot, scans, failures, faults>>

------------------------------------------------------------------------------
(* The requests. *)

At(r, call) == req[r].pc = call
Goto(r, call) == req' = [req EXCEPT ![r].pc = call]
Finish(r) == Goto(r, "done")
Fail(r) == Goto(r, "failed")

\* The route checked permission and input, and for a creation listed the
\* services, which names the identifiers it goes on with.
Receive(r) ==
    /\ At(r, "idle")
    /\ \E job \in Jobs :
          /\ job.op # "create" => configs[job.config] # None
          /\ req' = [req EXCEPT ![r] =
              IF job.op = "create"
              THEN [Idle EXCEPT !.pc = "findOne", !.job = job,
                                !.ids = {Current(s) : s \in job.services},
                                !.todo = {Current(s) : s \in job.services}]
              ELSE [Idle EXCEPT !.pc = "findConfig", !.job = job]]
    /\ UNCHANGED <<now, identity, store, process, faults>>

Monitored(id) == \E c \in Configs : Exists(c) /\ configs[c].service = id

\* Defect: a service that is found is not reported.
AccountedSilently(r, id, field) ==
    [req EXCEPT ![r].todo = @ \ {id},
                ![r].created = IF field = "created" THEN @ \cup {id} ELSE @,
                ![r].pc = IF req[r].todo = {id} THEN "done" ELSE "findOne"]
\* One service of a creation is done with.
Accounted(r, id, field) ==
    [req EXCEPT ![r].todo = @ \ {id},
                ![r].created = IF field = "created" THEN @ \cup {id} ELSE @,
                ![r].skipped = IF field = "skipped" THEN @ \cup {id} ELSE @,
                ![r].pc = IF req[r].todo = {id} THEN "done" ELSE "findOne"]

\* createForServices: is the next service monitored?
FindOne(r) ==
    /\ At(r, "findOne")
    /\ \E id \in req[r].todo :
          req' = IF Monitored(id) THEN Accounted(r, id, "skipped")
                 ELSE [req EXCEPT ![r].pc = "insert", ![r].left = {id}]
    /\ UNCHANGED <<now, identity, store, process, faults>>

\* It was not; the collection holds one configuration per identifier.
Insert(r) ==
    /\ At(r, "insert")
    /\ \E id \in req[r].left :
          IF Monitored(id)
          THEN Goto(r, "recheck") /\ UNCHANGED configs
          ELSE \E c \in Configs :
                  /\ configs[c] = None
                  /\ configs' = [configs EXCEPT ![c] =
                        [service |-> id, live |-> TRUE, status |-> "monitoring",
                         options |-> req[r].job.options]]
                  /\ req' = Accounted(r, id, "created")
    /\ UNCHANGED <<now, identity, samples, process, faults>>

\* Somebody else created it meanwhile, and it must still be there.
Recheck(r) ==
    /\ At(r, "recheck")
    /\ \E id \in req[r].left :
          IF Monitored(id) THEN req' = Accounted(r, id, "skipped") ELSE Fail(r)
    /\ UNCHANGED <<now, identity, store, process, faults>>

\* findById of pause, resume and delete; a configuration that is gone is 404.
FindConfig(r) ==
    /\ At(r, "findConfig")
    /\ IF ~Exists(req[r].job.config) THEN Fail(r)
       ELSE Goto(r, IF req[r].job.op = "delete" THEN "deleteConfig" ELSE "setStatus")
    /\ UNCHANGED <<now, identity, store, process, faults>>

\* updatePartial; what it says of a configuration that is gone is up to Drax.
SetStatus(r) ==
    /\ At(r, "setStatus")
    /\ LET c == req[r].job.config IN
       \/ /\ Exists(c)
          /\ configs' = [configs EXCEPT ![c].status =
                IF req[r].job.op = "pause" THEN "paused" ELSE "monitoring"]
          /\ Finish(r)
       \/ ~Exists(c) /\ (Finish(r) \/ Fail(r)) /\ UNCHANGED configs
    /\ UNCHANGED <<now, identity, samples, process, faults>>

\* service.delete: the configuration first, its samples after it.
DeleteConfig(r) ==
    /\ At(r, "deleteConfig")
    /\ LET c == req[r].job.config IN
       /\ configs' = [configs EXCEPT ![c].live = FALSE]
       /\ \/ Goto(r, "findSamples")
          \/ ~Exists(c) /\ Fail(r)
    /\ UNCHANGED <<now, identity, samples, process, faults>>

\* deleteForConfiguration, by the same deleteMatching.
FindSamples(r) ==
    /\ At(r, "findSamples")
    /\ LET mine == OfConfig(req[r].job.config) IN
       \/ mine = {} /\ Finish(r)
       \/ /\ mine # {}
          /\ \E P \in Oldest(mine) :
                req' = [req EXCEPT ![r].pc = "deleteSample", ![r].left = P]
    /\ UNCHANGED <<now, identity, store, process, faults>>

DeleteSample(r) ==
    /\ At(r, "deleteSample")
    /\ \E s \in req[r].left :
       \/ /\ samples' = samples \ {s}
          /\ req' = [req EXCEPT ![r].left = @ \ {s},
                                ![r].pc = IF req[r].left = {s} THEN "findSamples" ELSE @]
       \/ s \notin samples /\ Fail(r) /\ UNCHANGED samples
    /\ UNCHANGED <<now, identity, configs, process, faults>>

Answered == {"done", "failed"}

\* The database fails a call of a request.
RequestFails(r) ==
    /\ req[r].pc \notin Answered \cup {"idle"}
    /\ Fault("db")
    /\ Fail(r)
    /\ UNCHANGED <<now, identity, store, process>>

------------------------------------------------------------------------------
Tick ==
    /\ now < MaxTime
    /\ now' = now + 1
    /\ UNCHANGED <<identity, store, req, process, faults>>

\* A service is removed and created again under its name.
Recreate(s) ==
    /\ identity[s] < MaxIds
    /\ identity' = [identity EXCEPT ![s] = @ + 1]
    /\ UNCHANGED <<now, store, req, process, faults>>

Collect(k) ==
    \/ FetchAll(k) \/ Turn(k) \/ FetchStatistics(k) \/ Record(k)
    \/ PruneFind(k) \/ PruneDelete(k)

Handle(r) ==
    \/ FindOne(r) \/ Insert(r) \/ Recheck(r)
    \/ FindConfig(r) \/ SetStatus(r) \/ DeleteConfig(r)
    \/ FindSamples(r) \/ DeleteSample(r) \/ RequestFails(r)

Next ==
    \/ Start \/ Stop \/ Exit
    \/ \E k \in Slots : Fire(k) \/ Collect(k)
    \/ \E r \in Requests : Receive(r) \/ Handle(r)
    \/ Tick
    \/ \E s \in Services : Recreate(s)

\* The timer fires, and every awaited call is answered or fails.
Fairness ==
    /\ WF_vars(\E k \in Slots : Fire(k))
    /\ \A k \in Slots : WF_vars(Collect(k))
    /\ \A r \in Requests : WF_vars(Handle(r))
    /\ WF_vars(Exit)

Spec == Init /\ [][Next]_vars /\ Fairness

------------------------------------------------------------------------------
SampleType == [config : Configs, task : Tasks, at : Nat]
SlotType == [pc : {"free", "read", "next", "stats", "record", "prune", "pruneDelete"},
             start : Nat, todo : SUBSET Configs,
             read : [Configs -> Document \cup {None}],
             config : Configs \cup {None}, left : SUBSET SampleType]

\* The stores and the collector's fields keep their types.
TypeOK ==
    /\ now \in Nat
    /\ identity \in [Services -> Nat]
    /\ configs \in [Configs -> Document \cup {None}]
    /\ samples \subseteq SampleType
    /\ \A r \in Requests : req[r].job \in Jobs \cup {None}
    /\ worker \in {"off", "on", "stopping", "ended"}
    /\ collecting \in BOOLEAN
    /\ scheduled \in Slots \cup {0}
    /\ nextCollection \in [Configs -> Nat]
    /\ slot \in [Slots -> SlotType]
    /\ faults \in Nat

Active == {k \in Slots : slot[k].pc # "free"}

\* Scans do not overlap, however slow the nodes are and however the timer fires.
NoOverlap == Cardinality(Active) <= 1

\* When stop() has been answered nothing of the collector is still at work.
NothingAfterExit == worker = "ended" => Active = {}

\* A configuration is not scanned again before its interval is over, also when
\* the scan failed, was slow, or was paused and resumed in between.
IntervalKept ==
    \A p, q \in scans :
        p.config = q.config /\ p # q /\ configs[p.config] # None =>
            \/ p.start + configs[p.config].options.interval <= q.start
            \/ q.start + configs[p.config].options.interval <= p.start

\* A sample is only ever deleted when its retention is over or because its
\* configuration was.
NoSampleLostEarly ==
    [][\A s \in samples \ samples' :
          \/ ~Exists(s.config)
          \/ /\ configs[s.config].options.type = "permanent"
             /\ s.at + configs[s.config].options.holding < now]_vars

\* A creation that is answered accounts for every service once, and no
\* configuration is claimed by two creations.
CreationsAddUp ==
    /\ \A r \in Requests :
          At(r, "done") /\ req[r].job.op = "create" =>
              /\ req[r].created \cup req[r].skipped = req[r].ids
              /\ req[r].created \cap req[r].skipped = {}
    /\ \A id \in UNION {req[r].ids : r \in Requests} :
          Cardinality({r \in Requests : id \in req[r].created})
          <= Cardinality({c \in Configs : configs[c] # None /\ configs[c].service = id})

\* All of it: what the collector and the requests owe each other at any moment.
WorksAsConfigured ==
    TypeOK /\ NoOverlap /\ NothingAfterExit /\ IntervalKept /\ CreationsAddUp

\* Every configuration that is due is scanned, also when a scan fails or
\* another configuration keeps failing.
Due(c) == worker = "on" /\ Exists(c) /\ IsDue(c, configs[c], now)
DueIsCollected == \A c \in Configs : Due(c) ~> ~Due(c)

\* "Deleting a configuration also deletes its samples": when the request is
\* answered none is left.
DeletedLeavesNothing ==
    \A r \in Requests :
        At(r, "done") /\ req[r].job.op = "delete" => OfConfig(req[r].job.config) = {}

\* The collector follows the stored service name when a service is recreated:
\* a scan does not fail because the identifier is an old one.
FollowsTheName == failures = {}
==============================================================================
