--------------------- MODULE MonitoringCollection_proofs ---------------------
(***************************************************************************)
(* Proofs about MonitoringCollection, for all services, configurations,    *)
(* slots and requests: scans keep apart, creations add up, and no sample   *)
(* is lost early.                                                          *)
(*                                                                         *)
(* What a collection read stays true while it works: a configuration may   *)
(* be paused or deleted under it, but keeps its service and its options,   *)
(* and only the collection itself moves the instants at which it is due.   *)
(***************************************************************************)
EXTENDS MonitoringCollection, FiniteSetTheorems, TLAPS

-----------------------------------------------------------------------------
(* The inductive invariant.                                                *)

Ids == [name : Services, n : Nat]
Creating == {"findOne", "insert", "recheck"}
Turning == {"stats", "record", "prune", "pruneDelete"}
Changing == {"findConfig", "setStatus", "deleteConfig", "findSamples", "deleteSample"}
RequestType ==
    [pc : Creating \cup Changing \cup Answered \cup {"idle"},
     job : Jobs \cup {None}, ids : SUBSET Ids, todo : SUBSET Ids,
     left : SUBSET (Ids \cup SampleType), created : SUBSET Ids, skipped : SUBSET Ids]

\* A sample whose retention is over.
MayGo(s) ==
    /\ configs[s.config] # None /\ configs[s.config].options.type = "permanent"
    /\ s.at + configs[s.config].options.holding < now

\* What a collection has before it is as it was read and as it was due then.
Known(c, read) ==
    /\ read[c] # None
    /\ configs[c] # None /\ configs[c].options = read[c].options
Sound(s) ==
    s.pc # "free" =>
        /\ s.start <= now
        /\ \A c \in s.todo : Known(c, s.read) /\ nextCollection[c] <= s.start
        /\ s.pc \in Turning => s.config \in Configs /\ Known(s.config, s.read)
        /\ s.pc = "pruneDelete" => \A x \in s.left : MayGo(x)
Reads == \A k \in Slots : Sound(slot[k])

\* A collection that is under way is the one stop() waits for.
Flag ==
    /\ \A k \in Slots : slot[k].pc # "free" => collecting /\ scheduled = k
    /\ worker = "ended" => scheduled = 0

\* A scan is over when its configuration is due again.
Scanned ==
    \A p \in scans :
        /\ p.config \in Configs /\ p.start \in Nat /\ configs[p.config] # None
        /\ p.start + configs[p.config].options.interval <= nextCollection[p.config]

\* Where a request may be with its job, and what it deletes is gone.
Placed(q) ==
    /\ q.pc = "idle" => q.created = {}
    /\ q.pc # "idle" => q.job \in Jobs
    /\ q.pc \in Creating => q.job.op = "create"
    /\ q.pc \in {"insert", "recheck"} => q.left \subseteq q.todo
    /\ q.pc \in Changing => q.job.op # "create" /\ configs[q.job.config] # None
    /\ q.pc \in {"findSamples", "deleteSample"} => ~Exists(q.job.config)
    /\ q.pc = "deleteSample" => \A s \in q.left : s.config = q.job.config
Flow == \A r \in Requests : Placed(req[r])

\* Every service of a creation is accounted for or yet to be.
Summed(q) ==
    /\ q.created \cup q.skipped \cup q.todo = q.ids
    /\ q.created \cap q.skipped = {}
    /\ q.created \cap q.todo = {}
    /\ q.skipped \cap q.todo = {}
    /\ q.pc = "done" /\ q.job.op = "create" => q.todo = {}
Sums == \A r \in Requests : Summed(req[r])

\* No configuration is claimed twice.
Creators(id) == {r \in Requests : id \in req[r].created}
Monitors(id) == {c \in Configs : configs[c] # None /\ configs[c].service = id}
Claims ==
    \A id \in Ids :
        /\ IsFiniteSet(Creators(id)) /\ IsFiniteSet(Monitors(id))
        /\ Cardinality(Creators(id)) <= Cardinality(Monitors(id))

Inv == /\ TypeOK /\ req \in [Requests -> RequestType]
       /\ Flag /\ Reads /\ Scanned /\ IntervalKept
       /\ Flow /\ Sums /\ Claims

-----------------------------------------------------------------------------
(* What the invariant says of types.                                       *)

LEMMA DocumentFields ==
  ASSUME NEW d \in Document
  PROVE  /\ d.service \in Ids /\ d.live \in BOOLEAN /\ d.options \in Options
         /\ d.status \in {"monitoring", "paused"} /\ d # None
  BY NoneAssumption DEF Document, Ids

LEMMA OptionFields ==
  ASSUME NEW o \in Options
  PROVE  /\ o.interval \in Nat \ {0}
         /\ o.type # "calendar" => o.type = "permanent" /\ o.holding \in Nat \ {0}
  BY DEF Options

LEMMA JobFields ==
  ASSUME NEW j \in Jobs
  PROVE  /\ j \in Job /\ j # None
         /\ j.op = "create" => j.services \subseteq Services /\ j.options \in Options
         /\ j.op # "create" => j.config \in Configs
  BY JobsAssumption, NoneAssumption DEF Job

\* A configuration that there is.
LEMMA ConfigFields ==
  ASSUME TypeOK, NEW c \in Configs, configs[c] # None
  PROVE  /\ configs[c] \in Document /\ configs[c].options \in Options
         /\ configs[c].options.interval \in Nat \ {0}
         /\ configs[c].service \in Ids
  <1>1. configs[c] \in Document
    BY DEF TypeOK
  <1>2. QED
    BY <1>1, DocumentFields, OptionFields

-----------------------------------------------------------------------------
LEMMA InitInv == Init => Inv
  <1> SUFFICES ASSUME Init PROVE Inv
    OBVIOUS
  <1> USE DEF Init
  <1>1. configs \in [Configs -> Document \cup {None}]
        /\ IsFiniteSet({c \in Configs : configs[c] # None})
    BY StoredAssumption
  <1>2. Waiting \in SlotType
    BY DEF Waiting, SlotType
  <1>3. TypeOK
    BY <1>1, <1>2 DEF TypeOK, Idle
  <1>4. req \in [Requests -> RequestType]
    BY DEF Idle, RequestType
  <1>5. Flag /\ Reads /\ Scanned /\ IntervalKept
    BY DEF Flag, Reads, Sound, Scanned, IntervalKept, Waiting
  <1>6. Flow /\ Sums
    BY DEF Flow, Placed, Sums, Summed, Idle, Creating, Changing
  <1>7. Claims
    <2> SUFFICES ASSUME NEW id \in Ids
                 PROVE  /\ IsFiniteSet(Creators(id)) /\ IsFiniteSet(Monitors(id))
                        /\ Cardinality(Creators(id)) <= Cardinality(Monitors(id))
      BY DEF Claims
    <2>1. Creators(id) = {}
      BY DEF Creators, Idle
    <2>2. Monitors(id) \subseteq {c \in Configs : configs[c] # None}
      BY DEF Monitors
    <2>3. IsFiniteSet(Monitors(id))
      BY <1>1, <2>2, FS_Subset
    <2>4. QED
      BY <2>1, <2>3, FS_EmptySet, FS_CardinalityType
  <1>8. QED
    BY <1>3, <1>4, <1>5, <1>6, <1>7 DEF Inv

-----------------------------------------------------------------------------
(* What a step may do to the configurations, and what it leaves true.      *)

\* A configuration may be paused and deleted; service and options stay.
Lasting ==
    \A c \in Configs : configs[c] # None =>
        /\ configs'[c] # None
        /\ configs'[c].service = configs[c].service
        /\ configs'[c].options = configs[c].options
        /\ configs'[c].live => configs[c].live

\* The collector rests while a request or the clock takes a step.
LEMMA CollectorRests ==
  ASSUME Inv, Lasting, UNCHANGED process, now' \in Nat, now <= now'
  PROVE  Flag' /\ Reads' /\ Scanned' /\ IntervalKept'
  <1> USE DEF process
  <1>1. Flag'
    BY DEF Inv, Flag
  <1>2. Reads'
    <2>1. SUFFICES ASSUME NEW k \in Slots, slot[k].pc # "free"
                   PROVE  Sound(slot[k])'
      BY DEF Reads, Sound
    <2>2. Sound(slot[k]) /\ slot[k] \in SlotType
      BY DEF Inv, Reads, TypeOK
    <2>3. \A c \in Configs : Known(c, slot[k].read) => Known(c, slot[k].read)'
      BY DEF Lasting, Known
    <2>4. \A c \in slot[k].todo :
              Known(c, slot[k].read)' /\ nextCollection'[c] <= slot[k].start
      BY <2>1, <2>2, <2>3 DEF Sound, SlotType
    <2>5. slot[k].pc \in Turning =>
              slot[k].config \in Configs /\ Known(slot[k].config, slot[k].read)'
      BY <2>1, <2>2, <2>3 DEF Sound
    <2>6. ASSUME slot[k].pc = "pruneDelete", NEW x \in slot[k].left
          PROVE  MayGo(x)'
      <3>1. x \in SampleType /\ MayGo(x)
        BY <2>1, <2>2, <2>6 DEF Sound, SlotType
      <3> DEFINE o == configs[x.config].options
      <3>2. /\ x.config \in Configs /\ configs'[x.config] # None
            /\ configs'[x.config].options = o
        BY <3>1 DEF SampleType, MayGo, Lasting
      <3>3. o \in Options /\ o.type = "permanent" /\ x.at + o.holding < now
        BY <3>1, <3>2, ConfigFields DEF Inv, MayGo
      <3>4. x.at \in Nat /\ o.holding \in Nat /\ now \in Nat
        BY <3>1, <3>3, OptionFields DEF SampleType, Inv, TypeOK
      <3> HIDE DEF o
      <3>5. x.at + o.holding < now'
        BY <3>3, <3>4
      <3>6. QED
        BY <3>2, <3>3, <3>5 DEF MayGo
    <2>7. slot[k].start <= now'
      BY <2>1, <2>2 DEF Sound, SlotType, Inv, TypeOK
    <2>8. QED
      BY <2>4, <2>5, <2>6, <2>7 DEF Sound
  <1>3. Scanned'
    BY DEF Inv, Scanned, Lasting
  <1>4. IntervalKept'
    BY DEF Inv, Scanned, IntervalKept, Lasting
  <1>5. QED
    BY <1>1, <1>2, <1>3, <1>4

\* The requests rest while the collector or the clock takes a step.
LEMMA RequestsRest ==
  ASSUME Inv, UNCHANGED <<configs, req>>
  PROVE  (req \in [Requests -> RequestType] /\ Flow /\ Sums /\ Claims)'
  BY DEF Inv, Flow, Placed, Exists, Sums, Summed, Claims, Creators, Monitors

\* One request takes a step.
LEMMA RequestStep ==
  ASSUME Inv, NEW r \in Requests, UNCHANGED <<now, identity, process>>, Lasting,
         configs' \in [Configs -> Document \cup {None}],
         samples' \subseteq SampleType, faults' \in Nat,
         req' \in [Requests -> RequestType],
         \A q \in Requests \ {r} : req'[q] = req[q],
         Placed(req[r])', Summed(req'[r]), Claims'
  PROVE  Inv'
  <1>1. TypeOK'
    <2>1. \A q \in Requests : req'[q].job \in Jobs \cup {None}
      BY DEF RequestType
    <2>2. QED
      BY <2>1 DEF Inv, TypeOK, process
  <1>2. Flag' /\ Reads' /\ Scanned' /\ IntervalKept'
    BY CollectorRests DEF Inv, TypeOK
  <1>3. Flow'
    <2>1. SUFFICES ASSUME NEW q \in Requests \ {r} PROVE Placed(req[q])'
      BY DEF Flow
    <2>2. Placed(req[q]) /\ req'[q] = req[q]
      BY DEF Inv, Flow
    <2>3. req[q].pc \in Changing => req[q].job.config \in Configs
      BY <2>2, JobFields DEF Placed, Changing
    <2>4. \A c \in Configs : /\ configs[c] # None => configs'[c] # None
                             /\ configs[c] # None /\ ~Exists(c) => ~Exists(c)'
      BY DEF Lasting, Exists
    <2>5. QED
      BY <2>2, <2>3, <2>4 DEF Placed, Changing
  <1>4. Sums'
    BY DEF Inv, Sums, Summed
  <1>5. QED
    BY <1>1, <1>2, <1>3, <1>4 DEF Inv

\* Nobody claims a configuration and none is created.
LEMMA ClaimsStay ==
  ASSUME Inv, Lasting, \A r \in Requests : req'[r].created = req[r].created,
         \A c \in Configs : configs[c] = None => configs'[c] = None
  PROVE  Claims'
  <1> SUFFICES ASSUME NEW id \in Ids
               PROVE  /\ IsFiniteSet(Creators(id)') /\ IsFiniteSet(Monitors(id)')
                      /\ Cardinality(Creators(id)') <= Cardinality(Monitors(id)')
    BY DEF Claims
  <1>1. Creators(id)' = Creators(id)
    BY DEF Creators
  <1>2. Monitors(id)' = Monitors(id)
    BY DEF Monitors, Lasting
  <1>3. QED
    BY <1>1, <1>2 DEF Inv, Claims

-----------------------------------------------------------------------------
(* The requests.                                                           *)

LEMMA RequestFields ==
  ASSUME Inv, NEW r \in Requests
  PROVE  /\ req[r] \in RequestType /\ Placed(req[r]) /\ Summed(req[r])
         /\ DOMAIN req = Requests
         /\ configs \in [Configs -> Document \cup {None}]
         /\ samples \subseteq SampleType /\ faults \in Nat
  BY DEF Inv, Flow, Sums, TypeOK

\* A request goes on to another call, or is answered, with what it has.
LEMMA GoesOn ==
  ASSUME Inv, NEW r \in Requests, NEW call, Goto(r, call),
         UNCHANGED <<now, identity, process>>, Lasting, faults' \in Nat,
         configs' \in [Configs -> Document \cup {None}],
         \A c \in Configs : configs[c] = None => configs'[c] = None,
         samples' \subseteq SampleType,
         call \in Creating \cup Changing \cup Answered,
         Placed(req[r])',
         call = "done" /\ req[r].job.op = "create" => req[r].todo = {}
  PROVE  Inv'
  <1> DEFINE new == [req[r] EXCEPT !.pc = call]
  <1>1. req[r] \in RequestType /\ Summed(req[r])
    BY RequestFields
  <1>2. new \in RequestType /\ new.pc = call
    BY <1>1 DEF RequestType
  <1>3. /\ new.job = req[r].job /\ new.ids = req[r].ids /\ new.todo = req[r].todo
        /\ new.created = req[r].created /\ new.skipped = req[r].skipped
    BY <1>1 DEF RequestType
  <1>4. req' = [req EXCEPT ![r] = new]
    BY DEF Goto
  <1> HIDE DEF new
  <1>6. Summed(new)
    BY <1>1, <1>2, <1>3 DEF Summed
  <1>7. /\ req' \in [Requests -> RequestType] /\ req'[r] = new
        /\ \A q \in Requests \ {r} : req'[q] = req[q]
    BY <1>2, <1>4 DEF Inv
  <1>8. Claims'
    <2>1. \A q \in Requests : req'[q].created = req[q].created
      BY <1>3, <1>7
    <2>2. QED
      BY <2>1, ClaimsStay
  <1>10. QED
    BY <1>6, <1>7, <1>8, RequestStep

\* One service of a creation is done with.
LEMMA Accounting ==
  ASSUME Inv, NEW r \in Requests, NEW id \in req[r].todo, req[r].pc \in Creating,
         NEW field \in {"created", "skipped"}, req' = Accounted(r, id, field)
  PROVE  /\ req' \in [Requests -> RequestType]
         /\ \A q \in Requests \ {r} : req'[q] = req[q]
         /\ Placed(req[r])' /\ Summed(req'[r])
         /\ req'[r].created =
              IF field = "created" THEN req[r].created \cup {id} ELSE req[r].created
         /\ id \in Ids /\ id \notin req[r].created
  <1> DEFINE old == req[r]
             new == [old EXCEPT
                       !.todo = @ \ {id},
                       !.created = IF field = "created" THEN @ \cup {id} ELSE @,
                       !.skipped = IF field = "skipped" THEN @ \cup {id} ELSE @,
                       !.pc = IF old.todo = {id} THEN "done" ELSE "findOne"]
  <1>1. old \in RequestType /\ Placed(old) /\ Summed(old) /\ DOMAIN req = Requests
    BY RequestFields
  <1>2. req' = [req EXCEPT ![r] = new]
    BY <1>1 DEF Accounted
  <1>3. id \in Ids /\ id \notin old.created /\ id \notin old.skipped
    BY <1>1 DEF RequestType, Summed
  <1>4. old.pc # "idle" /\ old.job \in Jobs /\ old.job.op = "create"
    BY <1>1 DEF Placed, Creating
  <1> HIDE DEF old
  <1>5. /\ new \in RequestType
        /\ new.job = old.job /\ new.ids = old.ids /\ new.todo = old.todo \ {id}
        /\ new.created = IF field = "created" THEN old.created \cup {id} ELSE old.created
        /\ new.skipped = IF field = "skipped" THEN old.skipped \cup {id} ELSE old.skipped
        /\ new.pc = IF old.todo = {id} THEN "done" ELSE "findOne"
    BY <1>1, <1>3 DEF RequestType, Creating, Answered
  <1> HIDE DEF new
  <1>6. req' \in [Requests -> RequestType] /\ req'[r] = new
        /\ \A q \in Requests \ {r} : req'[q] = req[q]
    BY <1>2, <1>5 DEF Inv
  <1>7. Summed(new)
    <2>1. id \in old.todo
      BY DEF old
    <2>2. QED
      BY <1>1, <1>3, <1>5, <2>1 DEF Summed
  <1>8. Placed(req[r])'
    BY <1>4, <1>5, <1>6 DEF Placed, Creating, Changing
  <1>9. QED
    BY <1>3, <1>5, <1>6, <1>7, <1>8 DEF old

LEMMA ReceiveStep ==
  ASSUME Inv, NEW r \in Requests, Receive(r)
  PROVE  Inv'
  <1>1. PICK job \in Jobs :
            /\ job.op # "create" => configs[job.config] # None
            /\ req' = [req EXCEPT ![r] =
              IF job.op = "create"
              THEN [Idle EXCEPT !.pc = "findOne", !.job = job,
                                !.ids = {Current(s) : s \in job.services},
                                !.todo = {Current(s) : s \in job.services}]
              ELSE [Idle EXCEPT !.pc = "findConfig", !.job = job]]
    BY DEF Receive
  <1> DEFINE ids == {Current(s) : s \in job.services}
             new == IF job.op = "create"
                    THEN [Idle EXCEPT !.pc = "findOne", !.job = job,
                                      !.ids = ids, !.todo = ids]
                    ELSE [Idle EXCEPT !.pc = "findConfig", !.job = job]
  <1>2. UNCHANGED <<now, identity, process, faults, configs, samples>>
    BY DEF Receive, store
  <1>3. job.op = "create" => ids \subseteq Ids
    BY JobFields DEF Inv, TypeOK, Current, ServiceId, Ids
  <1>4. req' = [req EXCEPT ![r] = new]
    BY <1>1
  <1> HIDE DEF ids
  <1>5. new \in RequestType /\ Summed(new)
    BY <1>3 DEF RequestType, Idle, Creating, Changing, Summed
  <1>6. new.created = {} /\ req[r].created = {}
    BY RequestFields DEF Idle, Placed, Receive, At
  <1>7. req' \in [Requests -> RequestType] /\ req'[r] = new
        /\ \A q \in Requests \ {r} : req'[q] = req[q]
    BY <1>4, <1>5 DEF Inv
  <1>8. Lasting
    BY <1>2 DEF Lasting
  <1>9. Placed(req[r])'
    BY <1>1, <1>2, <1>7 DEF Placed, Creating, Changing, Idle
  <1>10. Claims'
    <2>1. \A q \in Requests : req'[q].created = req[q].created
      BY <1>6, <1>7
    <2>2. QED
      BY <1>2, <1>8, <2>1, ClaimsStay
  <1>11. QED
    BY <1>2, <1>5, <1>7, <1>8, <1>9, <1>10, RequestStep, RequestFields

\* The configurations are as they were.
LEMMA LastingAsIs ==
  ASSUME UNCHANGED configs
  PROVE  Lasting
  BY DEF Lasting

LEMMA FindOneStep ==
  ASSUME Inv, NEW r \in Requests, FindOne(r)
  PROVE  Inv'
  <1>1. PICK id \in req[r].todo :
            req' = IF Monitored(id) THEN Accounted(r, id, "skipped")
                   ELSE [req EXCEPT ![r].pc = "insert", ![r].left = {id}]
    BY DEF FindOne
  <1>2. /\ UNCHANGED <<now, identity, process, faults, configs, samples>> /\ Lasting
        /\ req[r].pc = "findOne"
    BY LastingAsIs DEF FindOne, store, At
  <1>3. CASE req' = Accounted(r, id, "skipped")
    <2>1. /\ req' \in [Requests -> RequestType]
          /\ \A q \in Requests \ {r} : req'[q] = req[q]
          /\ Placed(req[r])' /\ Summed(req'[r]) /\ req'[r].created = req[r].created
      BY <1>2, <1>3, Accounting DEF Creating
    <2>2. Claims'
      BY <1>2, <2>1, ClaimsStay
    <2>3. QED
      BY <1>2, <2>1, <2>2, RequestFields, RequestStep
  <1>4. CASE req' = [req EXCEPT ![r].pc = "insert", ![r].left = {id}]
    <2> DEFINE new == [req[r] EXCEPT !.pc = "insert", !.left = {id}]
    <2>1. req[r] \in RequestType /\ Placed(req[r]) /\ Summed(req[r])
      BY RequestFields
    <2>2. /\ new \in RequestType /\ Summed(new) /\ new.created = req[r].created
          /\ new.pc = "insert" /\ new.left \subseteq new.todo /\ new.job = req[r].job
      BY <2>1 DEF RequestType, Creating, Summed
    <2>3. req' = [req EXCEPT ![r] = new]
      BY <1>4
    <2> HIDE DEF new
    <2>4. req' \in [Requests -> RequestType] /\ req'[r] = new
          /\ \A q \in Requests \ {r} : req'[q] = req[q]
      BY <2>2, <2>3 DEF Inv
    <2>5. Placed(req[r])'
      BY <1>2, <2>1, <2>2, <2>4 DEF Placed, Creating, Changing
    <2>6. Claims'
      BY <1>2, <2>2, <2>4, ClaimsStay
    <2>7. QED
      BY <1>2, <2>2, <2>4, <2>5, <2>6, RequestFields, RequestStep
  <1>5. QED
    BY <1>1, <1>3, <1>4

\* A request that fails is placed wherever it was.
LEMMA FailStep ==
  ASSUME Inv, NEW r \in Requests, req[r].pc # "idle", Fail(r),
         UNCHANGED <<now, identity, process>>, Lasting, faults' \in Nat,
         configs' \in [Configs -> Document \cup {None}],
         \A c \in Configs : configs[c] = None => configs'[c] = None,
         samples' \subseteq SampleType
  PROVE  Inv'
  <1>1. req' = [req EXCEPT ![r].pc = "failed"] /\ Goto(r, "failed")
    BY DEF Fail, Goto
  <1>2. Placed(req[r])'
    BY <1>1, RequestFields DEF Placed, Creating, Changing, RequestType
  <1>3. QED
    BY <1>1, <1>2, GoesOn DEF Answered

LEMMA RecheckStep ==
  ASSUME Inv, NEW r \in Requests, Recheck(r)
  PROVE  Inv'
  <1>1. PICK id \in req[r].left :
            IF Monitored(id) THEN req' = Accounted(r, id, "skipped") ELSE Fail(r)
    BY DEF Recheck
  <1>2. /\ UNCHANGED <<now, identity, process, faults, configs, samples>> /\ Lasting
        /\ req[r].pc = "recheck"
    BY LastingAsIs DEF Recheck, store, At
  <1>3. id \in req[r].todo
    BY <1>2, RequestFields DEF Placed
  <1>4. CASE req' = Accounted(r, id, "skipped")
    <2>1. /\ req' \in [Requests -> RequestType]
          /\ \A q \in Requests \ {r} : req'[q] = req[q]
          /\ Placed(req[r])' /\ Summed(req'[r]) /\ req'[r].created = req[r].created
      BY <1>2, <1>3, <1>4, Accounting DEF Creating
    <2>2. Claims'
      BY <1>2, <2>1, ClaimsStay
    <2>3. QED
      BY <1>2, <2>1, <2>2, RequestFields, RequestStep
  <1>5. CASE Fail(r)
    BY <1>2, <1>5, FailStep, RequestFields
  <1>6. QED
    BY <1>1, <1>4, <1>5

\* Two sets that grow by one element each compare as before.
LEMMA OneMore ==
  ASSUME NEW A, NEW B, NEW x, NEW y, IsFiniteSet(A), IsFiniteSet(B),
         x \notin A, y \notin B, Cardinality(A) <= Cardinality(B)
  PROVE  /\ IsFiniteSet(A \cup {x}) /\ IsFiniteSet(B \cup {y})
         /\ Cardinality(A \cup {x}) <= Cardinality(B \cup {y})
  <1>1. Cardinality(A) \in Nat /\ Cardinality(B) \in Nat
    BY FS_CardinalityType
  <1>2. IsFiniteSet(A \cup {x}) /\ Cardinality(A \cup {x}) = Cardinality(A) + 1
    BY FS_AddElement
  <1>3. IsFiniteSet(B \cup {y}) /\ Cardinality(B \cup {y}) = Cardinality(B) + 1
    BY FS_AddElement
  <1>4. QED
    BY <1>1, <1>2, <1>3

LEMMA InsertStep ==
  ASSUME Inv, NEW r \in Requests, Insert(r)
  PROVE  Inv'
  <1>1. PICK id \in req[r].left :
          \/ Goto(r, "recheck") /\ UNCHANGED configs
          \/ \E c \in Configs :
                  /\ configs[c] = None
                  /\ configs' = [configs EXCEPT ![c] =
                        [service |-> id, live |-> TRUE, status |-> "monitoring",
                         options |-> req[r].job.options]]
                  /\ req' = Accounted(r, id, "created")
    BY DEF Insert
  <1>2. UNCHANGED <<now, identity, process, faults, samples>> /\ req[r].pc = "insert"
    BY DEF Insert, At
  <1>3. /\ req[r] \in RequestType /\ Placed(req[r])
        /\ req[r].left \subseteq req[r].todo
        /\ req[r].job \in Jobs /\ req[r].job.op = "create"
    BY <1>2, RequestFields DEF Placed, Creating
  <1>4. CASE Goto(r, "recheck") /\ UNCHANGED configs
    <2>1. Placed(req[r])'
      BY <1>2, <1>3, <1>4 DEF Goto, Inv, Placed, Creating, Changing, RequestType
    <2>2. QED
      BY <1>2, <1>4, <2>1, GoesOn, LastingAsIs, RequestFields DEF Creating
  <1>5. ASSUME NEW c \in Configs, configs[c] = None,
               configs' = [configs EXCEPT ![c] =
                        [service |-> id, live |-> TRUE, status |-> "monitoring",
                         options |-> req[r].job.options]],
               req' = Accounted(r, id, "created")
        PROVE  Inv'
    <2> DEFINE doc == [service |-> id, live |-> TRUE, status |-> "monitoring",
                       options |-> req[r].job.options]
    <2>1. /\ req' \in [Requests -> RequestType]
          /\ \A q \in Requests \ {r} : req'[q] = req[q]
          /\ Placed(req[r])' /\ Summed(req'[r])
          /\ req'[r].created = req[r].created \cup {id}
          /\ id \in Ids /\ id \notin req[r].created
      BY <1>2, <1>3, <1>5, Accounting DEF Creating
    <2>2. doc \in Document /\ doc # None /\ doc.service = id
      <3>1. doc \in Document
        BY <1>3, <2>1, JobFields DEF Document, Ids
      <3>2. QED
        BY <3>1, DocumentFields
    <2>3. configs' = [configs EXCEPT ![c] = doc]
      BY <1>5
    <2> HIDE DEF doc
    <2>4. /\ configs' \in [Configs -> Document \cup {None}]
          /\ configs'[c] = doc /\ \A d \in Configs \ {c} : configs'[d] = configs[d]
      BY <2>2, <2>3, RequestFields
    <2>5. Lasting
      BY <1>5, <2>4 DEF Lasting
    <2>6. Claims'
      <3> SUFFICES ASSUME NEW i \in Ids
                   PROVE  /\ IsFiniteSet(Creators(i)') /\ IsFiniteSet(Monitors(i)')
                          /\ Cardinality(Creators(i)') <= Cardinality(Monitors(i)')
        BY DEF Claims
      <3>1. /\ IsFiniteSet(Creators(i)) /\ IsFiniteSet(Monitors(i))
            /\ Cardinality(Creators(i)) <= Cardinality(Monitors(i))
            /\ Cardinality(Creators(i)) \in Nat /\ Cardinality(Monitors(i)) \in Nat
        BY FS_CardinalityType DEF Inv, Claims
      <3>2. CASE i = id
        <4>1. Creators(i)' = Creators(i) \cup {r} /\ r \notin Creators(i)
          BY <2>1, <3>2 DEF Creators
        <4>2. Monitors(i)' = Monitors(i) \cup {c} /\ c \notin Monitors(i)
          BY <1>5, <2>2, <2>4, <3>2 DEF Monitors
        <4>3. /\ IsFiniteSet(Creators(i) \cup {r}) /\ IsFiniteSet(Monitors(i) \cup {c})
              /\ Cardinality(Creators(i) \cup {r}) <= Cardinality(Monitors(i) \cup {c})
          BY <3>1, <4>1, <4>2, OneMore
        <4>4. QED
          BY <4>1, <4>2, <4>3
      <3>3. CASE i # id
        <4>1. Creators(i)' = Creators(i)
          BY <2>1, <3>3 DEF Creators
        <4>2. Monitors(i)' = Monitors(i)
          BY <1>5, <2>2, <2>4, <3>3 DEF Monitors
        <4>3. QED
          BY <3>1, <4>1, <4>2
      <3>4. QED
        BY <3>2, <3>3
    <2>7. QED
      BY <1>2, <2>1, <2>4, <2>5, <2>6, RequestFields, RequestStep
  <1>6. QED
    BY <1>1, <1>4, <1>5

LEMMA FindConfigStep ==
  ASSUME Inv, NEW r \in Requests, FindConfig(r)
  PROVE  Inv'
  <1>1. /\ UNCHANGED <<now, identity, process, faults, configs, samples>> /\ Lasting
        /\ req[r].pc = "findConfig"
    BY LastingAsIs DEF FindConfig, store, At
  <1>2. CASE Fail(r)
    BY <1>1, <1>2, FailStep, RequestFields
  <1>3. ASSUME NEW call \in {"deleteConfig", "setStatus"}, Goto(r, call)
        PROVE  Inv'
    <2>1. Placed(req[r])'
      BY <1>1, <1>3, RequestFields
      DEF Goto, Placed, Creating, Changing, RequestType
    <2>2. QED
      BY <1>1, <1>3, <2>1, GoesOn, RequestFields DEF Changing
  <1>4. QED
    BY <1>2, <1>3 DEF FindConfig

\* What is written to a configuration keeps its service and its options.
LEMMA Written ==
  ASSUME Inv, NEW r \in Requests, req[r].pc \in Changing, NEW doc \in Document,
         configs' = [configs EXCEPT ![req[r].job.config] = doc],
         doc.service = configs[req[r].job.config].service,
         doc.options = configs[req[r].job.config].options,
         doc.live => configs[req[r].job.config].live
  PROVE  /\ req[r].job.config \in Configs
         /\ configs' \in [Configs -> Document \cup {None}]
         /\ Lasting /\ \A c \in Configs : configs[c] = None => configs'[c] = None
         /\ configs'[req[r].job.config] = doc /\ doc # None
  <1>1. /\ req[r].job.config \in Configs /\ configs[req[r].job.config] # None
        /\ configs \in [Configs -> Document \cup {None}]
    BY RequestFields, JobFields DEF Placed, Changing
  <1>2. doc # None
    BY DocumentFields
  <1>3. QED
    BY <1>1, <1>2 DEF Lasting

LEMMA SetStatusStep ==
  ASSUME Inv, NEW r \in Requests, SetStatus(r)
  PROVE  Inv'
  <1> DEFINE c == req[r].job.config
             status == IF req[r].job.op = "pause" THEN "paused" ELSE "monitoring"
  <1>1. UNCHANGED <<now, identity, process, faults, samples>> /\ req[r].pc = "setStatus"
    BY DEF SetStatus, At
  <1>2. /\ req[r] \in RequestType /\ req[r].job \in Jobs /\ c \in Configs
        /\ req[r].job.op # "create" /\ configs[c] # None
    BY <1>1, RequestFields, JobFields DEF Placed, Changing
  <1>3. configs[c] \in Document
    BY <1>2, RequestFields
  <1>4. ASSUME NEW call \in Answered, Goto(r, call), Lasting,
               configs' \in [Configs -> Document \cup {None}],
               \A d \in Configs : configs[d] = None => configs'[d] = None
        PROVE  Inv'
    <2>1. Placed(req[r])'
      BY <1>1, <1>2, <1>4, RequestFields
      DEF Goto, Placed, Creating, Changing, Answered, RequestType
    <2>2. QED
      BY <1>1, <1>2, <1>4, <2>1, GoesOn, RequestFields
  <1>5. CASE configs' = [configs EXCEPT ![c].status = status] /\ Finish(r)
    <2> DEFINE doc == [configs[c] EXCEPT !.status = status]
    <2>1. /\ doc \in Document /\ doc.service = configs[c].service
          /\ doc.options = configs[c].options /\ doc.live = configs[c].live
      BY <1>3 DEF Document
    <2>2. configs' = [configs EXCEPT ![c] = doc]
      BY <1>5
    <2> HIDE DEF doc
    <2>3. /\ configs' \in [Configs -> Document \cup {None}] /\ Lasting
          /\ \A d \in Configs : configs[d] = None => configs'[d] = None
      BY <1>1, <2>1, <2>2, Written DEF Changing
    <2>4. QED
      BY <1>4, <1>5, <2>3 DEF Finish, Answered
  <1>6. CASE UNCHANGED configs /\ (Finish(r) \/ Fail(r))
    BY <1>4, <1>6, LastingAsIs, RequestFields DEF Finish, Fail, Answered
  <1>7. QED
    BY <1>5, <1>6 DEF SetStatus

LEMMA DeleteConfigStep ==
  ASSUME Inv, NEW r \in Requests, DeleteConfig(r)
  PROVE  Inv'
  <1> DEFINE c == req[r].job.config
  <1>1. UNCHANGED <<now, identity, process, faults, samples>> /\ req[r].pc = "deleteConfig"
    BY DEF DeleteConfig, At
  <1>2. /\ req[r] \in RequestType /\ req[r].job \in Jobs /\ c \in Configs
        /\ req[r].job.op # "create" /\ configs[c] # None
    BY <1>1, RequestFields, JobFields DEF Placed, Changing
  <1>3. configs[c] \in Document
    BY <1>2, RequestFields
  <1> DEFINE doc == [configs[c] EXCEPT !.live = FALSE]
  <1>4. /\ doc \in Document /\ doc.service = configs[c].service
        /\ doc.options = configs[c].options /\ doc.live = FALSE
    BY <1>3 DEF Document
  <1>5. configs' = [configs EXCEPT ![c] = doc]
    BY DEF DeleteConfig
  <1> HIDE DEF doc
  <1>6. /\ configs' \in [Configs -> Document \cup {None}] /\ Lasting
        /\ \A d \in Configs : configs[d] = None => configs'[d] = None
        /\ configs'[c] = doc /\ doc # None
    BY <1>1, <1>4, <1>5, Written DEF Changing
  <1>7. CASE Fail(r)
    BY <1>1, <1>6, <1>7, FailStep, RequestFields
  <1>8. CASE Goto(r, "findSamples")
    <2>1. ~Exists(c)'
      <3>1. configs'[c].live = FALSE
        BY <1>4, <1>6
      <3>2. req'[r].job = req[r].job
        BY <1>2, <1>8 DEF Goto, Inv, RequestType
      <3>3. QED
        BY <3>1, <3>2 DEF Exists
    <2>2. Placed(req[r])'
      <3>1. /\ req'[r].job = req[r].job /\ req'[r].pc = "findSamples"
        BY <1>2, <1>8 DEF Goto, Inv, RequestType
      <3>2. ~Exists(req[r].job.config)'
        BY <2>1
      <3>3. QED
        BY <1>2, <1>6, <3>1, <3>2 DEF Placed, Creating, Changing
    <2>3. QED
      BY <1>1, <1>2, <1>6, <1>8, <2>2, GoesOn, RequestFields DEF Changing
  <1>9. QED
    BY <1>7, <1>8 DEF DeleteConfig

\* A deletion of samples goes on with some of those of its configuration.
LEMMA Deletes ==
  ASSUME Inv, NEW r \in Requests, req[r].pc \in {"findSamples", "deleteSample"},
         NEW call \in {"findSamples", "deleteSample"}, NEW left \in SUBSET (Ids \cup SampleType),
         \A s \in left : s.config = req[r].job.config,
         req' = [req EXCEPT ![r].pc = call, ![r].left = left],
         UNCHANGED <<now, identity, configs, process, faults>>,
         samples' \subseteq SampleType
  PROVE  Inv'
  <1> DEFINE new == [req[r] EXCEPT !.pc = call, !.left = left]
  <1>1. req[r] \in RequestType /\ Placed(req[r]) /\ Summed(req[r])
    BY RequestFields
  <1>2. /\ new \in RequestType /\ Summed(new) /\ new.created = req[r].created
        /\ new.pc = call /\ new.left = left /\ new.job = req[r].job
    BY <1>1 DEF RequestType, Changing, Summed
  <1>3. req' = [req EXCEPT ![r] = new]
    OBVIOUS
  <1> HIDE DEF new
  <1>4. req' \in [Requests -> RequestType] /\ req'[r] = new
        /\ \A q \in Requests \ {r} : req'[q] = req[q]
    BY <1>2, <1>3 DEF Inv
  <1>5. Placed(req[r])'
    BY <1>1, <1>2, <1>4 DEF Placed, Creating, Changing, Exists
  <1>6. Lasting
    BY LastingAsIs
  <1>7. Claims'
    BY <1>2, <1>4, <1>6, ClaimsStay
  <1>8. QED
    BY <1>2, <1>4, <1>5, <1>6, <1>7, RequestFields, RequestStep

LEMMA FindSamplesStep ==
  ASSUME Inv, NEW r \in Requests, FindSamples(r)
  PROVE  Inv'
  <1> DEFINE mine == OfConfig(req[r].job.config)
  <1>1. /\ UNCHANGED <<now, identity, process, faults, configs, samples>>
        /\ req[r].pc = "findSamples" /\ Lasting
    BY LastingAsIs DEF FindSamples, store, At
  <1>2. CASE Finish(r)
    <2>1. /\ req[r].job.op # "create" /\ Goto(r, "done")
          /\ req[r] \in RequestType /\ Placed(req[r])
      BY <1>1, <1>2, RequestFields DEF Placed, Changing, Finish
    <2>2. Placed(req[r])'
      BY <1>1, <2>1, RequestFields DEF Goto, Placed, Creating, Changing, RequestType
    <2>3. QED
      BY <1>1, <2>1, <2>2, GoesOn, RequestFields DEF Answered
  <1>3. ASSUME NEW P \in Oldest(mine),
               req' = [req EXCEPT ![r].pc = "deleteSample", ![r].left = P]
        PROVE  Inv'
    <2>1. P \subseteq mine
      BY <1>3 DEF Oldest
    <2>2. P \subseteq SampleType /\ \A s \in P : s.config = req[r].job.config
      BY <2>1, RequestFields DEF OfConfig
    <2>3. QED
      BY <1>1, <1>3, <2>2, Deletes, RequestFields
  <1>4. QED
    BY <1>2, <1>3 DEF FindSamples

LEMMA DeleteSampleStep ==
  ASSUME Inv, NEW r \in Requests, DeleteSample(r)
  PROVE  Inv'
  <1>1. UNCHANGED <<now, identity, process, faults, configs>>
        /\ req[r].pc = "deleteSample" /\ Lasting
    BY LastingAsIs DEF DeleteSample, At
  <1>2. CASE Fail(r) /\ UNCHANGED samples
    BY <1>1, <1>2, FailStep, RequestFields
  <1>3. ASSUME NEW s \in req[r].left, samples' = samples \ {s},
               req' = [req EXCEPT ![r].left = @ \ {s},
                                  ![r].pc = IF req[r].left = {s} THEN "findSamples" ELSE @]
        PROVE  Inv'
    <2> DEFINE left == req[r].left \ {s}
               call == IF req[r].left = {s} THEN "findSamples" ELSE "deleteSample"
    <2>1. /\ left \subseteq Ids \cup SampleType
          /\ \A x \in left : x.config = req[r].job.config
      BY <1>1, RequestFields DEF RequestType, Placed
    <2>2. req' = [req EXCEPT ![r].pc = call, ![r].left = left]
      BY <1>1, <1>3
    <2>3. samples' \subseteq SampleType
      BY <1>3, RequestFields
    <2>4. QED
      BY <1>1, <2>1, <2>2, <2>3, Deletes
  <1>4. QED
    BY <1>2, <1>3 DEF DeleteSample

LEMMA RequestFailsStep ==
  ASSUME Inv, NEW r \in Requests, RequestFails(r)
  PROVE  Inv'
  <1>1. /\ UNCHANGED <<now, identity, process, configs, samples>> /\ Lasting
        /\ req[r].pc # "idle" /\ Fail(r) /\ faults' \in Nat
    BY LastingAsIs, RequestFields DEF RequestFails, store, Fault
  <1>2. QED
    BY <1>1, FailStep, RequestFields

LEMMA ReceiveOrHandle ==
  ASSUME Inv, NEW r \in Requests, Receive(r) \/ Handle(r)
  PROVE  Inv'
  BY ReceiveStep, FindOneStep, InsertStep, RecheckStep, FindConfigStep, SetStatusStep,
     DeleteConfigStep, FindSamplesStep, DeleteSampleStep, RequestFailsStep DEF Handle

-----------------------------------------------------------------------------
(* The collector.                                                          *)

\* While a collection is under way it is the only one.
LEMMA Alone ==
  ASSUME Inv, NEW k \in Slots, slot[k].pc # "free"
  PROVE  /\ collecting /\ scheduled = k /\ scheduled # 0 /\ worker # "ended"
         /\ \A j \in Slots \ {k} : slot[j].pc = "free"
         /\ slot[k] \in SlotType /\ Sound(slot[k])
         /\ slot \in [Slots -> SlotType] /\ samples \subseteq SampleType
         /\ faults \in Nat
  BY SlotsAssumption DEF Inv, Flag, Reads, TypeOK

\* The collection in k takes a step and goes on, or it is over.
LEMMA CollectionStep ==
  ASSUME Inv, NEW k \in Slots, slot[k].pc # "free",
         UNCHANGED <<now, identity, configs, req, worker, nextCollection, scans>>,
         samples' \subseteq SampleType, faults' \in Nat,
         slot' \in [Slots -> SlotType],
         \A j \in Slots \ {k} : slot'[j] = slot[j],
         Sound(slot'[k]),
         \/ slot'[k].pc # "free" /\ UNCHANGED <<collecting, scheduled>>
         \/ slot'[k].pc = "free" /\ collecting' = FALSE /\ scheduled' = 0
  PROVE  Inv'
  <1>1. /\ collecting /\ scheduled = k /\ worker # "ended"
        /\ \A j \in Slots \ {k} : slot'[j].pc = "free"
    BY Alone
  <1>2. Flag'
    BY <1>1 DEF Inv, Flag
  <1>3. Reads'
    <2>1. Sound(slot[k])'
      BY DEF Sound, Known, MayGo
    <2>2. \A j \in Slots \ {k} : Sound(slot[j])'
      BY <1>1 DEF Sound
    <2>3. QED
      BY <2>1, <2>2 DEF Reads
  <1>4. TypeOK'
    BY DEF Inv, TypeOK
  <1>5. Scanned' /\ IntervalKept'
    BY DEF Inv, Scanned, IntervalKept
  <1>6. (req \in [Requests -> RequestType] /\ Flow /\ Sums /\ Claims)'
    BY RequestsRest
  <1>7. QED
    BY <1>2, <1>3, <1>4, <1>5, <1>6 DEF Inv

LEMMA WaitingType == Waiting \in SlotType /\ Waiting.pc = "free"
  BY DEF Waiting, SlotType

\* It is over.
LEMMA OverStep ==
  ASSUME Inv, NEW k \in Slots, slot[k].pc # "free", Over(k),
         UNCHANGED <<now, identity, configs, req, worker, nextCollection, scans>>,
         samples' \subseteq SampleType, faults' \in Nat
  PROVE  Inv'
  <1>1. /\ slot' \in [Slots -> SlotType] /\ slot'[k] = Waiting
        /\ \A j \in Slots \ {k} : slot'[j] = slot[j]
    BY Alone, WaitingType DEF Over
  <1>2. slot'[k].pc = "free" /\ collecting' = FALSE /\ scheduled' = 0
    BY <1>1, Alone, WaitingType DEF Over, Freed
  <1>3. Sound(slot'[k])
    BY <1>2 DEF Sound
  <1>4. QED
    BY <1>1, <1>2, <1>3, CollectionStep

\* It goes on, and its slot holds what it has now.
LEMMA OnStep ==
  ASSUME Inv, NEW k \in Slots, slot[k].pc # "free",
         UNCHANGED <<now, identity, configs, req, worker, nextCollection, scans,
                     collecting, scheduled>>,
         samples' \subseteq SampleType, faults' \in Nat,
         NEW new \in SlotType, slot' = [slot EXCEPT ![k] = new],
         new.pc # "free", Sound(new)
  PROVE  Inv'
  <1>1. /\ slot' \in [Slots -> SlotType] /\ slot'[k] = new
        /\ \A j \in Slots \ {k} : slot'[j] = slot[j]
    BY Alone
  <1>2. QED
    BY <1>1, CollectionStep

\* It is done with a configuration.
LEMMA TurnOverStep ==
  ASSUME Inv, NEW k \in Slots, slot[k].pc # "free", TurnOver(k),
         UNCHANGED <<now, identity, configs, req, worker, nextCollection, scans>>,
         samples' \subseteq SampleType, faults' \in Nat
  PROVE  Inv'
  <1>1. CASE Over(k)
    BY <1>1, OverStep
  <1>2. CASE ~Over(k)
    <2> DEFINE new == [slot[k] EXCEPT !.pc = "next", !.config = None, !.left = {}]
    <2>1. slot' = [slot EXCEPT ![k] = new] /\ UNCHANGED <<collecting, scheduled>>
      BY <1>2 DEF TurnOver
    <2>2. slot[k] \in SlotType /\ Sound(slot[k])
      BY Alone
    <2>3. /\ new \in SlotType /\ new.pc = "next"
          /\ new.start = slot[k].start /\ new.todo = slot[k].todo
          /\ new.read = slot[k].read
      BY <2>2 DEF SlotType
    <2> HIDE DEF new
    <2>4. Sound(new)
      BY <2>2, <2>3 DEF Sound, Turning
    <2>5. QED
      BY <2>1, <2>3, <2>4, OnStep
  <1>3. QED
    BY <1>1, <1>2

LEMMA BeginStep ==
  ASSUME Inv, NEW k \in Slots, Begin(k), worker' = "on",
         UNCHANGED <<now, identity, store, req, nextCollection, scans, failures, faults>>
  PROVE  Inv'
  <1> DEFINE new == [Waiting EXCEPT !.pc = "read", !.start = now]
  <1>1. /\ \A j \in Slots : slot[j].pc = "free"
        /\ slot \in [Slots -> SlotType] /\ now \in Nat
    BY DEF Inv, Flag, TypeOK, Begin, MayCollect
  <1>2. slot' = [slot EXCEPT ![k] = new] /\ collecting' = TRUE /\ scheduled' = k
    BY DEF Begin
  <1>3. new \in SlotType /\ new.pc = "read" /\ new.start = now /\ new.todo = {}
    BY <1>1 DEF Waiting, SlotType
  <1> HIDE DEF new
  <1>4. /\ slot' \in [Slots -> SlotType] /\ slot'[k] = new
        /\ \A j \in Slots \ {k} : slot'[j] = slot[j]
    BY <1>1, <1>2, <1>3
  <1>5. TypeOK'
    BY <1>2, <1>4 DEF Inv, TypeOK, store
  <1>6. Flag'
    BY <1>1, <1>2, <1>4 DEF Flag
  <1>7. Reads'
    <2>1. Sound(slot[k])'
      BY <1>1, <1>3, <1>4 DEF Sound, Turning
    <2>2. \A j \in Slots \ {k} : Sound(slot[j])'
      BY <1>1, <1>4 DEF Sound
    <2>3. QED
      BY <2>1, <2>2 DEF Reads
  <1>8. Scanned' /\ IntervalKept'
    BY DEF Inv, Scanned, IntervalKept, store
  <1>9. (req \in [Requests -> RequestType] /\ Flow /\ Sums /\ Claims)'
    BY RequestsRest DEF store
  <1>10. QED
    BY <1>5, <1>6, <1>7, <1>8, <1>9 DEF Inv

LEMMA FetchAllStep ==
  ASSUME Inv, NEW k \in Slots, FetchAll(k)
  PROVE  Inv'
  <1> DEFINE due == {c \in Configs : Exists(c) /\ IsDue(c, configs[c], slot[k].start)}
             new == [slot[k] EXCEPT !.pc = "next", !.todo = due, !.read = configs]
  <1>1. /\ slot[k].pc = "read" /\ slot[k] \in SlotType /\ Sound(slot[k])
        /\ UNCHANGED <<now, identity, configs, req, worker, nextCollection, scans>>
        /\ samples' \subseteq SampleType /\ faults \in Nat
        /\ configs \in [Configs -> Document \cup {None}]
    BY Alone DEF FetchAll, store, Inv, TypeOK
  <1>2. faults' \in Nat
    <2>1. NoFault \/ Fault("db")
      BY DEF FetchAll
    <2>2. QED
      BY <1>1, <2>1 DEF Fault, NoFault
  <1>3. CASE Over(k)
    BY <1>1, <1>2, <1>3, OverStep
  <1>4. CASE slot' = [slot EXCEPT ![k] = new] /\ UNCHANGED <<collecting, scheduled>>
    <2>1. /\ new \in SlotType /\ new.pc = "next" /\ new.start = slot[k].start
          /\ new.todo = due /\ new.read = configs
      BY <1>1 DEF SlotType
    <2>2. \A c \in due : configs[c] # None /\ nextCollection[c] <= slot[k].start
      BY DEF Exists, IsDue
    <2> HIDE DEF new, due
    <2>3. Sound(new)
      BY <1>1, <2>1, <2>2 DEF Sound, Known, Turning
    <2>4. QED
      BY <1>1, <1>2, <1>4, <2>1, <2>3, OnStep
  <1>5. QED
    BY <1>3, <1>4 DEF FetchAll

LEMMA FetchStatisticsStep ==
  ASSUME Inv, NEW k \in Slots, FetchStatistics(k)
  PROVE  Inv'
  <1> DEFINE c == slot[k].config
  <1>1. /\ slot[k].pc = "stats" /\ slot[k] \in SlotType /\ Sound(slot[k])
        /\ UNCHANGED <<now, identity, configs, req, worker, nextCollection, scans>>
        /\ samples' \subseteq SampleType /\ faults \in Nat /\ now \in Nat
    BY Alone DEF FetchStatistics, store, Inv, TypeOK
  <1>2. faults' \in Nat
    BY <1>1 DEF FetchStatistics, Fault, NoFault
  <1>3. CASE TurnOver(k)
    BY <1>1, <1>2, <1>3, TurnOverStep
  <1>4. ASSUME NEW T \in Selections(slot[k].read[c].options),
               slot' = [slot EXCEPT ![k].pc = IF T = {} THEN "prune" ELSE "record",
                                    ![k].left = {Sample(c, t, now) : t \in T}],
               UNCHANGED <<collecting, scheduled>>
        PROVE  Inv'
    <2> DEFINE pc == IF T = {} THEN "prune" ELSE "record"
               left == {Sample(c, t, now) : t \in T}
               new == [slot[k] EXCEPT !.pc = pc, !.left = left]
    <2>1. c \in Configs
      BY <1>1 DEF Sound, Turning
    <2>2. left \subseteq SampleType
      BY <1>1, <2>1 DEF Selections, Sample, SampleType
    <2>3. slot' = [slot EXCEPT ![k] = new]
      BY <1>4
    <2> HIDE DEF left
    <2>4. /\ new \in SlotType /\ new.pc \in {"prune", "record"}
          /\ new.start = slot[k].start /\ new.todo = slot[k].todo
          /\ new.read = slot[k].read /\ new.config = slot[k].config
      BY <1>1, <2>2 DEF SlotType
    <2> HIDE DEF new
    <2>5. Sound(new)
      BY <1>1, <2>4 DEF Sound, Turning
    <2>6. QED
      BY <1>1, <1>2, <1>4, <2>3, <2>4, <2>5, OnStep
  <1>5. QED
    BY <1>3, <1>4 DEF FetchStatistics

\* A sample less is left to a collection, which then looks for old ones.
LEMMA OneLess ==
  ASSUME Inv, NEW k \in Slots, slot[k].pc \in {"record", "pruneDelete"}, NEW s,
         slot' = [slot EXCEPT ![k].left = @ \ {s},
                              ![k].pc = IF slot[k].left = {s} THEN "prune" ELSE @],
         UNCHANGED <<now, identity, configs, req, worker, nextCollection, scans,
                     collecting, scheduled, faults>>,
         samples' \subseteq SampleType
  PROVE  Inv'
  <1> DEFINE pc == IF slot[k].left = {s} THEN "prune" ELSE slot[k].pc
             left == slot[k].left \ {s}
             new == [slot[k] EXCEPT !.left = left, !.pc = pc]
  <1>1. slot[k] \in SlotType /\ Sound(slot[k]) /\ faults \in Nat
    BY Alone
  <1>2. slot' = [slot EXCEPT ![k] = new]
    OBVIOUS
  <1>3. /\ new \in SlotType /\ new.pc = pc /\ new.left \subseteq slot[k].left
        /\ new.start = slot[k].start /\ new.todo = slot[k].todo
        /\ new.read = slot[k].read /\ new.config = slot[k].config
    BY <1>1 DEF SlotType
  <1> HIDE DEF new
  <1>4. Sound(new)
    BY <1>1, <1>3 DEF Sound, Turning
  <1>5. new.pc # "free"
    BY <1>3
  <1>6. QED
    BY <1>1, <1>2, <1>3, <1>4, <1>5, OnStep

LEMMA RecordStep ==
  ASSUME Inv, NEW k \in Slots, Record(k)
  PROVE  Inv'
  <1>1. /\ slot[k].pc = "record" /\ slot[k] \in SlotType
        /\ UNCHANGED <<now, identity, configs, req, worker, nextCollection, scans>>
        /\ samples \subseteq SampleType /\ faults \in Nat
    BY Alone DEF Record
  <1>2. CASE TurnOver(k) /\ Fault("db") /\ UNCHANGED samples
    BY <1>1, <1>2, TurnOverStep DEF Fault
  <1>3. ASSUME NEW s \in slot[k].left, samples' = samples \cup {s}, NoFault,
               slot' = [slot EXCEPT ![k].left = @ \ {s},
                                    ![k].pc = IF slot[k].left = {s} THEN "prune" ELSE @],
               UNCHANGED <<collecting, scheduled>>
        PROVE  Inv'
    <2>1. samples' \subseteq SampleType
      BY <1>1, <1>3 DEF SlotType
    <2>2. QED
      BY <1>1, <1>3, <2>1, OneLess DEF NoFault
  <1>4. QED
    BY <1>2, <1>3 DEF Record

LEMMA PruneDeleteStep ==
  ASSUME Inv, NEW k \in Slots, PruneDelete(k)
  PROVE  Inv'
  <1>1. /\ slot[k].pc = "pruneDelete" /\ slot[k] \in SlotType
        /\ UNCHANGED <<now, identity, configs, req, worker, nextCollection, scans>>
        /\ samples \subseteq SampleType /\ faults \in Nat
    BY Alone DEF PruneDelete
  <1>2. CASE TurnOver(k) /\ (NoFault \/ Fault("db")) /\ UNCHANGED samples
    BY <1>1, <1>2, TurnOverStep DEF Fault, NoFault
  <1>3. ASSUME NEW s \in slot[k].left, samples' = samples \ {s}, NoFault,
               slot' = [slot EXCEPT ![k].left = @ \ {s},
                                    ![k].pc = IF slot[k].left = {s} THEN "prune" ELSE @],
               UNCHANGED <<collecting, scheduled>>
        PROVE  Inv'
    BY <1>1, <1>3, OneLess DEF NoFault
  <1>4. QED
    BY <1>2, <1>3 DEF PruneDelete

LEMMA PruneFindStep ==
  ASSUME Inv, NEW k \in Slots, PruneFind(k)
  PROVE  Inv'
  <1> DEFINE c == slot[k].config
             o == slot[k].read[c].options
             old == Expired(c, o, slot[k].start)
  <1>1. /\ slot[k].pc = "prune" /\ slot[k] \in SlotType /\ Sound(slot[k])
        /\ UNCHANGED <<now, identity, configs, req, worker, nextCollection, scans>>
        /\ UNCHANGED samples
        /\ samples \subseteq SampleType /\ faults \in Nat /\ now \in Nat
    BY Alone DEF PruneFind, store, Inv, TypeOK
  <1>2. faults' \in Nat
    BY <1>1 DEF PruneFind, Fault, NoFault
  <1>3. CASE TurnOver(k)
    BY <1>1, <1>2, <1>3, TurnOverStep
  <1>4. ASSUME NEW P \in Oldest(old),
               slot' = [slot EXCEPT ![k].pc = "pruneDelete", ![k].left = P],
               UNCHANGED <<collecting, scheduled>>
        PROVE  Inv'
    <2> DEFINE new == [slot[k] EXCEPT !.pc = "pruneDelete", !.left = P]
    <2>1. c \in Configs /\ configs[c] # None /\ configs[c].options = o
          /\ slot[k].start <= now
      BY <1>1 DEF Sound, Turning, Known
    <2>2. o \in Options
      BY <2>1, ConfigFields DEF Inv
    <2>3. ASSUME NEW s \in P PROVE s \in SampleType /\ MayGo(s)
      <3>1. s \in old
        BY <2>3, <1>4 DEF Oldest
      <3>2. /\ s \in SampleType /\ s.config = c /\ o.type # "calendar"
            /\ s.at + o.holding < slot[k].start
        BY <1>1, <3>1 DEF Expired, OfConfig
      <3>3. /\ o.type = "permanent" /\ o.holding \in Nat /\ s.at \in Nat
            /\ slot[k].start \in Nat
        BY <1>1, <2>2, <3>2, OptionFields DEF SampleType, SlotType
      <3>4. s.at + o.holding < now
        BY <1>1, <2>1, <3>2, <3>3
      <3>5. QED
        BY <2>1, <3>2, <3>3, <3>4 DEF MayGo
    <2>4. slot' = [slot EXCEPT ![k] = new]
      BY <1>4
    <2>5. P \subseteq SampleType
      BY <2>3
    <2>6. /\ new \in SlotType /\ new.pc = "pruneDelete" /\ new.left = P
          /\ new.start = slot[k].start /\ new.todo = slot[k].todo
          /\ new.read = slot[k].read /\ new.config = slot[k].config
      BY <1>1, <2>5 DEF SlotType
    <2> HIDE DEF new
    <2>7. Sound(new)
      BY <1>1, <2>3, <2>6 DEF Sound, Turning
    <2>8. QED
      BY <1>1, <1>2, <1>4, <2>4, <2>6, <2>7, OnStep
  <1>5. QED
    BY <1>3, <1>4 DEF PruneFind

\* A collection turns to a configuration that is due and has been read.
LEMMA TurnStep ==
  ASSUME Inv, NEW k \in Slots, Turn(k)
  PROVE  Inv'
  <1>1. PICK c \in slot[k].todo :
          /\ nextCollection' = Postponed(k, c)
          /\ slot' = [slot EXCEPT ![k].pc = "stats", ![k].config = c,
                                  ![k].todo = @ \ {c}]
          /\ scans' = scans \cup {[config |-> c, start |-> slot[k].start]}
    BY DEF Turn
  <1> DEFINE start == slot[k].start
             interval == slot[k].read[c].options.interval
             scan == [config |-> c, start |-> start]
             new == [slot[k] EXCEPT !.pc = "stats", !.config = c, !.todo = @ \ {c}]
  <1>2. /\ slot[k].pc = "next" /\ slot[k] \in SlotType /\ Sound(slot[k])
        /\ \A j \in Slots \ {k} : slot[j].pc = "free"
        /\ slot \in [Slots -> SlotType] /\ nextCollection \in [Configs -> Nat]
        /\ UNCHANGED <<now, identity, store, req, worker, collecting, scheduled,
                       failures, faults>>
    BY Alone DEF Turn, Inv, TypeOK
  <1>3. /\ c \in Configs /\ start \in Nat
        /\ Known(c, slot[k].read) /\ nextCollection[c] <= start
    BY <1>2 DEF Sound, SlotType
  <1>4. configs[c] # None /\ configs[c].options.interval = interval
    BY <1>3 DEF Known
  <1>5. interval \in Nat \ {0}
    BY <1>3, <1>4, ConfigFields DEF Inv
  <1>6. slot' = [slot EXCEPT ![k] = new]
    BY <1>1
  <1>7. /\ new \in SlotType /\ new.pc = "stats" /\ new.config = c /\ new.start = start
        /\ new.read = slot[k].read /\ new.todo = slot[k].todo \ {c}
    BY <1>2, <1>3 DEF SlotType
  <1> HIDE DEF new
  <1>8. /\ slot' \in [Slots -> SlotType] /\ slot'[k] = new
        /\ \A j \in Slots \ {k} : slot'[j] = slot[j]
    BY <1>2, <1>6, <1>7
  <1>9. /\ nextCollection' \in [Configs -> Nat] /\ nextCollection'[c] = start + interval
        /\ \A d \in Configs \ {c} : nextCollection'[d] = nextCollection[d]
    BY <1>1, <1>2, <1>3, <1>5 DEF Postponed
  <1>10. TypeOK'
    BY <1>2, <1>8, <1>9 DEF Inv, TypeOK, store
  <1>11. Flag'
    BY <1>2, <1>7, <1>8 DEF Inv, Flag
  <1>12. Reads'
    <2>1. Sound(slot[k])'
      <3>1. \A d \in new.todo : Known(d, new.read) /\ nextCollection'[d] <= start
        <4>1. \A d \in new.todo : d \in slot[k].todo /\ d \in Configs \ {c}
          BY <1>2, <1>7 DEF SlotType
        <4>2. QED
          BY <1>2, <1>7, <1>9, <4>1 DEF Sound
      <3>2. start <= now
        BY <1>2 DEF Sound
      <3>3. QED
        BY <1>2, <1>3, <1>7, <1>8, <3>1, <3>2 DEF Sound, Known, store
    <2>2. \A j \in Slots \ {k} : Sound(slot[j])'
      BY <1>2, <1>8 DEF Sound
    <2>3. QED
      BY <2>1, <2>2 DEF Reads
  <1>13. Scanned'
    <2> SUFFICES ASSUME NEW p \in scans'
                 PROVE  /\ p.config \in Configs /\ p.start \in Nat
                        /\ configs[p.config] # None
                        /\ p.start + configs[p.config].options.interval
                             <= nextCollection'[p.config]
      BY <1>2 DEF Scanned, store
    <2>1. CASE p = scan
      BY <1>3, <1>4, <1>5, <1>9, <2>1
    <2>2. CASE p \in scans
      <3> DEFINE wait == configs[p.config].options.interval
      <3>1. /\ p.config \in Configs /\ p.start \in Nat /\ configs[p.config] # None
            /\ p.start + wait <= nextCollection[p.config]
        BY <2>2 DEF Inv, Scanned
      <3>2. wait \in Nat
        BY <3>1, ConfigFields DEF Inv
      <3>3. nextCollection[p.config] <= nextCollection'[p.config]
        BY <1>2, <1>3, <1>5, <1>9, <3>1
      <3> HIDE DEF wait
      <3>4. p.start + wait <= nextCollection'[p.config]
        BY <1>2, <1>9, <3>1, <3>2, <3>3
      <3>5. QED
        BY <3>1, <3>4 DEF wait
    <2>3. QED
      BY <1>1, <2>1, <2>2
  <1>14. IntervalKept'
    <2>1. \A p \in scans : p.config = c => p.start + interval <= start
      <3> SUFFICES ASSUME NEW p \in scans, p.config = c
                   PROVE  p.start + interval <= start
        OBVIOUS
      <3>1. p.start \in Nat /\ p.start + interval <= nextCollection[c]
        BY <1>4 DEF Inv, Scanned
      <3>2. QED
        BY <1>2, <1>3, <1>5, <3>1
    <2> HIDE DEF interval, start
    <2>2. SUFFICES ASSUME NEW p \in scans', NEW q \in scans', p.config = q.config,
                          p # q, configs[p.config] # None
                   PROVE  \/ p.start + configs[p.config].options.interval <= q.start
                          \/ q.start + configs[p.config].options.interval <= p.start
      BY <1>2 DEF IntervalKept, store
    <2>3. CASE p \in scans /\ q \in scans
      BY <2>2, <2>3 DEF Inv, IntervalKept
    <2>4. CASE p = scan /\ q \in scans
      BY <1>4, <2>1, <2>2, <2>4
    <2>5. CASE q = scan /\ p \in scans
      BY <1>4, <2>1, <2>2, <2>5
    <2>6. QED
      BY <1>1, <2>2, <2>3, <2>4, <2>5 DEF start
  <1>15. (req \in [Requests -> RequestType] /\ Flow /\ Sums /\ Claims)'
    BY <1>2, RequestsRest DEF store
  <1>16. QED
    BY <1>10, <1>11, <1>12, <1>13, <1>14, <1>15 DEF Inv

LEMMA CollectStep ==
  ASSUME Inv, NEW k \in Slots, Collect(k)
  PROVE  Inv'
  BY FetchAllStep, TurnStep, FetchStatisticsStep, RecordStep, PruneFindStep,
     PruneDeleteStep DEF Collect

\* The signal, the exit, the clock and Docker leave the collections alone.
LEMMA WorkerStep ==
  ASSUME Inv, Start \/ Stop \/ Exit \/ \E k \in Slots : Fire(k)
  PROVE  Inv'
  <1>1. CASE Start
    <2>1. PICK k \in Slots : Begin(k)
      BY <1>1 DEF Start
    <2>2. QED
      BY <1>1, <2>1, BeginStep DEF Start
  <1>2. ASSUME NEW k \in Slots, Fire(k) PROVE Inv'
    BY <1>2, BeginStep DEF Fire
  <1>3. CASE Stop \/ Exit
    <2>1. /\ UNCHANGED <<now, identity, store, req, collecting, scheduled,
                         nextCollection, slot, scans, failures, faults>>
          /\ worker' \in {"stopping", "ended"} /\ (worker' = "ended" => scheduled = 0)
      BY <1>3 DEF Stop, Exit, MayExit
    <2>2. TypeOK'
      BY <2>1 DEF Inv, TypeOK, store
    <2>3. Flag' /\ Reads' /\ Scanned' /\ IntervalKept'
      BY <2>1 DEF Inv, Flag, Reads, Sound, Known, MayGo, Scanned, IntervalKept, store
    <2>4. (req \in [Requests -> RequestType] /\ Flow /\ Sums /\ Claims)'
      BY <2>1, RequestsRest DEF store
    <2>5. QED
      BY <2>2, <2>3, <2>4 DEF Inv
  <1>4. QED
    BY <1>1, <1>2, <1>3

LEMMA WorldStep ==
  ASSUME Inv, Tick \/ \E s \in Services : Recreate(s)
  PROVE  Inv'
  <1>1. /\ UNCHANGED <<store, req, process, faults>>
        /\ now' \in Nat /\ now <= now' /\ identity' \in [Services -> Nat]
    BY DEF Tick, Recreate, Inv, TypeOK
  <1>2. Flag' /\ Reads' /\ Scanned' /\ IntervalKept'
    BY <1>1, LastingAsIs, CollectorRests DEF store
  <1>3. TypeOK'
    BY <1>1 DEF Inv, TypeOK, store, process
  <1>4. (req \in [Requests -> RequestType] /\ Flow /\ Sums /\ Claims)'
    BY <1>1, RequestsRest DEF store
  <1>5. QED
    BY <1>2, <1>3, <1>4 DEF Inv

LEMMA NextInv == Inv /\ [Next]_vars => Inv'
  <1> SUFFICES ASSUME Inv, [Next]_vars PROVE Inv'
    OBVIOUS
  <1>1. CASE Next
    BY <1>1, WorkerStep, CollectStep, ReceiveOrHandle, WorldStep DEF Next
  <1>2. CASE UNCHANGED vars
    <2>1. UNCHANGED <<now, identity, configs, samples, req, process, faults>>
      BY <1>2 DEF vars, store
    <2>2. Flag' /\ Reads' /\ Scanned' /\ IntervalKept'
      BY <2>1, LastingAsIs, CollectorRests DEF Inv, TypeOK
    <2>3. (req \in [Requests -> RequestType] /\ Flow /\ Sums /\ Claims)'
      BY <2>1, RequestsRest
    <2>4. TypeOK'
      BY <2>1 DEF Inv, TypeOK, process
    <2>5. QED
      BY <2>2, <2>3, <2>4 DEF Inv
  <1>3. QED
    BY <1>1, <1>2

\* For any services, configurations, slots, requests, jobs and faults, the
\* collector and the requests keep the invariant above: what a collection has
\* read outlasts it, and creations claim no configuration twice.
THEOREM InvHolds == Spec => []Inv
  BY InitInv, NextInv, PTL DEF Spec

-----------------------------------------------------------------------------
(* What follows.                                                           *)

\* Scans do not overlap, none outlives the worker, intervals are kept, and
\* every service of a creation is accounted for once.
THEOREM WorksAlways == Spec => []WorksAsConfigured
  <1>1. Inv => WorksAsConfigured
    <2> SUFFICES ASSUME Inv PROVE WorksAsConfigured
      OBVIOUS
    <2>1. NoOverlap
      <3>1. CASE Active = {}
        BY <3>1, FS_EmptySet DEF NoOverlap
      <3>2. CASE Active # {}
        <4>1. PICK k \in Slots : k \in Active
          BY <3>2 DEF Active
        <4>2. Active = {k}
          BY <4>1, Alone DEF Active
        <4>3. Cardinality({k}) = 1
          BY FS_Singleton
        <4>4. QED
          BY <4>2, <4>3 DEF NoOverlap
      <3>3. QED
        BY <3>1, <3>2
    <2>2. NothingAfterExit
      BY Alone DEF NothingAfterExit, Active
    <2>3. CreationsAddUp
      <3>1. ASSUME NEW r \in Requests, At(r, "done"), req[r].job.op = "create"
            PROVE  /\ req[r].created \cup req[r].skipped = req[r].ids
                   /\ req[r].created \cap req[r].skipped = {}
        BY <3>1, RequestFields DEF Summed, At
      <3>2. \A id \in UNION {req[r].ids : r \in Requests} :
              Cardinality(Creators(id)) <= Cardinality(Monitors(id))
        BY RequestFields DEF Inv, Claims, RequestType
      <3>3. QED
        BY <3>1, <3>2 DEF CreationsAddUp, Creators, Monitors
    <2>4. QED
      BY <2>1, <2>2, <2>3 DEF WorksAsConfigured, Inv
  <1>2. QED
    BY <1>1, InvHolds, PTL

\* A sample is only deleted when its retention is over, on the clock of the
\* moment, or because its configuration was deleted.
THEOREM SamplesAreKept == Spec => NoSampleLostEarly
  <1> DEFINE Kept == \A s \in samples \ samples' :
                        \/ ~Exists(s.config)
                        \/ /\ configs[s.config].options.type = "permanent"
                           /\ s.at + configs[s.config].options.holding < now
  <1>1. ASSUME Inv, [Next]_vars PROVE Kept
    <2>1. ASSUME NEW k \in Slots, PruneDelete(k) PROVE Kept
      <3>1. slot[k].pc = "pruneDelete" /\ \A s \in samples \ samples' : s \in slot[k].left
        BY <2>1 DEF PruneDelete
      <3>2. \A s \in slot[k].left : MayGo(s)
        BY <1>1, <3>1, Alone DEF Sound
      <3>3. QED
        BY <3>1, <3>2 DEF MayGo
    <2>2. ASSUME NEW r \in Requests, DeleteSample(r) PROVE Kept
      <3>1. req[r].pc = "deleteSample" /\ \A s \in samples \ samples' : s \in req[r].left
        BY <2>2 DEF DeleteSample, At
      <3>2. QED
        BY <1>1, <3>1, RequestFields DEF Placed
    <2>3. CASE samples \subseteq samples'
      BY <2>3
    <2>4. \/ \E k \in Slots : PruneDelete(k)
          \/ \E r \in Requests : DeleteSample(r)
          \/ samples \subseteq samples'
      <3>1. CASE UNCHANGED vars
        BY <3>1 DEF vars, store
      <3>2. ASSUME NEW k \in Slots, Fire(k) \/ Collect(k)
            PROVE  PruneDelete(k) \/ samples \subseteq samples'
        BY <3>2 DEF Fire, Collect, FetchAll, Turn, FetchStatistics, Record, PruneFind,
                    store
      <3>3. ASSUME NEW r \in Requests, Receive(r) \/ Handle(r)
            PROVE  DeleteSample(r) \/ samples \subseteq samples'
        BY <3>3 DEF Receive, Handle, FindOne, Insert, Recheck, FindConfig, SetStatus,
                    DeleteConfig, FindSamples, RequestFails, store
      <3>4. CASE Start \/ Stop \/ Exit \/ Tick \/ \E s \in Services : Recreate(s)
        BY <3>4 DEF Start, Stop, Exit, Tick, Recreate, store
      <3>5. QED
        BY <1>1, <3>1, <3>2, <3>3, <3>4 DEF Next
    <2>5. QED
      BY <2>1, <2>2, <2>3, <2>4
  <1>2. Inv /\ [Next]_vars => [Kept]_vars
    BY <1>1
  <1>3. QED
    BY <1>2, InvHolds, PTL DEF Spec, NoSampleLostEarly
=============================================================================
