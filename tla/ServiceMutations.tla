--------------------------- MODULE ServiceMutations ---------------------------
(***************************************************************************)
(* Concurrent requests that create, update, restart and remove Swarm       *)
(* services through the manager (ServiceRoutes, ServiceService,            *)
(* ServiceMutationAudit).                                                  *)
(*                                                                         *)
(* A request runs one awaited call at a time; between two calls every      *)
(* other request, the orchestrator and other Docker clients may act, so    *)
(* every awaited call is one action.  Docker itself is external: it        *)
(* rejects an update whose version is not the current one, a second        *)
(* service or network of the same name, and anything about a service that  *)
(* is gone.  A service specification is a function from Fields to Values;  *)
(* an input gives some of the fields, the manager imposes its own restart, *)
(* update and rollback policies, and the rest keep their value.  The       *)
(* network a request needs stands for the Target networks of its spec.     *)
(***************************************************************************)
EXTENDS Naturals, Sequences, FiniteSets

CONSTANTS Requests,   \* HTTP requests the manager may receive
          Jobs,       \* what a request may ask for
          Ids,        \* service identifiers Docker assigns, each at most once
          Names,      \* service names
          Fields,     \* fields of a service specification
          Managed,    \* the fields no input gives: the policies
          Values,     \* values of a field
          Imposed,    \* the value of a policy the manager imposes
          Default,    \* the value of every field of a service that was there
          Nets,       \* network names
          None,       \* no network, no service
          Faults,     \* which of "docker", "lost", "audit", "crash" may happen
          MaxBumps    \* bound: orchestrator changes of a service's version

ASSUME ValuesAssumption == Default \in Values /\ Imposed \in Values
ASSUME ManagedAssumption == Managed \subseteq Fields
ASSUME FaultsAssumption == Faults \subseteq {"docker", "lost", "audit", "crash"}
ASSUME MaxBumpsAssumption == MaxBumps \in Nat

VARIABLES swarm,     \* Docker: the service of each id, also after its removal
          networks,  \* Docker: the networks that exist
          req,       \* the handler of each request
          audits,    \* records in the audit store
          applied,   \* history: the mutations Docker carried out
          bumps      \* how often the orchestrator touched a service

vars == <<swarm, networks, req, audits, applied, bumps>>

Spec0 == [f \in Fields |-> Default]

\* Inputs are partial: a field that is not given is not in the domain.
Given == Fields \ Managed
Partial == UNION {[D -> Values] : D \in SUBSET Given}
Job == [op : {"upsert"}, name : Names, set : [Given -> Values],
        net : Nets \cup {None}, mayUpdate : BOOLEAN]
       \cup [op : {"update"}, ids : Seq(Ids), set : Partial,
             net : Nets \cup {None}]
       \cup [op : {"restart", "remove"}, ids : Seq(Ids)]

ASSUME JobsAssumption ==
    \A j \in Jobs :
        /\ j \in Job
        /\ j.op # "upsert" => Len(j.ids) > 0
        /\ j.op = "update" => Len(j.ids) = 1

Service(n, s) ==
    [name |-> n, spec |-> s, force |-> 0, version |-> 1, live |-> TRUE]
Live(i) == swarm[i] # None /\ swarm[i].live
\* The services that bear exactly this name; Docker allows one at a time.
Named(n) == {i \in Ids : Live(i) /\ swarm[i].name = n}

\* Defect: a field that is not given is dropped.
MergeReplacing(set, spec) == set
\* toServiceSpec: what the input gives, over the policies of the manager,
\* over what the service had.
Merge(set, spec) ==
    [f \in Fields |-> CASE f \in DOMAIN set -> set[f]
                       [] f \in Managed -> Imposed
                       [] OTHER -> spec[f]]

------------------------------------------------------------------------------
(* The handler of a request: pc is the call it awaits, item the position in *)
(* a batch, id the service it works on, base what it inspected, results     *)
(* the outcomes so far.                                                     *)
Idle == [pc |-> "idle", job |-> None, item |-> 1, id |-> None, base |-> None,
         creating |-> FALSE, results |-> <<>>]

FirstCall(job) ==
    CASE job.op = "upsert" -> "findExact"
      [] job.op = "remove" -> "remove"
      [] OTHER -> "inspect"

Target(job, item) == IF job.op = "upsert" THEN None ELSE job.ids[item]

Items(job) == IF job.op = "upsert" THEN 1 ELSE Len(job.ids)

\* Defect: an item that failed is tried again, for ever.
FinishRetrying(r, ok) ==
    LET h == req[r]
        more == ok /\ h.item < Items(h.job)
    IN  req' = [req EXCEPT ![r] =
            [h EXCEPT !.results = IF ok THEN Append(@, ok) ELSE @,
                      !.item = IF more THEN @ + 1 ELSE @,
                      !.pc = IF more \/ ~ok THEN FirstCall(h.job) ELSE "done"]]

\* Defect: a batch stops at its first failure.
FinishAborting(r, ok) ==
    LET h == req[r]
        more == ok /\ h.item < Items(h.job)
    IN  req' = [req EXCEPT ![r] =
            [h EXCEPT !.results = Append(@, ok),
                      !.item = IF more THEN @ + 1 ELSE @,
                      !.pc = IF more THEN FirstCall(h.job) ELSE "done",
                      !.id = IF more THEN Target(h.job, h.item + 1) ELSE @,
                      !.base = None]]

\* One item is over.  A batch goes on with the next id whatever the outcome.
Finish(r, ok) ==
    LET h == req[r]
        more == h.item < Items(h.job)
    IN  req' = [req EXCEPT ![r] =
            [h EXCEPT !.results = Append(@, ok),
                      !.item = IF more THEN @ + 1 ELSE @,
                      !.pc = IF more THEN FirstCall(h.job) ELSE "done",
                      !.id = IF more THEN Target(h.job, h.item + 1) ELSE @,
                      !.base = None]]

Goto(r, call) == req' = [req EXCEPT ![r].pc = call]

At(r, call) == req[r].pc = call

\* Which mutation the handler of r is about to carry out or to audit.
Action(r) ==
    CASE req[r].job.op = "restart" -> "RESTART"
      [] req[r].job.op = "remove" -> "DELETE"
      [] OTHER -> IF req[r].creating THEN "CREATE" ELSE "UPDATE"

Mark(r, i) == [req |-> r, item |-> req[r].item, action |-> Action(r), id |-> i]

Init ==
    /\ \/ swarm = [i \in Ids |-> None]
       \/ \E i \in Ids, n \in Names :
             swarm = [j \in Ids |-> IF j = i THEN Service(n, Spec0) ELSE None]
    /\ networks = {}
    /\ req = [r \in Requests |-> Idle]
    /\ audits = {}
    /\ applied = {}
    /\ bumps = 0

\* The route validated the input and checked the permission of the route.
Receive(r) ==
    /\ At(r, "idle")
    /\ \E job \in Jobs :
          req' = [req EXCEPT ![r] = [Idle EXCEPT !.pc = FirstCall(job),
                                                 !.job = job,
                                                 !.id = Target(job, 1)]]
    /\ UNCHANGED <<swarm, networks, audits, applied, bumps>>

\* Defect: a service found after a conflict is updated without a permission.
MayUpdateFirstOnly(r) == At(r, "findRaced") \/ req[r].job.mayUpdate
\* requirePermission(request, DockerPermissions.Update)
MayUpdate(r) == req[r].job.mayUpdate

\* POST /api/docker/service: look the name up.  A service that is there is
\* updated, if the caller may update; otherwise one is created.  The second
\* look-up, after a 409, rethrows the conflict when there is still none.
FindExact(r) ==
    /\ At(r, "findExact") \/ At(r, "findRaced")
    /\ LET found == Named(req[r].job.name) IN
       \/ /\ found # {} /\ MayUpdate(r)
          /\ \E i \in found :
                req' = [req EXCEPT ![r].pc = "inspect", ![r].id = i,
                                   ![r].creating = FALSE]
       \/ found # {} /\ ~MayUpdate(r) /\ Finish(r, FALSE)
       \/ /\ found = {} /\ At(r, "findExact")
          /\ req' = [req EXCEPT ![r].pc = "ensureNetworks",
                                ![r].creating = TRUE]
       \/ found = {} /\ At(r, "findRaced") /\ Finish(r, FALSE)
    /\ UNCHANGED <<swarm, networks, audits, applied, bumps>>

\* updateService and dockerRestart read the service they are about to change.
Inspect(r) ==
    /\ At(r, "inspect")
    /\ IF Live(req[r].id)
       THEN req' = [req EXCEPT
               ![r].base = swarm[req[r].id],
               ![r].pc = IF req[r].job.op = "restart" THEN "update"
                         ELSE "ensureNetworks"]
       ELSE Finish(r, FALSE)
    /\ UNCHANGED <<swarm, networks, audits, applied, bumps>>

Commit(r) == IF req[r].creating THEN "create" ELSE "update"

\* A 409 while creating sends the route back to the name; elsewhere it is an
\* error like any other.
Conflict(r) == IF req[r].creating THEN Goto(r, "findRaced") ELSE Finish(r, FALSE)

\* getOrCreateNetwork, first half: the network is there, or is not found.
LookUpNetwork(r) ==
    /\ At(r, "ensureNetworks")
    /\ Goto(r, IF req[r].job.net \in networks \cup {None}
               THEN Commit(r) ELSE "createNetwork")
    /\ UNCHANGED <<swarm, networks, audits, applied, bumps>>

\* getOrCreateNetwork, second half; somebody may have created it meanwhile.
CreateNetwork(r) ==
    /\ At(r, "createNetwork")
    /\ IF req[r].job.net \in networks
       THEN Conflict(r) /\ UNCHANGED networks
       ELSE /\ networks' = networks \cup {req[r].job.net}
            /\ Goto(r, Commit(r))
    /\ UNCHANGED <<swarm, audits, applied, bumps>>

\* Defect: a call whose answer is lost is sent again.
LandedRetrying(r, i, next) ==
    /\ applied' = applied \cup {Mark(r, i)}
    /\ \/ req' = [req EXCEPT ![r].pc = next, ![r].id = i]
       \/ "lost" \in Faults /\ req' = [req EXCEPT ![r].pc = FirstCall(req[r].job)]

\* A mutation Docker carried out: the handler goes on, or the answer is lost
\* on the way and the handler sees an error.
Landed(r, i, next) ==
    /\ applied' = applied \cup {Mark(r, i)}
    /\ \/ req' = [req EXCEPT ![r].pc = next, ![r].id = i]
       \/ "lost" \in Faults /\ Finish(r, FALSE)

\* docker.createService.
CreateService(r) ==
    /\ At(r, "create")
    /\ \/ /\ Named(req[r].job.name) = {}
          /\ \E i \in Ids :
                /\ swarm[i] = None
                /\ swarm' = [swarm EXCEPT ![i] =
                      Service(req[r].job.name, Merge(req[r].job.set, Spec0))]
                /\ Landed(r, i, "reread")
       \/ /\ Named(req[r].job.name) # {}
          /\ Conflict(r)
          /\ UNCHANGED <<swarm, applied>>
    /\ UNCHANGED <<networks, audits, bumps>>

\* Defect: the version is read again just before the update is sent.
VersionLatest(r) == swarm[req[r].id].version
\* The version of the service whose specification the update was made from.
VersionSent(r) == req[r].base.version

\* What the update makes of the service it was made from.
Updated(r) ==
    LET base == req[r].base IN
    [base EXCEPT
        !.spec = IF req[r].job.op = "restart" THEN @
                 ELSE Merge(req[r].job.set, @),
        !.force = IF req[r].job.op = "restart" THEN @ + 1 ELSE @,
        !.version = VersionSent(r) + 1]

\* service.update: Docker replaces the whole specification, provided the
\* version sent is the current one.
UpdateService(r) ==
    /\ At(r, "update")
    /\ LET i == req[r].id IN
       IF Live(i) /\ VersionSent(r) = swarm[i].version
       THEN /\ swarm' = [swarm EXCEPT ![i] = Updated(r)]
            /\ Landed(r, i, IF req[r].job.op = "restart" THEN "audit"
                            ELSE "reread")
       ELSE Finish(r, FALSE) /\ UNCHANGED <<swarm, applied>>
    /\ UNCHANGED <<networks, audits, bumps>>

\* service.remove.
RemoveService(r) ==
    /\ At(r, "remove")
    /\ LET i == req[r].id IN
       IF Live(i)
       THEN /\ swarm' = [swarm EXCEPT ![i].live = FALSE]
            /\ Landed(r, i, "audit")
       ELSE Finish(r, FALSE) /\ UNCHANGED <<swarm, applied>>
    /\ UNCHANGED <<networks, audits, bumps>>

\* findServiceById after a creation or an update, for the answer; the audit
\* comes after it.
Reread(r) ==
    /\ At(r, "reread")
    /\ IF Live(req[r].id) THEN Goto(r, "audit") ELSE Finish(r, FALSE)
    /\ UNCHANGED <<swarm, networks, audits, applied, bumps>>

\* Defect: the record names the route, not what the route fell back to.
RegisterByRoute(r) ==
    /\ At(r, "audit")
    /\ audits' = audits \cup {[Mark(r, req[r].id) EXCEPT !.action =
                    IF req[r].job.op = "upsert" THEN "CREATE" ELSE @]}
    /\ Finish(r, TRUE)
    /\ UNCHANGED <<swarm, networks, applied, bumps>>

\* registerServiceMutation: a failure to write the record is logged and
\* swallowed, and the request succeeds either way.
Register(r) ==
    /\ At(r, "audit")
    /\ \/ audits' = audits \cup {Mark(r, req[r].id)}
       \/ "audit" \in Faults /\ UNCHANGED audits
    /\ Finish(r, TRUE)
    /\ UNCHANGED <<swarm, networks, applied, bumps>>

DockerCalls == {"findExact", "findRaced", "inspect", "ensureNetworks",
                "createNetwork", "create", "update", "remove", "reread"}

\* Docker refuses or cannot be reached: the call changed nothing.
DockerFails(r) ==
    /\ "docker" \in Faults
    /\ req[r].pc \in DockerCalls
    /\ Finish(r, FALSE)
    /\ UNCHANGED <<swarm, networks, audits, applied, bumps>>

\* The manager dies: every request in progress is cut off where it is.
Crash ==
    /\ "crash" \in Faults
    /\ req' = [r \in Requests |->
                  IF req[r].pc \in {"idle", "done"} THEN req[r]
                  ELSE [req[r] EXCEPT !.pc = "dead"]]
    /\ req' # req
    /\ UNCHANGED <<swarm, networks, audits, applied, bumps>>

\* The orchestrator records progress of a rollout in the service object.
OrchestratorBump(i) ==
    /\ Live(i) /\ bumps < MaxBumps
    /\ swarm' = [swarm EXCEPT ![i].version = @ + 1]
    /\ bumps' = bumps + 1
    /\ UNCHANGED <<networks, req, audits, applied>>

Step(r) ==
    \/ FindExact(r) \/ Inspect(r)
    \/ LookUpNetwork(r) \/ CreateNetwork(r)
    \/ CreateService(r) \/ UpdateService(r) \/ RemoveService(r)
    \/ Reread(r) \/ Register(r) \/ DockerFails(r)

Next ==
    \/ \E r \in Requests : Receive(r) \/ Step(r)
    \/ Crash
    \/ \E i \in Ids : OrchestratorBump(i)

\* An awaited call is answered or fails: the handler never waits for ever.
Fairness == \A r \in Requests : WF_vars(Step(r))

Spec == Init /\ [][Next]_vars /\ Fairness

------------------------------------------------------------------------------
ServiceRecord == [name : Names, spec : [Fields -> Values], force : Nat,
                  version : Nat, live : BOOLEAN]
MarkRecord == [req : Requests, item : Nat, id : Ids,
               action : {"CREATE", "UPDATE", "RESTART", "DELETE"}]
Over == {"done", "dead"}
PC == DockerCalls \cup Over \cup {"idle", "audit"}
Handler == [pc : PC, job : Jobs \cup {None}, item : Nat, id : Ids \cup {None},
            base : ServiceRecord \cup {None}, creating : BOOLEAN,
            results : Seq(BOOLEAN)]

ASSUME NoneAssumption == None \notin Ids \cup Nets \cup Jobs \cup ServiceRecord

\* Services, handlers and records keep their types; in particular an update
\* never leaves a service with a specification that lacks a field.
TypeOK ==
    /\ swarm \in [Ids -> ServiceRecord \cup {None}]
    /\ networks \subseteq Nets
    /\ req \in [Requests -> Handler]
    /\ audits \subseteq MarkRecord
    /\ applied \subseteq MarkRecord
    /\ bumps \in 0..MaxBumps

\* The audit store never claims a mutation Docker did not carry out: a failed
\* update, a version conflict or a restart of a service that is gone leaves no
\* record, under any action name but the one that was carried out.
AuditsAreTrue == audits \subseteq applied

\* One request changes at most one service once per item, whatever conflicts
\* it meets on the way: an upsert that falls back to an update has not also
\* created, and an item answered as a success has been carried out, on the
\* service it names.
OneEffectPerItem ==
    /\ \A a, b \in applied : a.req = b.req /\ a.item = b.item => a = b
    /\ \A r \in Requests : \A k \in DOMAIN req[r].results :
          req[r].results[k] =>
             \E a \in applied :
                /\ a.req = r /\ a.item = k
                /\ \/ req[r].job.op = "upsert"
                   \/ a.id = req[r].job.ids[k]

\* A batch answers for every id it was given, also after failures.
BatchIsComplete ==
    \A r \in Requests :
        At(r, "done") => Len(req[r].results) = Items(req[r].job)

\* A caller that may create but not update never changes a service that
\* exists, not even one that appeared while it was creating.
CreateOnlyNeverUpdates ==
    \A a \in applied :
        /\ req[a.req].job.op = "upsert"
        /\ a.action = "UPDATE"
        => req[a.req].job.mayUpdate

\* An upsert ends on the service that bears the name it was given.
UpsertHitsItsName ==
    \A a \in applied :
        req[a.req].job.op = "upsert" => swarm[a.id].name = req[a.req].job.name

\* No restart is swallowed by a concurrent update or restart: the restart
\* counter of a service is the number of restarts carried out on it.
RestartsAccumulate ==
    \A i \in Ids : swarm[i] # None =>
        swarm[i].force =
            Cardinality({a \in applied : a.action = "RESTART" /\ a.id = i})

\* What requests do to the services, to the audit store and in their answers,
\* whatever they race with.
MutationsAreRight ==
    /\ AuditsAreTrue /\ OneEffectPerItem /\ BatchIsComplete
    /\ CreateOnlyNeverUpdates /\ UpsertHitsItsName /\ RestartsAccumulate

\* No lost update: a change of a service touches only the policies and the
\* fields the request that made it was given, and a restart none, although
\* the request sends the whole specification it read before others ran.
FieldsAskedFor(r) ==
    IF req[r].job.op = "restart" THEN {} ELSE Managed \cup DOMAIN req[r].job.set
ChangesOnlyWhatWasAsked ==
    [][\A i \in Ids :
          Live(i) /\ Live(i)' =>
             \/ swarm'[i].spec = swarm[i].spec
             \/ \E r \in Requests :
                   /\ At(r, "update") /\ ~At(r, "update")' /\ req[r].id = i
                   /\ \A f \in Fields \ FieldsAskedFor(r) :
                         swarm'[i].spec[f] = swarm[i].spec[f]]_vars

\* The inductive invariant, for one request.  Where a handler is, given what
\* it was asked for:
Changing(r) == req[r].pc \in {"inspect", "ensureNetworks", "createNetwork", "update"}
               /\ ~req[r].creating
Flow(r) ==
    LET h == req[r] IN
    /\ h.pc # "idle" => h.job \in Jobs
    /\ h.creating \/ h.pc \in {"findExact", "findRaced", "create"} =>
          h.pc # "idle" /\ h.job.op = "upsert"
    /\ h.pc = "create" => h.creating
    /\ h.pc \in {"inspect", "update"} => ~h.creating /\ h.job.op # "remove"
    /\ h.pc \in {"ensureNetworks", "createNetwork", "reread"} =>
          h.job.op \in {"upsert", "update"}
    /\ h.pc = "createNetwork" => h.job.net # None
    /\ h.pc = "remove" => h.job.op = "remove"
    /\ Changing(r) \/ h.pc \in {"remove", "reread", "audit"} => h.id \in Ids
    /\ h.pc \notin Over \cup {"idle"} =>
          /\ h.item \in 1..Items(h.job)
          /\ h.job.op # "upsert" => h.id = h.job.ids[h.item]

\* what it inspected is what the service still is, as long as the version is;
Based(r) ==
    LET h == req[r] IN
    Changing(r) /\ h.pc # "inspect" =>
        /\ h.base \in ServiceRecord
        /\ swarm[h.id] # None
        /\ h.base.name = swarm[h.id].name
        /\ h.base.version <= swarm[h.id].version
        /\ h.base.version = swarm[h.id].version =>
              h.base.spec = swarm[h.id].spec /\ h.base.force = swarm[h.id].force

\* an upsert that is on its way to an update may update, the right service;
Permitted(r) ==
    LET h == req[r] IN
    Changing(r) /\ h.job.op = "upsert" =>
        /\ h.job.mayUpdate
        /\ swarm[h.id] # None /\ swarm[h.id].name = h.job.name

\* a mutation about to be audited was carried out;
Carried(r) == req[r].pc \in {"reread", "audit"} => Mark(r, req[r].id) \in applied

\* there is one mutation per item, and none for the item being worked on;
Placed(r) ==
    /\ \A a \in applied : a.req = r =>
          /\ req[r].pc # "idle"
          /\ a.item <= req[r].item
          /\ a.item = req[r].item => req[r].pc \in Over \cup {"reread", "audit"}
    /\ \A a, b \in applied : a.req = r /\ b.req = r /\ a.item = b.item => a = b

\* mutations are the ones that were asked for and permitted;
Lawful(r) ==
    \A a \in applied : a.req = r =>
        /\ swarm[a.id] # None
        /\ req[r].job.op = "upsert" =>
              /\ swarm[a.id].name = req[r].job.name
              /\ a.action = "UPDATE" => req[r].job.mayUpdate

\* and there is an outcome for every item that is over, true to its mutation.
Counted(r) ==
    LET h == req[r] IN
    /\ h.pc \notin {"idle", "dead"} =>
          Len(h.results) = IF h.pc = "done" THEN Items(h.job) ELSE h.item - 1
    /\ \A k \in DOMAIN h.results : h.results[k] =>
          \E a \in applied :
             /\ a.req = r /\ a.item = k
             /\ h.job.op = "upsert" \/ a.id = h.job.ids[k]

HandlerOK(r) ==
    /\ Flow(r) /\ Based(r) /\ Permitted(r) /\ Carried(r)
    /\ Placed(r) /\ Lawful(r) /\ Counted(r)

IInv ==
    /\ TypeOK
    /\ AuditsAreTrue
    /\ \A r \in Requests : HandlerOK(r)
    /\ IsFiniteSet(applied) /\ RestartsAccumulate

\* What Docker carried out for a request that is over is in the audit store.
LandedIsAudited ==
    \A a \in applied : At(a.req, "done") => a \in audits

\* Every request is answered, unless the manager dies under it.
EveryRequestIsAnswered ==
    \A r \in Requests : ~At(r, "idle") ~> At(r, "done") \/ At(r, "dead")
==============================================================================
