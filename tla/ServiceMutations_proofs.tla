------------------------ MODULE ServiceMutations_proofs ------------------------
(***************************************************************************)
(* What the requests do to the services and to the audit store is right    *)
(* for every number of requests, services, jobs and faults: IInv is an     *)
(* inductive invariant, and the properties of the runs follow from it.     *)
(*                                                                         *)
(* A step is one request's, the orchestrator's or a crash.  What it does   *)
(* to the other requests is only that services grow (Grows) and that the   *)
(* marks it adds are its own (Marks); lemma Frame says that this preserves *)
(* what IInv says of them, and one lemma per action does the rest.         *)
(***************************************************************************)
EXTENDS ServiceMutations, FiniteSetTheorems, TLAPS

USE DEF Over, DockerCalls

\* A service stays, under its name; what it is changes only with its version.
Grows ==
    \A i \in Ids : swarm[i] # None =>
        /\ swarm'[i] # None
        /\ swarm'[i].name = swarm[i].name
        /\ swarm[i].version <= swarm'[i].version
        /\ swarm[i].version = swarm'[i].version =>
              swarm'[i].spec = swarm[i].spec /\ swarm'[i].force = swarm[i].force

\* Mutations are never forgotten, and r is the one that adds to them.
Marks(r) == applied \subseteq applied' /\ \A a \in applied' \ applied : a.req = r

Spares(q) == applied \subseteq applied' /\ \A a \in applied' \ applied : a.req # q

LEMMA JobFacts ==
    ASSUME NEW j \in Jobs
    PROVE /\ j.op \in {"upsert", "update", "restart", "remove"}
          /\ j.op = "upsert" =>
                /\ j.name \in Names /\ j.set \in [Given -> Values]
                /\ j.net \in Nets \cup {None} /\ j.mayUpdate \in BOOLEAN
          /\ j.op = "update" => j.set \in Partial /\ j.net \in Nets \cup {None}
          /\ j.op # "upsert" => j.ids \in Seq(Ids) /\ Len(j.ids) \in Nat \ {0}
<1>1. j \in Job /\ (j.op # "upsert" => Len(j.ids) > 0)
  BY JobsAssumption
<1>2. CASE j \in [op : {"upsert"}, name : Names, set : [Given -> Values],
                  net : Nets \cup {None}, mayUpdate : BOOLEAN]
  BY <1>2
<1>3. CASE j \in [op : {"update"}, ids : Seq(Ids), set : Partial,
                  net : Nets \cup {None}]
  BY <1>1, <1>3
<1>4. CASE j \in [op : {"restart", "remove"}, ids : Seq(Ids)]
  BY <1>1, <1>4
<1>5. QED
  BY <1>1, <1>2, <1>3, <1>4 DEF Job

LEMMA ItemFacts ==
    ASSUME NEW j \in Jobs
    PROVE /\ Items(j) \in Nat \ {0}
          /\ j.op = "upsert" => Items(j) = 1 /\ FirstCall(j) = "findExact"
          /\ j.op # "upsert" =>
                /\ \A k \in 1..Items(j) : j.ids[k] \in Ids
                /\ FirstCall(j) = IF j.op = "remove" THEN "remove" ELSE "inspect"
                /\ \A k \in 1..Items(j) : Target(j, k) = j.ids[k]
          /\ Target(j, 1) \in Ids \cup {None}
<1>1. j.op \in {"upsert", "update", "restart", "remove"}
      /\ (j.op # "upsert" => j.ids \in Seq(Ids) /\ Len(j.ids) \in Nat \ {0})
  BY JobFacts
<1>2. j.op # "upsert" => \A k \in 1..Len(j.ids) : j.ids[k] \in Ids
  BY <1>1
<1>3. QED
  BY <1>1, <1>2 DEF Items, FirstCall, Target

\* What the type invariant says of one handler.
LEMMA HandlerFacts ==
    ASSUME TypeOK, NEW r \in Requests
    PROVE /\ req[r] \in Handler
          /\ req[r].pc \in PC /\ req[r].item \in Nat /\ req[r].creating \in BOOLEAN
          /\ req[r].job \in Jobs \cup {None} /\ req[r].id \in Ids \cup {None}
          /\ req[r].base \in ServiceRecord \cup {None}
          /\ req[r].results \in Seq(BOOLEAN)
<1>1. req[r] \in Handler
  BY DEF TypeOK
<1>2. QED
  BY <1>1 DEF Handler

LEMMA InitIInv == Init => IInv
<1> SUFFICES ASSUME Init PROVE IInv
  OBVIOUS
<1>1. Spec0 \in [Fields -> Values]
  BY ValuesAssumption DEF Spec0
<1>2. \A n \in Names : Service(n, Spec0) \in ServiceRecord
  BY <1>1 DEF Service, ServiceRecord
<1>3. swarm \in [Ids -> ServiceRecord \cup {None}]
  BY <1>2 DEF Init
<1>4. Idle \in Handler
  <2>1. <<>> \in Seq(BOOLEAN)
    OBVIOUS
  <2>2. QED
    BY <2>1 DEF Idle, Handler, PC
<1>5. TypeOK
  BY <1>3, <1>4, MaxBumpsAssumption DEF Init, TypeOK
<1>6. applied = {} /\ audits = {} /\ IsFiniteSet(applied)
  BY FS_EmptySet DEF Init
<1>7. ASSUME NEW r \in Requests PROVE HandlerOK(r)
  <2>1. req[r] = Idle
    BY DEF Init
  <2>2. Flow(r) /\ Based(r) /\ Permitted(r) /\ Carried(r)
    BY <2>1 DEF Idle, Flow, Based, Permitted, Carried, Changing
  <2>3. Placed(r) /\ Lawful(r)
    BY <1>6 DEF Placed, Lawful
  <2>4. Counted(r)
    BY <2>1 DEF Idle, Counted
  <2>5. QED
    BY <2>2, <2>3, <2>4 DEF HandlerOK
<1>8. RestartsAccumulate
  <2>1. \A i \in Ids : {a \in applied : a.action = "RESTART" /\ a.id = i} = {}
    BY <1>6
  <2>2. \A i \in Ids : swarm[i] # None => swarm[i].force = 0
    BY DEF Init, Service
  <2>3. QED
    BY <2>1, <2>2, FS_EmptySet DEF RestartsAccumulate
<1>9. QED
  BY <1>5, <1>6, <1>7, <1>8 DEF IInv, AuditsAreTrue

------------------------------------------------------------------------------
\* What a step of another leaves true of request q.
LEMMA Frame ==
    ASSUME IInv, NEW q \in Requests, req'[q] = req[q], Grows, Spares(q), TypeOK'
    PROVE HandlerOK(q)'
<1>1. HandlerOK(q) /\ TypeOK
  BY DEF IInv
<1>2. req[q].pc \in PC /\ req[q].id \in Ids \cup {None}
  BY <1>1, HandlerFacts
<1>3. \A a \in applied' : a.req = q => a \in applied
  BY DEF Spares
<1>4. Flow(q)'
  BY <1>1 DEF HandlerOK, Flow, Changing
<1>5. Based(q)'
  <2> SUFFICES ASSUME Changing(q), req[q].pc # "inspect" PROVE Based(q)'
    BY DEF Based, Changing
  <2>1. req[q].id \in Ids /\ Based(q)
    BY <1>1 DEF HandlerOK, Flow
  <2>2. swarm[req[q].id] \in ServiceRecord /\ req[q].base \in ServiceRecord
    BY <1>1, <2>1 DEF Based, TypeOK
  <2>3. swarm'[req[q].id] # None => swarm'[req[q].id] \in ServiceRecord
    BY <2>1 DEF TypeOK
  <2>4. \A s \in ServiceRecord : s.version \in Nat
    BY DEF ServiceRecord
  <2>5. /\ swarm'[req[q].id] # None
        /\ req[q].base.name = swarm'[req[q].id].name
        /\ req[q].base.version <= swarm'[req[q].id].version
    BY <2>1, <2>2, <2>3, <2>4 DEF Based, Grows
  <2>6. ASSUME req[q].base.version = swarm'[req[q].id].version
        PROVE  /\ req[q].base.spec = swarm'[req[q].id].spec
               /\ req[q].base.force = swarm'[req[q].id].force
    <3>1. req[q].base.version = swarm[req[q].id].version
      BY <2>1, <2>2, <2>3, <2>4, <2>6 DEF Based, Grows
    <3>2. QED
      BY <2>1, <2>2, <2>6, <3>1 DEF Based, Grows
  <2>7. QED
    BY <2>2, <2>5, <2>6 DEF Based
<1>6. Permitted(q)'
  BY <1>1 DEF HandlerOK, Flow, Permitted, Changing, Grows
<1>7. Carried(q)'
  BY <1>1 DEF HandlerOK, Carried, Spares, Mark, Action
<1>8. Placed(q)'
  BY <1>1, <1>3 DEF HandlerOK, Placed
<1>9. Lawful(q)'
  <2>1. \A a \in applied : a.id \in Ids
    BY <1>1 DEF TypeOK, MarkRecord
  <2>2. QED
    BY <1>1, <1>3, <2>1 DEF HandlerOK, Lawful, Grows
<1>10. Counted(q)'
  BY <1>1 DEF HandlerOK, Counted, Spares
<1>11. QED
  BY <1>4, <1>5, <1>6, <1>7, <1>8, <1>9, <1>10 DEF HandlerOK
------------------------------------------------------------------------------
\* Which actions a request can be audited under.
LEMMA ActionFacts ==
    ASSUME TypeOK, NEW r \in Requests
    PROVE /\ Action(r) \in {"CREATE", "UPDATE", "RESTART", "DELETE"}
          /\ Action(r) = "RESTART" <=> req[r].job.op = "restart"
          /\ Action(r) = "UPDATE" => ~req[r].creating
          /\ req[r].creating /\ req[r].job.op = "upsert" => Action(r) = "CREATE"
<1>1. CASE req[r].job.op = "restart"
  BY <1>1 DEF Action
<1>2. CASE req[r].job.op = "remove"
  BY <1>2 DEF Action
<1>3. CASE req[r].job.op \notin {"restart", "remove"}
  <2>1. Action(r) = IF req[r].creating THEN "CREATE" ELSE "UPDATE"
    BY <1>3 DEF Action
  <2>2. QED
    BY <2>1, <1>3
<1>4. QED
  BY <1>1, <1>2, <1>3

LEMMA MarkFacts ==
    ASSUME TypeOK, NEW r \in Requests, NEW i \in Ids
    PROVE /\ Mark(r, i) \in MarkRecord
          /\ Mark(r, i).req = r /\ Mark(r, i).item = req[r].item
          /\ Mark(r, i).id = i /\ Mark(r, i).action = Action(r)
BY ActionFacts, HandlerFacts DEF Mark, MarkRecord

\* A mark of r is the same after a step that keeps what it is made of.
LEMMA SameMark ==
    ASSUME NEW r, NEW i, req'[r].job = req[r].job, req'[r].item = req[r].item,
           req'[r].creating = req[r].creating
    PROVE Mark(r, i)' = Mark(r, i)
BY DEF Mark, Action

\* toServiceSpec gives every field a value, and keeps the others.
LEMMA MergeFacts ==
    ASSUME NEW spec \in [Fields -> Values],
           NEW set, set \in Partial \/ set \in [Given -> Values]
    PROVE /\ Merge(set, spec) \in [Fields -> Values]
          /\ \A f \in Fields \ (Managed \cup DOMAIN set) :
                Merge(set, spec)[f] = spec[f]
<1>1. \A f \in DOMAIN set : set[f] \in Values
  BY DEF Partial
<1>2. \A f \in Fields : (CASE f \in DOMAIN set -> set[f]
                            [] f \in Managed -> Imposed
                            [] OTHER -> spec[f]) \in Values
  <2> TAKE f \in Fields
  <2>1. CASE f \in DOMAIN set /\ f \notin Managed
    BY <2>1, <1>1
  <2>2. CASE f \in DOMAIN set /\ f \in Managed
    BY <2>2, <1>1, ValuesAssumption
  <2>3. CASE f \notin DOMAIN set /\ f \in Managed
    BY <2>3, ValuesAssumption
  <2>4. CASE f \notin DOMAIN set /\ f \notin Managed
    BY <2>4
  <2>5. QED
    BY <2>1, <2>2, <2>3, <2>4
<1>3. Merge(set, spec) \in [Fields -> Values]
  BY <1>2 DEF Merge
<1>4. \A f \in Fields \ (Managed \cup DOMAIN set) : Merge(set, spec)[f] = spec[f]
  BY DEF Merge
<1>5. QED
  BY <1>3, <1>4

------------------------------------------------------------------------------
\* The end of an item: the next one of a batch, or the answer.
LEMMA FinishFacts ==
    ASSUME TypeOK, NEW r \in Requests, NEW ok \in BOOLEAN, Flow(r),
           req[r].pc \notin Over \cup {"idle"}, Finish(r, ok)
    PROVE /\ req' \in [Requests -> Handler]
          /\ \A q \in Requests \ {r} : req'[q] = req[q]
          /\ req'[r].job = req[r].job /\ req'[r].creating = req[r].creating
          /\ req'[r].results = Append(req[r].results, ok)
          /\ \/ /\ req[r].item < Items(req[r].job)
                /\ req'[r].item = req[r].item + 1
                /\ req[r].job.op # "upsert" /\ ~req[r].creating
                /\ req'[r].pc = IF req[r].job.op = "remove" THEN "remove"
                                ELSE "inspect"
                /\ req'[r].id \in Ids
                /\ req'[r].id = req[r].job.ids[req'[r].item]
             \/ /\ req[r].item = Items(req[r].job)
                /\ req'[r].item = req[r].item /\ req'[r].pc = "done"
<1> DEFINE h == req[r]
           more == h.item < Items(h.job)
           next == [h EXCEPT !.results = Append(@, ok),
                      !.item = IF more THEN @ + 1 ELSE @,
                      !.pc = IF more THEN FirstCall(h.job) ELSE "done",
                      !.id = IF more THEN Target(h.job, h.item + 1) ELSE @,
                      !.base = None]
<1>1. /\ h \in Handler /\ h.job \in Jobs /\ h.item \in 1..Items(h.job)
      /\ h.results \in Seq(BOOLEAN) /\ h.id \in Ids \cup {None}
  BY HandlerFacts DEF Flow
<1>2. req' = [req EXCEPT ![r] = next]
  BY DEF Finish
<1>3. /\ Items(h.job) \in Nat /\ h.item \in Nat
      /\ more => /\ h.job.op # "upsert"
                 /\ FirstCall(h.job) \in {"inspect", "remove"}
                 /\ FirstCall(h.job) = IF h.job.op = "remove" THEN "remove"
                                       ELSE "inspect"
                 /\ Target(h.job, h.item + 1) \in Ids
                 /\ Target(h.job, h.item + 1) = h.job.ids[h.item + 1]
  BY <1>1, ItemFacts
<1>4. Append(h.results, ok) \in Seq(BOOLEAN)
  BY <1>1
<1>5. next \in Handler
  <2> DEFINE pc == IF more THEN FirstCall(h.job) ELSE "done"
             item == IF more THEN h.item + 1 ELSE h.item
             id == IF more THEN Target(h.job, h.item + 1) ELSE h.id
  <2>1. next = [pc |-> pc, job |-> h.job, item |-> item, id |-> id, base |-> None,
                creating |-> h.creating, results |-> Append(h.results, ok)]
    <3> HIDE DEF pc, item, id
    <3>1. next = [h EXCEPT !.results = Append(h.results, ok), !.item = item,
                           !.pc = pc, !.id = id, !.base = None]
      BY DEF pc, item, id
    <3> HIDE DEF next
    <3>2. QED
      BY <3>1, <1>1 DEF Handler
  <2>2. pc \in PC /\ item \in Nat /\ id \in Ids \cup {None}
    BY <1>1, <1>3 DEF PC
  <2>3. h.creating \in BOOLEAN
    BY <1>1 DEF Handler
  <2> HIDE DEF pc, item, id, next
  <2>4. QED
    BY <1>1, <1>4, <2>1, <2>2, <2>3 DEF Handler
<1>6. /\ next.results = Append(h.results, ok) /\ next.job = h.job
      /\ next.item = IF more THEN h.item + 1 ELSE h.item
      /\ next.pc = IF more THEN FirstCall(h.job) ELSE "done"
      /\ next.id = IF more THEN Target(h.job, h.item + 1) ELSE h.id
      /\ next.creating = h.creating
  BY <1>1 DEF Handler
<1> HIDE DEF next
<1>7. req' \in [Requests -> Handler] /\ req'[r] = next
      /\ \A q \in Requests \ {r} : req'[q] = req[q]
  BY <1>2, <1>5 DEF TypeOK
<1>8. more => ~h.creating
  BY <1>3 DEF Flow
<1>9. CASE more
  BY <1>3, <1>6, <1>7, <1>8, <1>9
<1>10. CASE ~more
  <2>1. h.item = Items(h.job)
    BY <1>10, <1>1, <1>3
  <2>2. QED
    BY <1>10, <2>1, <1>6, <1>7
<1>11. QED
  BY <1>9, <1>10
\* The mutations a step of r adds: none, or the one of its current item,
\* lawful, on a service that is there.
Effect(r, new) ==
    /\ applied' = applied \cup new
    /\ \A a \in new :
          /\ a.req = r /\ a.item = req[r].item /\ a.id \in Ids
          /\ req[r].pc \in {"create", "update", "remove"}
          /\ req[r].job.op # "upsert" => a.id = req[r].job.ids[req[r].item]
          /\ swarm'[a.id] # None
          /\ req[r].job.op = "upsert" =>
                /\ swarm'[a.id].name = req[r].job.name
                /\ a.action = "UPDATE" => req[r].job.mayUpdate
    /\ \A a, b \in new : a = b

LEMMA EffectLawful ==
    ASSUME IInv, NEW r \in Requests, NEW new, Effect(r, new), Grows,
           req'[r].job = req[r].job
    PROVE Lawful(r)' /\ Marks(r)
<1>1. \A a \in applied : a.id \in Ids
  BY DEF IInv, TypeOK, MarkRecord
<1>2. Lawful(r)
  BY DEF IInv, HandlerOK
<1>3. QED
  BY <1>1, <1>2 DEF Lawful, Effect, Grows, Marks

LEMMA EffectOnce ==
    ASSUME IInv, NEW r \in Requests, NEW new, Effect(r, new)
    PROVE /\ \A a, b \in applied' :
                a.req = r /\ b.req = r /\ a.item = b.item => a = b
          /\ \A a \in applied' : a.req = r => a.item <= req[r].item
<1>1. Placed(r) /\ req[r].item \in Nat
  BY HandlerFacts DEF IInv, HandlerOK
<1>2. \A a \in applied, b \in new : a.req = r => a.item # b.item
  BY <1>1 DEF Placed, Effect
<1>3. \A a \in applied' : a \in applied \/ a \in new
  BY DEF Effect
<1>4. QED
  BY <1>1, <1>2, <1>3 DEF Placed, Effect

\* An item that ends well has been carried out.
LEMMA FinishOK ==
    ASSUME IInv, NEW r \in Requests, NEW ok \in BOOLEAN, Finish(r, ok),
           req[r].pc \notin Over \cup {"idle"},
           NEW new, Effect(r, new), Grows,
           ok => \E a \in applied' :
                    /\ a.req = r /\ a.item = req[r].item
                    /\ req[r].job.op = "upsert" \/ a.id = req[r].job.ids[a.item]
    PROVE /\ HandlerOK(r)' /\ req' \in [Requests -> Handler]
          /\ \A q \in Requests \ {r} : req'[q] = req[q]
<1> DEFINE h == req[r]
           k == req'[r]
<1>1. HandlerOK(r) /\ TypeOK
  BY DEF IInv
<1>2. Flow(r) /\ Placed(r) /\ Counted(r)
  BY <1>1 DEF HandlerOK
<1>3. /\ h.job \in Jobs /\ h.item \in 1..Items(h.job) /\ h.item \in Nat
      /\ h.results \in Seq(BOOLEAN)
  BY <1>1, <1>2, HandlerFacts DEF Flow
<1>4. /\ req' \in [Requests -> Handler]
      /\ \A q \in Requests \ {r} : req'[q] = req[q]
      /\ k.job = h.job /\ k.creating = h.creating
      /\ k.results = Append(h.results, ok)
      /\ \/ /\ h.item < Items(h.job)
            /\ k.item = h.item + 1
            /\ h.job.op # "upsert" /\ ~h.creating
            /\ k.pc = IF h.job.op = "remove" THEN "remove" ELSE "inspect"
            /\ k.id \in Ids
            /\ k.id = h.job.ids[k.item]
         \/ /\ h.item = Items(h.job)
            /\ k.item = h.item /\ k.pc = "done"
  BY <1>1, <1>2, FinishFacts
<1>5. Items(h.job) \in Nat /\ None \notin Jobs
  BY <1>3, ItemFacts, NoneAssumption
<1>6. Lawful(r)' /\ Marks(r)
  BY <1>4, EffectLawful
<1>7. Flow(r)'
  <2>1. CASE k.pc = "done"
    BY <2>1, <1>2, <1>3, <1>4 DEF Flow, Changing
  <2>2. CASE k.pc # "done"
    BY <2>2, <1>2, <1>3, <1>4, <1>5 DEF Flow, Changing
  <2>3. QED
    BY <2>1, <2>2
<1>8. Based(r)' /\ Permitted(r)' /\ Carried(r)'
  BY <1>4 DEF Based, Permitted, Carried, Changing
<1>9. Placed(r)'
  <2>1. /\ \A a, b \in applied' : a.req = r /\ b.req = r /\ a.item = b.item => a = b
        /\ \A a \in applied' : a.req = r => a.item <= h.item
    BY EffectOnce
  <2>2. k.pc # "idle"
    BY <1>4
  <2>3. \A a \in applied' : a.item \in Nat
    BY <1>1, <1>3 DEF TypeOK, MarkRecord, Effect
  <2>4. \A a \in applied' : a.req = r =>
           a.item <= k.item /\ (a.item = k.item => k.pc = "done")
    BY <2>1, <2>3, <1>3, <1>4
  <2>5. QED
    BY <2>1, <2>2, <2>4 DEF Placed
<1>10. Counted(r)'
  <2>1. Len(h.results) = h.item - 1
    BY <1>2 DEF Counted
  <2>2. Len(k.results) = h.item
    BY <2>1, <1>3, <1>4
  <2>3. Len(k.results) = IF k.pc = "done" THEN Items(k.job) ELSE k.item - 1
    BY <2>2, <1>3, <1>4, <1>5
  <2>4. ASSUME NEW n \in DOMAIN k.results, k.results[n]
        PROVE  \E a \in applied' :
                  /\ a.req = r /\ a.item = n
                  /\ k.job.op = "upsert" \/ a.id = k.job.ids[n]
    <3>1. n \in 1..h.item /\ DOMAIN h.results = 1..(h.item - 1)
      BY <2>1, <2>2, <1>3, <1>4
    <3>2. CASE n \in 1..(h.item - 1)
      <4>1. h.results[n]
        BY <3>1, <3>2, <2>1, <2>4, <1>3, <1>4
      <4>2. QED
        BY <3>1, <3>2, <4>1, <1>2, <1>4, <1>6 DEF Counted, Marks
    <3>3. CASE n = h.item
      <4>1. ok
        BY <3>3, <2>1, <2>4, <1>3, <1>4
      <4>2. QED
        BY <3>3, <4>1, <1>4
    <3>4. QED
      BY <3>1, <3>2, <3>3, <1>3
  <2>5. QED
    BY <2>3, <2>4 DEF Counted
<1>11. QED
  BY <1>4, <1>6, <1>7, <1>8, <1>9, <1>10 DEF HandlerOK
------------------------------------------------------------------------------
\* What a step of r has to show for IInv to hold after it.
LEMMA Assemble ==
    ASSUME IInv, NEW r \in Requests, \A q \in Requests \ {r} : req'[q] = req[q],
           Grows, Marks(r), TypeOK', AuditsAreTrue', HandlerOK(r)',
           IsFiniteSet(applied'), RestartsAccumulate'
    PROVE IInv'
<1>1. ASSUME NEW q \in Requests PROVE HandlerOK(q)'
  <2>1. CASE q = r
    BY <2>1
  <2>2. CASE q # r
    <3>1. Spares(q)
      BY <2>2 DEF Marks, Spares
    <3>2. QED
      BY <2>2, <3>1, Frame
  <2>3. QED
    BY <2>1, <2>2
<1>2. QED
  BY <1>1 DEF IInv

\* A step that carries nothing out.
LEMMA Quiet ==
    ASSUME IInv, UNCHANGED <<swarm, applied>>
    PROVE /\ Grows /\ IsFiniteSet(applied') /\ RestartsAccumulate'
          /\ \A r : Marks(r) /\ Effect(r, {})
<1>1. \A i \in Ids : swarm[i] # None => swarm[i].version <= swarm[i].version
  BY DEF IInv, TypeOK, ServiceRecord
<1>2. Grows
  BY <1>1 DEF Grows
<1>3. QED
  BY <1>2 DEF IInv, RestartsAccumulate, Marks, Effect

LEMMA QuietStep ==
    ASSUME IInv, NEW r \in Requests, UNCHANGED <<swarm, applied, audits, bumps>>,
           networks' \subseteq Nets, req' \in [Requests -> Handler],
           \A q \in Requests \ {r} : req'[q] = req[q], HandlerOK(r)'
    PROVE IInv'
<1>1. TypeOK' /\ AuditsAreTrue'
  BY DEF IInv, TypeOK, AuditsAreTrue
<1>2. QED
  BY <1>1, Quiet, Assemble

LEMMA QuietFailure ==
    ASSUME IInv, NEW r \in Requests, UNCHANGED <<swarm, applied, audits, bumps>>,
           networks' \subseteq Nets, req[r].pc \notin Over \cup {"idle"},
           Finish(r, FALSE)
    PROVE IInv'
<1>1. Grows /\ Effect(r, {})
  BY Quiet
<1>2. /\ HandlerOK(r)' /\ req' \in [Requests -> Handler]
      /\ \A q \in Requests \ {r} : req'[q] = req[q]
  BY <1>1, FinishOK
<1>3. QED
  BY <1>2, QuietStep

\* A handler goes from one call to the next without having carried anything
\* out for its item.
Under == DockerCalls \ {"reread"}

LEMMA Move ==
    ASSUME IInv, NEW r \in Requests, UNCHANGED <<swarm, applied, audits, bumps>>,
           networks' \subseteq Nets, NEW k \in Handler, req' = [req EXCEPT ![r] = k],
           k.job = req[r].job, k.item = req[r].item, k.results = req[r].results,
           req[r].pc \in Under, k.pc \in Under,
           Flow(r)', Based(r)', Permitted(r)'
    PROVE IInv'
<1>1. /\ req' \in [Requests -> Handler] /\ req'[r] = k
      /\ \A q \in Requests \ {r} : req'[q] = req[q]
  BY DEF IInv, TypeOK
<1>2. HandlerOK(r)
  BY DEF IInv
<1>3. Carried(r)'
  BY <1>1 DEF Carried, Under
<1>4. Placed(r)'
  BY <1>1, <1>2 DEF HandlerOK, Placed, Under
<1>5. Lawful(r)'
  BY <1>1, <1>2 DEF HandlerOK, Lawful
<1>6. Counted(r)'
  BY <1>1, <1>2 DEF HandlerOK, Counted, Under
<1>7. QED
  BY <1>1, <1>3, <1>4, <1>5, <1>6, QuietStep DEF HandlerOK

\* The calls of an ensured network lead to one another and to the mutation.
LEMMA GotoOK ==
    ASSUME IInv, NEW r \in Requests, UNCHANGED <<swarm, applied, audits, bumps>>,
           networks' \subseteq Nets, NEW call, Goto(r, call),
           req[r].pc \in {"ensureNetworks", "createNetwork", "create"},
           call \in {"createNetwork", "create", "update", "findRaced"},
           call \in {"create", "findRaced"} => req[r].creating,
           call = "createNetwork" => req[r].pc = "ensureNetworks"
                                     /\ req[r].job.net # None,
           call = "update" => ~req[r].creating
    PROVE IInv'
<1> DEFINE k == [req[r] EXCEPT !.pc = call]
<1>1. req[r] \in Handler /\ HandlerOK(r)
  BY HandlerFacts DEF IInv
<1>2. /\ k \in Handler /\ k.job = req[r].job /\ k.item = req[r].item
      /\ k.results = req[r].results /\ k.pc = call /\ k.id = req[r].id
      /\ k.base = req[r].base /\ k.creating = req[r].creating
  BY <1>1 DEF Handler, PC
<1>3. req' = [req EXCEPT ![r] = k]
  BY DEF Goto
<1> HIDE DEF k
<1>4. req'[r] = k
  BY <1>3 DEF IInv, TypeOK
<1>5. Flow(r)'
  BY <1>1, <1>2, <1>4 DEF HandlerOK, Flow, Changing
<1>6. Based(r)' /\ Permitted(r)'
  BY <1>1, <1>2, <1>4 DEF HandlerOK, Flow, Based, Permitted, Changing
<1>7. QED
  BY <1>2, <1>3, <1>5, <1>6, Move DEF Under
------------------------------------------------------------------------------
LEMMA ReceiveInv == ASSUME IInv, NEW r \in Requests, Receive(r) PROVE IInv'
<1>1. PICK job \in Jobs :
        req' = [req EXCEPT ![r] = [Idle EXCEPT !.pc = FirstCall(job),
                                              !.job = job, !.id = Target(job, 1)]]
  BY DEF Receive
<1> DEFINE k == [Idle EXCEPT !.pc = FirstCall(job), !.job = job,
                             !.id = Target(job, 1)]
<1>2. /\ req[r].pc = "idle" /\ UNCHANGED <<swarm, networks, audits, applied, bumps>>
      /\ networks \subseteq Nets /\ HandlerOK(r)
  BY DEF Receive, At, IInv, TypeOK
<1>3. /\ FirstCall(job) \in {"findExact", "remove", "inspect"}
      /\ FirstCall(job) = "findExact" => job.op = "upsert"
      /\ FirstCall(job) = "remove" => job.op = "remove"
      /\ FirstCall(job) = "inspect" => job.op \notin {"remove", "upsert"}
      /\ Items(job) \in Nat \ {0} /\ Target(job, 1) \in Ids \cup {None}
      /\ job.op # "upsert" => Target(job, 1) \in Ids /\ Target(job, 1) = job.ids[1]
  BY ItemFacts, JobFacts
<1>4. Idle \in Handler /\ Idle.creating = FALSE /\ Idle.item = 1
      /\ Idle.results = <<>>
  <2>1. <<>> \in Seq(BOOLEAN)
    OBVIOUS
  <2>2. QED
    BY <2>1 DEF Idle, Handler, PC
<1>5. /\ k \in Handler /\ k.pc = FirstCall(job) /\ k.job = job
      /\ k.id = Target(job, 1) /\ k.item = 1 /\ ~k.creating /\ k.results = <<>>
  <2>1. FirstCall(job) \in PC
    BY <1>3 DEF PC
  <2>2. QED
    BY <1>3, <1>4, <2>1 DEF Handler
<1> HIDE DEF k
<1>6. req' \in [Requests -> Handler] /\ req'[r] = k
      /\ \A q \in Requests \ {r} : req'[q] = req[q]
  BY <1>1, <1>5 DEF k, IInv, TypeOK
<1>7. Flow(r)'
  BY <1>3, <1>5, <1>6 DEF Flow, Changing
<1>8. Based(r)' /\ Permitted(r)' /\ Carried(r)'
  BY <1>3, <1>5, <1>6 DEF Based, Permitted, Carried, Changing
<1>9. Placed(r)' /\ Lawful(r)'
  BY <1>2 DEF HandlerOK, Placed, Lawful
<1>10. Counted(r)'
  BY <1>3, <1>5, <1>6 DEF Counted
<1>11. QED
  BY <1>2, <1>6, <1>7, <1>8, <1>9, <1>10, QuietStep DEF HandlerOK

\* The name was looked up.
LEMMA FindExactInv == ASSUME IInv, NEW r \in Requests, FindExact(r) PROVE IInv'
<1> DEFINE found == Named(req[r].job.name)
<1>1. /\ req[r].pc \in {"findExact", "findRaced"}
      /\ UNCHANGED <<swarm, networks, audits, applied, bumps>>
      /\ networks \subseteq Nets /\ HandlerOK(r) /\ req[r] \in Handler
  BY HandlerFacts DEF FindExact, At, IInv, TypeOK
<1>2. req[r].job \in Jobs /\ req[r].job.op = "upsert"
      /\ req[r].item \in 1..Items(req[r].job)
  BY <1>1 DEF HandlerOK, Flow
<1>3. ASSUME NEW i \in found, MayUpdate(r),
             req' = [req EXCEPT ![r].pc = "inspect", ![r].id = i,
                                ![r].creating = FALSE]
      PROVE  IInv'
  <2> DEFINE k == [req[r] EXCEPT !.pc = "inspect", !.id = i, !.creating = FALSE]
  <2>1. i \in Ids /\ swarm[i] # None /\ swarm[i].name = req[r].job.name
    BY <1>3 DEF Named, Live
  <2>2. /\ k \in Handler /\ k.job = req[r].job /\ k.item = req[r].item
        /\ k.results = req[r].results /\ k.pc = "inspect" /\ k.id = i
        /\ k.creating = FALSE
    BY <1>1, <2>1 DEF Handler, PC
  <2>3. req' = [req EXCEPT ![r] = k]
    BY <1>3
  <2> HIDE DEF k
  <2>4. req'[r] = k
    BY <2>3 DEF IInv, TypeOK
  <2>5. Flow(r)' /\ Based(r)'
    BY <1>1, <1>2, <2>1, <2>2, <2>4 DEF Flow, Based, Changing
  <2>6. Permitted(r)'
    BY <1>1, <1>3, <2>1, <2>2, <2>4 DEF Permitted, MayUpdate
  <2>7. QED
    BY <1>1, <2>2, <2>3, <2>5, <2>6, Move DEF Under
<1>4. ASSUME req' = [req EXCEPT ![r].pc = "ensureNetworks", ![r].creating = TRUE]
      PROVE  IInv'
  <2> DEFINE k == [req[r] EXCEPT !.pc = "ensureNetworks", !.creating = TRUE]
  <2>1. /\ k \in Handler /\ k.job = req[r].job /\ k.item = req[r].item
        /\ k.results = req[r].results /\ k.pc = "ensureNetworks"
        /\ k.creating = TRUE
    BY <1>1 DEF Handler, PC
  <2>2. req' = [req EXCEPT ![r] = k]
    BY <1>4
  <2> HIDE DEF k
  <2>3. req'[r] = k
    BY <2>2 DEF IInv, TypeOK
  <2>4. Flow(r)' /\ Based(r)' /\ Permitted(r)'
    BY <1>2, <2>1, <2>3 DEF Flow, Based, Permitted, Changing
  <2>5. QED
    BY <1>1, <2>1, <2>2, <2>4, Move DEF Under
<1>5. ASSUME Finish(r, FALSE) PROVE IInv'
  BY <1>1, <1>5, QuietFailure
<1>6. QED
  BY <1>3, <1>4, <1>5 DEF FindExact

\* What it inspected is what the service is now.
LEMMA InspectInv == ASSUME IInv, NEW r \in Requests, Inspect(r) PROVE IInv'
<1>1. /\ req[r].pc = "inspect"
      /\ UNCHANGED <<swarm, networks, audits, applied, bumps>>
      /\ networks \subseteq Nets /\ HandlerOK(r) /\ req[r] \in Handler
  BY HandlerFacts DEF Inspect, At, IInv, TypeOK
<1>2. CASE Live(req[r].id)
  <2> DEFINE call == IF req[r].job.op = "restart" THEN "update"
                     ELSE "ensureNetworks"
             k == [req[r] EXCEPT !.base = swarm[req[r].id], !.pc = call]
  <2>1. /\ req[r].job \in Jobs /\ req[r].id \in Ids /\ ~req[r].creating
        /\ req[r].job.op # "remove" /\ req[r].item \in 1..Items(req[r].job)
        /\ req[r].job.op # "upsert" => req[r].id = req[r].job.ids[req[r].item]
    BY <1>1 DEF HandlerOK, Flow, Changing
  <2>2. /\ swarm[req[r].id] # None /\ swarm[req[r].id] \in ServiceRecord
        /\ swarm[req[r].id].version \in Nat
    BY <1>2, <2>1 DEF Live, IInv, TypeOK, ServiceRecord
  <2>3. /\ k \in Handler /\ k.job = req[r].job /\ k.item = req[r].item
        /\ k.results = req[r].results /\ k.pc = call /\ k.id = req[r].id
        /\ k.base = swarm[req[r].id] /\ k.creating = req[r].creating
    BY <1>1, <2>2 DEF Handler, PC
  <2>4. req' = [req EXCEPT ![r] = k]
    BY <1>2 DEF Inspect
  <2> HIDE DEF k
  <2>5. req'[r] = k
    BY <2>4 DEF IInv, TypeOK
  <2>6. Flow(r)'
    BY <2>1, <2>3, <2>5, JobFacts DEF Flow, Changing
  <2>7. Based(r)'
    BY <1>1, <2>2, <2>3, <2>5 DEF Based
  <2>8. Permitted(r)'
    BY <1>1, <2>1, <2>3, <2>5 DEF HandlerOK, Permitted, Changing
  <2>9. QED
    BY <1>1, <2>3, <2>4, <2>6, <2>7, <2>8, Move DEF Under
<1>3. CASE ~Live(req[r].id)
  BY <1>1, <1>3, QuietFailure DEF Inspect
<1>4. QED
  BY <1>2, <1>3
LEMMA LookUpNetworkInv ==
    ASSUME IInv, NEW r \in Requests, LookUpNetwork(r) PROVE IInv'
<1>1. /\ req[r].pc = "ensureNetworks"
      /\ UNCHANGED <<swarm, networks, audits, applied, bumps>>
      /\ networks \subseteq Nets /\ req[r].creating \in BOOLEAN
  BY HandlerFacts DEF LookUpNetwork, At, IInv, TypeOK
<1>2. CASE req[r].job.net \in networks \cup {None}
  <2>1. Goto(r, Commit(r)) /\ Commit(r) \in {"create", "update"}
        /\ (Commit(r) = "create" <=> req[r].creating)
    BY <1>1, <1>2 DEF LookUpNetwork, Commit
  <2>2. QED
    BY <1>1, <2>1, GotoOK
<1>3. CASE req[r].job.net \notin networks \cup {None}
  <2>1. Goto(r, "createNetwork")
    BY <1>3 DEF LookUpNetwork
  <2>2. QED
    BY <1>1, <1>3, <2>1, GotoOK
<1>4. QED
  BY <1>2, <1>3

LEMMA CreateNetworkInv ==
    ASSUME IInv, NEW r \in Requests, CreateNetwork(r) PROVE IInv'
<1>1. /\ req[r].pc = "createNetwork" /\ UNCHANGED <<swarm, audits, applied, bumps>>
      /\ networks \subseteq Nets /\ req[r].creating \in BOOLEAN /\ Flow(r)
  BY HandlerFacts DEF CreateNetwork, At, IInv, TypeOK, HandlerOK
<1>2. req[r].job.net \in Nets
  BY <1>1, JobFacts DEF Flow
<1>3. CASE req[r].job.net \in networks
  <2>1. Conflict(r) /\ networks' \subseteq Nets
    BY <1>1, <1>3 DEF CreateNetwork
  <2>2. CASE req[r].creating
    BY <1>1, <2>1, <2>2, GotoOK DEF Conflict
  <2>3. CASE ~req[r].creating
    BY <1>1, <2>1, <2>3, QuietFailure DEF Conflict
  <2>4. QED
    BY <2>2, <2>3
<1>4. CASE req[r].job.net \notin networks
  <2>1. Goto(r, Commit(r)) /\ Commit(r) \in {"create", "update"}
        /\ (Commit(r) = "create" <=> req[r].creating)
        /\ networks' \subseteq Nets
    BY <1>1, <1>2, <1>4 DEF CreateNetwork, Commit
  <2>2. QED
    BY <1>1, <2>1, GotoOK
<1>5. QED
  BY <1>3, <1>4

------------------------------------------------------------------------------
\* A mutation that landed: the handler goes on to its record, or sees an error.
LEMMA LandedOK ==
    ASSUME IInv, NEW r \in Requests, NEW i \in Ids, NEW next \in {"reread", "audit"},
           Landed(r, i, next), req[r].pc \in {"create", "update", "remove"},
           next = "reread" => req[r].job.op \in {"upsert", "update"},
           Effect(r, {Mark(r, i)}), Grows
    PROVE /\ HandlerOK(r)' /\ req' \in [Requests -> Handler]
          /\ \A q \in Requests \ {r} : req'[q] = req[q]
          /\ Marks(r) /\ IsFiniteSet(applied') /\ applied' \subseteq MarkRecord
<1>1. /\ HandlerOK(r) /\ TypeOK /\ req[r] \in Handler
      /\ Mark(r, i).req = r /\ Mark(r, i).item = req[r].item /\ Mark(r, i).id = i
      /\ Mark(r, i) \in MarkRecord
  BY HandlerFacts, MarkFacts DEF IInv
<1>2. applied' = applied \cup {Mark(r, i)}
  BY DEF Landed
<1>3. IsFiniteSet(applied') /\ applied' \subseteq MarkRecord
  BY <1>1, <1>2, FS_AddElement DEF IInv, TypeOK
<1>4. CASE Finish(r, FALSE)
  <2>1. Marks(r)
    BY <1>1, <1>2 DEF Marks
  <2>2. /\ HandlerOK(r)' /\ req' \in [Requests -> Handler]
        /\ \A q \in Requests \ {r} : req'[q] = req[q]
    BY <1>4, FinishOK
  <2>3. QED
    BY <1>3, <2>1, <2>2
<1>5. CASE req' = [req EXCEPT ![r].pc = next, ![r].id = i]
  <2> DEFINE k == [req[r] EXCEPT !.pc = next, !.id = i]
  <2>1. /\ k \in Handler /\ k.job = req[r].job /\ k.item = req[r].item
        /\ k.results = req[r].results /\ k.pc = next /\ k.id = i
        /\ k.creating = req[r].creating
    BY <1>1 DEF Handler, PC
  <2>2. req' = [req EXCEPT ![r] = k]
    BY <1>5
  <2> HIDE DEF k
  <2>3. /\ req' \in [Requests -> Handler] /\ req'[r] = k
        /\ \A q \in Requests \ {r} : req'[q] = req[q]
    BY <1>1, <2>1, <2>2 DEF TypeOK
  <2>4. Lawful(r)' /\ Marks(r)
    BY <2>1, <2>3, EffectLawful
  <2>5. req[r].job.op # "upsert" => i = req[r].job.ids[req[r].item]
    BY <1>1 DEF Effect
  <2>6. Flow(r)'
    BY <1>1, <2>1, <2>3, <2>5 DEF HandlerOK, Flow, Changing
  <2>7. Based(r)' /\ Permitted(r)'
    BY <2>1, <2>3 DEF Based, Permitted, Changing
  <2>8. Carried(r)'
    <3>1. Mark(r, i)' = Mark(r, i)
      BY <2>1, <2>3, SameMark
    <3>2. QED
      BY <1>2, <2>1, <2>3, <3>1 DEF Carried, Mark, Action
  <2>9. Placed(r)'
    <3>1. /\ \A a, b \in applied' : a.req = r /\ b.req = r /\ a.item = b.item => a = b
          /\ \A a \in applied' : a.req = r => a.item <= req[r].item
      BY EffectOnce
    <3>2. QED
      BY <2>1, <2>3, <3>1 DEF Placed
  <2>10. Counted(r)'
    BY <1>1, <1>2, <2>1, <2>3 DEF HandlerOK, Counted
  <2>11. QED
    BY <1>3, <2>3, <2>4, <2>6, <2>7, <2>8, <2>9, <2>10 DEF HandlerOK
<1>6. QED
  BY <1>4, <1>5 DEF Landed
\* The restart counters still agree with the mutations carried out.
LEMMA CountKept ==
    ASSUME IInv, NEW r \in Requests, NEW i \in Ids,
           applied' = applied \cup {Mark(r, i)},
           req[r].pc \in {"create", "update", "remove"},
           \A j \in Ids : swarm'[j] # None =>
              swarm'[j].force =
                  (IF swarm[j] = None THEN 0 ELSE swarm[j].force)
                  + (IF j = i /\ req[r].job.op = "restart" THEN 1 ELSE 0)
    PROVE RestartsAccumulate'
<1> DEFINE R(j) == {a \in applied : a.action = "RESTART" /\ a.id = j}
           S(j) == {a \in applied' : a.action = "RESTART" /\ a.id = j}
           m == Mark(r, i)
<1>1. /\ HandlerOK(r) /\ TypeOK /\ m.req = r /\ m.item = req[r].item /\ m.id = i
      /\ m.action = "RESTART" <=> req[r].job.op = "restart"
  BY MarkFacts, ActionFacts DEF IInv
<1> HIDE DEF m
<1>2. applied' = applied \cup {m}
  BY DEF m
<1>3. m \notin applied
  BY <1>1 DEF HandlerOK, Placed
<1>4. SUFFICES ASSUME NEW j \in Ids, swarm'[j] # None
               PROVE  swarm'[j].force = Cardinality(S(j))
  BY DEF RestartsAccumulate
<1>5. IsFiniteSet(R(j)) /\ Cardinality(R(j)) \in Nat
  BY FS_Subset, FS_CardinalityType DEF IInv
<1>6. Cardinality(R(j)) = IF swarm[j] = None THEN 0 ELSE swarm[j].force
  <2>1. CASE swarm[j] = None
    <3>1. \A a \in applied : a.req \in Requests /\ Lawful(a.req)
      BY <1>1 DEF TypeOK, MarkRecord, IInv, HandlerOK
    <3>2. R(j) = {}
      BY <2>1, <3>1 DEF Lawful
    <3>3. QED
      BY <2>1, <3>2, FS_EmptySet
  <2>2. CASE swarm[j] # None
    BY <2>2 DEF IInv, RestartsAccumulate
  <2>3. QED
    BY <2>1, <2>2
<1>7. CASE j = i /\ req[r].job.op = "restart"
  <2>1. S(j) = R(j) \cup {m} /\ m \notin R(j)
    BY <1>1, <1>2, <1>3, <1>7
  <2>2. Cardinality(S(j)) = Cardinality(R(j)) + 1
    <3> HIDE DEF S, R
    <3>1. QED
      BY <2>1, <1>5, FS_AddElement
  <2>3. QED
    BY <1>4, <1>5, <1>6, <1>7, <2>2
<1>8. CASE ~(j = i /\ req[r].job.op = "restart")
  <2>1. S(j) = R(j)
    BY <1>1, <1>2, <1>8
  <2>2. swarm'[j].force = Cardinality(R(j)) + 0
    <3> HIDE DEF R, S
    <3>1. QED
      BY <1>4, <1>6, <1>8
  <2>3. QED
    <3> HIDE DEF R, S
    <3>1. QED
      BY <1>5, <2>1, <2>2
<1>9. QED
  BY <1>7, <1>8

LEMMA LandedStep ==
    ASSUME IInv, NEW r \in Requests, NEW i \in Ids, NEW next \in {"reread", "audit"},
           Landed(r, i, next), req[r].pc \in {"create", "update", "remove"},
           next = "reread" => req[r].job.op \in {"upsert", "update"},
           Effect(r, {Mark(r, i)}), Grows,
           UNCHANGED <<networks, audits, bumps>>,
           swarm' \in [Ids -> ServiceRecord \cup {None}],
           \A j \in Ids : swarm'[j] # None =>
              swarm'[j].force =
                  (IF swarm[j] = None THEN 0 ELSE swarm[j].force)
                  + (IF j = i /\ req[r].job.op = "restart" THEN 1 ELSE 0)
    PROVE IInv'
<1>1. /\ HandlerOK(r)' /\ req' \in [Requests -> Handler]
      /\ \A q \in Requests \ {r} : req'[q] = req[q]
      /\ Marks(r) /\ IsFiniteSet(applied') /\ applied' \subseteq MarkRecord
  BY LandedOK
<1>2. RestartsAccumulate'
  BY CountKept DEF Landed
<1>3. TypeOK' /\ AuditsAreTrue'
  BY <1>1 DEF IInv, TypeOK, AuditsAreTrue, Marks
<1>4. QED
  BY <1>1, <1>2, <1>3, Assemble

LEMMA CreateServiceInv ==
    ASSUME IInv, NEW r \in Requests, CreateService(r) PROVE IInv'
<1>1. /\ req[r].pc = "create" /\ UNCHANGED <<networks, audits, bumps>>
      /\ networks \subseteq Nets /\ req[r].creating /\ TypeOK
      /\ req[r].job \in Jobs /\ req[r].job.op = "upsert"
  BY DEF CreateService, At, IInv, TypeOK, HandlerOK, Flow
<1>2. CASE Conflict(r) /\ UNCHANGED <<swarm, applied>>
  BY <1>1, <1>2, GotoOK DEF Conflict
<1>3. ASSUME NEW i \in Ids, swarm[i] = None, Landed(r, i, "reread"),
             swarm' = [swarm EXCEPT ![i] =
                      Service(req[r].job.name, Merge(req[r].job.set, Spec0))]
      PROVE  IInv'
  <2> DEFINE s == Service(req[r].job.name, Merge(req[r].job.set, Spec0))
  <2>1. Merge(req[r].job.set, Spec0) \in [Fields -> Values]
    <3>1. Spec0 \in [Fields -> Values]
      BY ValuesAssumption DEF Spec0
    <3>2. QED
      BY <1>1, <3>1, JobFacts, MergeFacts
  <2>2. s \in ServiceRecord /\ s.name = req[r].job.name /\ s.force = 0 /\ s # None
    <3>1. req[r].job.name \in Names
      BY <1>1, JobFacts
    <3>2. s \in ServiceRecord /\ s.name = req[r].job.name /\ s.force = 0
      BY <2>1, <3>1 DEF Service, ServiceRecord
    <3>3. QED
      BY <3>2, NoneAssumption
  <2>3. swarm' = [swarm EXCEPT ![i] = s]
    BY <1>3
  <2> HIDE DEF s
  <2>4. /\ swarm' \in [Ids -> ServiceRecord \cup {None}] /\ swarm'[i] = s
        /\ \A j \in Ids \ {i} : swarm'[j] = swarm[j]
    BY <1>1, <2>2, <2>3 DEF TypeOK
  <2>5. \A j \in Ids : swarm[j] # None =>
           swarm[j].version \in Nat /\ swarm[j].force \in Nat
    BY <1>1 DEF TypeOK, ServiceRecord
  <2>6. Grows
    BY <1>3, <2>4, <2>5 DEF Grows
  <2>7. Effect(r, {Mark(r, i)})
    <3>1. Mark(r, i).req = r /\ Mark(r, i).item = req[r].item /\ Mark(r, i).id = i
          /\ Mark(r, i).action = "CREATE"
      BY <1>1, MarkFacts, ActionFacts
    <3>2. applied' = applied \cup {Mark(r, i)}
      BY <1>3 DEF Landed
    <3>3. QED
      BY <1>1, <2>2, <2>4, <3>1, <3>2 DEF Effect
  <2>8. \A j \in Ids : swarm'[j] # None =>
           swarm'[j].force =
               (IF swarm[j] = None THEN 0 ELSE swarm[j].force)
               + (IF j = i /\ req[r].job.op = "restart" THEN 1 ELSE 0)
    BY <1>1, <1>3, <2>2, <2>4, <2>5
  <2>9. QED
    BY <1>1, <1>3, <2>4, <2>6, <2>7, <2>8, LandedStep
<1>4. QED
  BY <1>2, <1>3 DEF CreateService
\* The update Docker accepts is made from the service as it is.
LEMMA UpdatedFacts ==
    ASSUME IInv, NEW r \in Requests, req[r].pc = "update",
           Live(req[r].id), VersionSent(r) = swarm[req[r].id].version
    PROVE /\ req[r].id \in Ids /\ Updated(r) \in ServiceRecord
          /\ Updated(r).name = swarm[req[r].id].name
          /\ Updated(r).version = swarm[req[r].id].version + 1
          /\ Updated(r).force = swarm[req[r].id].force
                 + (IF req[r].job.op = "restart" THEN 1 ELSE 0)
          /\ \A f \in Fields \ FieldsAskedFor(r) :
                Updated(r).spec[f] = swarm[req[r].id].spec[f]
<1> DEFINE base == req[r].base
           job == req[r].job
<1>1. /\ req[r].id \in Ids /\ job \in Jobs /\ job.op \in {"upsert", "update", "restart"}
      /\ base \in ServiceRecord /\ base.name = swarm[req[r].id].name
      /\ base.version = swarm[req[r].id].version
      /\ base.spec = swarm[req[r].id].spec /\ base.force = swarm[req[r].id].force
  <2>1. HandlerOK(r) /\ Changing(r)
    BY DEF IInv, HandlerOK, Flow, Changing
  <2>2. QED
    BY <2>1, JobFacts DEF HandlerOK, Flow, Based, VersionSent
<1>2. /\ base.spec \in [Fields -> Values] /\ base.version \in Nat
      /\ base.force \in Nat
  BY <1>1 DEF ServiceRecord
<1> DEFINE spec == IF job.op = "restart" THEN base.spec
                   ELSE Merge(job.set, base.spec)
           force == IF job.op = "restart" THEN base.force + 1 ELSE base.force
<1>3. spec \in [Fields -> Values]
      /\ \A f \in Fields \ FieldsAskedFor(r) : spec[f] = base.spec[f]
  <2>1. CASE job.op = "restart"
    BY <2>1, <1>2
  <2>2. CASE job.op # "restart"
    <3>1. job.set \in Partial \/ job.set \in [Given -> Values]
      BY <2>2, <1>1, JobFacts
    <3>2. /\ Merge(job.set, base.spec) \in [Fields -> Values]
          /\ \A f \in Fields \ (Managed \cup DOMAIN job.set) :
                Merge(job.set, base.spec)[f] = base.spec[f]
      BY <3>1, <1>2, MergeFacts
    <3>3. QED
      BY <2>2, <3>2 DEF FieldsAskedFor
  <2>3. QED
    BY <2>1, <2>2
<1>4. Updated(r) = [base EXCEPT !.spec = spec, !.force = force,
                                !.version = base.version + 1]
  BY DEF Updated, VersionSent
<1>5. force \in Nat
  BY <1>2
<1>6. Updated(r) \in ServiceRecord
      /\ Updated(r).name = base.name /\ Updated(r).version = base.version + 1
      /\ Updated(r).spec = spec /\ Updated(r).force = force
  <2>1. base = [name |-> base.name, spec |-> base.spec, force |-> base.force,
                version |-> base.version, live |-> base.live]
        /\ base.name \in Names /\ base.live \in BOOLEAN
    BY <1>1 DEF ServiceRecord
  <2> HIDE DEF spec, force, base
  <2>2. Updated(r) = [name |-> base.name, spec |-> spec, force |-> force,
                      version |-> base.version + 1, live |-> base.live]
    BY <1>4, <2>1
  <2>3. QED
    BY <1>2, <1>3, <1>5, <2>1, <2>2 DEF ServiceRecord
<1>7. force = base.force + (IF job.op = "restart" THEN 1 ELSE 0)
  BY <1>2
<1>8. QED
  <2> HIDE DEF spec, force
  <2>1. QED
    BY <1>1, <1>3, <1>6, <1>7

LEMMA UpdateServiceInv ==
    ASSUME IInv, NEW r \in Requests, UpdateService(r) PROVE IInv'
<1> DEFINE i == req[r].id
           next == IF req[r].job.op = "restart" THEN "audit" ELSE "reread"
<1>1. /\ req[r].pc = "update" /\ UNCHANGED <<networks, audits, bumps>>
      /\ networks \subseteq Nets /\ TypeOK /\ HandlerOK(r)
  BY DEF UpdateService, At, IInv, TypeOK
<1>2. CASE ~(Live(i) /\ VersionSent(r) = swarm[i].version)
  BY <1>1, <1>2, QuietFailure DEF UpdateService
<1>3. CASE Live(i) /\ VersionSent(r) = swarm[i].version
  <2>1. swarm' = [swarm EXCEPT ![i] = Updated(r)] /\ Landed(r, i, next)
    BY <1>3 DEF UpdateService
  <2>2. /\ i \in Ids /\ Updated(r) \in ServiceRecord
        /\ Updated(r).name = swarm[i].name
        /\ Updated(r).version = swarm[i].version + 1
        /\ Updated(r).force = swarm[i].force
               + (IF req[r].job.op = "restart" THEN 1 ELSE 0)
    BY <1>1, <1>3, UpdatedFacts
  <2>3. /\ swarm' \in [Ids -> ServiceRecord \cup {None}] /\ swarm'[i] = Updated(r)
        /\ \A j \in Ids \ {i} : swarm'[j] = swarm[j]
        /\ Updated(r) # None
    BY <1>1, <2>1, <2>2, NoneAssumption DEF TypeOK
  <2>4. \A j \in Ids : swarm[j] # None =>
           swarm[j].version \in Nat /\ swarm[j].force \in Nat
    BY <1>1 DEF TypeOK, ServiceRecord
  <2>5. swarm[i] # None
    BY <1>3 DEF Live
  <2>6. Grows
    BY <2>2, <2>3, <2>4, <2>5 DEF Grows
  <2>7. /\ req[r].job \in Jobs
        /\ req[r].job.op \in {"upsert", "update", "restart"}
        /\ req[r].job.op # "upsert" => i = req[r].job.ids[req[r].item]
        /\ req[r].job.op = "upsert" =>
              req[r].job.mayUpdate /\ swarm[i].name = req[r].job.name
    BY <1>1, JobFacts DEF HandlerOK, Flow, Permitted, Changing
  <2>8. Effect(r, {Mark(r, i)})
    <3>1. Mark(r, i).req = r /\ Mark(r, i).item = req[r].item /\ Mark(r, i).id = i
      BY <1>1, <2>2, MarkFacts
    <3>2. applied' = applied \cup {Mark(r, i)}
      BY <2>1 DEF Landed
    <3>3. QED
      BY <1>1, <2>2, <2>3, <2>7, <3>1, <3>2 DEF Effect
  <2>9. \A j \in Ids : swarm'[j] # None =>
           swarm'[j].force =
               (IF swarm[j] = None THEN 0 ELSE swarm[j].force)
               + (IF j = i /\ req[r].job.op = "restart" THEN 1 ELSE 0)
    <3> HIDE DEF i
    <3>1. QED
      BY <2>2, <2>3, <2>4, <2>5
  <2>10. QED
    <3>1. next \in {"reread", "audit"}
          /\ (next = "reread" => req[r].job.op \in {"upsert", "update"})
      BY <2>7
    <3> HIDE DEF i, next
    <3>2. QED
      BY <1>1, <2>1, <2>2, <2>3, <2>6, <2>8, <2>9, <3>1, LandedStep
<1>4. QED
  BY <1>2, <1>3

LEMMA RemoveServiceInv ==
    ASSUME IInv, NEW r \in Requests, RemoveService(r) PROVE IInv'
<1> DEFINE i == req[r].id
<1>1. /\ req[r].pc = "remove" /\ UNCHANGED <<networks, audits, bumps>>
      /\ networks \subseteq Nets /\ TypeOK /\ HandlerOK(r)
  BY DEF RemoveService, At, IInv, TypeOK
<1>2. CASE ~Live(i)
  BY <1>1, <1>2, QuietFailure DEF RemoveService
<1>3. CASE Live(i)
  <2>1. swarm' = [swarm EXCEPT ![i].live = FALSE] /\ Landed(r, i, "audit")
    BY <1>3 DEF RemoveService
  <2>2. /\ i \in Ids /\ req[r].job.op = "remove"
        /\ i = req[r].job.ids[req[r].item]
    BY <1>1 DEF HandlerOK, Flow
  <2>3. swarm[i] # None /\ swarm[i] \in ServiceRecord
    BY <1>1, <1>3, <2>2 DEF Live, TypeOK
  <2> DEFINE s == [swarm[i] EXCEPT !.live = FALSE]
  <2>4. /\ s \in ServiceRecord /\ s # None /\ s.name = swarm[i].name
        /\ s.version = swarm[i].version /\ s.spec = swarm[i].spec
        /\ s.force = swarm[i].force
    <3>1. /\ s \in ServiceRecord /\ s.name = swarm[i].name
          /\ s.version = swarm[i].version /\ s.spec = swarm[i].spec
          /\ s.force = swarm[i].force
      BY <2>3 DEF ServiceRecord
    <3>2. QED
      BY <3>1, NoneAssumption
  <2>5. swarm' = [swarm EXCEPT ![i] = s]
    BY <2>1
  <2> HIDE DEF s
  <2>6. /\ swarm' \in [Ids -> ServiceRecord \cup {None}] /\ swarm'[i] = s
        /\ \A j \in Ids \ {i} : swarm'[j] = swarm[j]
    BY <1>1, <2>2, <2>4, <2>5 DEF TypeOK
  <2>7. \A j \in Ids : swarm[j] # None =>
           swarm[j].version \in Nat /\ swarm[j].force \in Nat
    BY <1>1 DEF TypeOK, ServiceRecord
  <2>8. Grows
    <3> HIDE DEF i
    <3>1. ASSUME NEW j \in Ids, swarm[j] # None, j # i
          PROVE  swarm'[j] = swarm[j] /\ swarm[j].version <= swarm[j].version
      BY <2>6, <2>7, <3>1
    <3>2. swarm[i].version <= swarm[i].version
      BY <2>2, <2>3, <2>7
    <3>3. ASSUME NEW j \in Ids, swarm[j] # None
          PROVE  /\ swarm'[j] # None /\ swarm'[j].name = swarm[j].name
                 /\ swarm[j].version <= swarm'[j].version
                 /\ swarm'[j].spec = swarm[j].spec
                 /\ swarm'[j].force = swarm[j].force
      <4>1. CASE j = i
        BY <2>4, <2>6, <3>2, <4>1
      <4>2. CASE j # i
        BY <3>1, <3>3, <4>2
      <4>3. QED
        BY <4>1, <4>2
    <3>4. QED
      BY <3>3 DEF Grows
  <2>9. Effect(r, {Mark(r, i)})
    <3>1. Mark(r, i).req = r /\ Mark(r, i).item = req[r].item /\ Mark(r, i).id = i
      BY <1>1, <2>2, MarkFacts
    <3>2. applied' = applied \cup {Mark(r, i)}
      BY <2>1 DEF Landed
    <3>3. QED
      BY <1>1, <2>2, <2>4, <2>6, <3>1, <3>2 DEF Effect
  <2>10. \A j \in Ids : swarm'[j] # None =>
           swarm'[j].force =
               (IF swarm[j] = None THEN 0 ELSE swarm[j].force)
               + (IF j = i /\ req[r].job.op = "restart" THEN 1 ELSE 0)
    <3>1. req[r].job.op # "restart"
      BY <2>2
    <3> HIDE DEF i
    <3>2. QED
      BY <2>3, <2>4, <2>6, <2>7, <3>1
  <2>11. QED
    <3> DEFINE next == "audit"
    <3>1. Landed(r, i, next) /\ next \in {"reread", "audit"} /\ next # "reread"
      BY <2>1
    <3> HIDE DEF i, next
    <3>2. QED
      BY <1>1, <2>2, <2>6, <2>8, <2>9, <2>10, <3>1, LandedStep
<1>4. QED
  BY <1>2, <1>3
------------------------------------------------------------------------------
LEMMA RereadInv == ASSUME IInv, NEW r \in Requests, Reread(r) PROVE IInv'
<1>1. /\ req[r].pc = "reread"
      /\ UNCHANGED <<swarm, networks, audits, applied, bumps>>
      /\ networks \subseteq Nets /\ HandlerOK(r) /\ req[r] \in Handler
  BY HandlerFacts DEF Reread, At, IInv, TypeOK
<1>2. CASE Finish(r, FALSE)
  BY <1>1, <1>2, QuietFailure
<1>3. CASE Goto(r, "audit")
  <2> DEFINE k == [req[r] EXCEPT !.pc = "audit"]
  <2>1. /\ k \in Handler /\ k.job = req[r].job /\ k.item = req[r].item
        /\ k.results = req[r].results /\ k.pc = "audit" /\ k.id = req[r].id
        /\ k.creating = req[r].creating
    BY <1>1 DEF Handler, PC
  <2>2. req' = [req EXCEPT ![r] = k]
    BY <1>3 DEF Goto
  <2> HIDE DEF k
  <2>3. /\ req' \in [Requests -> Handler] /\ req'[r] = k
        /\ \A q \in Requests \ {r} : req'[q] = req[q]
    BY <2>1, <2>2 DEF IInv, TypeOK
  <2>4. Flow(r)' /\ Based(r)' /\ Permitted(r)'
    BY <1>1, <2>1, <2>3 DEF HandlerOK, Flow, Based, Permitted, Changing
  <2>5. Carried(r)'
    <3>1. Mark(r, req[r].id)' = Mark(r, req[r].id)
      BY <2>1, <2>3 DEF Mark, Action
    <3>2. QED
      BY <1>1, <2>1, <2>3, <3>1 DEF HandlerOK, Carried
  <2>6. Placed(r)' /\ Lawful(r)' /\ Counted(r)'
    BY <1>1, <2>1, <2>3 DEF HandlerOK, Placed, Lawful, Counted
  <2>7. QED
    BY <1>1, <2>3, <2>4, <2>5, <2>6, QuietStep DEF HandlerOK
<1>4. QED
  BY <1>2, <1>3 DEF Reread

\* The record written, if any, is of the mutation that was carried out.
LEMMA RegisterInv == ASSUME IInv, NEW r \in Requests, Register(r) PROVE IInv'
<1> DEFINE m == Mark(r, req[r].id)
<1>1. /\ req[r].pc = "audit" /\ UNCHANGED <<swarm, networks, applied, bumps>>
      /\ audits' \subseteq audits \cup {m} /\ Finish(r, TRUE)
      /\ HandlerOK(r) /\ TypeOK /\ req[r].item \in Nat
  BY HandlerFacts DEF Register, At, IInv
<1>2. m \in applied /\ req[r].id \in Ids /\ req[r].job \in Jobs
      /\ (req[r].job.op # "upsert" => req[r].id = req[r].job.ids[req[r].item])
  BY <1>1 DEF HandlerOK, Carried, Flow
<1>3. m.req = r /\ m.item = req[r].item /\ m.id = req[r].id
  BY <1>1, <1>2, MarkFacts
<1> HIDE DEF m
<1>4. Grows /\ Effect(r, {}) /\ Marks(r) /\ IsFiniteSet(applied')
      /\ RestartsAccumulate'
  BY <1>1, Quiet
<1>5. \E a \in applied' : /\ a.req = r /\ a.item = req[r].item
                          /\ req[r].job.op = "upsert" \/ a.id = req[r].job.ids[a.item]
  BY <1>1, <1>2, <1>3
<1>6. /\ HandlerOK(r)' /\ req' \in [Requests -> Handler]
      /\ \A q \in Requests \ {r} : req'[q] = req[q]
  BY <1>1, <1>4, <1>5, FinishOK
<1>7. TypeOK' /\ AuditsAreTrue'
  BY <1>1, <1>2, <1>6 DEF IInv, TypeOK, AuditsAreTrue
<1>8. QED
  BY <1>4, <1>6, <1>7, Assemble

LEMMA DockerFailsInv == ASSUME IInv, NEW r \in Requests, DockerFails(r) PROVE IInv'
<1>1. networks \subseteq Nets /\ networks' = networks
  BY DEF DockerFails, IInv, TypeOK
<1>2. QED
  BY <1>1, QuietFailure DEF DockerFails

\* A request that is cut off leaves its mutations as they are.
LEMMA CrashInv == ASSUME IInv, Crash PROVE IInv'
<1>1. /\ UNCHANGED <<swarm, networks, audits, applied, bumps>> /\ TypeOK
      /\ Grows /\ IsFiniteSet(applied') /\ RestartsAccumulate'
  BY Quiet DEF Crash, IInv
<1>2. ASSUME NEW r \in Requests
      PROVE  req'[r] \in Handler /\ HandlerOK(r)'
  <2>1. HandlerOK(r) /\ req[r] \in Handler
    BY HandlerFacts DEF IInv
  <2>2. CASE req[r].pc \in {"idle", "done"}
    <3>1. req'[r] = req[r]
      BY <2>2 DEF Crash
    <3>2. Flow(r)' /\ Based(r)' /\ Permitted(r)'
      BY <1>1, <2>1, <2>2, <3>1 DEF HandlerOK, Flow, Based, Permitted, Changing
    <3>3. Carried(r)' /\ Placed(r)' /\ Lawful(r)' /\ Counted(r)'
      BY <1>1, <2>1, <2>2, <3>1 DEF HandlerOK, Carried, Placed, Lawful, Counted
    <3>4. QED
      BY <2>1, <3>1, <3>2, <3>3 DEF HandlerOK
  <2>3. CASE req[r].pc \notin {"idle", "done"}
    <3> DEFINE k == [req[r] EXCEPT !.pc = "dead"]
    <3>1. /\ k \in Handler /\ k.pc = "dead" /\ k.job = req[r].job
          /\ k.item = req[r].item /\ k.results = req[r].results
          /\ k.creating = req[r].creating
      BY <2>1 DEF Handler, PC
    <3>2. req'[r] = k
      BY <2>3 DEF Crash
    <3> HIDE DEF k
    <3>3. Flow(r)' /\ Based(r)' /\ Permitted(r)' /\ Carried(r)'
      BY <2>1, <2>3, <3>1, <3>2
         DEF HandlerOK, Flow, Based, Permitted, Carried, Changing
    <3>4. Placed(r)'
      BY <1>1, <2>1, <3>1, <3>2 DEF HandlerOK, Placed
    <3>5. Lawful(r)' /\ Counted(r)'
      BY <1>1, <2>1, <3>1, <3>2 DEF HandlerOK, Lawful, Counted
    <3>6. QED
      BY <3>1, <3>2, <3>3, <3>4, <3>5 DEF HandlerOK
  <2>4. QED
    BY <2>2, <2>3
<1>3. req' \in [Requests -> Handler]
  BY <1>2 DEF Crash
<1>4. TypeOK' /\ AuditsAreTrue'
  BY <1>1, <1>3 DEF IInv, TypeOK, AuditsAreTrue
<1>5. QED
  BY <1>1, <1>2, <1>4 DEF IInv

\* The orchestrator touches nothing but the version, which only grows.
LEMMA BumpInv == ASSUME IInv, NEW i \in Ids, OrchestratorBump(i) PROVE IInv'
<1>1. /\ swarm[i] # None /\ bumps < MaxBumps /\ bumps' = bumps + 1
      /\ swarm' = [swarm EXCEPT ![i].version = @ + 1]
      /\ UNCHANGED <<networks, req, audits, applied>> /\ TypeOK
  BY DEF OrchestratorBump, Live, IInv
<1> DEFINE s == [swarm[i] EXCEPT !.version = @ + 1]
<1>2. swarm[i] \in ServiceRecord
  BY <1>1 DEF TypeOK
<1>3. /\ s \in ServiceRecord /\ s # None /\ s.name = swarm[i].name
      /\ s.version = swarm[i].version + 1 /\ s.force = swarm[i].force
      /\ swarm[i].version \in Nat
  <2>1. /\ s \in ServiceRecord /\ s.name = swarm[i].name
        /\ s.version = swarm[i].version + 1 /\ s.force = swarm[i].force
        /\ swarm[i].version \in Nat
    BY <1>2 DEF ServiceRecord
  <2>2. QED
    BY <2>1, NoneAssumption
<1>4. swarm' = [swarm EXCEPT ![i] = s]
  BY <1>1
<1> HIDE DEF s
<1>5. /\ swarm' \in [Ids -> ServiceRecord \cup {None}] /\ swarm'[i] = s
      /\ \A j \in Ids \ {i} : swarm'[j] = swarm[j]
  BY <1>1, <1>3, <1>4 DEF TypeOK
<1>6. \A j \in Ids : swarm[j] # None => swarm[j].version \in Nat
  BY <1>1 DEF TypeOK, ServiceRecord
<1>7. Grows
  BY <1>3, <1>5, <1>6 DEF Grows
<1>8. TypeOK'
  BY <1>1, <1>5, MaxBumpsAssumption DEF TypeOK
<1>9. \A q \in Requests : HandlerOK(q)'
  BY <1>1, <1>7, <1>8, Frame DEF Spares
<1>10. RestartsAccumulate'
  <2>1. \A j \in Ids : swarm'[j] # None =>
           swarm[j] # None /\ swarm'[j].force = swarm[j].force
    BY <1>1, <1>3, <1>5
  <2>2. QED
    BY <1>1, <2>1 DEF IInv, RestartsAccumulate
<1>11. QED
  BY <1>1, <1>8, <1>9, <1>10 DEF IInv, AuditsAreTrue

LEMMA NextIInv == IInv /\ [Next]_vars => IInv'
<1> SUFFICES ASSUME IInv, [Next]_vars PROVE IInv'
  OBVIOUS
<1>1. ASSUME NEW r \in Requests, Receive(r) PROVE IInv'
  BY <1>1, ReceiveInv
<1>2. ASSUME NEW r \in Requests, Step(r) PROVE IInv'
  BY <1>2, FindExactInv, InspectInv, LookUpNetworkInv, CreateNetworkInv,
     CreateServiceInv, UpdateServiceInv, RemoveServiceInv, RereadInv,
     RegisterInv, DockerFailsInv DEF Step
<1>3. CASE Crash
  BY <1>3, CrashInv
<1>4. ASSUME NEW i \in Ids, OrchestratorBump(i) PROVE IInv'
  BY <1>4, BumpInv
<1>5. CASE UNCHANGED vars
  <2>1. TypeOK' /\ AuditsAreTrue' /\ IsFiniteSet(applied') /\ RestartsAccumulate'
        /\ Grows
    BY <1>5, Quiet DEF vars, IInv, TypeOK, AuditsAreTrue
  <2>2. \A q \in Requests : HandlerOK(q)'
    BY <1>5, <2>1, Frame DEF vars, Spares
  <2>3. QED
    BY <2>1, <2>2 DEF IInv
<1>6. QED
  BY <1>1, <1>2, <1>3, <1>4, <1>5 DEF Next
------------------------------------------------------------------------------
\* The inductive invariant holds throughout.
THEOREM Invariance == Spec => []IInv
<1>1. QED
  BY InitIInv, NextIInv, PTL DEF Spec

\* Services, handlers and records keep their types: no update, whatever fields
\* it is given, leaves a service without a value for a field.
THEOREM TypesHold == Spec => []TypeOK
<1>1. IInv => TypeOK
  BY DEF IInv
<1>2. QED
  BY <1>1, Invariance, PTL

\* The audit store never claims a mutation Docker did not carry out, however
\* requests interleave and whichever calls fail.
THEOREM AuditsAreNeverFalse == Spec => []AuditsAreTrue
<1>1. IInv => AuditsAreTrue
  BY DEF IInv
<1>2. QED
  BY <1>1, Invariance, PTL

\* One item of one request changes one service once, and what is answered as
\* a success was carried out, on the service it names.
THEOREM EffectsAreSingle == Spec => []OneEffectPerItem
<1>1. IInv => OneEffectPerItem
  <2> SUFFICES ASSUME IInv PROVE OneEffectPerItem
    OBVIOUS
  <2>1. \A a \in applied : a.req \in Requests
    BY DEF IInv, TypeOK, MarkRecord
  <2>2. \A r \in Requests : Placed(r) /\ Counted(r)
    BY DEF IInv, HandlerOK
  <2>3. \A a, b \in applied : a.req = b.req /\ a.item = b.item => a = b
    BY <2>1, <2>2 DEF Placed
  <2>4. QED
    BY <2>2, <2>3 DEF OneEffectPerItem, Counted
<1>2. QED
  BY <1>1, Invariance, PTL

\* A request that was answered has an outcome for every id of its batch.
THEOREM BatchesAreComplete == Spec => []BatchIsComplete
<1>1. IInv => BatchIsComplete
  BY DEF IInv, HandlerOK, Counted, BatchIsComplete, At
<1>2. QED
  BY <1>1, Invariance, PTL

LEMMA MarksAreLawful ==
    IInv => \A a \in applied : a.req \in Requests /\ Lawful(a.req)
BY DEF IInv, HandlerOK, TypeOK, MarkRecord

\* A caller without the update permission never changes a service, not even
\* one that appeared while it was creating.
THEOREM CreatorsNeverUpdate == Spec => []CreateOnlyNeverUpdates
<1>1. IInv => CreateOnlyNeverUpdates
  BY MarksAreLawful DEF Lawful, CreateOnlyNeverUpdates
<1>2. QED
  BY <1>1, Invariance, PTL

\* An upsert never changes a service of another name.
THEOREM UpsertsKeepToTheName == Spec => []UpsertHitsItsName
<1>1. IInv => UpsertHitsItsName
  BY MarksAreLawful DEF Lawful, UpsertHitsItsName
<1>2. QED
  BY <1>1, Invariance, PTL

\* No restart is swallowed, by an update or by another restart.
THEOREM RestartsAreKept == Spec => []RestartsAccumulate
<1>1. IInv => RestartsAccumulate
  BY DEF IInv
<1>2. QED
  BY <1>1, Invariance, PTL

\* The service a step changes is the one its request updates, and of its
\* specification only what the request was given and the policies.
LEMMA NextChanges ==
    ASSUME IInv, [Next]_vars, NEW i \in Ids, Live(i), Live(i)'
    PROVE \/ swarm'[i].spec = swarm[i].spec
          \/ \E r \in Requests :
                /\ At(r, "update") /\ ~At(r, "update")' /\ req[r].id = i
                /\ \A f \in Fields \ FieldsAskedFor(r) :
                      swarm'[i].spec[f] = swarm[i].spec[f]
<1>1. TypeOK /\ swarm[i] # None /\ swarm[i] \in ServiceRecord
  BY DEF IInv, TypeOK, Live
<1>2. CASE swarm' = swarm
  BY <1>2
<1>3. ASSUME NEW r \in Requests, CreateService(r)
      PROVE  swarm'[i].spec = swarm[i].spec
  BY <1>1, <1>3 DEF CreateService, TypeOK
<1>4. ASSUME NEW r \in Requests, RemoveService(r)
      PROVE  swarm'[i].spec = swarm[i].spec
  <2>1. CASE swarm' = swarm
    BY <2>1
  <2>2. CASE swarm' = [swarm EXCEPT ![req[r].id].live = FALSE]
    BY <1>1, <2>2 DEF TypeOK, ServiceRecord
  <2>3. QED
    BY <1>4, <2>1, <2>2 DEF RemoveService
<1>5. ASSUME NEW j \in Ids, OrchestratorBump(j)
      PROVE  swarm'[i].spec = swarm[i].spec
  BY <1>1, <1>5 DEF OrchestratorBump, TypeOK, ServiceRecord
<1>6. ASSUME NEW r \in Requests, UpdateService(r), swarm' # swarm
      PROVE  \/ swarm'[i].spec = swarm[i].spec
             \/ /\ At(r, "update") /\ ~At(r, "update")' /\ req[r].id = i
                /\ \A f \in Fields \ FieldsAskedFor(r) :
                      swarm'[i].spec[f] = swarm[i].spec[f]
  <2> DEFINE next == IF req[r].job.op = "restart" THEN "audit" ELSE "reread"
  <2>1. /\ Live(req[r].id) /\ VersionSent(r) = swarm[req[r].id].version
        /\ swarm' = [swarm EXCEPT ![req[r].id] = Updated(r)]
        /\ Landed(r, req[r].id, next) /\ req[r].pc = "update"
    BY <1>6 DEF UpdateService, At
  <2>2. \A f \in Fields \ FieldsAskedFor(r) :
           Updated(r).spec[f] = swarm[req[r].id].spec[f]
    BY <2>1, UpdatedFacts
  <2>3. req'[r].pc # "update"
    <3>1. CASE Finish(r, FALSE)
      <4>1. Flow(r)
        BY DEF IInv, HandlerOK
      <4>2. req'[r].pc \in {"remove", "inspect", "done"}
        BY <1>1, <2>1, <3>1, <4>1, FinishFacts
      <4>3. QED
        BY <4>2
    <3>2. CASE req' = [req EXCEPT ![r].pc = next, ![r].id = req[r].id]
      <4>1. req'[r].pc = next
        BY <1>1, <3>2, HandlerFacts DEF TypeOK, Handler
      <4>2. QED
        BY <4>1
    <3>3. QED
      BY <2>1, <3>1, <3>2 DEF Landed
  <2>4. CASE req[r].id = i
    BY <1>1, <2>1, <2>2, <2>3, <2>4 DEF At, TypeOK
  <2>5. CASE req[r].id # i
    BY <1>1, <2>1, <2>5 DEF TypeOK
  <2>6. QED
    BY <2>4, <2>5
<1>7. ASSUME NEW r \in Requests, Step(r), ~CreateService(r), ~RemoveService(r),
             ~UpdateService(r)
      PROVE  swarm' = swarm
  BY <1>7 DEF Step, FindExact, Inspect, LookUpNetwork, CreateNetwork, Reread,
     Register, DockerFails
<1>8. ASSUME NEW r \in Requests, Receive(r) PROVE swarm' = swarm
  BY <1>8 DEF Receive
<1>9. Crash => swarm' = swarm
  BY DEF Crash
<1>10. QED
  BY <1>2, <1>3, <1>4, <1>5, <1>6, <1>7, <1>8, <1>9 DEF Next, vars

\* No lost update, although every update sends the whole specification it
\* inspected before other requests ran.
THEOREM UpdatesAreNotLost == Spec => ChangesOnlyWhatWasAsked
<1>1. IInv /\ [Next]_vars =>
        [\A i \in Ids :
            Live(i) /\ Live(i)' =>
               \/ swarm'[i].spec = swarm[i].spec
               \/ \E r \in Requests :
                     /\ At(r, "update") /\ ~At(r, "update")' /\ req[r].id = i
                     /\ \A f \in Fields \ FieldsAskedFor(r) :
                           swarm'[i].spec[f] = swarm[i].spec[f]]_vars
  BY NextChanges
<1>2. QED
  BY <1>1, Invariance, PTL DEF Spec, ChangesOnlyWhatWasAsked

\* Requests of any kind and number, racing: no false audit, one effect per item,
\* an outcome for each, no update by a creator, no upsert on another service
\* than the one of its name, no restart swallowed.
THEOREM MutationsAreAlwaysRight == Spec => []MutationsAreRight
BY AuditsAreNeverFalse, EffectsAreSingle, BatchesAreComplete,
   CreatorsNeverUpdate, UpsertsKeepToTheName, RestartsAreKept, PTL DEF MutationsAreRight
==============================================================================
