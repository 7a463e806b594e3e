# ContainerHub: a verification project

ContainerHub manages a Docker Swarm from a browser. This directory holds TLA+
models of the parts of it whose correctness depends on the order in which
things happen, the TLC configurations that check them on small instances, and
TLAPS proofs about them for every value of their constants. Source paths below
are relative to `src/packages/`; `back` is `containerhub-back/src`, `agent` is
`containerhub-agent/src`, `front` is `containerhub-front/src`.

    tlc -workers 2 -config MCServiceMutations.cfg MCServiceMutations
    tlapm ManagerTerminal_proofs.tla

`PROJECT.json` lists the components, the runs, the hazards and the theorems,
names the source lines of every definition, and gives for every property one
mutation of the model, a plausible bug, under which TLC finds it violated. The
mutated operators stand in the modules, each marked `Defect:`.

## The system

| Component | State | Operations | Speaks to |
|---|---|---|---|
| Service mutations (`back/modules/services`) | none of its own; a handler's locals across its awaits | create or update, update, restart, remove, batches, networks on demand | Docker, audit store |
| Terminal tickets (`TerminalSessionService.ts`) | map ticket -> description, deadline | create, consume, sweep | browser (HTTP, then WebSocket) |
| Terminal bridge (`TerminalRoutes.ts`) | per socket: early input, shell, timers, resize queue | open, copy, resize, close | browser, Docker or node agent |
| Remote terminal (`AgentTerminalClient.ts`, `agent/terminalRoutes.ts`) | per socket, on both machines | handshake, copy, resize, close | manager <-> agent |
| Task lifecycle history (`TaskMonitorizationManager.ts`) | memory of records, collection, settings | check, load, purge | Docker, database |
| Resource samples (`MonitoringCollector.ts` and its services) | configurations, samples, next due times | collect, create, pause, resume, delete | node agents, database |
| Service mapping and editing (`ServiceSpec.ts`, `mapInspectToServiceModel.ts`, image parser) | none; what Docker holds of a service | input over specification, specification to model | Docker, front |
| Service listing (`ServiceService.ts`, list helpers) | none | filter, order, page | Docker |
| Ghost containers, cluster status (`ServiceService.ts`, `agent`) | none; what earlier calls of one question returned | join reads of Docker with answers of agents | Docker, agents |
| Networks (`ServiceService.ts`) | none | create, update (remove and create), get or create, delete | Docker, audit store |
| Host provisioning (`HostVolumeProvisioning.ts`, `agent/agentProvisioningRoutes.ts`) | open handles | folders and files on every node | disks, agents |
| Set-up, secrets, settings (`SetupContainerHub.ts`, vault, `SettingsMongoRepository.ts`) | roles, first user, one document | start, first read, update | vault, database |
| Log streaming (`TaskLogDecoder.ts`, `/logs/stream`, `TaskLogsPage.vue`) | decoder's buffers; a stream per socket; the page's socket | follow, decode, pause, filter | Docker, browser |
| Node agent (`agent`) | none beyond its sockets | stats, containers, folders, files, terminal | Docker of its node |
| Front (`front`) | page state, timers, sockets, tickets, session | polling, streams, lists, dialogs, navigation | manager |
| GitLab, registry, servers, tables and drawing | none | queries, wiring | external services |

Everything on the manager runs in Node processes: code between two awaits is
atomic, and anything may happen at an await. The backend and the collector are
two processes on one database. What is hard is therefore:

- *interleaving at awaits*: a handler acts on what it read several calls ago;
- *partial failure*: a chain of external calls fails in the middle, or its last
  answer is lost after it took effect;
- *restart*: tickets and the history's memory are lost with the process;
- *life cycles*: a socket, a stream, a timer and a remote shell that must end
  together although each can end first, also while one is still being opened;
- *limits*: buffers, retention windows and deadlines at their boundary.

What makes each part correct: a mutation changes only what it was asked to and
leaves a true record; a ticket opens one terminal; a terminal loses nothing and
leaves no shell behind; the history is true, in order and complete; samples
are taken when they are due and kept as long as they were asked to be; what is
read back of a service is what was written; pages of lists add up to the list; operations over many nodes
say what they did. `PROJECT.json` lists the hazards at their lines.

## What is modelled

### `ServiceMutations`: concurrent changes of services

A request is a record `req[r]`: `pc` is the call it awaits (`findExact`,
`findRaced`, `inspect`, `ensureNetworks`, `createNetwork`, `create`, `update`,
`remove`, `reread`, `audit`), `item` its position in a batch, `base` the
service it inspected. One action per awaited call: `FindExact` and `Receive`
are the POST route, `Inspect`, `LookUpNetwork`, `CreateNetwork`,
`UpdateService`, `Reread`, `Register` the body of `updateService`, and so on;
`Finish` is the loop of `dockerRestartMany`/`dockerRemoveMany`, which goes on
after a failure. A specification is a function from fields to values; `Merge`
is `toServiceSpec`: given fields over the manager's own policies over what the
service had. Docker (`swarm`, `networks`) is external: it rejects stale
versions and second names; `OrchestratorBump` advances a version.

| Run | Question | Result |
|---|---|---|
| `service_mutations` | two requests of every kind; Docker fails, answers are lost, the audit store fails, the process dies | `MutationsAreRight`: audits are true; one effect per item, also through the 409 retry; batches answer for every id; creators without update permission never update; upserts land on their name; restarts accumulate. `ChangesOnlyWhatWasAsked`: fields that were not given stay. Every request is answered |

Bounds: two requests, two service identifiers (hence at most two creations),
two names, three fields one of which is a policy, one network, one orchestrator
change. Two requests are enough for every pairwise race, and the theorems below
cover any number. That an audit store which refuses a record does not fail the
request is part of `Register`; a
removal that comes between an update and its re-read loses the record too
(`LandedIsAudited`, see Known flaws).

### `TerminalTickets` and `OneTimeTicket`

`TerminalTickets` is the registry: `Create` sweeps (`Swept`) and stores,
`Refuse` and `Admit` are the two outcomes of `consume` inside the WebSocket's
preHandler, `Tick` is the clock. `OneTimeTicket` says what it promises without
a map or a sweep; `ImplementsOneTimeTicket` is the refinement, with a status
computed from the map and the history. The run has three tickets, two
connections and a lifetime of two instants in a clock of four: tickets overlap,
expire unused, and are presented again after use and after expiry.
`TicketsHold` says that a ticket lets one connection in at most and is lost
neither before its use nor before its deadline. The run checks deadlock: a connection can always be refused.

### `TerminalBridge`

One WebSocket. `phase` says whether the await of `openTaskTerminalConnection`
is over; the closure after it is the record `session`. `Receive` is the message
listener with its two bodies (`Keep` before, `Handled` after the shell is
there); `OpenSucceeds` runs from the await to the end of the handler, replaying
what was kept; `End` is `closeTerminal`. Frames are known by their number in
`received`, so that what is kept and what was written are sequences of numbers.
Byte counts are in units: frames of 1,
2 and 4 against an input limit of 3 and a buffer limit of 4, so that each limit
is met exactly and exceeded, by one frame and by several. Three frames and two
chunks are enough for two sizes in flight with a third waiting, and for input
on both sides of the opening. Fairness: the await ends (Docker or the socket
time-out answers), the session timer fires, Docker answers a resize, and a
close handshake ends. The idle timer needs no fairness, the browser none.
`NothingIsLost` is about input, output and the last window size, `EndsTogether`
about the shell and the session, `TerminalsSettle` is that every shell ends and
every browser is answered.

### `TaskMonitorization`

`pc` is the manager's await; `memory`, `max` are its fields, `db` the
collection, `listed` the listing of the current check. The first loop is
`RecordRunning` per listed task, the second `RecordRemoved`, which runs over
the array that `Save` extends at its front, hence `pos`. `Save` has three
outcomes: written and remembered, written with its answer lost, not written.
Dates matter only by their order, so `clock` advances past a date only once a
document bears it; ties in `ORDER BY date` are broken freely.

| Run | Question | Result |
|---|---|---|
| `task_retention` | calls and the load fail, any crash; the limit cuts below what runs, changes at will | `HistoryIsTrue`: removals are true and records in order; no removal is reported twice |
| `task_history` | the limit holds the history; Docker, the database and the process fail | tasks are seen once across restarts; lasting starts and removals are reported (`ChangesAreReported`) |

`SeenOnce` and the liveness properties need a limit of at least two records
per task, and no lost answers or failed loads, which can duplicate a record by
design of the code: an error is logged and the check retried. `RemovedOnce`
likewise excludes lost answers; what else `task_retention` checks is proved with
them too. Fairness: weak fairness of the manager as a
whole, because each of its calls is answered or fails and the timer of the next
check is set in a `finally`; faults are bounded.

### `MonitoringCollection`

Two processes on one database. The collector (`worker`, `collecting`,
`scheduled`, `nextCollection`) runs collections; each takes a `slot`, so that
the flag that keeps them apart is part of what is checked, with its time, the
configurations it read and what it has left to do. `Start` and `Fire` are
`start()` and its timer, `FetchAll` to `PruneDelete` the awaited calls of
`collect()` and of `prune`, `Stop` and `Exit` the signal handler. The requests
are the handlers of `MonitoringRoutes`: `FindOne`, `Insert` and `Recheck` are
the body of `createForServices` (look up, create, look up again after a
conflict), `DeleteConfig`, `FindSamples`, `DeleteSample` the deletion. A fault
is a call that a node or the database fails. The collection of configurations
admits one document per service identifier, as its schema declares.

| Run | Question | Result |
|---|---|---|
| `monitoring_scans` | two configurations, one request that changes one, failing nodes and database; and, before there is a collector, two creations and a deletion for services that are recreated under their names | `WorksAsConfigured`: scans never overlap, none outlives the worker, intervals are kept, every service of a creation is accounted for once. `NoSampleLostEarly`: retention, which works page by page on the time its collection began, deletes nothing early. `DueIsCollected`: whatever is due is scanned |
| `monitoring_recreated` | a service recreated under its name | violated: the collector waits for another error message than the look-up throws |

`MCSpec` of the MC module keeps the two questions of `monitoring_scans` apart:
creations race with a deletion while the collector is off and the clock stands
(`Apart`), a change of a configuration races with the collector while it works.
Together they would be the same races over a product of states; what a deletion
does under a collection in progress is part of the second.

Bounds: a page of one sample, so that every retention takes several look-ups;
two slots, one more than may be used; a clock of three instants, an interval, a
retention and a window of one or two, so that each boundary is met; one fault. Fairness: the timer fires, each awaited call is answered or fails
(HTTP clients and database have time-outs), and the process ends once nothing
is left to wait for. A restart of the worker, which forgets its intervals, is
not modelled.

### `HostProvisioning`: folders and files on every node

`req[r]` is a request, `call[r][n]` the promise it waits for at node `n`,
`task[r, n, i]` the work on one item there, on the backend's own disk or behind
an agent, with the number of segments it has walked. `entry` and `text` are the
disks. `ListNodes` and `Resolve` begin the tasks of a node; `Check` is
`safeDataPath`, `Mkdir` and `OpenDirectory` are one turn of
`openSecureDirectory`, `OpenFile`, `CreateFile`, `Truncate`, `WriteFile` and
`Close` are `writeSecureFile`. `Settle` takes the outcome of a node, `Timeout`
the deadline of a call to an agent, `AnswerFolders` and `AnswerFiles` answer.
The manager and the agent hold two copies of the file code; they differ in the
second comparison with the database (`Accepted`), where the manager's looks at
the directory of the data and so never refuses.

| Run | Question | Result |
|---|---|---|
| `host_provisioning` | two folders, or two texts for one file, on two nodes, with a link, a pipe, a database or an older file in the way, and one failure of Docker, an agent or a disk or a link that appears | no link is followed (`StaysUnderTheRoot`); `NodesHoldWhatIsAnswered`: a node is counted only with all its folders, success of files means every node, the last writer of a file leaves exactly its text unless another was about to write (`LastWriterWins`); every request is answered |

Bounds: paths of up to two segments, so that a component and a last component
both occur; two items that share a directory or a file, so that tasks race for
`mkdir`, `O_EXCL` and truncation; an older text longer than the new ones; one
fault. One request: what two requests do to one file, two items of one request
do as well. `LastWriterWins` has its exception because the code truncates and
writes in place: two writers that truncate before either writes leave a mixture
of both texts, which no document denies (`docs/quality-audit/batches/B05-agent.md`
keeps the in-place write on purpose). Fairness: the backend and its disk go on
and deadlines pass; nothing is assumed of agents. Left out: how paths are
parsed, texts written in several calls, names that are removed or handed to
another file during a request, an agent's address that passes to another node
between its `/health` and the request.

### `ManagerRequests`: how the manager starts and what it is asked

Five modules, each of a part of the manager that shares nothing with the others
but the connection to Docker: `ServiceEdits` (over `ServiceSpecs` and
`ImageReferences`), `ServiceListing`, `ClusterScan`, `NetworkUpdates` and
`ManagerStart`. `ManagerRequests` is their composition: `kind` says which part
a behaviour is about, and the others rest. Interleaving parts without shared
state would multiply their states and add no behaviour; what a part meets of
others' doing (foreign edits, a moving cluster, other requests about the
network, other decisions) is in the part.

- `ServiceSpecs` is the input schemas, `toServiceSpec` and
  `mapInspectToServiceModel`, field by field, as operators; `ImageReferences`
  the parser of references and the front's three ways to a repository.
  `ServiceEdits` applies inputs, any of nearly sixty, to a service that may have
  been written by another client, twice in a row. `AskedIsRead`: what is named
  in an edit is read back, field by field and number by number, or, of a command
  and networks, which are not shown, held by Docker; it says what was asked
  without the conversions of the code (`VolumesAsked`, `PortsAsked`,
  `CheckIsRead`, `NetworksAreThere`), and its comment lists what the conversions
  lose. Text is the words it is cut into, with one separator between two of
  them, a protocol its letters and their case. A stack that is the empty text,
  which the schema takes, names none: no label is written and no default network
  attached.
  `UpdateKeepsTheRest`: what is not named stays, in Docker's own terms.
  `LinksAgree`: manager and pages name the same repository.
- `ServiceListing` reads a list page by page; Docker may list in another order
  for every page. The sort is stable and is written as the place of each
  service: how many of those that match precede it. `PagesAreTheList`: every
  page is its share of what matches, each once and in order, and so are all
  pages together when no two services order alike. Its exception,
  `SelectsAlike`, is a filter `eq` on the stack with a list of several stacks,
  of none or of the empty text: Docker is asked for the list written as one
  label and finds nothing, where the filter itself lets services pass.
- `ClusterScan` asks for ghosts, nodes, nodes with tasks or statistics of a task,
  one read at a time, while containers start and stop, tasks run and end, nodes
  go down and agents change addresses. `GhostsAreExact`: a container its
  running task owned up to throughout is never reported, a ghost that was there
  throughout always is.
- `NetworkUpdates` has two updates, a deletion, a creation and a `getOrCreate`
  of one network. Docker cannot change a network, so an update removes and
  creates. `NetworkSurvives`: only an update cut short between the two loses it.
- `ManagerStart` is `SetupContainerHub` and what precedes it, one awaited call
  per action, over databases that are new or of an earlier version; the process
  may die anywhere and start again. `StoreIsKept`: what administrators chose
  survives, the settings stay one document with the limit last set (unless the
  first read failed), and it serves only when secrets, roles and first user are
  what they must be.

Run `manager_requests`. Bounds: two edits, since a third is laid over the result
of the second as that is over the first; four services, two whose names differ
only in case, pages of two; three nodes, a task with two places, a container
without labels and one with another's, two changes of the cluster; one request
of each kind about the network, which is every pair but two of one kind other
than updates; two starts and two decisions. No fairness: these are questions of
safety.

### `NodeTerminal`: a terminal on another node

`manager` is `openAgentTerminalConnection`, `agent` the handler of
`terminalRoutes`; `toAgent` and `toManager` are the connection with the sockets'
buffers, `link` whether it still stands. The agent's awaits are its stages
`inspect`, `exec` and `start`, after each of which `StillWanted` looks whether
the manager is there. `place` is where the address leads and whether the
container is the task's. `typed`, `produced` and `taken` are histories of bytes.
A connection can be cut, which both ends hear of, or lost in silence.

Run `node_terminal`: `BytesInOrder` (a terminal that cannot go on ends; it never
goes on with a gap), `NoShellLeftBehind`, `ReadyIsTrue`, and `BothEndsSettle`
under fairness of two timers alone (readiness at the manager, the session at
the agent), since nothing may be assumed of Docker, the shell or the network.
Bounds: inputs and chunks of units below, at and above the limits of 2 and 3,
three messages down and two up, two nodes. `TerminalBridge` treats the manager's
end as a shell; the two are checked apart because their product is out of reach.

### `WebFront`: the pages, the router and the decoder of logs

Composed like `ManagerRequests`, by `kind`; pages share no state with each
other.

- `TaskLogDecoder`: `decodeDockerLogOutput` and `createDockerLogLineDecoder`.
  The second must give the lines of the first however the bytes are cut, checked
  for every cut of a log with two frames, a line and a two-byte character across
  them, and of a terminal's log, which has no frames. `LinesSurviveOtherCuts`
  excludes the cuts that run `log_frames` refutes. Loops over bytes are
  recursive functions on the numbers of the bytes, so that they can be proved
  about.
- `TaskLogStream`: the logs page, its sockets one after another and their
  handlers: `LogsFollowTheFilters`, `NoLogIsFollowedForNobody`, `LeftLogRests`.
- `TaskPages`: numbered requests and polling of the inspection and statistics
  pages, whose task may change under them: `PagesShowTheirTask`,
  `PollingGoesOn`, `LeftPagesRest`.
- `ListPages`: rows, tags, pipelines, operations on a selection, without numbers
  on requests: `RowsLoadOnce`, `SelectionIsWhatIsSent`.
- `TerminalPage`: tickets, sockets, retry and leaving: `OneTerminalSocket`,
  `ConnectingEnds`.
- `Navigation`: the table of routes, the menu and the links of the frame, the
  guard, login, expiry, replaced navigations: `GuardsHold`. The routes of
  `@drax/identity-vue` are external: those the menu leads to and the recovery of
  a password, with the permissions of their links.

Run `web_front` checks them as `ShowsWhatIsAsked`, `NothingIsLeftBehind`,
`GuardsHold` and `LeftPagesStay`. The last one is about the pages that inspect a
task, show its statistics or follow its log: once left, they change no more; a
log page whose limit of lines is read only then is its exception. That a terminal
page leaves no socket is in `NothingIsLeftBehind`; the two lists have nothing
that outlasts them but the answers under way. Bounds: two tasks, rows, users; four requests
or loads of a page, so that two can be overtaken by a third after a change;
three sockets and tickets, so that an end, a retry and another retry fit. No
fairness: users need not do anything, and no page may depend on an answer.

| Run | Question | Result |
|---|---|---|
| `manager_requests` | each part of the manager over its inputs, failures and interleavings | seven properties hold |
| `node_terminal` | one terminal over two processes | holds |
| `web_front` | each page with answers, sockets, timers and clicks in any order | holds |
| `log_frames` | every cut of a log into chunks | violated: a cut in the first four bytes of a header |

## What is proved

TLAPS checks, for every value of the constants:

- `ManagerTerminal_proofs`, of the tickets: `TicketTypesHold`,
  `TicketsAreSingleUse`, `TicketsAreNotLostEarly`, both together as `TicketsAlwaysHold`,
  `TicketsAreStoredAsIssued`, and `Refinement`, that
  the registry implements `OneTimeTicket`. `SingleUse` is not inductive: that
  an entry of the map has let nobody in (`StoredAsIssued`) and that a ticket
  that was never issued has let nobody in (`UnissuedUnused`) make it so. The
  refinement maps each action to the abstract one: a creation to an `Issue`
  that drops what was swept, a refusal to a `Lapse` or a stutter.
- `TaskMonitorization_proofs`: `TypesHold`, `RemovedIsAlwaysTrue`,
  `LifecycleIsInOrder`, the last two as `HistoryIsAlwaysTrue`. The invariant `IInv` adds what memory and collection
  hold was written (`Stored`), a recorded task has been running (`Met`), dates
  lie behind the clock when a check begins (`Dating`), and, the heart of it,
  what a listing says of a missing task stays so until the end of its check
  (`ListingHolds`), because a task that is gone never comes back.

- `ServiceMutations_proofs`: `TypesHold`, `AuditsAreNeverFalse`,
  `EffectsAreSingle`, `BatchesAreComplete`, `CreatorsNeverUpdate`,
  `UpsertsKeepToTheName`, `RestartsAreKept`, all of them as
  `MutationsAreAlwaysRight`, and `UpdatesAreNotLost`, for any
  number of requests, services, jobs and items and every fault. `IInv` says of
  each request where its handler may be given its job (`Flow`), that what it
  inspected is what the service is as long as the version is the same
  (`Based`), that it may update what it is about to (`Permitted`), that what it
  is about to audit was carried out (`Carried`), that an item has one mutation
  at most and none while it is being worked on (`Placed`), and that mutations
  are lawful and outcomes true (`Lawful`, `Counted`). A step of one request
  does to the others only that services grow (`Grows`) and its own mutations
  are added (`Marks`); lemma `Frame` shows that this is enough, so that each
  action is proved for the acting request alone. `UpdatesAreNotLost` then comes
  from `Based` and Docker's refusal of stale versions.

- `ManagerTerminal_proofs`, of the bridge: `TypeCorrect`, `NothingIsLostHolds`,
  `EndsTogetherHolds`. Before the shell is there, what is kept is every frame so
  far (`Kept`); with a shell, the session is what all frames so far lead to
  (`Follows`): their input has been written in order, and the size that is set,
  being set or waiting is the last one asked for. `HandledFollows` shows that a
  frame handled adds just itself; `ReplayedFollows`, by induction over what was
  kept, that the replay after the await brings a session to where it would be
  had the shell been there from the start.
- `NodeTerminal_proofs`: `TypeCorrect`, `OrderHolds`, `ShellsEnd`,
  `ReadyHolds`. The invariant places every message by its position: what the
  manager sent is what the agent has taken, then what is under way, then what
  was lost with the connection; what the shell wrote is what the browser has,
  what the manager's stream keeps, what is under way, and what was lost
  (`Inbound`, `Outbound`). A step that moves a message moves an index. `Stages`
  says what each stage of the agent's handler has made sure of.
- `ManagerRequests_proofs`: `TypesHold`, `NetworkSurvivesAlways`,
  `GhostsAreExactAlways`, `StoreIsKeptAlways`, `UpdateKeepsTheRestAlways`,
  `AskedIsReadAlways`, `LinksAgreeAlways`, `PagesAreTheListAlways`. A missing network has somebody to blame, and he goes on
  (`BlameStays`). A scan keeps apart what was so all along (`owned`, `ghosts`),
  which only shrinks, from what each read returned, and each read bears out what
  was so all along (`ReadIsTrue`, `Gathering`). A start guarantees something at
  the end of each phase, of secrets, roles, first user and settings, which later
  phases and administrators' decisions keep (`EnvironmentIsGood`,
  `RolesAreGood`, `UserIsGood`, `SettingsAreOne`). An edited service is what
  `toServiceSpec` made of the last input over what was there (`EditInv`), and
  `SpecParts` says which of its parts each field comes from; so what is not
  named stays if that part keeps it, and what is named is read back if the
  conversions of that part undo each other (`EntryRead`, `HostRead`, `CheckRead`,
  `LimitsRead`, `ConstraintRead`, `PortRead`, `VolumeRead`, `LabelRead`,
  `StackRead`, `CommandRead`, `NetworksRead`). A service that is there has an
  image (`ShownInv`), and `Targets` follows an image through every parser. The
  proofs found what the inputs of the runs had not: a constraint with a
  comparison in its name is cut there, an exception `AskedIsRead` now makes.
  For the pages, `Ranks` shows that counting what precedes each member of a
  finite set in a linear order numbers the set, so that the sort is one-to-one
  from the places to the services that match (`SortedListing`,
  `SortedMatching`). Two pages come from two listings and are compared only
  through the order: when no two services order alike, the service at a place
  is the one with so many before it (`PlaceInList`), which is a fact of the
  services and of no listing; `ListInv` keeps it for every page read. This
  proof found `SelectsAlike`. Of the types, only the number of documents of
  settings takes an argument: with those on their way (`Counts`) there are
  never more than the two first reads and the updates that began.
- `HostProvisioning_proofs`: `TypeCorrect`, `NoHandleAstray`, `AnswersAreTrue`.
  What a task has walked are directories and stay so; what it opened is the file
  of its path, since a taken name is not given to anything else; the last to
  truncate a file either has its text in it or is about to write (`Files`); and
  what a promise was settled with was done at its node (`Promises`).
- `MonitoringCollection_proofs`: `WorksAlways`, and the action property
  `SamplesAreKept`. A collection works on what it read before its awaits, so the
  invariant says what outlasts them: of a configuration, its service and its
  options never change, and its samples only get older (`Reads`). The flag is
  down unless the active slot works, and `stop()` waits for that one (`Flag`);
  a scan is over when its configuration is due again (`Scanned`), which is why
  intervals are kept; and what a creation has claimed, it alone will answer for
  (`Flow`, `Sums`, `Claims`).
- `TaskMonitorization_proofs` also has `RemovedIsReportedOnce`, with
  `"lost" \notin Faults`, and `RunningIsReportedOnce`, with `NothingForgotten`.
  The hypotheses are the runs': a write whose answer is lost is repeated, and a
  task that the limit cut from memory looks new, by design of the code. Without
  lost answers memory lacks a removal only together with the running record
  before it, because the cut is by date; and as long as nothing is cut, memory
  after the load is the whole history.

- `WebFront_proofs`: `TypesHold`, `ShowsWhatIsAskedHolds`,
  `NothingIsLeftBehindHolds`, `GuardsAlwaysHold`, `LeftPagesAlwaysStay`. One
  invariant for each page.
  - *Decoder* (`DecoderInv`): unless a header was cut, the lines given so far
    and the bytes still buffered are what `decodeDockerLogOutput` makes of the
    bytes that came, and what is to come completes it (`Follows`); between two
    chunks no turn of the decoder's loop is left to make. The lemmas say how
    text, lines and frames go together with concatenation: a character or a
    line end that is cut, and the bytes that end a log.
  - *Log page* (`LogInv`): a socket that may open is the page's, an open one
    was opened for the filters the page has (`Heard`), and the page has none
    while it is paused, unconfigured or left (`Resting`), so that nothing which
    still comes changes a page that was left (`LogRests`).
  - *Pages of a task* (`InspectInv`, `StatisticsInv`): only the request with the
    last number may be for the task shown, and the page is busy exactly while
    that one is under way (`Numbered`); a page that refreshes itself has a
    timer or a request (`Polls`).
  - *Lists* (`ServicesInv`, `ProjectsInv`): one request reads a row, as its flag
    says, and is later than what the row shows (`RowsRead`); one operation is
    sent, of what is selected (`OneIsSent`).
  - *Terminal page* (`TerminalInv`): no two sockets have one ticket
    (`Ticketed`), a socket that may open belongs to a page in use (`Mastered`),
    and a page that is connecting has a socket or asks for a ticket (`Waits`).
  - *Router* (`NavigationInv`): who came through the guard satisfies the route
    (`Admitted`), where the page is was asked for or is home (`Led`), and how
    often the guard can have sent it on follows from who is signed in (`Hops`).

Assumptions are those named in the modules: a positive lifetime, positive
limits, `None` outside the data; paths closed under their prefixes, disks that
are functions of them, and a database that nobody links to again
(`HostProvisioning`); finitely many stored configurations, of services in their
first incarnation (`MonitoringCollection`); containers that have a node
(`ScanAssumption`), a missing network that is no network
(`NetworkAssumption`), environments and roles with the fields the code reads
(`StartAssumption`); inputs of the types the schema admits, with whole seconds
in a health check (`InputAssumption`), and services written elsewhere that have
a name and an image and, unless they are made of containers, nothing else of a
container (`ForeignAssumption`), as Docker keeps one kind of task at a time. A
listing is of finitely many services, whose fields, where they have them, can be
compared, and a page holds at least one, as the resolver sees to with `Math.max`
(`ListingAssumption`). A log is bytes, and either frames from end to end, as
Docker writes it for a task without a terminal, or holds no header, as it is for
one with a terminal (`DockerAssumption`); no decoder could tell a text that looks
like a header from one. Values that stand for nothing are not among the others
(`NoInputAssumption`, `TaskPagesAssumption`, `LogStreamAssumption`,
`TerminalPageAssumption`, `NavigationAssumption`), rows are finitely many
(`ListPagesAssumption`), and bounds are numbers. TLC evaluates them in every run,
and checked the inductive invariants before they were proved.

The library's theorems of induction take an operator as a parameter, which the
provers cannot instantiate. Induction, where a proof needs it, is therefore over
the set of the numbers that have the property (`SetInduction`,
`NumberInduction`), by its least outsider, and the recursive functions it is
about exist by `Iteration` and its like.

Every invariant and every action property of the passing runs is proved, two of
them under the hypotheses named above. Model-checked only is liveness (`EveryRequestIsAnswered` of the mutations and of the
provisioning, `TerminalsSettle`, `ChangesAreReported`, `DueIsCollected`,
`BothEndsSettle`), which needs `ENABLED` and temporal reasoning about fairness
that the prover does not reach.

## Known flaws

Two are findings with a run of their own: the collector does not follow a
recreated service (`monitoring_recreated`), and a chunk that ends in the first
four bytes of a frame's header puts bytes of it among the lines (`log_frames`).
The others are where a property has an exception, or where a definition that no
run checks is violated; each can be seen with the configuration given.

- `DeletedLeavesNothing` (`MonitoringCollection`): a configuration deleted
  during a collection gets samples afterwards, which nothing can reach. One
  service, configuration, slot and request, `MaxTime = 0`, `OnePermanent`.
- `LandedIsAudited` (`ServiceMutations`): an update whose service is removed
  before it is read again leaves no record, and a record the audit store refuses
  fails nothing. `Faults = {}`, one name.
  `docs/migration/CORRECTIONS_INVENTORY.md` lists COR-009, no silent success
  without a durable record, as corrected.
- `SeenOnce` (`TaskMonitorization`) with `Quantities = {1}`, `DefaultMax = 2`,
  two tasks and no fault: running tasks above `maxMonitoredTasksQuantity` are
  recorded as new at every check.
- `NetworkSurvives` has the exception `cut`: an update whose creation fails
  loses the network.
- `StartUpKeeps` has the exception `missed`: when the first read of a new
  installation failed, two readers may create a document of settings each.
- `NoLogIsFollowedForNobody` and `LeftLogRests` have the exception
  `lateConfiguration`: a logs page
  that is left while its limit of lines is being read opens a socket that nobody
  closes. A pause while it connects leaves `connecting` true.
- `RowsLoadOnce` has the exception `overlapped`: a project's row closed and
  opened during a load starts a second one, whose failure hides what the first
  one brought.
- `PagesAreTheList` has the exception `SelectsAlike`: a filter `eq` on the stack
  with a list of several stacks finds no service (`buildDockerListFilters` joins
  them into one label).
- `HostVolumeProvisioning.ts:142`: the manager's second comparison with the
  database compares its directory and never refuses (`Accepted`).

## Plan

The plan has been carried out: the core first (mutations, tickets, history),
then what surrounds it, then the proofs. A change of the code begins at its lines
in `PROJECT.json`; the invariant that a step no longer keeps names the lemma to
look at. Worth adding next: a restart of the collector, and the SQLite store of
the settings.

## Not modelled

GitLab and registry clients and the wiring of servers keep no state and have no
interleavings; pages that show one answer ask once and draw it; tables, texts
and pictures are only looks. Of the parts that are modelled in part
`PROJECT.json` says what is left out: a restart of the collector, the start of
the monitoring process, the SQLite store of the settings, how paths are parsed,
the node agent's configuration. Authentication and permissions enter only where
a race decides which permission applies, and in the guard of the router.
