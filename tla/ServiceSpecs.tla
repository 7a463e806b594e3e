---------------------------- MODULE ServiceSpecs ----------------------------
(***************************************************************************)
(* What the manager writes to Docker for a service, and what it reads      *)
(* back.  An input names some fields and leaves the others alone; it is    *)
(* laid over the specification the service had.  Inputs and specifications *)
(* are functions on the fields that are there: what JavaScript calls       *)
(* undefined is a field outside the domain.                                *)
(*                                                                         *)
(* Text that is cut or joined is the sequence of its words: an environment *)
(* entry by "=", an input host by ":", a constraint and a command by       *)
(* spaces, the name of a service or a network by "_".  Text whose case is  *)
(* changed is its letters and the form they are in.  Numbers of seconds    *)
(* are whole.                                                              *)
(***************************************************************************)
EXTENDS ImageReferences, Integers

CONSTANTS
    Stack,         \* the label that names the stack of a service
    Null           \* null, where it is not the same as a field left out

\* f laid over g.
f ++ g == [x \in DOMAIN f \cup DOMAIN g |-> IF x \in DOMAIN f THEN f[x] ELSE g[x]]
\* Functions on different fields taken as one.
Joined(parts) ==
    [x \in UNION {DOMAIN parts[i] : i \in DOMAIN parts} |->
        parts[CHOOSE i \in DOMAIN parts : x \in DOMAIN parts[i]][x]]
Just(field, value) == [x \in {field} |-> value]
Get(f, field, default) == IF field \in DOMAIN f THEN f[field] ELSE default
Restricted(f, fields) == [x \in fields \cap DOMAIN f |-> f[x]]
Without(f, fields) == [x \in DOMAIN f \ fields |-> f[x]]
If(condition, f) == IF condition THEN f ELSE <<>>
MapAll(Op(_), seq) == [i \in DOMAIN seq |-> Op(seq[i])]

-----------------------------------------------------------------------------
(* The input of a creation or an update.                                   *)

InputFields == {"name", "image", "stack", "labels", "command", "envs", "volumes",
                "dns", "extraHosts", "healthcheck", "limits", "constraints",
                "preferences", "deployMode", "replicas", "ports", "networks"}

\* The union of the two health check shapes, each of them strict.
DockerCheck(check) ==
    DOMAIN check \subseteq {"Test", "Interval", "Timeout", "Retries", "StartPeriod"}
LegacyCheck(check) ==
    DOMAIN check \subseteq {"test", "interval", "timeout", "retries", "startPeriod"}

sourceOf(volume) == Get(volume, "hostVolume", Get(volume, "source", ""))
targetOf(volume) == Get(volume, "containerVolume", Get(volume, "target", ""))
VolumeComplete(volume) == "" \notin {sourceOf(volume), targetOf(volume)}

\* A network that is only named is one of a target and nothing else.
networkOf(network) == Get(network, "id", Get(network, "target", Get(network, "Target", <<>>)))

\* What the schema takes for a list is one.
IsList(list) == list \in Seq(Range(list))
WellTyped(input) ==
    /\ \A field \in DOMAIN input \cap {"labels", "envs", "volumes", "extraHosts",
                                      "constraints", "ports", "networks"} :
          IsList(input[field])
    /\ "image" \in DOMAIN input => IsReference(input.image)
    /\ "envs" \in DOMAIN input => \A env \in Range(input.envs) : IsList(env.name)
    /\ "extraHosts" \in DOMAIN input => \A host \in Range(input.extraHosts) : IsList(host)
    /\ "constraints" \in DOMAIN input =>
          \A c \in Range(input.constraints) :
             /\ IsList(c.name) /\ IsList(c.value) /\ <<>> \notin {c.name, c.value}
             /\ "" \notin Range(c.name) /\ (c.value = <<"">> \/ "" \notin Range(c.value))
             /\ c = [name |-> c.name, operation |-> c.operation, value |-> c.value]
    /\ "healthcheck" \in DOMAIN input =>
          /\ "test" \in DOMAIN input.healthcheck => IsList(input.healthcheck.test.text)
          /\ \A time \in {"interval", "timeout", "startPeriod"} \cap DOMAIN input.healthcheck :
                input.healthcheck[time] \in Int

\* An update may leave any field out, but may not name an unknown one.
ServiceUpdateInputSchema(input) ==
    /\ DOMAIN input \subseteq InputFields
    /\ \A volume \in Range(Get(input, "volumes", <<>>)) : VolumeComplete(volume)
    /\ \A network \in Range(Get(input, "networks", <<>>)) : networkOf(network) # <<>>
    /\ "healthcheck" \in DOMAIN input =>
          DockerCheck(input.healthcheck) \/ LegacyCheck(input.healthcheck)
    /\ Get(input, "deployMode", "global") \in {"global", "replicated", "replic"}
    /\ Get(input, "replicas", 0) >= 0

ServiceCreateInputSchema(input) ==
    /\ ServiceUpdateInputSchema(input)
    /\ {"name", "image"} \subseteq DOMAIN input

-----------------------------------------------------------------------------
(* From the input to the specification.                                    *)

\* A later label of the same name wins; one without a value is empty.
labelsToObject(labels) ==
    LET Of(name) == {i \in DOMAIN labels : labels[i].name = name}
        LastOf(name) == labels[CHOOSE i \in Of(name) : \A j \in Of(name) : j <= i]
    IN  [name \in {labels[i].name : i \in DOMAIN labels} |->
            Get(LastOf(name), "value", "")]

toLowerCase(text) == [letters |-> text.letters, form |-> "lower"]
toUpperCase(text) == [letters |-> text.letters, form |-> "upper"]

PROTOCOL_VALUES == {"tcp", "udp", "sctp"}
Tcp == [letters |-> "tcp", form |-> "lower"]
toServicePortProtocol(value) ==
    LET normalized == toLowerCase(value)
    IN  IF normalized.letters \in PROTOCOL_VALUES THEN normalized ELSE Tcp

toMountSettings(volume) ==
    [Type     |-> Get(volume, "type", "bind"),
     Source   |-> sourceOf(volume),
     Target   |-> targetOf(volume),
     ReadOnly |-> Get(volume, "readOnly", FALSE)]

NanosPerSecond == 1000000000

toNanoseconds(check, field, as) ==
    If(field \in DOMAIN check, Just(as, check[field] * NanosPerSecond))

\* A test is one text, for the shell, or the texts of a list.  Only a check with
\* a Test is taken to be Docker's own; every other one is read by the legacy
\* names, whatever names it has.
toContainerHealthcheck(check) ==
    IF "Test" \in DOMAIN check THEN check
    ELSE Joined(<<
            If("test" \in DOMAIN check,
               [Test |-> IF check.test.array THEN check.test.text
                         ELSE <<<<"CMD-SHELL">>>> \o check.test.text]),
            toNanoseconds(check, "interval", "Interval"),
            toNanoseconds(check, "timeout", "Timeout"),
            If("retries" \in DOMAIN check, [Retries |-> check.retries]),
            toNanoseconds(check, "startPeriod", "StartPeriod")>>)

toServiceResources(limits) ==
    LET Given(field, as) == If(Get(limits, field, Null) # Null, Just(as, limits[field]))
        dockerLimits == Given("CPULimit", "NanoCPUs")
                        ++ Given("memoryLimit", "MemoryBytes")
        reservations == Given("CPUReservation", "NanoCPUs")
                        ++ Given("memoryReservation", "MemoryBytes")
    IN  If(dockerLimits # <<>>, [Limits |-> dockerLimits])
        ++ If(reservations # <<>>, [Reservations |-> reservations])

\* Neither null nor the empty text.
IsText(stack) == stack \notin {Null, ""}

toNetworkAttachment(network) ==
    [Target |-> networkOf(network)]
    ++ If({"aliases", "Aliases"} \cap DOMAIN network # {},
          [Aliases |-> Get(network, "aliases", Get(network, "Aliases", <<>>))])

\* The network every service of a stack is on, and the name it has there: its
\* own without that of the stack.
DefaultNetwork(stack) == <<stack, "default">>
WithoutStack(name, stack) ==
    LET at == {i \in 1 .. Len(name) - 1 : name[i] = stack}
        first == CHOOSE i \in at : \A j \in at : i <= j
    IN  IF at = {} THEN name
        ELSE SubSeq(name, 1, first - 1) \o SubSeq(name, first + 1, Len(name))
DefaultAttachment(stack, name) ==
    [Target |-> DefaultNetwork(stack), Aliases |-> <<WithoutStack(name, stack)>>]

\* The networks that are named; those of a stack get its default network in
\* addition.
NamedNetworks(input, stack, name) ==
    LET named == MapAll(toNetworkAttachment, Get(input, "networks", <<>>))
        added == IF /\ IsText(stack)
                    /\ \A i \in DOMAIN named : named[i].Target # DefaultNetwork(stack)
                 THEN <<DefaultAttachment(stack, name)>> ELSE <<>>
    IN  If(named \o added # <<>>, [Networks |-> named \o added])

\* Defect: networks that are not named are forgotten.
toServiceNetworksAnew(input, stack, name, previous) == NamedNetworks(input, stack, name)

\* Networks that are not named stay as they were, in either place Docker may
\* have them.
toServiceNetworks(input, stack, name, previous) ==
    IF /\ "networks" \notin DOMAIN input
       /\ {"Networks", "ServiceNetworks"} \cap DOMAIN previous # {}
    THEN [Networks |-> Get(previous, "Networks", previous.ServiceNetworks)]
    ELSE NamedNetworks(input, stack, name)

\* A port is a number, or the whole request fails.
asServicePort(port, field, other) == Get(port, field, Get(port, other, Null))
PortNumbers(port) ==
    {asServicePort(port, "hostPort", "publishedPort"),
     asServicePort(port, "containerPort", "targetPort")}
toServicePort(port) ==
    [Protocol      |-> toServicePortProtocol(
                          Get(port, "protocol", Get(port, "portsProtocol", Tcp))),
     PublishedPort |-> asServicePort(port, "hostPort", "publishedPort"),
     TargetPort    |-> asServicePort(port, "containerPort", "targetPort")]

asServiceReplicas(input) == Get(input, "replicas", 1)

\* Defect: only a number of replicas makes a service replicated.
toModeByReplicas(input, previous) ==
    IF Get(input, "deployMode", "") = "global" THEN [Mode |-> [Global |-> TRUE]]
    ELSE IF "replicas" \in DOMAIN input
    THEN [Mode |-> [Replicated |-> asServiceReplicas(input)]]
    ELSE Restricted(previous, {"Mode"})

\* Global on request; replicated on request or when replicas are named; else
\* as it was.
toMode(input, previous) ==
    IF Get(input, "deployMode", "") = "global" THEN [Mode |-> [Global |-> TRUE]]
    ELSE IF \/ Get(input, "deployMode", "") = "replicated"
            \/ "replicas" \in DOMAIN input
    THEN [Mode |-> [Replicated |-> asServiceReplicas(input)]]
    ELSE Restricted(previous, {"Mode"})

toConstraint(c) == c.name \o <<c.operation>> \o c.value
toPreference(p) == [Spread |-> [SpreadDescriptor |-> Get(p, "value", "")]]

\* Constraints and preferences are written together: naming one of them drops
\* the other, and keeps what else the placement says.
toPlacement(input, previous) ==
    IF {"constraints", "preferences"} \cap DOMAIN input = {}
    THEN Restricted(previous, {"Placement"})
    ELSE [Placement |->
            If("constraints" \in DOMAIN input,
               [Constraints |-> MapAll(toConstraint, input.constraints)])
            ++ If("preferences" \in DOMAIN input,
               [Preferences |-> MapAll(toPreference, input.preferences)])
            ++ Without(Get(previous, "Placement", <<>>), {"Constraints", "Preferences"})]

\* The first two words of a host are its name and its address; a host of one
\* word has no address, and is written with the word "undefined" for it.
toHost(host) ==
    [address |-> <<IF Len(host) > 1 THEN host[2] ELSE "undefined">>, name |-> host[1]]

toEntry(env) == env.name \o <<Get(env, "value", "")>>

\* A command is the words of one text, or the texts of a list.
toTexts(command) ==
    IF command.array THEN command.of ELSE [i \in DOMAIN command.of |-> <<command.of[i]>>]
toCommand(input, previous) ==
    IF "command" \notin DOMAIN input THEN Restricted(previous, {"Command"})
    ELSE If(input.command # Null, [Command |-> toTexts(input.command)])

Fixed == [RestartPolicy |-> "on-failure", UpdateConfig |-> "two at a time",
          RollbackConfig |-> "one at a time"]

\* What a task that is not a container leaves of a specification.
ContainerFields == {"Image", "Command", "Env", "ContainerLabels", "Mounts",
                    "DNSConfig", "Hosts", "HealthCheck", "Networks", "Runtime"}
IsContainer(previous) ==
    Get(previous, "Runtime", "container") \notin {"plugin", "attachment"}
Container(previous) ==
    IF ~IsContainer(previous) THEN Without(previous, ContainerFields) ELSE previous

\* Defect: the image is not asked for.
CanBeWrittenUnnamed(input, previous) == "name" \in DOMAIN input \/ "Name" \in DOMAIN previous

CanBeWritten(input, previous) ==
    /\ "name" \in DOMAIN input \/ "Name" \in DOMAIN previous
    /\ "image" \in DOMAIN input \/ "Image" \in DOMAIN Container(previous)
    /\ \A port \in Range(Get(input, "ports", <<>>)) : Null \notin PortNumbers(port)

\* What is written of a field of Docker's: the value when the input names the
\* field it comes from, and else what was there.
Write(field, value, from, input, previous) ==
    IF from \in DOMAIN input THEN Just(field, value) ELSE Restricted(previous, {field})

toLabels(input, stack, before) ==
    If(IsText(stack), Just(Stack, stack)) ++ labelsToObject(Get(input, "labels", <<>>))
    ++ Get(before, "Labels", <<>>)
toContainerLabels(input, previous) ==
    labelsToObject(Get(input, "labels", <<>>)) ++ Get(previous, "ContainerLabels", <<>>)

\* The stack a service is in, and the one it is asked to be in: an empty text
\* asks for none, and leaves the label as it is.
stackBefore(before) == Get(Get(before, "Labels", <<>>), Stack, Null)
stackOf(input, before) ==
    IF Get(input, "stack", Null) # Null THEN input.stack ELSE stackBefore(before)
nameOf(input, before) == Get(input, "name", Get(before, "Name", Null))

toServiceSpec(input, before) ==
    LET previous == Container(before)
        stack == stackOf(input, before)
    IN  Joined(<<
            Write("Name", input.name, "name", input, previous),
            Write("Image", input.image, "image", input, previous),
            toCommand(input, previous),
            Write("Env", MapAll(toEntry, input.envs), "envs", input, previous),
            Write("Mounts", MapAll(toMountSettings, input.volumes), "volumes", input, previous),
            Write("DNSConfig", [Nameservers |-> input.dns], "dns", input, previous),
            Write("Hosts", MapAll(toHost, input.extraHosts), "extraHosts", input, previous),
            Write("HealthCheck", toContainerHealthcheck(input.healthcheck), "healthcheck",
                  input, previous),
            Write("Resources", toServiceResources(input.limits), "limits", input, previous),
            Write("Ports", MapAll(toServicePort, input.ports), "ports", input, previous),
            toPlacement(input, before),
            toMode(input, before),
            toServiceNetworks(input, stack, nameOf(input, before), previous),
            [Labels |-> toLabels(input, stack, before)],
            [ContainerLabels |-> toContainerLabels(input, previous)],
            Fixed>>)

-----------------------------------------------------------------------------
(* From the specification to what a client reads.                          *)

Redacted == "[REDACTED]"

\* An entry is cut at its first "="; without one it is a name with no value.
mapEnvironment(env, reveal) ==
    [i \in DOMAIN env |-> [name  |-> Head(env[i]),
                           value |-> IF reveal THEN Tail(env[i]) ELSE Redacted]]

\* A constraint is cut at the first comparison that has words on both sides.  One
\* space is between two words: what more of them would do is left out.
mapConstraint(text) ==
    LET comparisons == {i \in 2 .. Len(text) - 1 : text[i] \in {"==", "!="}}
        first == CHOOSE i \in comparisons : \A j \in comparisons : i <= j
    IN  IF comparisons = {} THEN [name |-> text, operation |-> "", value |-> <<>>]
        ELSE [name      |-> SubSeq(text, 1, first - 1),
              operation |-> text[first],
              value     |-> SubSeq(text, first + 1, Len(text))]

mapDockerHost(host) == <<host.name>> \o host.address

nanosecondsToSeconds(check, field) ==
    IF field \in DOMAIN check THEN check[field] \div NanosPerSecond ELSE Null

mapHealthCheck(check) ==
    LET test == Get(check, "Test", <<>>)
    IN  [command     |-> IF test # <<>> /\ test[1] = <<"CMD-SHELL">>
                         THEN FlattenSeq(Tail(test)) ELSE FlattenSeq(test),
         interval    |-> nanosecondsToSeconds(check, "Interval"),
         timeout     |-> nanosecondsToSeconds(check, "Timeout"),
         retries     |-> Get(check, "Retries", Null),
         startPeriod |-> nanosecondsToSeconds(check, "StartPeriod")]

portModel(port) ==
    LET protocol == toUpperCase(Get(port, "Protocol", Tcp))
    IN  [hostPort      |-> Get(port, "PublishedPort", Null),
         containerPort |-> Get(port, "TargetPort", Null),
         protocol      |-> protocol,
         portsProtocol |-> protocol]

preferenceModel(preference) ==
    [name  |-> "spread",
     value |-> Get(Get(preference, "Spread", <<>>), "SpreadDescriptor", "")]

volumeModel(mount) == [type            |-> Get(mount, "Type", "bind"),
                       hostVolume      |-> Get(mount, "Source", ""),
                       containerVolume |-> Get(mount, "Target", ""),
                       readOnly        |-> Get(mount, "ReadOnly", FALSE)]

\* The labels of the service and of its containers, the latter winning; the
\* one that names the stack is shown as the stack and not as a label.
mapInspectToServiceModel(spec, reveal) ==
    LET serviceLabels == Get(spec, "Labels", <<>>)
        labels == Get(spec, "ContainerLabels", <<>>) ++ Without(serviceLabels, {Stack})
        resources == Get(spec, "Resources", <<>>)
        Limit(of, field) == Get(Get(resources, of, <<>>), field, Null)
        placement == Get(spec, "Placement", <<>>)
        mode == Get(spec, "Mode", <<>>)
    IN  [name        |-> Get(spec, "Name", Null),
         stack       |-> Get(serviceLabels, Stack, Null),
         image       |-> parseDockerImageReference(spec.Image),
         ports       |-> MapAll(portModel, Get(spec, "Ports", <<>>)),
         envs        |-> mapEnvironment(Get(spec, "Env", <<>>), reveal),
         volumes     |-> MapAll(volumeModel, Get(spec, "Mounts", <<>>)),
         labels      |-> [l \in DOMAIN labels |-> IF reveal THEN labels[l] ELSE Redacted],
         constraints |-> MapAll(mapConstraint, Get(placement, "Constraints", <<>>)),
         preferences |-> MapAll(preferenceModel, Get(placement, "Preferences", <<>>)),
         limits      |-> [CPULimit          |-> Limit("Limits", "NanoCPUs"),
                          memoryLimit       |-> Limit("Limits", "MemoryBytes"),
                          CPUReservation    |-> Limit("Reservations", "NanoCPUs"),
                          memoryReservation |-> Limit("Reservations", "MemoryBytes")],
         mode        |-> IF "Global" \in DOMAIN mode THEN "global" ELSE "replic",
         replicas    |-> Get(mode, "Replicated", 1),
         extraHosts  |-> MapAll(mapDockerHost, Get(spec, "Hosts", <<>>)),
         dns         |-> Get(Get(spec, "DNSConfig", <<>>), "Nameservers", <<>>),
         healthCheck |-> IF "HealthCheck" \in DOMAIN spec
                         THEN mapHealthCheck(spec.HealthCheck) ELSE Null]
=============================================================================
