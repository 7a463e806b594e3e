---------------------------- MODULE ServiceEdits ----------------------------
(***************************************************************************)
(* One service edited again and again: each edit is laid over what the     *)
(* ones before it, or another client of Docker, left, and is read back.    *)
(***************************************************************************)
EXTENDS ServiceSpecs

CONSTANTS
    Inputs,        \* the inputs a client may send, well formed or not
    Foreign,       \* the specifications another client may have written
    Projects,      \* the registry paths GitLab projects have
    MaxEdits       \* bound: edits of the service

\* A task that is not a container has nothing of one but what it is made of.
OneKind(s) == ~IsContainer(s) => DOMAIN s \cap ContainerFields \subseteq {"Image", "Runtime"}
ASSUME ForeignAssumption ==
    \A s \in Foreign : OneKind(s) /\ {"Image", "Name"} \subseteq DOMAIN s /\ IsReference(s.Image)
ASSUME InputAssumption == MaxEdits \in Nat /\ \A input \in Inputs : WellTyped(input)

VARIABLES
    spec,          \* the specification in Docker; the empty one: no service
    before,        \* what it was before the last edit
    edit,          \* the input of the last edit; Null: none yet
    edits

editVars == <<spec, before, edit, edits>>

EditInit == /\ spec \in Foreign \cup {<<>>}
            /\ before = spec
            /\ edit = Null
            /\ edits = 0

\* A service that is there is updated, and one that is not is created; either
\* fails before Docker is asked when the input does not do.
Edit(input) ==
    /\ edits < MaxEdits
    /\ IF spec = <<>> THEN ServiceCreateInputSchema(input)
                      ELSE ServiceUpdateInputSchema(input)
    /\ CanBeWritten(input, spec)
    /\ spec' = toServiceSpec(input, spec)
    /\ before' = spec
    /\ edit' = input
    /\ edits' = edits + 1

EditNext == \E input \in Inputs : Edit(input)

Shown(s) == mapInspectToServiceModel(s, TRUE)
Named(field) == edit # Null /\ field \in DOMAIN edit
Asked(field) == edit[field]

-----------------------------------------------------------------------------
(* What an input asks for, in the words the client reads it in.            *)

\* A list may give a label again, and the last time counts.
GivenLast(labels, i) == \A j \in DOMAIN labels : labels[j].name = labels[i].name => j <= i

VolumesAsked(volumes) ==
    [i \in DOMAIN volumes |->
        LET volume == volumes[i]
        IN  [type            |-> Get(volume, "type", "bind"),
             hostVolume      |-> Get(volume, "hostVolume", Get(volume, "source", "")),
             containerVolume |-> Get(volume, "containerVolume", Get(volume, "target", "")),
             readOnly        |-> Get(volume, "readOnly", FALSE)]]

ProtocolAsked(port) ==
    LET text == Get(port, "protocol", Get(port, "portsProtocol", Tcp))
    IN  [letters |-> IF text.letters \in PROTOCOL_VALUES THEN text.letters ELSE "tcp",
         form    |-> "upper"]
PortsAsked(ports) ==
    [i \in DOMAIN ports |->
        LET port == ports[i]
        IN  [hostPort      |-> Get(port, "hostPort", Get(port, "publishedPort", Null)),
             containerPort |-> Get(port, "containerPort", Get(port, "targetPort", Null)),
             protocol      |-> ProtocolAsked(port),
             portsProtocol |-> ProtocolAsked(port)]]

\* The words of a test, in whichever form it came.
WordsOf(test) ==
    FlattenSeq(IF test # <<>> /\ test[1] = <<"CMD-SHELL">> THEN Tail(test) ELSE test)
TestAsked(check) ==
    CASE "Test" \in DOMAIN check -> WordsOf(check.Test)
      [] "test" \in DOMAIN check /\ check.test.array -> WordsOf(check.test.text)
      [] "test" \in DOMAIN check /\ ~check.test.array -> FlattenSeq(check.test.text)
      [] OTHER -> FlattenSeq(<<>>)
CheckIsRead(check, shown) ==
    /\ shown.command = TestAsked(check)
    /\ \A field \in DOMAIN check \ {"test"} :
          IF "Test" \in DOMAIN check THEN spec.HealthCheck[field] = check[field]
          ELSE LegacyCheck(check) => shown[field] = check[field]

CommandIsWritten(command) ==
    IF command = Null THEN "Command" \notin DOMAIN spec
    ELSE /\ "Command" \in DOMAIN spec
         /\ command.array => spec.Command = command.of
         /\ ~command.array => /\ DOMAIN spec.Command = DOMAIN command.of
                              /\ \A i \in DOMAIN command.of : spec.Command[i] = <<command.of[i]>>

NetworksAreThere(networks, stack) ==
    LET written == Get(spec, "Networks", <<>>)
        n == Len(networks)
    IN  /\ \A i \in 1 .. n :
              LET asked == networks[i]
              IN  /\ written[i].Target =
                        Get(asked, "id", Get(asked, "target", Get(asked, "Target", <<>>)))
                  /\ Get(written[i], "Aliases", Null) =
                        Get(asked, "aliases", Get(asked, "Aliases", Null))
        /\ \/ Len(written) = n
           \/ Len(written) = n + 1 /\ written[n + 1].Target = DefaultNetwork(stack)

-----------------------------------------------------------------------------
EditTypeOK == /\ edits \in 0 .. MaxEdits
              /\ edit \in Inputs \cup {Null}
              /\ spec # <<>> => {"Image", "Name"} \subseteq DOMAIN spec

(* What a client names in an edit is what it reads afterwards, setting by  *)
(* setting and number by number, through the conversions to Docker's form  *)
(* and back; what is not shown, the command and the networks, is what      *)
(* Docker holds.  Excepted is what the conversions do not carry:           *)
(*   - the case of a port's protocol, and one that Docker does not know,   *)
(*     which becomes TCP;                                                  *)
(*   - an environment name with "=" in it, a host without an address, and  *)
(*     the address of a host beyond its first colon;                       *)
(*   - a constraint that is neither == nor != or has one of them in its    *)
(*     name;                                                               *)
(*   - CMD-SHELL in front of a test that is a list, and the times and the  *)
(*     retries of a check in Docker's form without a Test;                 *)
(*   - a stack set to null or to the empty text, which leaves the label of *)
(*     the stack as it was, and a label that has the stack's own name;     *)
(*   - the name of a preference, which is read as "spread";              *)
(*   - "replic" without a number of replicas, which leaves the mode alone, *)
(*     and replicas of a global service.                                   *)
(* The only network that is there without being named is the default one   *)
(* of the stack that is shown.                                             *)
AskedIsRead ==
    edit # Null =>
    LET now == Shown(spec)
        Limit(field) == Get(Asked("limits"), field, Null)
    IN  /\ Named("name") => now.name = Asked("name")
        /\ Named("image") => now.image = parseDockerImageReference(Asked("image"))
        /\ Named("stack") =>
              \/ now.stack = IF Asked("stack") \in {Null, ""} THEN stackBefore(before)
                             ELSE Asked("stack")
              \/ Named("labels") /\ \E i \in DOMAIN Asked("labels") : Asked("labels")[i].name = Stack
        /\ Named("labels") =>
              \A i \in DOMAIN Asked("labels") :
                 LET label == Asked("labels")[i]
                 IN  GivenLast(Asked("labels"), i) /\ label.name # Stack =>
                        now.labels[label.name] = Get(label, "value", "")
        /\ Named("command") => CommandIsWritten(Asked("command"))
        /\ Named("envs") =>
              /\ Len(now.envs) = Len(Asked("envs"))
              /\ \A i \in DOMAIN now.envs :
                    LET env == Asked("envs")[i]
                    IN  Len(env.name) = 1 =>
                           now.envs[i] = [name  |-> env.name[1],
                                          value |-> <<Get(env, "value", "")>>]
        /\ Named("volumes") => now.volumes = VolumesAsked(Asked("volumes"))
        /\ Named("dns") => now.dns = Asked("dns")
        /\ Named("extraHosts") =>
              /\ DOMAIN now.extraHosts = DOMAIN Asked("extraHosts")
              /\ \A i \in DOMAIN Asked("extraHosts") :
                    Len(Asked("extraHosts")[i]) = 2 => now.extraHosts[i] = Asked("extraHosts")[i]
        /\ Named("healthcheck") => CheckIsRead(Asked("healthcheck"), now.healthCheck)
        /\ Named("limits") => \A field \in DOMAIN now.limits : now.limits[field] = Limit(field)
        /\ Named("constraints") =>
              /\ DOMAIN now.constraints = DOMAIN Asked("constraints")
              /\ \A i \in DOMAIN Asked("constraints") :
                    LET asked == Asked("constraints")[i]
                    IN  /\ asked.operation \in {"==", "!="}
                        /\ Range(asked.name) \cap {"==", "!="} = {}
                        => now.constraints[i] = asked
        /\ Named("preferences") =>
              now.preferences = [i \in DOMAIN Asked("preferences") |->
                                    [name  |-> "spread",
                                     value |-> Get(Asked("preferences")[i], "value", "")]]
        /\ Named("deployMode") => CASE Asked("deployMode") = "global" -> now.mode = "global"
                                    [] Asked("deployMode") = "replicated" -> now.mode = "replic"
                                    [] OTHER -> Named("replicas") => now.mode = "replic"
        /\ Named("replicas") /\ now.mode = "replic" => now.replicas = Asked("replicas")
        /\ Named("ports") => now.ports = PortsAsked(Asked("ports"))
        /\ Named("networks") => NetworksAreThere(Asked("networks"), now.stack)

(* An edit leaves alone what it does not name, field by field of what Docker *)
(* holds, however many edits by whichever client came before.  The fields   *)
(* that go together are the exception the code makes: constraints and       *)
(* preferences, the mode and its replicas, labels and the stack; and the    *)
(* networks of a stack that had none.                                       *)
UpdateKeepsTheRest ==
    edit # Null /\ before # <<>> =>
    LET Kept(field) == /\ field \in DOMAIN before <=> field \in DOMAIN spec
                       /\ field \in DOMAIN before => spec[field] = before[field]
        Unnamed(fields) == ~ \E field \in fields : Named(field)
        KeptLabels(labels) == \A l \in DOMAIN before[labels] :
            /\ l \in DOMAIN spec[labels]
            /\ l # Stack /\ (Named("labels") => l \notin DOMAIN labelsToObject(Asked("labels")))
               => spec[labels][l] = before[labels][l]
    IN  /\ Unnamed({"name"}) => Kept("Name")
        /\ Unnamed({"image"}) => Kept("Image")
        /\ Unnamed({"command"}) => Kept("Command")
        /\ Unnamed({"envs"}) => Kept("Env")
        /\ Unnamed({"volumes"}) => Kept("Mounts")
        /\ Unnamed({"dns"}) => Kept("DNSConfig")
        /\ Unnamed({"extraHosts"}) => Kept("Hosts")
        /\ Unnamed({"healthcheck"}) => Kept("HealthCheck")
        /\ Unnamed({"limits"}) => Kept("Resources")
        /\ Unnamed({"ports"}) => Kept("Ports")
        /\ Unnamed({"constraints", "preferences"}) => Kept("Placement")
        /\ Unnamed({"deployMode", "replicas"}) => Kept("Mode")
        /\ Unnamed({"networks"}) /\ "Networks" \in DOMAIN before => Kept("Networks")
        /\ "Labels" \in DOMAIN before => KeptLabels("Labels")
        /\ "ContainerLabels" \in DOMAIN before => KeptLabels("ContainerLabels")

(* The pages that lead to a repository of the registry agree with what the *)
(* manager parsed: the service's link and the inspected task's name the same*)
(* repository, the references they are written back to parse to the same    *)
(* image, and a GitLab project counts as its deployments the services the   *)
(* image list counts for that repository, less those of another registry    *)
(* when its path names one.                                                 *)
LinksAgree ==
    spec # <<>> =>
    LET image == Shown(spec).image
        target == serviceRegistryTarget(image)
        inspected == inspectionRegistryTarget(spec.Image)
        Same(reference) ==
            LET parsed == parseDockerImageReference(reference)
            IN  \A field \in {"domain", "namespace", "name", "tag"} :
                    parsed[field] = image[field]
        services == {[id |-> "now", image |-> image]} \cup
                    {[id |-> "before", image |-> Shown(s).image] : s \in {before} \ {<<>>}}
        usage == buildServiceImageUsage(services)
    IN  /\ inspected.repository = target.repository
        /\ inspected.tag \in {None, target.tag}
        /\ Same(target.fullReference) /\ Same(image.fullname)
        /\ fetchImageStatus(services, image.fullname) = "useful"
        /\ \A r \in DOMAIN usage : UNION Range(usage[r].tags) = usage[r].services
        /\ \A prefix \in Projects :
              NamesRepository(prefix) =>
              LET project == projectRegistryTarget(prefix)
                  used == IF project.repository \in DOMAIN usage
                          THEN usage[project.repository].services ELSE {}
              IN  projectServiceUsage(services, prefix) =
                  {s \in used : project.registryDomain \in {None, s.image.domain}}
=============================================================================
