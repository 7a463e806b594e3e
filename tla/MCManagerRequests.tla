------------------------ MODULE MCManagerRequests --------------------------
(* Inputs that name every field, alone and with the fields it goes with;    *)
(* four services, two of them of names that differ only in case; a cluster  *)
(* of three nodes, with a task in two places and two other containers;      *)
(* every request about one network; and environments with and without a     *)
(* vault, over an empty database and ones of an earlier version.            *)
EXTENDS ManagerRequests

CONSTANTS registry, team, web, job, digest, v1, host,
          manager, worker1, worker2, task, c1, c2, c3, c4, u1, u2, get, del, new

-----------------------------------------------------------------------------
Reference(parts, d) == [parts |-> parts, digest |-> d]
Web == Reference(<<<<web, v1>>>>, None)
Pinned == Reference(<<<<registry, "5000">>, <<team>>, <<web>>>>, digest)
Images == {Web, Pinned, Reference(<<<<team>>, <<web, v1>>>>, digest),
           Reference(<<<<host>>, <<web>>>>, None),
           Reference(<<<<registry, "5000">>, <<team>>, <<job>>, <<web, v1>>>>, None)}

AllProjects == {<<<<team>>, <<web>>>>, <<<<registry, "5000">>, <<team>>, <<web>>>>,
                <<<<host>>, <<web>>>>, <<<<host>>>>}

Protocol(letters, form) == [letters |-> letters, form |-> form]
AllInputs ==
    {"name" :> <<"shop", "web">> @@ "image" :> i : i \in Images} \cup {"image" :> i : i \in Images} \cup
    {"stack" :> "shop", "name" :> <<"other">>, "name" :> <<"other">> @@ "unknown" :> 1,
     "stack" :> Null @@ "networks" :> <<[target |-> <<"shop", "default">>],
                                        [id |-> <<"front">>, aliases |-> <<"a", "b">>]>>,
     "stack" :> "crm" @@ "networks" :> <<>>, "networks" :> <<>>,
     "stack" :> "", "stack" :> "" @@ "networks" :> <<[Target |-> <<"x">>, Aliases |-> <<>>]>>,
     "networks" :> <<[aliases |-> <<"a">>]>>,
     "labels" :> <<[name |-> Stack, value |-> "crm"]>> @@ "networks" :> <<>>,
     "labels" :> <<[name |-> "a", value |-> "1"], [name |-> "a"]>>,
     "labels" :> <<[name |-> "b", value |-> "2"]>> @@ "stack" :> "shop",
     "command" :> Null, "command" :> [array |-> FALSE, of |-> <<"node", "server.js">>],
     "command" :> [array |-> TRUE, of |-> <<<<"sh">>, <<"node", "server.js">>>>],
     "envs" :> <<[name |-> <<"A">>, value |-> "1"], [name |-> <<"B">>]>>,
     "envs" :> <<[name |-> <<"A", "B">>, value |-> "1"]>>,
     "volumes" :> <<[hostVolume |-> "/a", target |-> "/b", readOnly |-> TRUE]>>,
     "volumes" :> <<[source |-> "v", containerVolume |-> "/c", type |-> "volume"]>>,
     "volumes" :> <<[source |-> "/a"]>>,
     "volumes" :> <<[hostVolume |-> "", source |-> "/a", target |-> "/b"]>>,
     "dns" :> <<"1.1.1.1">>,
     "extraHosts" :> <<<<"db", "10.0.0.1">>, <<"v6", "fe80", "1">>, <<"x">>>>,
     "healthcheck" :> [test |-> [array |-> FALSE, text |-> <<<<"curl", "x">>>>],
                       interval |-> 1],
     "healthcheck" :> [test |-> [array |-> TRUE, text |-> <<<<"CMD-SHELL">>, <<"curl", "x">>>>],
                       timeout |-> 1, startPeriod |-> 2],
     "healthcheck" :> [test |-> [array |-> TRUE, text |-> <<<<"CMD">>, <<"curl">>>>],
                       retries |-> 3],
     "healthcheck" :> [Interval |-> 1, Retries |-> 3],
     "healthcheck" :> [Test |-> <<<<"CMD">>, <<"x">>>>, Interval |-> NanosPerSecond,
                       StartPeriod |-> 1],
     "healthcheck" :> [Test |-> <<>>, interval |-> 1],
     "limits" :> [CPULimit |-> Null, memoryReservation |-> 2],
     "limits" :> [memoryLimit |-> 1],
     "constraints" :>
         <<[name |-> <<"node.role">>, operation |-> "==", value |-> <<"manager">>],
           [name |-> <<"rack", "!=">>, operation |-> "==", value |-> <<"r">>]>>,
     "constraints" :> <<[name |-> <<"x">>, operation |-> "=", value |-> <<"y">>],
                        [name |-> <<"a", "b">>, operation |-> "!=", value |-> <<"c", "==">>],
                        [name |-> <<"z">>, operation |-> "==", value |-> <<"">>]>>,
     "preferences" :> <<[value |-> "node.rack"], <<>>>>,
     "deployMode" :> "global", "deployMode" :> "replicated", "deployMode" :> "replic",
     "deployMode" :> "replic" @@ "replicas" :> 3, "replicas" :> 0, "replicas" :> -1,
     "ports" :> <<[hostPort |-> 80, targetPort |-> 8080, portsProtocol |-> Protocol("udp", "upper")],
                  [publishedPort |-> 81, hostPort |-> 82, containerPort |-> 1,
                   protocol |-> Protocol("icmp", "mixed")]>>,
     "ports" :> <<[containerPort |-> 80]>>}

\* A service of a stack deployed by hand, and a plugin.
AllForeign ==
    {"Name" :> <<"cli">> @@ "Image" :> Pinned @@ "Env" :> <<<<"FLAG">>, <<"A", "b", "c">>>>
     @@ "Placement" :> [Constraints |-> <<<<"node.role==manager">>>>, MaxReplicas |-> 1]
     @@ "Mode" :> [Global |-> TRUE] @@ "ServiceNetworks" :> <<[Target |-> <<"old">>]>>
     @@ "Labels" :> (Stack :> "shop") @@ "ContainerLabels" :> (Stack :> "shop")
     @@ "Mounts" :> <<[Target |-> "/tmp"]>> @@ "Ports" :> <<[TargetPort |-> 80]>>
     @@ "HealthCheck" :> [Test |-> <<<<"CMD">>, <<"x">>>>]
     @@ "DNSConfig" :> [Nameservers |-> <<"8.8.8.8">>] @@ "Command" :> <<<<"run">>>>
     @@ "Resources" :> [Limits |-> [NanoCPUs |-> 1]]
     @@ "Hosts" :> <<[address |-> <<"fe80", "2">>, name |-> "db"]>>,
     "Name" :> <<"plugin">> @@ "Image" :> Web @@ "Runtime" :> "plugin"}

-----------------------------------------------------------------------------
T(n) == [rank |-> n, form |-> "lower"]
Upper(n) == [rank |-> n, form |-> "upper"]
BadDate == [rank |-> 0, form |-> NotADate]

Service(id, name, stack, image, created) ==
    [id |-> T(id), name |-> name, stack |-> stack, nameWithTag |-> image,
     fullname |-> image, ports |-> Empty, createdAt |-> created, updatedAt |-> NoValue]
AllServices == {Service(1, T(1), T(7), T(4), T(3)),
                Service(2, Upper(1), NoValue, T(5), NoValue),
                Service(3, T(2), T(8), T(4), T(1)),
                Service(4, T(3), T(7), T(5), T(2))}
AllSubstrings == {<<1, 9>>, <<2, 9>>, <<4, 4>>}

Nothing == [array |-> FALSE, of |-> <<>>]
Scalar(text) == [array |-> FALSE, of |-> <<text>>]
List(texts) == [array |-> TRUE, of |-> texts]
Where(field, operator, value) ==
    <<[field |-> field, operator |-> operator, value |-> value]>>
Filters ==
    {<<>>, Where("", "eq", Nothing), Where("stack", "empty", Nothing),
     Where("stack", "eq", Nothing), Where("owner", "eq", Scalar(T(1))),
     Where("stack", "eq", List(<<T(8)>>)), Where("stack", "eq", List(<<T(7), T(8)>>)),
     Where("stack", "eq", List(<<>>)), Where("stack", "eq", List(<<Empty>>)),
     Where("stack", "ne", Scalar(T(7))),
     Where("stack", "eq", Scalar(T(7))) \o Where("image", "like", Scalar(T(4))),
     Where("name", "in", List(<<T(1), T(2)>>)),
     Where("name", "nin", List(<<T(1), T(2)>>)),
     Where("createdAt", "lte", Scalar(BadDate))}
    \cup {Where("createdAt", o, Scalar(T(2))) : o \in {"gt", "gte", "lt", "lte"}}
Orders == {<<"name", "asc">>, <<"id", "desc">>, <<"createdAt", "desc">>,
           <<"image.nameWithTag", "asc">>, <<"owner", "asc">>}
AllQueries ==
    {[stack |-> stack, filters |-> filters, search |-> search,
      orderBy |-> order[1], order |-> order[2], limit |-> 2] :
        stack \in {NoValue, T(7)}, filters \in Filters, search \in {Empty, T(9)},
        order \in Orders}

-----------------------------------------------------------------------------
AllLabels == c1 :> task @@ c2 :> task @@ c3 :> NoLabels @@ c4 :> OtherLabels
AllHomes == c1 :> manager @@ c2 :> worker1 @@ c3 :> worker2 @@ c4 :> worker2

AllOps == u1 :> "update" @@ u2 :> "update" @@ get :> "getOrCreate" @@ del :> "delete"
          @@ new :> "create"

-----------------------------------------------------------------------------
Secret3(j, a, p) == [jwt |-> j, apiKey |-> a, password |-> p]
Plain == [vault |-> FALSE, answers |-> Secret3(NoSecret, NoSecret, NoSecret),
          set |-> Secret3("s1", "s2", "weak"), database |-> TRUE,
          passwordInVault |-> FALSE, bootstrap |-> TRUE]
Vaulted == [Plain EXCEPT !.vault = TRUE, !.answers = Secret3("s3", "s2", "strong"),
                         !.passwordInVault = TRUE]
AllEnvironments ==
    {Plain, [Plain EXCEPT !.set = Secret3("s1", "s1", "strong")],
     [Plain EXCEPT !.set = Secret3("s1", "s2", "strong")],
     [Plain EXCEPT !.bootstrap = FALSE, !.database = FALSE],
     [Plain EXCEPT !.bootstrap = FALSE, !.set.password = NoSecret],
     Vaulted, [Vaulted EXCEPT !.passwordInVault = FALSE],
     [Vaulted EXCEPT !.answers.apiKey = NoSecret],
     [Vaulted EXCEPT !.answers.password = NoSecret]}

Held(permissions) == [permissions |-> permissions, readonly |-> FALSE, exists |-> TRUE]
NoRoles == [name \in RoleNames |-> NoRole]
AllRoleStores ==
    {NoRoles,
     [NoRoles EXCEPT !.Desarrollo = Held({"console"}), !.Legacy = Held({"view", "console"}),
                     !.Sudo = [Held({"console"}) EXCEPT !.readonly = TRUE]],
     [NoRoles EXCEPT !.Sudo = Held({"view"})]}
=============================================================================
