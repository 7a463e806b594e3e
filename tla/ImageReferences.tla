-------------------------- MODULE ImageReferences ---------------------------
(***************************************************************************)
(* How the manager and its pages take an image reference apart: the        *)
(* manager's parser, and the page's three ways from a reference to a       *)
(* repository of the registry (a service, a GitLab project, an inspected   *)
(* task).  A reference registry:5000/team/api:v1@sha256:d is               *)
(*     [parts |-> << <<"registry","5000">>, <<"team">>, <<"api","v1">> >>, *)
(*      digest |-> "d"]                                                    *)
(* its parts being what slashes separate, cut again at their last colon.   *)
(***************************************************************************)
EXTENDS Sequences, SequencesExt

CONSTANTS
    None,          \* a tag, a digest, a domain that is not there
    Latest,        \* the tag of a reference without one
    Dotted         \* the first parts that name a host: a dot, or localhost

HasColon(part) == Len(part) > 1
Text(part) == part[1]

\* A reference has parts, each of a text and perhaps what follows a colon.
IsReference(reference) ==
    /\ reference.parts \in Seq(Range(reference.parts)) \ {<<>>}
    /\ \A part \in Range(reference.parts) :
          part # None /\ (part = <<part[1]>> \/ part = <<part[1], part[2]>>)

\* What the last part names, its tag cut off.
Untagged(parts) == Append(Front(parts), <<Text(Last(parts))>>)

IsDomain(part) == HasColon(part) \/ Text(part) \in Dotted

parseDockerImageReference(reference) ==
    LET parts      == reference.parts
        hasTag     == HasColon(Last(parts))
        tag        == IF hasTag THEN Last(parts)[2] ELSE Latest
        repository == Untagged(parts)
        outer      == Front(repository)
        hasDomain  == outer # <<>> /\ IsDomain(outer[1])
        tagged     == Append(outer, <<Text(Last(parts)), tag>>)
    IN  [domain    |-> IF hasDomain THEN outer[1] ELSE None,
         namespace |-> IF hasDomain THEN Tail(outer) ELSE outer,
         name      |-> Text(Last(parts)),
         tag       |-> tag,
         fullname  |-> IF hasTag \/ reference.digest = None
                       THEN [parts |-> tagged, digest |-> None]
                       ELSE [parts |-> repository, digest |-> reference.digest],
         id        |-> reference.digest]

\* A namespace of no part stands for the null of the code.
imageRepository(namespace, name) == Append(namespace, <<name>>)

serviceRegistryTarget(image) ==
    LET repository == imageRepository(image.namespace, image.name)
        domain == IF image.domain = None THEN <<>> ELSE <<image.domain>>
    IN  [repository    |-> repository,
         tag           |-> image.tag,
         fullReference |->
            [parts  |-> domain \o image.namespace \o <<<<image.name, image.tag>>>>,
             digest |-> None]]

\* The first part of a project's prefix is a host by its look alone, even if
\* nothing follows; then the prefix names no repository.
projectRegistryTarget(parts) ==
    LET hasDomain == IsDomain(parts[1])
    IN  [repository     |-> IF hasDomain THEN Tail(parts) ELSE parts,
         registryDomain |-> IF hasDomain THEN parts[1] ELSE None]
NamesRepository(parts) == projectRegistryTarget(parts).repository # <<>>

\* Defect: the registry is taken for a part of the repository.
inspectionRegistryTargetWhole(reference) ==
    LET hasTag == HasColon(Last(reference.parts))
    IN  [repository |-> Untagged(reference.parts),
         tag        |-> IF hasTag THEN Last(reference.parts)[2] ELSE None]

inspectionRegistryTarget(reference) ==
    LET hasTag == HasColon(Last(reference.parts))
        path   == Untagged(reference.parts)
    IN  [repository |-> IF Len(path) > 1
                        THEN projectRegistryTarget(path).repository ELSE path,
         tag        |-> IF hasTag THEN Last(reference.parts)[2] ELSE None]

-----------------------------------------------------------------------------
(* Which services run which image: services is a set of records with an    *)
(* image that was parsed.                                                  *)

\* Every repository in use, with its services and the services of each tag.
buildServiceImageUsage(services) ==
    LET Target(s) == serviceRegistryTarget(s.image)
        Of(r) == {s \in services : Target(s).repository = r}
    IN  [r \in {Target(s).repository : s \in services} |->
            [services |-> Of(r),
             tags     |-> [t \in {Target(s).tag : s \in Of(r)} |->
                              {s \in Of(r) : Target(s).tag = t}]]]

projectServiceUsage(services, prefix) ==
    LET project == projectRegistryTarget(prefix)
    IN  {s \in services :
            /\ serviceRegistryTarget(s.image).repository = project.repository
            /\ project.registryDomain \in {None, s.image.domain}}

\* An image is of use when a service runs exactly that reference.
fetchImageStatus(services, fullname) ==
    IF \E s \in services : s.image.fullname = fullname THEN "useful" ELSE "useless"
=============================================================================
