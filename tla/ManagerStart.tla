------------------------------ MODULE ManagerStart ------------------------------
(***************************************************************************)
(* How the manager comes up: the secrets from the vault, the checks of the *)
(* environment, the roles, the first user and the settings, one awaited    *)
(* call after the other, and then the requests that change what it stored. *)
(* A call may fail and the process may die anywhere; the platform starts   *)
(* it again over what the last one left in the database.                   *)
(***************************************************************************)
EXTENDS Naturals, Sequences

CONSTANTS Environments,  \* what an operator may have configured
          RoleStores,    \* what the database may hold of roles at first
          NoSecret,      \* a variable that is not set, a user that is not there
          MaxStarts,     \* bound: starts of the process
          MaxDecisions   \* bound: changes by administrators

\* The permissions that are looked at; "console" is the old name of "terminal".
Permissions == {"view", "terminal", "settings", "console"}

ASSUME StartAssumption ==
    /\ MaxDecisions \in Nat
    /\ NoSecret \notin {"weak", "changed"}
    /\ \A environment \in Environments :
          DOMAIN environment = {"vault", "answers", "set", "database",
                                "passwordInVault", "bootstrap"}
    /\ \A roles \in RoleStores :
          /\ DOMAIN roles = {"Admin", "Sudo", "Desarrollo", "Legacy"}
          /\ \A name \in DOMAIN roles :
                /\ DOMAIN roles[name] = {"permissions", "readonly", "exists"}
                /\ roles[name].permissions \subseteq Permissions
                /\ {roles[name].readonly, roles[name].exists} \subseteq BOOLEAN

VARIABLES process,    \* the process
          roles,      \* the roles stored, by name
          password,   \* that of the bootstrap user, as stored
          settings,   \* the documents of the settings
          wanted,     \* history: what people last chose of it
          starts, decisions

startVars == <<process, roles, password, settings, wanted, starts, decisions>>

(* An environment: vault, what it answers for jwt, apiKey and password and  *)
(* what is set of the same without it, passwordInVault, database, bootstrap. *)
Secrets == {"jwt", "apiKey", "password"}

\* Permissions: of each role by default, those that are read here.
RolesByDefault == [Admin |-> {"view", "terminal", "settings"},
                   Sudo |-> {"view", "terminal", "settings"},
                   Desarrollo |-> {"view", "terminal"}]
OnlyRead == {"Admin", "Sudo"}
RoleNames == DOMAIN RolesByDefault \cup {"Legacy"}
NoRole == [permissions |-> {}, readonly |-> FALSE, exists |-> FALSE]

Down == [phase |-> "down", environment |-> CHOOSE e \in Environments : TRUE,
         todo |-> <<>>, reading |-> 0, updates |-> {}]

\* A person gave the roles of the database that may be changed.
StartInit ==
    /\ process = Down /\ starts = 0 /\ decisions = 0
    /\ roles \in RoleStores
    /\ password = NoSecret
    /\ settings = <<>>
    /\ wanted = [roles |-> roles, password |-> NoSecret, limit |-> 0, missed |-> FALSE]
StartIdle == StartInit /\ roles = CHOOSE r \in RoleStores : TRUE

------------------------------------------------------------------------------
(* SetupContainerHub. *)

Phase(from, to) == process.phase = from /\ process' = [process EXCEPT !.phase = to]
Stored == <<roles, password, settings, wanted>>

StartProcess ==
    /\ process.phase = "down" /\ starts < MaxStarts
    /\ \E environment \in Environments :
          process' = [Down EXCEPT !.phase = "secrets", !.environment = environment]
    /\ starts' = starts + 1
    /\ UNCHANGED <<Stored, decisions>>

\* An exception ends it, as anything else may; what is stored stays.
Dies ==
    /\ process.phase # "down"
    /\ process' = Down
    /\ UNCHANGED <<Stored, starts, decisions>>

\* Defect: what the vault did not answer is left as it was.
SecretsThatCame(environment) ==
    [v \in Secrets |-> IF environment.answers[v] # NoSecret
                         THEN environment.answers[v] ELSE environment.set[v]]
\* All secrets are there before the first one is put into the environment; the
\* one of the password is asked for only if it is named.
VaultSecrets(environment) ==
    [v \in Secrets |-> IF v = "password" /\ ~environment.passwordInVault
                         THEN environment.set[v] ELSE environment.answers[v]]
AllAnswered(environment) ==
    \A v \in Secrets : VaultSecrets(environment)[v] # NoSecret
        \/ (v = "password" /\ ~environment.passwordInVault)
\* loadContainerHubSecretsFromVault; a failure ends the process (Dies).
LoadSecrets ==
    LET environment == process.environment IN
    /\ process.phase = "secrets"
    /\ environment.vault => AllAnswered(environment)
    /\ process' = [process EXCEPT !.phase = "validate",
          !.environment.set = IF environment.vault THEN VaultSecrets(environment)
                              ELSE environment.set]
    /\ UNCHANGED <<Stored, starts, decisions>>

\* validateContainerHubEnvironment and the database; after them the roles.
IsValid(environment) ==
    /\ environment.database
    /\ environment.set.jwt # NoSecret /\ environment.set.apiKey # NoSecret
    /\ environment.set.apiKey # environment.set.jwt
    /\ environment.bootstrap => environment.set.password # NoSecret
Validate ==
    /\ process.phase = "validate" /\ IsValid(process.environment)
    /\ process' = [process EXCEPT !.phase = "roles",
                                  !.todo = <<"Admin", "Sudo", "Desarrollo">>]
    /\ UNCHANGED <<Stored, starts, decisions>>

\* Defect: roles that people changed are set back.
MayWriteAlways(name) == TRUE
\* findByName: an existing role is left alone unless it is read only; Admin
\* is not looked up.
MayWrite(name) ==
    name = "Admin" \/ ~roles[name].exists \/ roles[name].readonly
\* People decide about a role they may change, except for Admin.
ByPeople(name) == name # "Admin" /\ roles[name].exists /\ ~roles[name].readonly
\* CreateOrUpdateRole
WriteRole ==
    /\ process.phase = "roles" /\ process.todo # <<>>
    /\ LET name == Head(process.todo)
           role == [permissions |-> RolesByDefault[name], exists |-> TRUE,
                    readonly |-> name \in OnlyRead]
       IN  /\ roles' = IF MayWrite(name) THEN [roles EXCEPT ![name] = role] ELSE roles
           /\ wanted' = IF ByPeople(name) THEN wanted
                        ELSE [wanted EXCEPT !.roles[name] = role]
    /\ process' = [process EXCEPT !.todo = Tail(@)]
    /\ UNCHANGED <<password, settings, starts, decisions>>

\* DOCKER_CONSOLE became DOCKER_TERMINAL.
Renamed(permissions) ==
    {IF permission = "console" THEN "terminal" ELSE permission :
        permission \in permissions}
WithConsole == {name \in RoleNames : "console" \in roles[name].permissions}
\* One role after another, in the order of the database.
MigrateRole ==
    /\ process.phase = "roles" /\ process.todo = <<>>
    /\ \E name \in WithConsole :
          roles' = [roles EXCEPT ![name].permissions = Renamed(@)]
    /\ UNCHANGED <<process, password, settings, wanted, starts, decisions>>
RolesDone ==
    /\ process.todo = <<>> /\ WithConsole = {}
    /\ Phase("roles", "user")
    /\ UNCHANGED <<Stored, starts, decisions>>

\* CreateUserIfNotExist, after the policy was asked about a new password.
BootstrapUser ==
    /\ Phase("user", "load")
    /\ IF process.environment.bootstrap /\ password = NoSecret
       THEN /\ process.environment.set.password # "weak"
            /\ password' = process.environment.set.password
            /\ wanted' = [wanted EXCEPT !.password = password']
       ELSE UNCHANGED <<password, wanted>>
    /\ UNCHANGED <<roles, settings, starts, decisions>>

------------------------------------------------------------------------------
(* Settings, in a collection of documents; a read finds the first one. *)

FirstLimit == 1

\* getSettings, when it finds one, and its two steps when it does not.
\* taskMonitorizationsManager.start reads them before the server listens; it
\* goes on when that fails.
Listen == Phase("load", "serving")
FirstRead ==
    /\ IF settings = <<>> THEN settings' = <<FirstLimit>> ELSE UNCHANGED settings
    /\ Listen
    /\ wanted' = IF settings = <<>> THEN [wanted EXCEPT !.limit = FirstLimit] ELSE wanted
    /\ UNCHANGED <<roles, password, starts, decisions>>
FirstReadFails ==
    /\ Listen
    /\ wanted' = [wanted EXCEPT !.missed = @ \/ settings = <<>>]
    /\ UNCHANGED <<roles, password, settings, starts, decisions>>

\* Defect: every reader makes its own.
FoundNothingAlways == TRUE
FoundNothing == settings = <<>>
\* A request or a timer finds none, and creates one later.
ReadBegins ==
    /\ process.phase = "serving" /\ process.reading < 2 /\ FoundNothing
    /\ process' = [process EXCEPT !.reading = @ + 1]
    /\ UNCHANGED <<Stored, starts, decisions>>
ReadCreates ==
    /\ process.reading > 0
    /\ settings' = Append(settings, FirstLimit)
    /\ process' = [process EXCEPT !.reading = @ - 1]
    /\ wanted' = IF settings = <<>> THEN [wanted EXCEPT !.limit = FirstLimit] ELSE wanted
    /\ UNCHANGED <<roles, password, starts, decisions>>

\* updateSettings: the document found is saved with the new limit, or a new
\* one if there was none.
UpdateBegins ==
    /\ process.phase = "serving" /\ decisions < MaxDecisions
    /\ decisions' = decisions + 1
    /\ process' = [process EXCEPT !.updates =
          @ \cup {[limit |-> FirstLimit + decisions', found |-> settings # <<>>]}]
    /\ UNCHANGED <<Stored, starts>>
UpdateSaves ==
    /\ \E update \in process.updates :
          /\ settings' = IF update.found THEN [settings EXCEPT ![1] = update.limit]
                         ELSE Append(settings, update.limit)
          /\ process' = [process EXCEPT !.updates = @ \ {update}]
          /\ wanted' = [wanted EXCEPT !.limit = update.limit]
    /\ UNCHANGED <<roles, password, starts, decisions>>

\* Administrators change roles that are not read only, and passwords.
EditRole(name) ==
    /\ process.phase = "serving" /\ decisions < MaxDecisions
    /\ roles[name].exists /\ ~roles[name].readonly
    /\ decisions' = decisions + 1
    /\ roles' = [roles EXCEPT ![name].permissions = {"view"}]
    /\ wanted' = [wanted EXCEPT !.roles[name].permissions = {"view"}]
    /\ UNCHANGED <<process, password, settings, starts>>
ChangePassword ==
    /\ process.phase = "serving" /\ decisions < MaxDecisions /\ password # NoSecret
    /\ decisions' = decisions + 1
    /\ password' = "changed"
    /\ wanted' = [wanted EXCEPT !.password = "changed"]
    /\ UNCHANGED <<process, roles, settings, starts>>

StartNext ==
    \/ StartProcess \/ Dies \/ LoadSecrets \/ Validate
    \/ WriteRole \/ MigrateRole \/ RolesDone \/ BootstrapUser
    \/ FirstRead \/ FirstReadFails \/ ReadBegins \/ ReadCreates
    \/ UpdateBegins \/ UpdateSaves
    \/ \E name \in RoleNames : EditRole(name)
    \/ ChangePassword

------------------------------------------------------------------------------
StartTypeOK ==
    /\ process.phase \in {"down", "secrets", "validate", "roles", "user", "load",
                          "serving"}
    /\ process.reading \in 0..2 /\ Len(settings) <= 2 + MaxDecisions
    /\ \A name \in RoleNames : roles[name].permissions \subseteq Permissions

\* Whatever is interrupted and started again: a role that people may change is
\* what they made it, under the new name of the permission; the user's password
\* is the one last chosen; the settings are one document, unless the first read
\* of all failed, and with one document the limit is the one last set.
StartUpKeeps ==
    /\ \A name \in RoleNames :
          LET chosen == wanted.roles[name].permissions IN
          /\ roles[name].permissions \in {chosen, Renamed(chosen)}
          /\ roles[name].exists = wanted.roles[name].exists
    /\ password = wanted.password
    /\ ~wanted.missed => Len(settings) <= 1
    /\ Len(settings) = 1 => settings[1] = wanted.limit

\* It serves with two secrets that differ, all of them from the vault if it is
\* used, with every role there, no permission by its old name, and no user
\* whose first password the policy refuses.
ServesWhenReady ==
    process.phase = "serving" =>
        LET environment == process.environment IN
        /\ environment.set.jwt # environment.set.apiKey
        /\ environment.vault => environment.set.jwt = environment.answers.jwt
                                /\ environment.set.apiKey = environment.answers.apiKey
        /\ \A name \in DOMAIN RolesByDefault : roles[name].exists
        /\ WithConsole = {}
        /\ environment.bootstrap => password \notin {NoSecret, "weak"}

\* What was stored survives, and what serves has been set up.
StoreIsKept == StartUpKeeps /\ ServesWhenReady
==============================================================================
