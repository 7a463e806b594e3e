------------------------------- MODULE Navigation -------------------------------
(***************************************************************************)
(* The router of the web front: the table of its pages, the guard every    *)
(* navigation passes, and the way through the login page and back.  A page *)
(* is loaded after its guard let it in, and a navigation that starts while *)
(* another is under way replaces it.                                       *)
(***************************************************************************)
EXTENDS Naturals

CONSTANTS Roles,    \* sets of permissions a user may have
          Typed,    \* bound: the paths typed by hand
          None      \* no redirect, no permission, no page

VARIABLES session,  \* who is signed in, and whether the token still holds
          page,     \* the page shown
          pending   \* the navigation under way

navigationVars == <<session, page, pending>>

------------------------------------------------------------------------------
(* The table of routes: the permission each page wants. *)

appRoutes ==
    [home |-> None, monitoring |-> "DOCKER_VIEW", history |-> "DOCKER_VIEW",
     tasks |-> "DOCKER_VIEW", stacks |-> "DOCKER_VIEW",
     nodes |-> "DOCKER_NODES_FETCH", ghosts |-> "DOCKER_VIEW",
     networks |-> "DOCKER_NETWORK_VIEW", cluster |-> "DOCKER_VIEW",
     registry |-> "DOCKER_VIEW", gitlab |-> "DOCKER_VIEW",
     services |-> "DOCKER_VIEW", inspect |-> "DOCKER_VIEW",
     statistics |-> "DOCKER_VIEW", logs |-> "DOCKER_LOGS",
     terminal |-> "DOCKER_TERMINAL", settings |-> "SETTINGS_SHOW",
     audit |-> "audit:manage", Login |-> None]

\* IdentityRoutes: their meta says auth, and not requiresAuth.
IdentityRoutes ==
    [CrudUser |-> [auth |-> TRUE, permission |-> "user:manage"],
     CrudRole |-> [auth |-> TRUE, permission |-> "role:manage"],
     CrudUserApiKey |-> [auth |-> TRUE, permission |-> "userApiKey:manage"],
     UserSessionCrudPage |->
        [auth |-> TRUE, permission |-> "usersession:manage"],
     PasswordRecovery |-> [auth |-> FALSE, permission |-> None],
     CrudTenant |-> [auth |-> TRUE, permission |-> "tenant:manage"]]

\* The routes of the tenants are left out, and auth becomes requiresAuth.
draxRoutes ==
    [name \in DOMAIN IdentityRoutes \ {"CrudTenant"} |->
        [requiresAuth |-> IdentityRoutes[name].auth,
         permission |-> IdentityRoutes[name].permission]]

\* Only the login page of the application needs no session.
routes ==
    [name \in DOMAIN appRoutes \cup DOMAIN draxRoutes |->
        IF name \in DOMAIN appRoutes
        THEN [requiresAuth |-> name # "Login", permission |-> appRoutes[name]]
        ELSE draxRoutes[name]]
ASSUME NavigationAssumption == None \notin DOMAIN routes

\* Any other path is redirected to home before the guard sees it.
PageAt(path) == IF path \in DOMAIN routes THEN path ELSE "home"

\* The menu: the link, and the permission that shows it.  The drawer has the
\* link to CrudUserApiKey again, under the same permission, and the title of
\* the bar that to home.
menu ==
    [home |-> None, stacks |-> "DOCKER_VIEW", services |-> "DOCKER_VIEW",
     nodes |-> "DOCKER_NODES_FETCH", networks |-> "DOCKER_NETWORK_VIEW",
     registry |-> "DOCKER_VIEW", gitlab |-> "DOCKER_VIEW",
     cluster |-> "DOCKER_VIEW", monitoring |-> "DOCKER_VIEW",
     tasks |-> "DOCKER_VIEW", ghosts |-> "DOCKER_VIEW",
     CrudUser |-> "user:manage", CrudRole |-> "role:manage",
     CrudUserApiKey |-> "userApiKey:manage",
     UserSessionCrudPage |-> "usersession:manage",
     audit |-> "audit:manage", settings |-> "SETTINGS_SHOW"]

------------------------------------------------------------------------------
NoSession == [user |-> FALSE, valid |-> FALSE, permissions |-> {}]
isAuthenticated(who) == who.user /\ who.valid
\* hasPermission looks at the user that is stored, not at the token.
hasPermission(who, permission) == permission \in who.permissions

\* A place: a page, what ?redirect= says, and of the navigation to it:
\* what was asked for, who came through the guard, whether it turned them
\* away to home, and how often it sent them on.
Place(path, redirect) ==
    [name |-> PageAt(path), redirect |-> redirect, wanted |-> None,
     by |-> NoSession, denied |-> FALSE, hops |-> 0, checked |-> FALSE]
NoPlace == [Place("home", None) EXCEPT !.name = None]

\* Paths of this site begin with one slash; "//elsewhere" does not.
Inside(redirect) == redirect \notin {None, "//elsewhere"}
\* Defect: after the login, always home.
HomeAlways(to) == "home"
loginDestination(to) == IF Inside(to.redirect) THEN to.redirect ELSE "home"

NavigationInit == session = NoSession /\ page = NoPlace /\ pending = NoPlace

Addresses ==
    {Place(path, None) : path \in Typed}
    \cup {Place("Login", redirect) : redirect \in Typed \cup {"//elsewhere"}}

\* What the user means by a place; the login page stands before another one.
Meant(place) ==
    IF place.name # "Login" THEN place.name
    ELSE LET next == loginDestination(place) IN
         IF next = "Login" THEN "home" ELSE PageAt(next)

\* An address, a link, a button; one under way is forgotten.
Navigate(place) ==
    /\ pending' = [place EXCEPT !.wanted = Meant(place)]
    /\ UNCHANGED <<session, page>>
ClickMenu(name) ==
    /\ session.user
    /\ menu[name] = None \/ hasPermission(session, menu[name])
    /\ Navigate(Place(name, None))

\* The guard sends the navigation on, and will be asked again.
SentTo(place, refused) ==
    pending' = [place EXCEPT !.wanted = pending.wanted,
                             !.denied = pending.denied \/ refused,
                             !.hops = pending.hops + 1]
\* The token is looked at when the guard is asked.
Guard ==
    LET route == routes[pending.name] IN
    /\ pending.name # None /\ ~pending.checked
    /\ IF route.requiresAuth /\ ~isAuthenticated(session)
       THEN SentTo(Place("Login", pending.name), FALSE)
       ELSE IF route.permission # None
               /\ ~hasPermission(session, route.permission)
       THEN SentTo(Place("home", None), TRUE)
       ELSE IF pending.name = "Login" /\ isAuthenticated(session)
       THEN SentTo(Place(loginDestination(pending), None), FALSE)
       ELSE pending' = [pending EXCEPT !.checked = TRUE, !.by = session]
    /\ UNCHANGED <<session, page>>

\* The component has loaded, or has failed to: then the old page stays.
Land ==
    /\ pending.checked
    /\ page' = pending /\ pending' = NoPlace
    /\ UNCHANGED session
LoadFails ==
    /\ pending.checked
    /\ pending' = NoPlace
    /\ UNCHANGED <<session, page>>

\* onLoginSuccess, which replaces the page by the one that was asked for.
LogIn(role) ==
    /\ page.name = "Login" /\ ~isAuthenticated(session)
    /\ session' = [user |-> TRUE, valid |-> TRUE, permissions |-> role]
    /\ pending' = [Place(loginDestination(page), None)
                      EXCEPT !.wanted = page.wanted, !.denied = page.denied]
    /\ UNCHANGED page
Expire ==
    /\ isAuthenticated(session)
    /\ session' = [session EXCEPT !.valid = FALSE]
    /\ UNCHANGED <<page, pending>>
Logout ==
    /\ session.user
    /\ session' = NoSession
    /\ UNCHANGED <<page, pending>>

NavigationNext ==
    \/ \E place \in Addresses : Navigate(place)
    \/ \E name \in DOMAIN menu : ClickMenu(name)
    \/ Guard \/ Land \/ LoadFails \/ Expire \/ Logout
    \/ \E role \in Roles : LogIn(role)

------------------------------------------------------------------------------
NavigationTypeOK ==
    /\ session.permissions \in Roles \cup {{}}
    /\ \A place \in {page, pending} :
          /\ place.name \in DOMAIN routes \cup {None}
          /\ place.hops \in Nat

\* A page is shown to those its route admits; whoever is admitted arrives at
\* the page asked for, by way of the login too, and who is not at home.
ArrivesWhereAsked ==
    page.name # None =>
        LET route == routes[page.name] IN
        /\ route.requiresAuth => isAuthenticated(page.by)
        /\ route.permission # None =>
              hasPermission(page.by, route.permission)
        /\ isAuthenticated(page.by) =>
              page.name = IF page.denied THEN "home" ELSE page.wanted
        /\ page.name = "Login" => page.denied \/ Meant(page) = page.wanted
\* Redirects come to an end, though the token may expire and the user leave or
\* come back between two of them.
RedirectsEnd == pending.hops <= 3
GuardsHold == ArrivesWhereAsked /\ RedirectsEnd
==============================================================================
