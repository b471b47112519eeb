------------------------------- MODULE Access -------------------------------
(***************************************************************************)
(* Who may sign in to one PgConsole, from the request to the proxy's        *)
(* configuration: the access requests the proxy creates and a reviewer      *)
(* decides, the controller that turns approved ones into PgToolBoxUsers     *)
(* (pgtoolboxaccessrequest/controller.go), and the steps of the console     *)
(* controller that keep the bootstrap administrator, resolve the users and  *)
(* render them (bootstrapadmin.go, users.go, proxyconfig.go).               *)
(*                                                                          *)
(* Each controller has one worker.  Both read through informer caches that  *)
(* may lag; only the request controller's read of a user is live.           *)
(***************************************************************************)
EXTENDS Integers, FiniteSets, FiniteSetsExt

CONSTANTS
    Requests,      \* PgToolBoxAccessRequests, numbered as they are created
    Subjects,      \* identities the providers vouch for
    Keys, Lower,   \* subjects in lower case, and the function to them
    Names,         \* names of PgToolBoxUsers, numbered in name order
    UserNameFor,   \* the name derived from a subject
    DeclaredNames, \* names of users declared by hand
    Bootstrap,     \* name of the bootstrap administrator's user
    Admin,         \* subject of spec.proxy.authentication.bootstrapAdmin
    MaxDecisions,  \* decisions of the reviewers
    MaxEdits,      \* users declared, changed or deleted by hand
    MaxChanges,    \* changes of password Secrets
    MaxRestarts,   \* restarts of the manager
    MaxEvents      \* all of these together

ASSUME AccessAssumption ==
    /\ Requests \subseteq Nat
    /\ Lower \in [Subjects -> Keys]
    /\ Names \subseteq Nat
    /\ UserNameFor \in [Subjects -> Names]
    /\ \A s, t \in Subjects : UserNameFor[s] = UserNameFor[t] => s = t
    /\ DeclaredNames \subseteq Names
    /\ Bootstrap \in Names \ DeclaredNames
    /\ \A s \in Subjects : UserNameFor[s] \notin DeclaredNames \cup {Bootstrap}
    /\ Admin \in Subjects
    /\ MaxDecisions \in Nat /\ MaxEdits \in Nat /\ MaxChanges \in Nat
    /\ MaxRestarts \in Nat /\ MaxEvents \in Nat

VARIABLES
    requests,     \* access requests held by the API server
    requestCache, \* the same, as the manager's informer shows them
    requestEvents, \* requests with changes it has still to deliver
    users,        \* PgToolBoxUsers held by the API server
    userCache,    \* the same, as the informer shows them
    userEvents,   \* users with changes it has still to deliver
    broken,       \* users whose password Secret is missing or invalid
    requestQueue, \* requests in the request controller's work queue
    requestStep,  \* next step of its worker
    current,      \* the request it reconciles, if any
    seen,         \* its copy of that request
    consoleQueue, \* the console is in the console controller's work queue
    consoleStep,  \* next step of that worker
    config,       \* level of each identity in the proxy's configuration
    unusable,     \* users without a usable password when it was rendered
    strangers,    \* identities that some configuration written did not know
    proxySynced,  \* status.proxySynced of each user
    syncedCache,  \* the same, as the informer shows it
    grants,       \* history: levels a person or the spec gave an identity
    moved,        \* history: identities put under the name derived for another
    decisions, edits, changes, restarts \* history

requestVars == <<requests, requestCache, requestEvents>>
userVars == <<users, userCache, userEvents, broken>>
requestWorker == <<requestQueue, requestStep, current, seen>>
consoleWorker == <<consoleQueue, consoleStep>>
configVars == <<config, unusable, strangers, proxySynced, syncedCache>>
historyVars == <<grants, moved, decisions, edits, changes, restarts>>
vars == <<requestVars, userVars, requestWorker, consoleWorker, configVars, historyVars>>

Levels == {"view", "dba"}
NoLevel == "none"
NoUser == [subject |-> Admin, level |-> NoLevel]
User == [subject: Subjects, level: Levels]
NoRequest == [subject |-> Admin, state |-> "none", level |-> NoLevel,
              decided |-> FALSE, ready |-> "Unknown"]
Request == [subject: Subjects, state: {"pending", "approved", "denied"},
            level: Levels \cup {NoLevel},
            decided: BOOLEAN,                       \* condition Decided
            ready: {"Unknown", "True", "False"}]    \* condition UserReady

TypeOK ==
    /\ requests \in [Requests -> Request \cup {NoRequest}]
    /\ requestCache \in [Requests -> Request \cup {NoRequest}]
    /\ requestEvents \subseteq Requests
    /\ users \in [Names -> User \cup {NoUser}]
    /\ userCache \in [Names -> User \cup {NoUser}]
    /\ userEvents \subseteq Names
    /\ broken \subseteq Names
    /\ requestQueue \subseteq Requests
    /\ requestStep \in {"idle", "read", "create", "patch", "status"}
    /\ current \subseteq Requests
    /\ seen \in Request \cup {NoRequest}
    /\ consoleQueue \in BOOLEAN
    /\ consoleStep \in {"idle", "render"}
    /\ config \in [Keys -> Levels \cup {NoLevel}]
    /\ unusable \subseteq Names
    /\ strangers \subseteq Keys
    /\ proxySynced \in [Names -> BOOLEAN] /\ syncedCache \in [Names -> BOOLEAN]
    /\ grants \subseteq Keys \X Levels
    /\ moved \subseteq Keys \X Keys
    /\ decisions \in 0..MaxDecisions
    /\ edits \in 0..MaxEdits
    /\ changes \in 0..MaxChanges
    /\ restarts \in 0..MaxRestarts

Events == decisions + edits + changes + restarts

\* A new console.  A password Secret that is missing from the start is one that
\* ChangePasswordSecret takes away before the first reconcile.
Init ==
    /\ requests = [r \in Requests |-> NoRequest] /\ requestCache = requests /\ requestEvents = {}
    /\ users = [n \in Names |-> NoUser] /\ userCache = users /\ userEvents = {}
    /\ broken = {}
    /\ requestQueue = {} /\ requestStep = "idle"
    /\ current = {} /\ seen = NoRequest
    /\ consoleQueue = TRUE /\ consoleStep = "idle"
    /\ config = [k \in Keys |-> NoLevel] /\ unusable = {} /\ strangers = {}
    /\ proxySynced = [n \in Names |-> FALSE] /\ syncedCache = proxySynced
    /\ grants = {<<Lower[Admin], "dba">>} /\ moved = {}
    /\ decisions = 0 /\ edits = 0 /\ changes = 0 /\ restarts = 0

-----------------------------------------------------------------------------
\* A write is an event for the informer, unless it changes nothing.
WriteRequests(q) ==
    /\ requests' = q
    /\ requestEvents' = requestEvents \cup {r \in Requests : q[r] # requests[r]}

WriteUsers(u) ==
    /\ users' = u
    /\ userEvents' = userEvents \cup {n \in Names : u[n] # users[n]}

(***************************************************************************)
(* The proxy, the reviewers and the people who edit users.                  *)
(***************************************************************************)

\* handleAccessRequest: an identity asks for access with a session that has no
\* level.  The level was sealed into the session when it was issued, so it is
\* enough that some configuration did not know the identity.  The object's
\* name is generated: every request is a new one.
CreateAccessRequest(r, s) ==
    /\ requests[r] = NoRequest
    /\ \A q \in Requests : q < r => requests[q] # NoRequest
    /\ Lower[s] \in strangers
    /\ WriteRequests([requests EXCEPT ![r] =
                        [NoRequest EXCEPT !.subject = s, !.state = "pending"]])
    /\ UNCHANGED <<requestCache, userVars, requestWorker, consoleWorker, configVars, historyVars>>

\* The console writes a decision into the status; it may be changed later.
Decide(r, state, level) ==
    /\ requests[r] # NoRequest
    /\ decisions < MaxDecisions /\ Events < MaxEvents
    /\ WriteRequests([requests EXCEPT ![r].state = state, ![r].level = level])
    /\ decisions' = decisions + 1
    /\ grants' = IF state = "approved" /\ level \in Levels
                 THEN grants \cup {<<Lower[requests[r].subject], level>>} ELSE grants
    /\ UNCHANGED <<requestCache, userVars, requestWorker, consoleWorker, configVars, moved,
                   edits, changes, restarts>>

\* Someone writes a user: declares one, under any name, or changes the level
\* or the subject of one that is there; both fields may be changed.
EditUser(n, u) ==
    /\ edits < MaxEdits /\ Events < MaxEvents
    /\ u # users[n]
    /\ WriteUsers([users EXCEPT ![n] = u])
    /\ edits' = edits + 1
    /\ grants' = grants \cup {<<Lower[u.subject], u.level>>}
    /\ moved' = moved \cup {<<Lower[s], Lower[u.subject]>> :
                               s \in {t \in Subjects \ {u.subject} : UserNameFor[t] = n}}
    /\ UNCHANGED <<requestVars, userCache, broken, requestWorker, consoleWorker, configVars,
                   decisions, changes, restarts>>

\* The password Secret of a user that has one is deleted, becomes unreadable
\* or invalid, or is repaired.  The console controller does not watch it.
ChangePasswordSecret(n) ==
    /\ changes < MaxChanges /\ Events < MaxEvents
    /\ n \in DeclaredNames \cup {Bootstrap}
    /\ broken' = IF n \in broken THEN broken \ {n} ELSE broken \cup {n}
    /\ changes' = changes + 1
    /\ UNCHANGED <<requestVars, users, userCache, userEvents, requestWorker, consoleWorker,
                   configVars, grants, moved, decisions, edits, restarts>>

\* Someone deletes a user, to de-provision it.
DeleteUser(n) ==
    /\ edits < MaxEdits /\ Events < MaxEvents
    /\ users[n] # NoUser
    /\ WriteUsers([users EXCEPT ![n] = NoUser])
    /\ proxySynced' = [proxySynced EXCEPT ![n] = FALSE]
    /\ edits' = edits + 1
    /\ UNCHANGED <<requestVars, userCache, broken, requestWorker, consoleWorker, config, unusable,
                   strangers, syncedCache, grants, moved, decisions, changes, restarts>>

-----------------------------------------------------------------------------
(***************************************************************************)
(* The manager: informers, work queues, restarts.                           *)
(***************************************************************************)
DeliverRequest(r) ==
    /\ r \in requestEvents
    /\ requestEvents' = requestEvents \ {r}
    /\ requestCache' = [requestCache EXCEPT ![r] = requests[r]]
    /\ requestQueue' = requestQueue \cup {r}
    /\ UNCHANGED <<requests, userVars, requestStep, current, seen, consoleWorker, configVars,
                   historyVars>>

\* Mutant: the console controller does not watch the users.
DeliverUnwatchedUser(n) ==
    /\ n \in userEvents
    /\ userEvents' = userEvents \ {n}
    /\ userCache' = [userCache EXCEPT ![n] = users[n]]
    /\ syncedCache' = [syncedCache EXCEPT ![n] = proxySynced[n]]
    /\ UNCHANGED <<requestVars, users, broken, requestWorker, consoleWorker, config, unusable,
                   strangers, proxySynced, historyVars>>

DeliverUser(n) ==
    /\ n \in userEvents
    /\ userEvents' = userEvents \ {n}
    /\ userCache' = [userCache EXCEPT ![n] = users[n]]
    /\ syncedCache' = [syncedCache EXCEPT ![n] = proxySynced[n]]
    /\ consoleQueue' = TRUE
    /\ UNCHANGED <<requestVars, users, broken, requestWorker, consoleStep, config, unusable,
                   strangers, proxySynced, historyVars>>

\* A new manager lists everything, and every object is an event.
RestartManager ==
    /\ restarts < MaxRestarts /\ Events < MaxEvents
    /\ restarts' = restarts + 1
    /\ requestCache' = requests /\ requestEvents' = {}
    /\ userCache' = users /\ userEvents' = {} /\ syncedCache' = proxySynced
    /\ requestQueue' = {r \in Requests : requests[r] # NoRequest}
    /\ consoleQueue' = TRUE
    /\ requestStep' = "idle" /\ consoleStep' = "idle"
    /\ current' = {} /\ seen' = NoRequest
    /\ UNCHANGED <<requests, users, broken, config, unusable, strangers, proxySynced, grants,
                   moved, decisions, edits, changes>>

-----------------------------------------------------------------------------
(***************************************************************************)
(* The request controller.                                                  *)
(***************************************************************************)
\* Mutants: the level is taken without the decision, or the decision without
\* a level.
GrantsUndecided(q) == q.level # NoLevel
GrantsNoLevel(q) == q.state = "approved"

GrantsLevel(q) == q.state = "approved" /\ q.level # NoLevel

\* Reconcile: the decision in the cached request.
ReconcileRequest(r) ==
    /\ requestStep = "idle"
    /\ r \in requestQueue
    /\ requestQueue' = requestQueue \ {r}
    /\ current' = {r}
    /\ seen' = requestCache[r]
    /\ requestStep' = IF GrantsLevel(requestCache[r]) THEN "read" ELSE "status"
    /\ UNCHANGED <<requestVars, userVars, consoleWorker, configVars, historyVars>>

UserName == UserNameFor[seen.subject]

\* Mutant: a user that exists is left as it is.
ReadExistence ==
    /\ requestStep = "read"
    /\ requestStep' = IF users[UserName] = NoUser THEN "create" ELSE "status"
    /\ UNCHANGED <<requestVars, userVars, requestQueue, current, seen, consoleWorker, configVars,
                   historyVars>>

\* reconcileApprovedUser, the live read of the user.
ReadUser ==
    /\ requestStep = "read"
    /\ requestStep' = IF users[UserName] = NoUser THEN "create"
                      ELSE IF users[UserName].level # seen.level THEN "patch"
                      ELSE "status"
    /\ UNCHANGED <<requestVars, userVars, requestQueue, current, seen, consoleWorker, configVars,
                   historyVars>>

\* updateStatus: nothing when the conditions are those of the copy this
\* reconcile read, else the whole list of conditions.
Conditions(q, decided, ready) ==
    IF decided = seen.decided /\ ready = seen.ready THEN q
    ELSE [q EXCEPT !.decided = decided, !.ready = ready]

EndReconcile(decided, ready) ==
    /\ WriteRequests([r \in Requests |-> IF r \in current
                                        THEN Conditions(requests[r], decided, ready)
                                        ELSE requests[r]])
    /\ requestStep' = "idle" /\ current' = {} /\ seen' = NoRequest

\* Create, and the status of the request.  When someone else created the user
\* meanwhile, UserReady stays as it was.
CreateUser ==
    /\ requestStep = "create"
    /\ IF users[UserName] = NoUser
       THEN /\ WriteUsers([users EXCEPT ![UserName] =
                             [subject |-> seen.subject, level |-> seen.level]])
            /\ requestStep' = "status"
            /\ UNCHANGED <<requests, requestEvents, current, seen>>
       ELSE /\ UNCHANGED <<users, userEvents>>
            /\ EndReconcile(TRUE, seen.ready)
    /\ UNCHANGED <<requestCache, userCache, broken, requestQueue, consoleWorker,
                   configVars, historyVars>>

\* Patch: the level only.  A user deleted meanwhile is an error, and a retry.
PatchUser ==
    /\ requestStep = "patch"
    /\ IF users[UserName] = NoUser
       THEN /\ requestStep' = "idle" /\ current' = {} /\ seen' = NoRequest
            /\ requestQueue' = requestQueue \cup current
            /\ UNCHANGED <<users, userEvents>>
       ELSE /\ requestStep' = "status"
            /\ UNCHANGED <<requestQueue, current, seen>>
            /\ WriteUsers([users EXCEPT ![UserName].level = seen.level])
    /\ UNCHANGED <<requestVars, userCache, broken, consoleWorker, configVars,
                   historyVars>>

UpdateRequestStatus ==
    /\ requestStep = "status"
    /\ EndReconcile(seen.state # "pending",
                    IF GrantsLevel(seen) THEN "True"
                    ELSE IF seen.state = "pending" THEN "Unknown" ELSE "False")
    /\ UNCHANGED <<requestCache, userVars, requestQueue, consoleWorker, configVars,
                   historyVars>>

-----------------------------------------------------------------------------
(***************************************************************************)
(* The console controller.                                                  *)
(***************************************************************************)
AdminUser == [subject |-> Admin, level |-> "dba"]

ToRender == consoleStep' = "render" /\ consoleQueue' = FALSE
Retry == consoleStep' = "idle" /\ consoleQueue' = TRUE

\* reconcileBootstrapAdmin, from the cached user: created when it is not
\* there, updated when it differs.  An update from an old version conflicts.
ReconcileBootstrapAdmin ==
    LET cached == userCache[Bootstrap]
    IN  \/ /\ cached = NoUser
           /\ WriteUsers(IF users[Bootstrap] = NoUser
                         THEN [users EXCEPT ![Bootstrap] = AdminUser] ELSE users)
           /\ ToRender
        \/ /\ cached = AdminUser
           /\ WriteUsers(users)
           /\ ToRender
        \/ /\ cached \notin {NoUser, AdminUser}
           /\ Bootstrap \notin userEvents
           /\ WriteUsers([users EXCEPT ![Bootstrap] = AdminUser])
           /\ ToRender
        \/ /\ cached \notin {NoUser, AdminUser}
           /\ Bootstrap \in userEvents
           /\ WriteUsers(users)
           /\ Retry

ReconcileConsole ==
    /\ consoleStep = "idle"
    /\ consoleQueue
    /\ ReconcileBootstrapAdmin
    /\ UNCHANGED <<requestVars, userCache, broken, requestWorker, configVars, historyVars>>

Claimants(u, k) == {n \in Names : u[n] # NoUser /\ Lower[u[n].subject] = k}

\* Mutant: the users are taken in name order, the administrator included.
FirstByName(u, k, b) ==
    LET c == Claimants(u, k) \ b IN IF c = {} THEN {} ELSE {Min(c)}

\* resolveConsoleUsers: the one user that is rendered for an identity.  The
\* administrator comes first and keeps its subject even when it cannot be
\* rendered, as users without a usable password (b) are not; the others
\* follow in name order.
Rendered(u, k, b) ==
    LET c == Claimants(u, k) \ b
    IN  IF Bootstrap \in Claimants(u, k) THEN {Bootstrap} \ b
        ELSE IF c = {} THEN {} ELSE {Min(c)}

Configuration(u, b) ==
    [k \in Keys |-> IF Rendered(u, k, b) = {} THEN NoLevel
                    ELSE u[CHOOSE n \in Rendered(u, k, b) : TRUE].level]

\* The order of the rendering: the administrator, then by name.
Before(n, m) == n # m /\ (n = Bootstrap \/ (m # Bootstrap /\ n < m))

\* The users are listed from the cache, their password Secrets are read live,
\* and what comes of it is written into the proxy's Secret;
\* applyUserStatuses then patches the status of each with what differs from
\* the cached one, which is an event again.  The first user that no longer
\* exists is an error, and a retry of the whole reconcile.
RenderConfiguration ==
    LET listed == {n \in Names : userCache[n] # NoUser}
        gone == {n \in listed : users[n] = NoUser}
        reached == {n \in listed : \A m \in gone : Before(n, m)}
        included == UNION {Rendered(userCache, k, broken) : k \in Keys}
        patched == {n \in reached : syncedCache[n] # (n \in included)}
    IN  /\ consoleStep = "render"
        /\ config' = Configuration(userCache, broken)
        /\ unusable' = broken
        /\ strangers' = strangers \cup {k \in Keys : Rendered(userCache, k, broken) = {}}
        /\ proxySynced' = [n \in Names |-> IF n \in patched THEN n \in included ELSE proxySynced[n]]
        /\ consoleQueue' = (consoleQueue \/ gone # {})
        /\ userEvents' = userEvents \cup {n \in patched : proxySynced[n] # (n \in included)}
        /\ consoleStep' = "idle"
        /\ UNCHANGED <<requestVars, users, userCache, broken, requestWorker, syncedCache,
                       historyVars>>

-----------------------------------------------------------------------------
RequestController ==
    \/ \E r \in Requests : ReconcileRequest(r)
    \/ ReadUser \/ CreateUser \/ PatchUser \/ UpdateRequestStatus

ConsoleController == ReconcileConsole \/ RenderConfiguration

RequestInformer == \E r \in Requests : DeliverRequest(r)
UserInformer == \E n \in Names : DeliverUser(n)

People ==
    \/ \E r \in Requests, s \in Subjects : CreateAccessRequest(r, s)
    \/ \E r \in Requests, state \in {"approved", "denied"}, level \in Levels \cup {NoLevel} :
         Decide(r, state, level)
    \/ \E n \in Names, u \in User : EditUser(n, u)
    \/ \E n \in Names : DeleteUser(n) \/ ChangePasswordSecret(n)

Next == RequestController \/ ConsoleController \/ RequestInformer \/ UserInformer
        \/ People \/ RestartManager

Spec == Init /\ [][Next]_vars

(***************************************************************************)
(* Both controllers and the two informers keep running.                     *)
(***************************************************************************)
Fairness ==
    /\ WF_vars(RequestController)
    /\ WF_vars(ConsoleController)
    /\ WF_vars(RequestInformer)
    /\ WF_vars(UserInformer)

FairSpec == Spec /\ Fairness

-----------------------------------------------------------------------------
(***************************************************************************)
(* Properties.                                                              *)
(***************************************************************************)

\* Somebody gave the level to that identity, or to one under whose derived
\* name somebody put it.
Given(k, l) == \E j \in Keys : <<j, l>> \in grants /\ (j = k \/ <<j, k>> \in moved)

\* Nobody is rendered at a level that no decision, no edit of a user and no
\* bootstrapAdmin field ever gave to that identity.  The exception is of
\* reconcileApprovedUser, which sets the level of the user under the name it
\* derives and leaves spec.subject as it finds it: whom people put there gets
\* what is approved for the owner of the name.
OnlyGrantedLevels ==
    \A k \in Keys : config[k] # NoLevel => Given(k, config[k])

\* Level-triggered convergence: the proxy's configuration, and the status of
\* every user, come to follow the users, in whatever order edits, approvals,
\* deliveries and restarts happened.  The passwords are those of the last
\* rendering: nothing watches their Secrets.
EventuallyFollowsUsers ==
    <>[](/\ config = Configuration(users, unusable)
         /\ \A n \in Names : users[n] # NoUser =>
               proxySynced[n] = (n \in UNION {Rendered(users, k, unusable) : k \in Keys}))

\* bootstrapadmin.go: the administrator "is derived from the spec": whoever
\* deletes it, demotes it, renames it or declares another user for its
\* identity, it comes back, at level dba, and nobody else has its identity,
\* not even while its own password cannot be read.
EventuallyAdministered ==
    <>[](config[Lower[Admin]] = IF Bootstrap \in unusable THEN NoLevel ELSE "dba")

\* Every approval takes effect: without edits by hand, the user of an
\* approved request comes to exist, at a level approved for that identity,
\* and the request comes to say so.
Effective(r) ==
    GrantsLevel(requests[r]) =>
        /\ requests[r].ready = "True"
        /\ \E q \in Requests :
             /\ GrantsLevel(requests[q])
             /\ requests[q].subject = requests[r].subject
             /\ users[UserNameFor[requests[r].subject]] =
                  [subject |-> requests[q].subject, level |-> requests[q].level]
EventuallyEffective == <>[](edits = 0 => \A r \in Requests : Effective(r))

=============================================================================
