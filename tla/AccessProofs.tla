---------------------------- MODULE AccessProofs ----------------------------
(***************************************************************************)
(* Who may sign in, for any identities, names, requests and bounds: every   *)
(* level the proxy is configured with was given to that identity by         *)
(* somebody; and a request that says its user is ready has one.             *)
(*                                                                          *)
(* OnlyGrantedLevels is about the configuration, which is rendered from a   *)
(* cache of users, which a controller wrote from its copy of a cache of     *)
(* requests.  GrantedInv follows the level through all of them.  The one    *)
(* step that could lend a level to somebody else is the patch of a user     *)
(* that exists already: NamesAreOwn says that a user under a derived name   *)
(* is of the identity the name was derived from, or of one that somebody    *)
(* put there.                                                               *)
(*                                                                          *)
(* ReadyHasUser is about the status of a request, written a step after the  *)
(* user and from an old copy of the request.  CopiesAgree says that the     *)
(* copy is of the same identity, StatusHasUser that the worker of an        *)
(* approved request gets to that step only by way of a user.                *)
(***************************************************************************)
EXTENDS Access, WellFoundedInduction, TLAPS

\* A request that is queued or in work exists, as requests are never deleted,
\* and a user is written only for one that was approved at a level.
RequestsStay ==
    /\ \A r \in requestEvents \cup requestQueue \cup current : requests[r] # NoRequest
    /\ requestStep \in {"read", "create", "patch"} => GrantsLevel(seen)

AccessTypeInv == TypeOK /\ RequestsStay

\* The subject of a user under a derived name.
NamesAreOwn ==
    \A s \in Subjects : users[UserNameFor[s]] # NoUser =>
        \/ users[UserNameFor[s]].subject = s
        \/ <<Lower[s], Lower[users[UserNameFor[s]].subject]>> \in moved

UserGranted(u) == u # NoUser => Given(Lower[u.subject], u.level)
RequestGranted(q) == GrantsLevel(q) => <<Lower[q.subject], q.level>> \in grants

GrantedInv ==
    /\ <<Lower[Admin], "dba">> \in grants
    /\ NamesAreOwn
    /\ \A n \in Names : UserGranted(users[n]) /\ UserGranted(userCache[n])
    /\ \A r \in Requests : RequestGranted(requests[r]) /\ RequestGranted(requestCache[r])
    /\ RequestGranted(seen)
    /\ OnlyGrantedLevels

-----------------------------------------------------------------------------
(***************************************************************************)
(* The records of the model.                                                *)
(***************************************************************************)
UserOrNone == User \cup {NoUser}
RequestOrNone == Request \cup {NoRequest}

\* What a user is.
LEMMA UserFacts ==
    /\ NoUser \notin User /\ NoLevel \notin Levels /\ AdminUser \in User
    /\ AdminUser.subject = Admin /\ AdminUser.level = "dba" /\ NoUser.level = NoLevel
    /\ \A u \in UserOrNone : u.subject \in Subjects /\ u.level \in Levels \cup {NoLevel}
    /\ \A u \in User : u.level \in Levels
    /\ \A s \in Subjects, l \in Levels : [subject |-> s, level |-> l] \in User
  BY AccessAssumption DEF NoUser, User, UserOrNone, Levels, NoLevel, AdminUser

\* What a request is; one without a decision grants nothing.
LEMMA RequestFields ==
    \A q \in RequestOrNone : /\ q.subject \in Subjects
                             /\ q.ready \in {"Unknown", "True", "False"}
                             /\ GrantsLevel(q) => q.level \in Levels
  BY AccessAssumption DEF NoRequest, Request, RequestOrNone, GrantsLevel

\* A new request has the type, and grants nothing.
LEMMA RequestFacts ==
    /\ NoRequest \notin Request /\ ~GrantsLevel(NoRequest) /\ NoRequest \in RequestOrNone
    /\ Request \subseteq RequestOrNone
    /\ \A s \in Subjects : /\ [NoRequest EXCEPT !.subject = s, !.state = "pending"] \in Request
                           /\ ~GrantsLevel([NoRequest EXCEPT !.subject = s, !.state = "pending"])
  <1>1. NoRequest \notin Request /\ ~GrantsLevel(NoRequest)
    BY DEF NoRequest, Request, GrantsLevel
  <1>2. \A s \in Subjects : /\ [NoRequest EXCEPT !.subject = s, !.state = "pending"] \in Request
                           /\ ~GrantsLevel([NoRequest EXCEPT !.subject = s, !.state = "pending"])
    BY DEF NoRequest, Request, GrantsLevel
  <1> QED BY <1>1, <1>2 DEF RequestOrNone

\* A status write changes conditions only.
LEMMA ConditionFacts ==
    ASSUME NEW q \in Request, NEW decided \in BOOLEAN,
           NEW ready \in {"Unknown", "True", "False"}
    PROVE  /\ Conditions(q, decided, ready) \in Request
           /\ Conditions(q, decided, ready).subject = q.subject
           /\ Conditions(q, decided, ready).state = q.state
           /\ Conditions(q, decided, ready).level = q.level
  BY DEF Request, Conditions

\* The first of some users by name is one of them.
LEMMA MinMember ==
    ASSUME NEW c \in SUBSET Nat, c # {}
    PROVE  Min(c) \in c
  <1>1. \E x \in c : \A y \in c : ~(<<y, x>> \in OpToRel(<, Nat))
    BY NatLessThanWellFounded, WFMin, Zenon
  <1>2. PICK x \in c : \A y \in c : ~(<<y, x>> \in OpToRel(<, Nat))
    BY <1>1, Zenon
  <1>3. \A y \in c : ~(y < x)
    BY <1>2 DEF OpToRel
  <1>4. \A y \in c : x <= y
    BY <1>3
  <1> QED BY <1>4 DEF Min

\* resolveConsoleUsers renders for an identity only users of that identity.
LEMMA RenderedFacts ==
    ASSUME NEW u, NEW k, NEW b
    PROVE  Rendered(u, k, b) \subseteq Claimants(u, k)
  <1>1. Claimants(u, k) \ b \in SUBSET Nat
    BY AccessAssumption DEF Claimants
  <1> QED BY <1>1, MinMember DEF Rendered

\* The level an identity is configured with is that of one of its users.
LEMMA ConfigurationFacts ==
    ASSUME NEW u, NEW b, NEW k \in Keys, Configuration(u, b)[k] # NoLevel
    PROVE  \E n \in Names : /\ u[n] # NoUser /\ Lower[u[n].subject] = k
                            /\ Configuration(u, b)[k] = u[n].level
  <1> DEFINE n == CHOOSE n \in Rendered(u, k, b) : TRUE
  <1>1. Rendered(u, k, b) # {} /\ Configuration(u, b)[k] = u[n].level
    BY DEF Configuration
  <1>2. n \in Claimants(u, k)
    BY <1>1, RenderedFacts
  <1> QED BY <1>1, <1>2 DEF Claimants

-----------------------------------------------------------------------------
(***************************************************************************)
(* Types.                                                                   *)
(***************************************************************************)
\* The types of the request controller's side, and of the others.
RequestTypes ==
    /\ requests \in [Requests -> RequestOrNone]
    /\ requestCache \in [Requests -> RequestOrNone]
    /\ requestEvents \subseteq Requests
    /\ requestQueue \subseteq Requests
    /\ requestStep \in {"idle", "read", "create", "patch", "status"}
    /\ current \subseteq Requests
    /\ seen \in RequestOrNone

UserTypes ==
    /\ users \in [Names -> UserOrNone]
    /\ userCache \in [Names -> UserOrNone]
    /\ userEvents \subseteq Names
    /\ broken \subseteq Names

ConsoleTypes ==
    /\ consoleQueue \in BOOLEAN
    /\ consoleStep \in {"idle", "render"}
    /\ config \in [Keys -> Levels \cup {NoLevel}]
    /\ unusable \subseteq Names
    /\ strangers \subseteq Keys
    /\ proxySynced \in [Names -> BOOLEAN] /\ syncedCache \in [Names -> BOOLEAN]

HistoryTypes ==
    /\ grants \subseteq Keys \X Levels
    /\ moved \subseteq Keys \X Keys
    /\ decisions \in 0..MaxDecisions
    /\ edits \in 0..MaxEdits
    /\ changes \in 0..MaxChanges
    /\ restarts \in 0..MaxRestarts

\* TypeOK, by the part of the system it is about.
LEMMA TypesSplit == TypeOK <=> RequestTypes /\ UserTypes /\ ConsoleTypes /\ HistoryTypes
  BY DEF TypeOK, RequestTypes, UserTypes, ConsoleTypes, HistoryTypes, UserOrNone, RequestOrNone

\* Users that are written are users, and an event.
LEMMA WriteUsersFacts ==
    ASSUME UserTypes, NEW u \in [Names -> UserOrNone], WriteUsers(u),
           UNCHANGED <<userCache, broken>>
    PROVE  UserTypes'
  BY DEF UserTypes, WriteUsers

\* A request that is written stays a request, and has an event if it changed.
LEMMA WriteRequestsFacts ==
    ASSUME RequestTypes, RequestsStay, NEW q \in [Requests -> RequestOrNone],
           WriteRequests(q), \A r \in Requests : requests[r] # NoRequest => q[r] # NoRequest
    PROVE  /\ requests' = q /\ requestEvents' \subseteq Requests
           /\ \A r \in requestEvents' \cup requestQueue \cup current : requests'[r] # NoRequest
  BY DEF RequestTypes, WriteRequests, RequestsStay

\* EndReconcile writes conditions, of a request that exists.
LEMMA EndReconcileFacts ==
    ASSUME RequestTypes, RequestsStay, NEW decided \in BOOLEAN,
           NEW ready \in {"Unknown", "True", "False"}, EndReconcile(decided, ready),
           UNCHANGED <<requestCache, requestQueue>>
    PROVE  /\ RequestTypes' /\ RequestsStay'
           /\ \A r \in Requests : /\ requests'[r].subject = requests[r].subject
                                  /\ requests'[r].state = requests[r].state
                                  /\ requests'[r].level = requests[r].level
  <1> DEFINE q == [r \in Requests |-> IF r \in current
                                       THEN Conditions(requests[r], decided, ready)
                                       ELSE requests[r]]
  <1>1. \A r \in Requests :
           /\ q[r] \in RequestOrNone
           /\ requests[r] # NoRequest => q[r] # NoRequest
           /\ q[r].subject = requests[r].subject /\ q[r].state = requests[r].state
           /\ q[r].level = requests[r].level
    <2> SUFFICES ASSUME NEW r \in Requests
                 PROVE  /\ q[r] \in RequestOrNone
                        /\ requests[r] # NoRequest => q[r] # NoRequest
                        /\ q[r].subject = requests[r].subject /\ q[r].state = requests[r].state
                        /\ q[r].level = requests[r].level
      OBVIOUS
    <2>1. CASE r \in current
      <3>1. requests[r] \in Request
        BY <2>1 DEF RequestTypes, RequestsStay, RequestOrNone
      <3>2. q[r] = Conditions(requests[r], decided, ready)
        BY <2>1
      <3> HIDE DEF q
      <3>3. /\ q[r] \in Request
            /\ q[r].subject = requests[r].subject /\ q[r].state = requests[r].state
            /\ q[r].level = requests[r].level
        <4> DEFINE c == Conditions(requests[r], decided, ready)
        <4>1. /\ c \in Request
              /\ c.subject = requests[r].subject /\ c.state = requests[r].state
              /\ c.level = requests[r].level
          BY <3>1, ConditionFacts, Zenon
        <4> HIDE DEF c
        <4>2. q[r] = c
          BY <3>2 DEF c
        <4> QED BY <4>1, <4>2, Zenon
      <3>4. q[r] # NoRequest /\ q[r] \in RequestOrNone
        BY <3>3, RequestFacts DEF RequestOrNone
      <3> QED BY <3>3, <3>4
    <2>2. CASE r \notin current
      BY <2>2 DEF RequestTypes
    <2> QED BY <2>1, <2>2
  <1>2. q \in [Requests -> RequestOrNone] /\ WriteRequests(q)
    BY <1>1 DEF EndReconcile
  <1>3. requestStep' = "idle" /\ current' = {} /\ seen' = NoRequest
    BY DEF EndReconcile
  <1> HIDE DEF q
  <1>4. /\ requests' = q /\ requestEvents' \subseteq Requests
        /\ \A r \in requestEvents' \cup requestQueue \cup current : requests'[r] # NoRequest
    BY <1>1, <1>2, WriteRequestsFacts
  <1>5. RequestTypes'
    BY <1>2, <1>3, <1>4 DEF RequestTypes, RequestOrNone
  <1>6. RequestsStay'
    BY <1>3, <1>4 DEF RequestsStay
  <1> QED BY <1>1, <1>4, <1>5, <1>6

\* A new console has no requests and no users.
LEMMA AccessTypeInit == Init => AccessTypeInv
  <1> SUFFICES ASSUME Init PROVE AccessTypeInv
    OBVIOUS
  <1>1. RequestTypes
    BY DEF Init, RequestTypes, RequestOrNone
  <1>2. UserTypes
    BY AccessAssumption DEF Init, UserTypes, UserOrNone
  <1>3. ConsoleTypes
    <2>1. consoleQueue \in BOOLEAN
      BY Zenon DEF Init
    <2> QED BY <2>1 DEF Init, ConsoleTypes
  <1>4. HistoryTypes
    <2>1. <<Lower[Admin], "dba">> \in Keys \X Levels
      BY AccessAssumption DEF Levels
    <2> QED BY <2>1, AccessAssumption DEF Init, HistoryTypes
  <1>5. RequestsStay
    BY DEF Init, RequestsStay
  <1> QED BY <1>1, <1>2, <1>3, <1>4, <1>5, TypesSplit DEF AccessTypeInv

\* Every step keeps the types.
LEMMA AccessTypeNext == AccessTypeInv /\ [Next]_vars => AccessTypeInv'
  <1> SUFFICES ASSUME AccessTypeInv, [Next]_vars PROVE AccessTypeInv'
    OBVIOUS
  <1>t. RequestTypes /\ UserTypes /\ ConsoleTypes /\ HistoryTypes /\ RequestsStay
    BY TypesSplit DEF AccessTypeInv
  <1>w. SUFFICES RequestTypes' /\ UserTypes' /\ ConsoleTypes' /\ HistoryTypes' /\ RequestsStay'
    BY DEF AccessTypeInv, TypeOK, RequestTypes, UserTypes, ConsoleTypes, HistoryTypes,
           UserOrNone, RequestOrNone
  <1>r. ASSUME UNCHANGED <<requestVars, requestWorker>> PROVE RequestTypes' /\ RequestsStay'
    BY <1>t, <1>r DEF requestVars, requestWorker, RequestTypes, RequestsStay
  <1>u. ASSUME UNCHANGED userVars PROVE UserTypes'
    BY <1>t, <1>u DEF userVars, UserTypes
  <1>c. ASSUME UNCHANGED <<consoleWorker, configVars>> PROVE ConsoleTypes'
    BY <1>t, <1>c DEF consoleWorker, configVars, ConsoleTypes
  <1>h. ASSUME UNCHANGED historyVars PROVE HistoryTypes'
    BY <1>t, <1>h DEF historyVars, HistoryTypes
  <1>s. seen.subject \in Subjects /\ UserName \in Names
    BY <1>t, RequestFields, AccessAssumption DEF RequestTypes, UserName
  <1>1. ASSUME NEW r \in Requests, ReconcileRequest(r)
        PROVE  RequestTypes' /\ RequestsStay' /\ UNCHANGED <<userVars, consoleWorker, configVars,
                                                            historyVars>>
    <2>1. RequestTypes'
      BY <1>t, <1>1 DEF ReconcileRequest, RequestTypes, requestVars
    <2>2. RequestsStay'
      BY <1>t, <1>1 DEF ReconcileRequest, RequestsStay, requestVars
    <2> QED BY <1>1, <2>1, <2>2 DEF ReconcileRequest
  <1>2. CASE ReadUser
    <2>1. RequestTypes' /\ RequestsStay'
      BY <1>t, <1>2 DEF ReadUser, RequestTypes, RequestsStay, requestVars
    <2> QED BY <1>2, <2>1, <1>u, <1>c, <1>h DEF ReadUser
  <1>3. CASE CreateUser
    <2>1. CASE users[UserName] = NoUser
      <3> DEFINE u == [users EXCEPT ![UserName] = [subject |-> seen.subject, level |-> seen.level]]
      <3>1. seen.level \in Levels
        BY <1>t, <1>3, RequestFields DEF CreateUser, RequestsStay, RequestTypes
      <3>2. [subject |-> seen.subject, level |-> seen.level] \in UserOrNone
        BY <1>s, <3>1, UserFacts DEF UserOrNone
      <3>3. u \in [Names -> UserOrNone]
        BY <1>t, <3>2 DEF UserTypes
      <3>4. WriteUsers(u) /\ UNCHANGED <<userCache, broken>>
        BY <1>3, <2>1 DEF CreateUser
      <3> HIDE DEF u
      <3>5. UserTypes'
        BY <1>t, <3>3, <3>4, WriteUsersFacts
      <3>6. RequestTypes' /\ RequestsStay'
        BY <1>t, <1>3, <2>1 DEF CreateUser, RequestTypes, RequestsStay
      <3> QED BY <1>3, <1>c, <1>h, <3>5, <3>6 DEF CreateUser
    <2>2. CASE users[UserName] # NoUser
      <3>1. /\ EndReconcile(TRUE, seen.ready)
            /\ UNCHANGED <<requestCache, requestQueue, userVars, consoleWorker, configVars,
                           historyVars>>
        BY <1>3, <2>2 DEF CreateUser, userVars
      <3>2. seen.ready \in {"Unknown", "True", "False"}
        BY <1>t, RequestFields DEF RequestTypes
      <3>3. RequestTypes' /\ RequestsStay'
        BY <1>t, <3>1, <3>2, EndReconcileFacts
      <3> QED BY <1>u, <1>c, <1>h, <3>1, <3>3
    <2> QED BY <2>1, <2>2
  <1>4. CASE PatchUser
    <2>1. CASE users[UserName] = NoUser
      <3>1. /\ requestStep' = "idle" /\ current' = {} /\ seen' = NoRequest
            /\ requestQueue' = requestQueue \cup current
            /\ UNCHANGED <<requestVars, userVars, consoleWorker, configVars, historyVars>>
        BY <1>4, <2>1 DEF PatchUser, userVars
      <3>2. RequestTypes' /\ RequestsStay'
        BY <1>t, <3>1 DEF requestVars, RequestTypes, RequestsStay, RequestOrNone
      <3> QED BY <1>u, <1>c, <1>h, <3>1, <3>2
    <2>2. CASE users[UserName] # NoUser
      <3> DEFINE u == [users EXCEPT ![UserName].level = seen.level]
      <3>1. seen.level \in Levels
        BY <1>t, <1>4, RequestFields DEF PatchUser, RequestsStay, RequestTypes
      <3>2. users[UserName] \in User
        BY <1>t, <1>s, <2>2 DEF UserTypes, UserOrNone
      <3>3. [users[UserName] EXCEPT !.level = seen.level] \in UserOrNone
        BY <3>1, <3>2 DEF User, UserOrNone
      <3>4. u \in [Names -> UserOrNone]
        BY <1>t, <1>s, <3>3 DEF UserTypes
      <3>5. WriteUsers(u) /\ UNCHANGED <<userCache, broken>>
        BY <1>4, <2>2 DEF PatchUser
      <3> HIDE DEF u
      <3>6. UserTypes'
        BY <1>t, <3>4, <3>5, WriteUsersFacts
      <3>7. RequestTypes' /\ RequestsStay'
        BY <1>t, <1>4, <2>2 DEF PatchUser, requestVars, RequestTypes, RequestsStay
      <3> QED BY <1>4, <1>c, <1>h, <3>6, <3>7 DEF PatchUser
    <2> QED BY <2>1, <2>2
  <1>5. CASE UpdateRequestStatus
    <2>1. PICK decided \in BOOLEAN, ready \in {"Unknown", "True", "False"} :
             EndReconcile(decided, ready)
      BY <1>5 DEF UpdateRequestStatus
    <2>2. UNCHANGED <<requestCache, requestQueue, userVars, consoleWorker, configVars, historyVars>>
      BY <1>5 DEF UpdateRequestStatus
    <2>3. RequestTypes' /\ RequestsStay'
      BY <1>t, <2>1, <2>2, EndReconcileFacts
    <2> QED BY <1>u, <1>c, <1>h, <2>2, <2>3
  <1>6. CASE ReconcileConsole
    <2>1. PICK u \in [Names -> UserOrNone] : WriteUsers(u)
      <3>1. /\ users \in [Names -> UserOrNone]
            /\ [users EXCEPT ![Bootstrap] = AdminUser] \in [Names -> UserOrNone]
        BY <1>t, AccessAssumption, UserFacts DEF UserTypes, UserOrNone
      <3> QED BY <1>6, <3>1 DEF ReconcileConsole, ReconcileBootstrapAdmin
    <2>2. UNCHANGED <<userCache, broken, requestVars, requestWorker, configVars, historyVars>>
      BY <1>6 DEF ReconcileConsole
    <2>3. UserTypes'
      BY <1>t, <2>1, <2>2, WriteUsersFacts
    <2>4. (consoleStep' = "render" /\ consoleQueue' = FALSE)
          \/ (consoleStep' = "idle" /\ consoleQueue' = TRUE)
      BY <1>6 DEF ReconcileConsole, ReconcileBootstrapAdmin, ToRender, Retry
    <2>5. consoleQueue' \in BOOLEAN /\ consoleStep' \in {"idle", "render"}
      BY <2>4, Zenon
    <2>6. ConsoleTypes'
      BY <1>t, <2>2, <2>5 DEF ConsoleTypes, configVars
    <2> QED BY <1>r, <1>h, <2>2, <2>3, <2>6
  <1>7. CASE RenderConfiguration
    <2>1. config' \in [Keys -> Levels \cup {NoLevel}]
      <3>1. \A k \in Keys : Configuration(userCache, broken)[k] \in Levels \cup {NoLevel}
        BY <1>t, ConfigurationFacts, UserFacts DEF UserTypes
      <3>2. config' = Configuration(userCache, broken)
        BY <1>7 DEF RenderConfiguration
      <3> QED BY <3>1, <3>2 DEF Configuration
    <2>2. strangers' \subseteq Keys /\ unusable' \subseteq Names
      BY <1>t, <1>7 DEF RenderConfiguration, ConsoleTypes, UserTypes
    <2>3. proxySynced' \in [Names -> BOOLEAN]
      <3>1. PICK P, I :
               proxySynced' = [n \in Names |-> IF n \in P THEN n \in I ELSE proxySynced[n]]
        BY <1>7, Zenon DEF RenderConfiguration
      <3>2. \A n \in Names : proxySynced[n] \in BOOLEAN
        BY <1>t DEF ConsoleTypes
      <3>3. ASSUME NEW n \in Names
            PROVE  (IF n \in P THEN n \in I ELSE proxySynced[n]) \in BOOLEAN
        <4>1. CASE n \in P
          BY <4>1
        <4>2. CASE n \notin P
          BY <3>2, <4>2, Zenon
        <4> QED BY <4>1, <4>2
      <3> QED BY <3>1, <3>3, Zenon
    <2>4. consoleQueue' \in BOOLEAN
      BY <1>7 DEF RenderConfiguration
    <2>5. consoleStep' = "idle" /\ syncedCache' = syncedCache
      BY <1>7 DEF RenderConfiguration
    <2>6. ConsoleTypes'
      BY <1>t, <2>1, <2>2, <2>3, <2>4, <2>5 DEF ConsoleTypes
    <2>7. userEvents' \subseteq Names
      BY <1>t, <1>7 DEF RenderConfiguration, UserTypes
    <2>8. UserTypes'
      BY <1>t, <1>7, <2>7 DEF RenderConfiguration, UserTypes
    <2> QED BY <1>7, <1>r, <1>h, <2>6, <2>8 DEF RenderConfiguration
  <1>8. ASSUME NEW r \in Requests, DeliverRequest(r)
        PROVE  RequestTypes' /\ UserTypes' /\ ConsoleTypes' /\ HistoryTypes' /\ RequestsStay'
    <2>1. RequestTypes' /\ RequestsStay'
      BY <1>t, <1>8 DEF DeliverRequest, RequestTypes, RequestsStay
    <2> QED BY <1>8, <1>u, <1>c, <1>h, <2>1 DEF DeliverRequest
  <1>9. ASSUME NEW n \in Names, DeliverUser(n)
        PROVE  RequestTypes' /\ UserTypes' /\ ConsoleTypes' /\ HistoryTypes' /\ RequestsStay'
    <2>1. UserTypes'
      BY <1>t, <1>9 DEF DeliverUser, UserTypes
    <2>2. consoleQueue' = TRUE /\ syncedCache' = [syncedCache EXCEPT ![n] = proxySynced[n]]
          /\ UNCHANGED <<consoleStep, config, unusable, strangers, proxySynced>>
      BY <1>9, Zenon DEF DeliverUser
    <2>3. ConsoleTypes'
      BY <1>t, <2>2 DEF ConsoleTypes
    <2> QED BY <1>9, <1>r, <1>h, <2>1, <2>3 DEF DeliverUser
  <1>10. ASSUME NEW r \in Requests, NEW s \in Subjects, CreateAccessRequest(r, s)
         PROVE  RequestTypes' /\ UserTypes' /\ ConsoleTypes' /\ HistoryTypes' /\ RequestsStay'
    <2> DEFINE d == [NoRequest EXCEPT !.subject = s, !.state = "pending"]
               q == [requests EXCEPT ![r] = d]
    <2>1. d \in RequestOrNone /\ d # NoRequest
      BY RequestFacts DEF RequestOrNone
    <2>2. WriteRequests(q) /\ UNCHANGED <<requestCache, requestWorker>>
      BY <1>10 DEF CreateAccessRequest
    <2> HIDE DEF d
    <2>3. /\ q \in [Requests -> RequestOrNone]
          /\ \A p \in Requests : requests[p] # NoRequest => q[p] # NoRequest
      BY <1>t, <2>1 DEF RequestTypes
    <2> HIDE DEF q
    <2>4. RequestTypes' /\ RequestsStay'
      BY <1>t, <2>2, <2>3, WriteRequestsFacts DEF RequestTypes, RequestsStay, requestWorker
    <2> QED BY <1>10, <1>u, <1>c, <1>h, <2>4 DEF CreateAccessRequest
  <1>11. ASSUME NEW r \in Requests, NEW state \in {"approved", "denied"},
                NEW level \in Levels \cup {NoLevel}, Decide(r, state, level)
         PROVE  RequestTypes' /\ UserTypes' /\ ConsoleTypes' /\ HistoryTypes' /\ RequestsStay'
    <2> DEFINE d == [requests[r] EXCEPT !.state = state, !.level = level]
               q == [requests EXCEPT ![r] = d]
    <2>1. requests[r] \in Request
      BY <1>t, <1>11 DEF Decide, RequestTypes, RequestOrNone
    <2>2. d \in RequestOrNone /\ d # NoRequest
      <3>1. d \in Request
        BY <2>1 DEF Request
      <3> HIDE DEF d
      <3> QED BY <3>1, RequestFacts
    <2>3. WriteRequests(q) /\ UNCHANGED <<requestCache, requestWorker>>
      BY <1>11 DEF Decide
    <2> HIDE DEF d
    <2>4. /\ q \in [Requests -> RequestOrNone]
          /\ \A p \in Requests : requests[p] # NoRequest => q[p] # NoRequest
      BY <1>t, <2>2 DEF RequestTypes
    <2> HIDE DEF q
    <2>5. RequestTypes' /\ RequestsStay'
      BY <1>t, <2>3, <2>4, WriteRequestsFacts DEF RequestTypes, RequestsStay, requestWorker
    <2>6. Lower[requests[r].subject] \in Keys
      BY <2>1, RequestFields, AccessAssumption DEF RequestOrNone
    <2>7. HistoryTypes'
      BY <1>t, <1>11, <2>6, AccessAssumption DEF Decide, HistoryTypes
    <2> QED BY <1>11, <1>u, <1>c, <2>5, <2>7 DEF Decide
  <1>12. ASSUME NEW n \in Names, NEW u \in User, EditUser(n, u)
         PROVE  RequestTypes' /\ UserTypes' /\ ConsoleTypes' /\ HistoryTypes' /\ RequestsStay'
    <2>1. [users EXCEPT ![n] = u] \in [Names -> UserOrNone]
      BY <1>t DEF UserTypes, UserOrNone
    <2>2. UserTypes'
      BY <1>t, <1>12, <2>1, WriteUsersFacts DEF EditUser
    <2>3. <<Lower[u.subject], u.level>> \in Keys \X Levels
      BY UserFacts, AccessAssumption DEF UserOrNone
    <2>4. moved' \subseteq Keys \X Keys
      <3>1. \A s \in Subjects : Lower[s] \in Keys
        BY AccessAssumption
      <3>2. Lower[u.subject] \in Keys
        BY <2>3
      <3>3. \A p \in moved' : p \in moved \/ \E s \in Subjects : p = <<Lower[s], Lower[u.subject]>>
        BY <1>12 DEF EditUser
      <3> QED BY <1>t, <3>1, <3>2, <3>3 DEF HistoryTypes
    <2>5. HistoryTypes'
      BY <1>t, <1>12, <2>3, <2>4, AccessAssumption DEF EditUser, HistoryTypes
    <2> QED BY <1>12, <1>r, <1>c, <2>2, <2>5 DEF EditUser
  <1>13. ASSUME NEW n \in Names, DeleteUser(n)
         PROVE  RequestTypes' /\ UserTypes' /\ ConsoleTypes' /\ HistoryTypes' /\ RequestsStay'
    <2>1. [users EXCEPT ![n] = NoUser] \in [Names -> UserOrNone]
      BY <1>t DEF UserTypes, UserOrNone
    <2>2. UserTypes'
      BY <1>t, <1>13, <2>1, WriteUsersFacts DEF DeleteUser
    <2>3. ConsoleTypes'
      BY <1>t, <1>13 DEF DeleteUser, ConsoleTypes, consoleWorker
    <2>4. HistoryTypes'
      BY <1>t, <1>13, AccessAssumption DEF DeleteUser, HistoryTypes
    <2> QED BY <1>13, <1>r, <2>2, <2>3, <2>4 DEF DeleteUser
  <1>p. ASSUME NEW n \in Names, ChangePasswordSecret(n)
         PROVE  RequestTypes' /\ UserTypes' /\ ConsoleTypes' /\ HistoryTypes' /\ RequestsStay'
    <2>1. UserTypes'
      BY <1>t, <1>p DEF ChangePasswordSecret, UserTypes
    <2>2. HistoryTypes'
      BY <1>t, <1>p, AccessAssumption DEF ChangePasswordSecret, HistoryTypes
    <2> QED BY <1>p, <1>r, <1>c, <2>1, <2>2 DEF ChangePasswordSecret
  <1>14. CASE RestartManager
    <2>1. RequestTypes' /\ RequestsStay'
      BY <1>t, <1>14 DEF RestartManager, RequestTypes, RequestsStay, RequestOrNone
    <2>2. UserTypes'
      BY <1>t, <1>14 DEF RestartManager, UserTypes
    <2>3. /\ consoleQueue' = TRUE /\ consoleStep' = "idle" /\ syncedCache' = proxySynced
          /\ UNCHANGED <<config, unusable, strangers, proxySynced>>
      BY <1>14, Zenon DEF RestartManager
    <2>4. ConsoleTypes'
      BY <1>t, <2>3 DEF ConsoleTypes
    <2>5. HistoryTypes'
      BY <1>t, <1>14, AccessAssumption DEF RestartManager, HistoryTypes
    <2> QED BY <2>1, <2>2, <2>4, <2>5
  <1>15. CASE UNCHANGED vars
    BY <1>15, <1>r, <1>u, <1>c, <1>h DEF vars
  <1>16. CASE RequestController
    BY <1>16, <1>1, <1>2, <1>3, <1>4, <1>5, <1>u, <1>c, <1>h DEF RequestController
  <1>17. CASE People
    BY <1>17, <1>10, <1>11, <1>12, <1>13, <1>p DEF People
  <1> QED
    BY <1>6, <1>7, <1>8, <1>9, <1>14, <1>15, <1>16, <1>17
    DEF Next, ConsoleController, RequestInformer, UserInformer

\* Access.TypeOK
THEOREM AccessTypes == Spec => []TypeOK
  <1>1. AccessTypeInv => TypeOK
    BY DEF AccessTypeInv
  <1> QED BY AccessTypeInit, AccessTypeNext, <1>1, PTL DEF Spec

-----------------------------------------------------------------------------
(***************************************************************************)
(* Granted levels.                                                          *)
(***************************************************************************)
LEMMA GrantedInit == Init => GrantedInv
  <1> SUFFICES ASSUME Init PROVE GrantedInv
    OBVIOUS
  <1>1. \A n \in Names : users[n] = NoUser /\ userCache[n] = NoUser
    BY DEF Init
  <1>2. \A r \in Requests : requests[r] = NoRequest /\ requestCache[r] = NoRequest
    BY DEF Init
  <1>3. NamesAreOwn
    BY <1>1, AccessAssumption DEF NamesAreOwn
  <1>4. seen = NoRequest /\ <<Lower[Admin], "dba">> \in grants
    BY DEF Init
  <1>5. OnlyGrantedLevels
    BY DEF Init, OnlyGrantedLevels
  <1> QED BY <1>1, <1>2, <1>3, <1>4, <1>5, RequestFacts
          DEF GrantedInv, UserGranted, RequestGranted

\* What was granted stays granted.
LEMMA GrantsGrow ==
    ASSUME [Next]_vars
    PROVE  grants \subseteq grants' /\ moved \subseteq moved'
  <1>1. CASE UNCHANGED <<grants, moved>>
    BY <1>1
  <1>2. ASSUME NEW r \in Requests, NEW state \in {"approved", "denied"},
               NEW level \in Levels \cup {NoLevel}, Decide(r, state, level)
        PROVE  grants \subseteq grants' /\ moved \subseteq moved'
    BY <1>2 DEF Decide
  <1>3. ASSUME NEW n \in Names, NEW u \in User, EditUser(n, u)
        PROVE  grants \subseteq grants' /\ moved \subseteq moved'
    BY <1>3 DEF EditUser
  <1>4. CASE RequestController
    BY <1>1, <1>4 DEF RequestController, ReconcileRequest, ReadUser, CreateUser, PatchUser,
       UpdateRequestStatus, historyVars
  <1>5. CASE \/ ConsoleController \/ RequestInformer \/ UserInformer \/ RestartManager
             \/ UNCHANGED vars
    BY <1>1, <1>5 DEF ConsoleController, ReconcileConsole, RenderConfiguration, RequestInformer,
       DeliverRequest, UserInformer, DeliverUser, RestartManager, historyVars, vars
  <1>6. CASE People
    BY <1>1, <1>2, <1>3, <1>6 DEF People, CreateAccessRequest, DeleteUser, ChangePasswordSecret,
       historyVars
  <1> QED BY <1>4, <1>5, <1>6 DEF Next

\* The users after a step that writes one of them.
LEMMA GrantedWrite ==
    ASSUME UserTypes, GrantedInv, grants \subseteq grants', moved \subseteq moved',
           NEW n \in Names, NEW v,
           WriteUsers([users EXCEPT ![n] = v]),
           v # NoUser => Given(Lower[v.subject], v.level)',
           \A s \in Subjects : UserNameFor[s] = n /\ v # NoUser =>
               v.subject = s \/ <<Lower[s], Lower[v.subject]>> \in moved'
    PROVE  NamesAreOwn' /\ \A m \in Names : UserGranted(users[m])'
  <1>1. users' = [users EXCEPT ![n] = v] /\ users \in [Names -> UserOrNone]
    BY DEF WriteUsers, UserTypes
  <1>2. \A m \in Names : users'[m] = IF m = n THEN v ELSE users[m]
    BY <1>1
  <1>3. NamesAreOwn'
    BY <1>2, AccessAssumption DEF GrantedInv, NamesAreOwn
  <1>4. \A m \in Names : UserGranted(users[m])'
    BY <1>2 DEF GrantedInv, UserGranted, Given
  <1> QED BY <1>3, <1>4

\* Every step keeps levels granted, wherever they are on their way.
LEMMA GrantedNext == AccessTypeInv /\ GrantedInv /\ [Next]_vars => GrantedInv'
  <1> SUFFICES ASSUME AccessTypeInv, GrantedInv, [Next]_vars PROVE GrantedInv'
    OBVIOUS
  <1>t. RequestTypes /\ UserTypes /\ RequestsStay
    BY TypesSplit DEF AccessTypeInv
  <1>g. grants \subseteq grants' /\ moved \subseteq moved' /\ <<Lower[Admin], "dba">> \in grants'
    BY GrantsGrow DEF GrantedInv
  <1>k. \A s \in Subjects : Lower[s] \in Keys
    BY AccessAssumption
  <1>a. ASSUME NEW k \in Keys, NEW l, <<k, l>> \in grants' PROVE Given(k, l)'
    BY <1>a DEF Given
  <1>b. ASSUME NEW k, NEW l, Given(k, l) PROVE Given(k, l)'
    BY <1>b, <1>g DEF Given
  <1>u. ASSUME UNCHANGED users PROVE NamesAreOwn' /\ \A n \in Names : UserGranted(users[n])'
    BY <1>g, <1>b, <1>u DEF GrantedInv, NamesAreOwn, UserGranted
  <1>v. ASSUME UNCHANGED userCache PROVE \A n \in Names : UserGranted(userCache[n])'
    BY <1>b, <1>v DEF GrantedInv, UserGranted
  <1>r. ASSUME \A r \in Requests : /\ requests'[r].subject = requests[r].subject
                                   /\ requests'[r].state = requests[r].state
                                   /\ requests'[r].level = requests[r].level
        PROVE  \A r \in Requests : RequestGranted(requests[r])'
    BY <1>g, <1>r DEF GrantedInv, RequestGranted, GrantsLevel
  <1>q. ASSUME UNCHANGED requestCache PROVE \A r \in Requests : RequestGranted(requestCache[r])'
    BY <1>g, <1>q DEF GrantedInv, RequestGranted
  <1>s. ASSUME seen' = seen \/ seen' = NoRequest PROVE RequestGranted(seen)'
    BY <1>g, <1>s, RequestFacts DEF GrantedInv, RequestGranted
  <1>c. ASSUME UNCHANGED config PROVE OnlyGrantedLevels'
    BY <1>b, <1>c DEF GrantedInv, OnlyGrantedLevels
  <1>n. UserName \in Names /\ seen.subject \in Subjects
        /\ \A s \in Subjects : UserNameFor[s] = UserName => s = seen.subject
    BY <1>t, RequestFields, AccessAssumption DEF RequestTypes, UserName
  <1>1. ASSUME NEW r \in Requests, ReconcileRequest(r) PROVE GrantedInv'
    <2>1. seen' = requestCache[r] /\ UNCHANGED <<requests, requestCache, users, userCache, config>>
      BY <1>1 DEF ReconcileRequest, requestVars, userVars, configVars
    <2>2. RequestGranted(seen)'
      BY <1>g, <2>1 DEF GrantedInv, RequestGranted
    <2> QED BY <1>g, <1>u, <1>v, <1>r, <1>q, <1>c, <2>1, <2>2 DEF GrantedInv
  <1>2. CASE ReadUser
    BY <1>2, <1>g, <1>u, <1>v, <1>r, <1>q, <1>s, <1>c
    DEF ReadUser, GrantedInv, requestVars, userVars, configVars
  <1>3. CASE CreateUser /\ users[UserName] = NoUser
    <2> DEFINE v == [subject |-> seen.subject, level |-> seen.level]
    <2>1. WriteUsers([users EXCEPT ![UserName] = v])
          /\ UNCHANGED <<requests, requestCache, seen, userCache, config>>
      BY <1>3 DEF CreateUser, configVars
    <2>2. <<Lower[v.subject], v.level>> \in grants' /\ v.subject \in Subjects
      BY <1>g, <1>n, <1>t, <1>3 DEF CreateUser, RequestsStay, GrantedInv, RequestGranted
    <2>3. \A s \in Subjects : UserNameFor[s] = UserName => v.subject = s
      BY <1>n
    <2> HIDE DEF v
    <2>4. NamesAreOwn' /\ \A m \in Names : UserGranted(users[m])'
      BY <1>t, <1>a, <1>g, <1>k, <1>n, <2>1, <2>2, <2>3, GrantedWrite
    <2> QED BY <1>g, <1>v, <1>r, <1>q, <1>s, <1>c, <2>1, <2>4 DEF GrantedInv
  <1>4. CASE UpdateRequestStatus \/ (CreateUser /\ users[UserName] # NoUser)
    <2>1. PICK decided \in BOOLEAN, ready \in {"Unknown", "True", "False"} :
             EndReconcile(decided, ready)
      <3>1. seen.ready \in {"Unknown", "True", "False"}
        BY <1>t, RequestFields DEF RequestTypes
      <3> QED BY <1>4, <3>1 DEF UpdateRequestStatus, CreateUser
    <2>2. UNCHANGED <<requestCache, requestQueue, users, userCache, config>>
      BY <1>4 DEF UpdateRequestStatus, CreateUser, userVars, configVars
    <2>3. \A r \in Requests : /\ requests'[r].subject = requests[r].subject
                              /\ requests'[r].state = requests[r].state
                              /\ requests'[r].level = requests[r].level
      BY <1>t, <2>1, <2>2, EndReconcileFacts
    <2>4. seen' = NoRequest
      BY <2>1 DEF EndReconcile
    <2> QED BY <1>g, <1>u, <1>v, <1>r, <1>q, <1>s, <1>c, <2>2, <2>3, <2>4 DEF GrantedInv
  <1>5. CASE PatchUser /\ users[UserName] # NoUser
    <2>0. PICK v : v = [users[UserName] EXCEPT !.level = seen.level]
      OBVIOUS
    <2>1. WriteUsers([users EXCEPT ![UserName] = v])
          /\ UNCHANGED <<requests, requestCache, seen, userCache, config>>
      BY <1>5, <2>0 DEF PatchUser, requestVars, configVars
    <2>2. users[UserName] \in User /\ users[UserName].subject \in Subjects
      BY <1>t, <1>n, <1>5, UserFacts DEF UserTypes, UserOrNone
    <2>3. \/ users[UserName].subject = seen.subject
          \/ <<Lower[seen.subject], Lower[users[UserName].subject]>> \in moved
      BY <1>n, <1>5 DEF GrantedInv, NamesAreOwn, UserName
    <2>4. v.subject = users[UserName].subject /\ v.level = seen.level
      BY <2>0, <2>2 DEF User
    <2>5. <<Lower[seen.subject], v.level>> \in grants'
      BY <1>g, <1>t, <1>5, <2>4 DEF PatchUser, RequestsStay, GrantedInv, RequestGranted
    <2>6. v.subject = seen.subject \/ <<Lower[seen.subject], Lower[v.subject]>> \in moved'
      BY <1>g, <2>3, <2>4
    <2>7. Given(Lower[v.subject], v.level)'
      BY <1>k, <1>n, <2>5, <2>6 DEF Given
    <2>8. NamesAreOwn' /\ \A m \in Names : UserGranted(users[m])'
      BY <1>t, <1>g, <1>n, <2>1, <2>6, <2>7, GrantedWrite
    <2> QED BY <1>g, <1>v, <1>r, <1>q, <1>s, <1>c, <2>1, <2>8 DEF GrantedInv
  <1>6. CASE PatchUser /\ users[UserName] = NoUser
    <2>1. seen' = NoRequest /\ UNCHANGED <<requests, requestCache, users, userCache, config>>
      BY <1>6 DEF PatchUser, requestVars, configVars
    <2> QED BY <1>g, <1>u, <1>v, <1>r, <1>q, <1>s, <1>c, <2>1 DEF GrantedInv
  <1>7. CASE ReconcileConsole
    <2>1. UNCHANGED <<requests, requestCache, seen, userCache, config>>
      BY <1>7 DEF ReconcileConsole, requestVars, requestWorker, configVars
    <2>2. WriteUsers(users) \/ WriteUsers([users EXCEPT ![Bootstrap] = AdminUser])
      BY <1>7 DEF ReconcileConsole, ReconcileBootstrapAdmin
    <2>3. NamesAreOwn' /\ \A m \in Names : UserGranted(users[m])'
      <3>1. CASE WriteUsers(users)
        BY <1>u, <3>1 DEF WriteUsers
      <3>2. CASE WriteUsers([users EXCEPT ![Bootstrap] = AdminUser])
        <4>1. Bootstrap \in Names /\ \A s \in Subjects : UserNameFor[s] # Bootstrap
          BY AccessAssumption
        <4>2. Given(Lower[AdminUser.subject], AdminUser.level)'
          BY <1>a, <1>g, <1>k, UserFacts, AccessAssumption
        <4> QED BY <1>t, <1>g, <3>2, <4>1, <4>2, GrantedWrite
      <3> QED BY <2>2, <3>1, <3>2
    <2> QED BY <1>g, <1>v, <1>r, <1>q, <1>s, <1>c, <2>1, <2>3 DEF GrantedInv
  <1>8. CASE RenderConfiguration
    <2>1. config' = Configuration(userCache, broken)
          /\ UNCHANGED <<requests, requestCache, seen, users, userCache>>
      BY <1>8 DEF RenderConfiguration, requestVars, requestWorker
    <2>2. ASSUME NEW k \in Keys, config'[k] # NoLevel PROVE Given(k, config[k])'
      <3>1. PICK n \in Names : /\ userCache[n] # NoUser /\ Lower[userCache[n].subject] = k
                               /\ config'[k] = userCache[n].level
        BY <2>1, <2>2, ConfigurationFacts
      <3>2. Given(k, userCache[n].level)
        BY <3>1 DEF GrantedInv, UserGranted
      <3> QED BY <1>b, <3>1, <3>2 DEF Given
    <2>3. OnlyGrantedLevels'
      BY <2>2 DEF OnlyGrantedLevels
    <2> QED BY <1>g, <1>u, <1>v, <1>r, <1>q, <1>s, <2>1, <2>3 DEF GrantedInv
  <1>9. ASSUME NEW r \in Requests, DeliverRequest(r) PROVE GrantedInv'
    <2>1. requestCache' = [requestCache EXCEPT ![r] = requests[r]]
          /\ UNCHANGED <<requests, seen, users, userCache, config>>
      BY <1>9 DEF DeliverRequest, userVars, configVars
    <2>2. \A q \in Requests : RequestGranted(requestCache[q])'
      BY <1>t, <1>g, <2>1 DEF RequestTypes, GrantedInv, RequestGranted
    <2> QED BY <1>g, <1>u, <1>v, <1>r, <1>s, <1>c, <2>1, <2>2 DEF GrantedInv
  <1>10. ASSUME NEW n \in Names, DeliverUser(n) PROVE GrantedInv'
    <2>1. userCache' = [userCache EXCEPT ![n] = users[n]]
          /\ UNCHANGED <<requests, requestCache, seen, users, config>>
      BY <1>10 DEF DeliverUser, requestVars, requestWorker
    <2>2. \A m \in Names : UserGranted(userCache[m])'
      BY <1>t, <1>b, <2>1 DEF UserTypes, GrantedInv, UserGranted
    <2> QED BY <1>g, <1>u, <1>r, <1>q, <1>s, <1>c, <2>1, <2>2 DEF GrantedInv
  <1>11. ASSUME NEW r \in Requests, NEW s \in Subjects, CreateAccessRequest(r, s)
         PROVE  GrantedInv'
    <2> DEFINE d == [NoRequest EXCEPT !.subject = s, !.state = "pending"]
    <2>1. requests' = [requests EXCEPT ![r] = d]
          /\ UNCHANGED <<requestCache, seen, users, userCache, config>>
      BY <1>11 DEF CreateAccessRequest, WriteRequests, userVars, requestWorker, configVars
    <2>2. ~GrantsLevel(d)
      BY RequestFacts
    <2> HIDE DEF d
    <2>3. \A q \in Requests : RequestGranted(requests[q])'
      BY <1>t, <1>g, <2>1, <2>2 DEF RequestTypes, GrantedInv, RequestGranted
    <2> QED BY <1>g, <1>u, <1>v, <1>q, <1>s, <1>c, <2>1, <2>3 DEF GrantedInv
  <1>12. ASSUME NEW r \in Requests, NEW state \in {"approved", "denied"},
                NEW level \in Levels \cup {NoLevel}, Decide(r, state, level)
         PROVE  GrantedInv'
    <2> DEFINE d == [requests[r] EXCEPT !.state = state, !.level = level]
    <2>1. requests' = [requests EXCEPT ![r] = d]
          /\ UNCHANGED <<requestCache, seen, users, userCache, config>>
      BY <1>12 DEF Decide, WriteRequests, userVars, requestWorker, configVars
    <2>2. requests[r] \in Request
      BY <1>t, <1>12 DEF Decide, RequestTypes, RequestOrNone
    <2>3. d.subject = requests[r].subject /\ d.state = state /\ d.level = level
      BY <2>2 DEF Request
    <2> HIDE DEF d
    <2>4. GrantsLevel(d) => <<Lower[d.subject], d.level>> \in grants'
      BY <1>12, <2>3 DEF Decide, GrantsLevel
    <2>5. \A q \in Requests : RequestGranted(requests[q])'
      BY <1>t, <1>g, <2>1, <2>4 DEF RequestTypes, GrantedInv, RequestGranted
    <2> QED BY <1>g, <1>u, <1>v, <1>q, <1>s, <1>c, <2>1, <2>5 DEF GrantedInv
  <1>13. ASSUME NEW n \in Names, NEW u \in User, EditUser(n, u) PROVE GrantedInv'
    <2>1. WriteUsers([users EXCEPT ![n] = u])
          /\ UNCHANGED <<requests, requestCache, seen, userCache, config>>
      BY <1>13 DEF EditUser, requestVars, requestWorker, configVars
    <2>2. Given(Lower[u.subject], u.level)'
      <3>1. u.subject \in Subjects /\ <<Lower[u.subject], u.level>> \in grants'
        BY <1>13, UserFacts DEF EditUser, UserOrNone
      <3> QED BY <1>a, <1>k, <3>1
    <2>3. ASSUME NEW s \in Subjects, UserNameFor[s] = n
          PROVE  u.subject = s \/ <<Lower[s], Lower[u.subject]>> \in moved'
      BY <1>13, <2>3 DEF EditUser
    <2>4. NamesAreOwn' /\ \A m \in Names : UserGranted(users[m])'
      BY <1>t, <1>g, <2>1, <2>2, <2>3, GrantedWrite
    <2> QED BY <1>g, <1>v, <1>r, <1>q, <1>s, <1>c, <2>1, <2>4 DEF GrantedInv
  <1>14. ASSUME NEW n \in Names, DeleteUser(n) PROVE GrantedInv'
    <2>1. WriteUsers([users EXCEPT ![n] = NoUser])
          /\ UNCHANGED <<requests, requestCache, seen, userCache, config>>
      BY <1>14 DEF DeleteUser, requestVars, requestWorker
    <2>2. NamesAreOwn' /\ \A m \in Names : UserGranted(users[m])'
      BY <1>t, <1>g, <2>1, GrantedWrite
    <2> QED BY <1>g, <1>v, <1>r, <1>q, <1>s, <1>c, <2>1, <2>2 DEF GrantedInv
  <1>15. CASE RestartManager
    <2>1. /\ requestCache' = requests /\ userCache' = users /\ seen' = NoRequest
          /\ UNCHANGED <<requests, users, config>>
      BY <1>15 DEF RestartManager
    <2>2. \A n \in Names : UserGranted(userCache[n])'
      BY <1>b, <2>1 DEF GrantedInv, UserGranted
    <2>3. \A r \in Requests : RequestGranted(requestCache[r])'
      BY <1>g, <2>1 DEF GrantedInv, RequestGranted
    <2> QED BY <1>g, <1>u, <1>r, <1>s, <1>c, <2>1, <2>2, <2>3 DEF GrantedInv
  <1>16. CASE UNCHANGED vars \/ \E n \in Names : ChangePasswordSecret(n)
    BY <1>16, <1>g, <1>u, <1>v, <1>r, <1>q, <1>s, <1>c
    DEF vars, ChangePasswordSecret, GrantedInv, requestVars, userVars, configVars, requestWorker
  <1>17. CASE RequestController
    BY <1>17, <1>1, <1>2, <1>3, <1>4, <1>5, <1>6 DEF RequestController
  <1>18. CASE People
    BY <1>18, <1>11, <1>12, <1>13, <1>14, <1>16 DEF People
  <1> QED
    BY <1>7, <1>8, <1>9, <1>10, <1>15, <1>16, <1>17, <1>18
    DEF Next, ConsoleController, RequestInformer, UserInformer

\* Access.OnlyGrantedLevels: no order of decisions, edits, deliveries and
\* reconciles renders an identity at a level nobody gave it, except one that
\* was put by hand under the name derived for another, at that other's level.
THEOREM LevelsAreGranted == Spec => []OnlyGrantedLevels
  <1>1. GrantedInv => OnlyGrantedLevels
    BY DEF GrantedInv
  <1> QED BY AccessTypeInit, AccessTypeNext, GrantedInit, GrantedNext, <1>1, PTL DEF Spec

-----------------------------------------------------------------------------
(***************************************************************************)
(* What a request says of its user.                                         *)
(***************************************************************************)

\* A copy of a request is of the identity of that request.
SameIdentity(q, r) ==
    q # NoRequest => requests[r] # NoRequest /\ requests[r].subject = q.subject

CopiesAgree ==
    /\ \A r \in Requests : SameIdentity(requestCache[r], r)
    /\ \A r \in current : SameIdentity(seen, r)

HasUser(s) == users[UserNameFor[s]] # NoUser

\* A request with UserReady has a user.
ReadyHasUser == \A r \in Requests : requests[r].ready = "True" => HasUser(requests[r].subject)

\* The reconcile of an approved request gets to the status by way of the user.
StatusHasUser == requestStep = "status" /\ GrantsLevel(seen) => HasUser(seen.subject)

ReadyIsTrue == edits = 0 => ReadyHasUser /\ StatusHasUser

\* A manager that has seen nothing has copies of nothing.
LEMMA CopiesInit == Init => CopiesAgree
  BY DEF Init, CopiesAgree, SameIdentity

\* Requests that exist stay, with their identity: what a step may do with the
\* copies of them.
LEMMA CopiesStep ==
    ASSUME RequestTypes, CopiesAgree,
           \A r \in Requests : requests[r] # NoRequest =>
               requests'[r] # NoRequest /\ requests'[r].subject = requests[r].subject,
           \A r \in Requests : requestCache'[r] \in {requestCache[r], requests[r]},
           \/ seen' = seen /\ current' = current
           \/ seen' = NoRequest
           \/ \E r \in Requests : seen' = requestCache[r] /\ current' = {r}
    PROVE  CopiesAgree'
  <1>1. \A r \in Requests : SameIdentity(requestCache[r], r)'
    BY DEF CopiesAgree, SameIdentity
  <1>2. CASE seen' = seen /\ current' = current
    <2>1. \A r \in current' : SameIdentity(seen, r)'
      BY <1>2 DEF CopiesAgree, SameIdentity, RequestTypes
    <2> QED BY <1>1, <2>1 DEF CopiesAgree
  <1>3. CASE seen' = NoRequest
    BY <1>1, <1>3 DEF CopiesAgree, SameIdentity
  <1>4. ASSUME NEW r \in Requests, seen' = requestCache[r], current' = {r}
        PROVE  CopiesAgree'
    <2>1. \A q \in current' : SameIdentity(seen, q)'
      BY <1>4 DEF CopiesAgree, SameIdentity
    <2> QED BY <1>1, <2>1 DEF CopiesAgree
  <1> QED BY <1>2, <1>3, <1>4

\* EndReconcile, for the request in work and for the others.
LEMMA EndReconcileReady ==
    ASSUME RequestTypes, RequestsStay, NEW decided \in BOOLEAN,
           NEW ready \in {"Unknown", "True", "False"}, EndReconcile(decided, ready)
    PROVE  \A r \in Requests : \/ requests'[r].ready = requests[r].ready
                               \/ r \in current /\ requests'[r].ready = ready
  <1> SUFFICES ASSUME NEW r \in Requests
               PROVE  \/ requests'[r].ready = requests[r].ready
                      \/ r \in current /\ requests'[r].ready = ready
    OBVIOUS
  <1>1. requests'[r] = IF r \in current THEN Conditions(requests[r], decided, ready)
                       ELSE requests[r]
    BY DEF EndReconcile, WriteRequests
  <1>2. CASE r \in current
    <2>1. requests[r] \in Request
      BY <1>2 DEF RequestTypes, RequestsStay, RequestOrNone
    <2>2. requests'[r] = requests[r] \/ requests'[r].ready = ready
      BY <1>1, <1>2, <2>1 DEF Conditions, Request
    <2> QED BY <1>2, <2>2
  <1> QED BY <1>1, <1>2

\* Without edits by hand, users that exist stay.
LEMMA UsersStay ==
    ASSUME AccessTypeInv, [Next]_vars, edits' = 0
    PROVE  /\ edits = 0
           /\ \A n \in Names : users[n] # NoUser => users'[n] # NoUser
  <1>t. /\ edits \in Nat /\ users \in [Names -> UserOrNone] /\ seen \in RequestOrNone
        /\ requestStep \in {"read", "create", "patch"} => GrantsLevel(seen)
    BY TypesSplit, AccessAssumption
    DEF AccessTypeInv, HistoryTypes, UserTypes, RequestTypes, RequestsStay
  <1>w. ASSUME NEW n \in Names, NEW v, v # NoUser, WriteUsers([users EXCEPT ![n] = v])
        PROVE  \A m \in Names : users[m] # NoUser => users'[m] # NoUser
    BY <1>t, <1>w DEF WriteUsers
  <1>1. CASE UNCHANGED <<users, edits>>
    BY <1>1
  <1>2. CASE CreateUser \/ PatchUser
    <2>1. edits' = edits
      BY <1>2 DEF CreateUser, PatchUser, historyVars
    <2>2. seen.level \in Levels /\ UserName \in Names /\ seen.subject \in Subjects
      BY <1>t, <1>2, RequestFields, AccessAssumption DEF CreateUser, PatchUser, UserName
    <2>3. CASE UNCHANGED users
      BY <2>1, <2>3
    <2>4. CASE CreateUser /\ users[UserName] = NoUser
      <3> DEFINE v == [subject |-> seen.subject, level |-> seen.level]
      <3>1. v # NoUser
        BY <2>2, UserFacts
      <3>2. WriteUsers([users EXCEPT ![UserName] = v])
        BY <2>4 DEF CreateUser
      <3> HIDE DEF v
      <3> QED BY <1>w, <2>1, <2>2, <3>1, <3>2
    <2>5. CASE PatchUser /\ users[UserName] # NoUser
      <3> DEFINE v == [users[UserName] EXCEPT !.level = seen.level]
      <3>1. users[UserName] \in User
        BY <1>t, <2>2, <2>5 DEF UserOrNone
      <3>2. v.level = seen.level
        BY <3>1 DEF User
      <3>3. v # NoUser
        BY <2>2, <3>2, UserFacts
      <3>4. WriteUsers([users EXCEPT ![UserName] = v])
        BY <2>5 DEF PatchUser
      <3> HIDE DEF v
      <3> QED BY <1>w, <2>1, <2>2, <3>3, <3>4
    <2> QED BY <1>2, <2>3, <2>4, <2>5 DEF CreateUser, PatchUser
  <1>3. CASE ReconcileConsole
    <2>1. edits' = edits
      BY <1>3 DEF ReconcileConsole, historyVars
    <2>2. WriteUsers(users) \/ WriteUsers([users EXCEPT ![Bootstrap] = AdminUser])
      BY <1>3 DEF ReconcileConsole, ReconcileBootstrapAdmin
    <2>3. Bootstrap \in Names /\ AdminUser # NoUser
      BY AccessAssumption, UserFacts
    <2>4. CASE WriteUsers(users)
      BY <2>1, <2>4 DEF WriteUsers
    <2>5. CASE WriteUsers([users EXCEPT ![Bootstrap] = AdminUser])
      BY <1>w, <2>1, <2>3, <2>5
    <2> QED BY <2>2, <2>4, <2>5
  <1>4. CASE RequestController
    BY <1>1, <1>2, <1>4 DEF RequestController, ReconcileRequest, ReadUser,
       UpdateRequestStatus, userVars, historyVars
  <1>5. CASE \/ RenderConfiguration \/ RequestInformer \/ UserInformer \/ RestartManager
             \/ UNCHANGED vars
    BY <1>1, <1>5 DEF RenderConfiguration, RequestInformer, DeliverRequest, UserInformer,
       DeliverUser, RestartManager, userVars, historyVars, vars
  <1>6. CASE People
    <2>1. CASE \E n \in Names, u \in User : EditUser(n, u)
      BY <1>t, <2>1 DEF EditUser
    <2>2. CASE \E n \in Names : DeleteUser(n)
      BY <1>t, <2>2 DEF DeleteUser
    <2>3. CASE UNCHANGED <<users, edits>>
      BY <2>3
    <2> QED BY <1>6, <2>1, <2>2, <2>3 DEF People, CreateAccessRequest, Decide,
            ChangePasswordSecret, userVars, historyVars
  <1> QED BY <1>3, <1>4, <1>5, <1>6 DEF Next, ConsoleController

\* Every step keeps the copies of the requests, and what the requests say.
LEMMA ReadyNext ==
    AccessTypeInv /\ CopiesAgree /\ ReadyIsTrue /\ [Next]_vars => CopiesAgree' /\ ReadyIsTrue'
  <1> SUFFICES ASSUME AccessTypeInv, CopiesAgree, ReadyIsTrue, [Next]_vars
               PROVE  CopiesAgree' /\ ReadyIsTrue'
    OBVIOUS
  <1>t. RequestTypes /\ UserTypes /\ RequestsStay
    BY TypesSplit DEF AccessTypeInv
  <1>n. \A s \in Subjects : UserNameFor[s] \in Names
    BY AccessAssumption
  <1>s. seen.subject \in Subjects /\ \A r \in Requests : requests[r].subject \in Subjects
    BY <1>t, RequestFields DEF RequestTypes
  <1>h. ASSUME edits' = 0, NEW s \in Subjects, HasUser(s) PROVE HasUser(s)'
    BY <1>n, <1>h, UsersStay DEF HasUser
  <1>e. edits' = 0 => edits = 0
    BY UsersStay
  \* A step that changes neither what the requests say nor the reconcile.
  <1>k. ASSUME UNCHANGED requests, seen' = seen, requestStep' = requestStep
        PROVE  ReadyIsTrue'
    BY <1>k, <1>e, <1>h, <1>s DEF ReadyIsTrue, ReadyHasUser, StatusHasUser
  \* One that ends or begins a reconcile without a word of its user.
  <1>i. ASSUME UNCHANGED requests, requestStep' # "status" \/ ~GrantsLevel(seen')
        PROVE  ReadyIsTrue'
    BY <1>i, <1>e, <1>h, <1>s DEF ReadyIsTrue, ReadyHasUser, StatusHasUser
  \* One that gets to the status with a user there.
  <1>u. ASSUME UNCHANGED requests, seen' = seen, HasUser(seen.subject)' PROVE ReadyIsTrue'
    BY <1>u, <1>e, <1>h, <1>s DEF ReadyIsTrue, ReadyHasUser, StatusHasUser, HasUser
  <1>1. ASSUME NEW r \in Requests, ReconcileRequest(r) PROVE CopiesAgree' /\ ReadyIsTrue'
    <2>1. /\ seen' = requestCache[r] /\ current' = {r} /\ UNCHANGED <<requests, requestCache>>
          /\ requestStep' = IF GrantsLevel(requestCache[r]) THEN "read" ELSE "status"
      BY <1>1 DEF ReconcileRequest, requestVars
    <2>2. CopiesAgree'
      BY <1>t, <2>1, CopiesStep
    <2>3. ReadyIsTrue'
      BY <1>i, <2>1
    <2> QED BY <2>2, <2>3
  <1>2. CASE ReadUser
    <2>1. /\ UNCHANGED <<requests, requestCache, users, seen, current>>
          /\ requestStep' = "status" => users[UserName] # NoUser
      BY <1>2 DEF ReadUser, requestVars, userVars
    <2>2. CopiesAgree'
      BY <1>t, <2>1, CopiesStep
    <2>3. ReadyIsTrue'
      <3>1. CASE requestStep' # "status"
        BY <1>i, <2>1, <3>1
      <3>2. CASE requestStep' = "status"
        BY <1>u, <2>1, <3>2 DEF HasUser, UserName
      <3> QED BY <3>1, <3>2
    <2> QED BY <2>2, <2>3
  <1>3. CASE \/ CreateUser /\ users[UserName] = NoUser
             \/ PatchUser /\ users[UserName] # NoUser
    <2>1. UNCHANGED <<requests, requestCache, seen, current>>
      BY <1>3 DEF CreateUser, PatchUser, requestVars
    <2>2. CopiesAgree'
      BY <1>t, <2>1, CopiesStep
    <2>3. HasUser(seen.subject)'
      <3>1. UserName \in Names /\ users \in [Names -> UserOrNone]
        BY <1>t, <1>n, <1>s DEF UserName, UserTypes
      <3>2. seen.level \in Levels
        BY <1>t, <1>3, RequestFields DEF CreateUser, PatchUser, RequestsStay, RequestTypes
      <3>3. users'[UserName].level = seen.level
        <4>1. CASE CreateUser /\ users[UserName] = NoUser
          <5>1. users' = [users EXCEPT ![UserName] =
                            [subject |-> seen.subject, level |-> seen.level]]
            BY <4>1 DEF CreateUser, WriteUsers
          <5> QED BY <3>1, <5>1
        <4>2. CASE PatchUser /\ users[UserName] # NoUser
          <5>1. users' = [users EXCEPT ![UserName].level = seen.level]
            BY <4>2 DEF PatchUser, WriteUsers
          <5>2. users[UserName] \in User
            BY <3>1, <4>2 DEF UserOrNone
          <5> QED BY <3>1, <5>1, <5>2 DEF User
        <4> QED BY <1>3, <4>1, <4>2
      <3>4. users'[UserName] # NoUser
        BY <3>2, <3>3, UserFacts
      <3> QED BY <2>1, <3>4 DEF HasUser, UserName
    <2> QED BY <1>u, <2>1, <2>2, <2>3
  <1>4. CASE PatchUser /\ users[UserName] = NoUser
    <2>1. /\ seen' = NoRequest /\ requestStep' = "idle"
          /\ UNCHANGED <<requests, requestCache>>
      BY <1>4 DEF PatchUser, requestVars
    <2>2. CopiesAgree'
      BY <1>t, <2>1, CopiesStep
    <2> QED BY <1>i, <2>1, <2>2
  <1>5. ASSUME NEW decided \in BOOLEAN, NEW ready \in {"Unknown", "True", "False"},
               EndReconcile(decided, ready), UNCHANGED <<requestCache, requestQueue>>,
               seen # NoRequest \/ ready # "True",
               edits = 0 /\ ready = "True" => HasUser(seen.subject)
        PROVE  CopiesAgree' /\ ReadyIsTrue'
    <2>1. seen' = NoRequest /\ requestStep' = "idle"
      BY <1>5 DEF EndReconcile
    <2>2. /\ RequestTypes'
          /\ \A r \in Requests : requests'[r].subject = requests[r].subject
          /\ \A r \in Requests : requests[r] # NoRequest => requests'[r] # NoRequest
      <3>1. /\ RequestTypes' /\ RequestsStay'
            /\ \A r \in Requests : requests'[r].subject = requests[r].subject
                                   /\ requests'[r].state = requests[r].state
        BY <1>t, <1>5, EndReconcileFacts
      <3>2. \A q \in RequestOrNone : q = NoRequest <=> q.state = "none"
        BY DEF RequestOrNone, NoRequest, Request
      <3>3. \A r \in Requests : requests[r] \in RequestOrNone /\ requests'[r] \in RequestOrNone
        BY <1>t, <3>1 DEF RequestTypes
      <3> QED BY <3>1, <3>2, <3>3
    <2>3. CopiesAgree'
      BY <1>t, <1>5, <2>1, <2>2, CopiesStep
    <2>4. ASSUME edits' = 0, NEW r \in Requests, requests'[r].ready = "True"
          PROVE  HasUser(requests[r].subject)'
      <3>1. CASE requests[r].ready = "True"
        <4>1. HasUser(requests[r].subject)
          BY <1>e, <2>4, <3>1 DEF ReadyIsTrue, ReadyHasUser
        <4>2. users'[UserNameFor[requests[r].subject]] # NoUser
          BY <1>h, <1>s, <2>4, <4>1 DEF HasUser
        <4> QED BY <2>2, <4>2 DEF HasUser
      <3>2. CASE requests[r].ready # "True"
        <4>1. r \in current /\ ready = "True"
          BY <1>t, <1>5, <2>4, <3>2, EndReconcileReady
        <4>2. requests[r].subject = seen.subject
          BY <1>5, <4>1 DEF CopiesAgree, SameIdentity
        <4>3. users'[UserNameFor[seen.subject]] # NoUser
          BY <1>5, <1>e, <1>h, <1>s, <2>4, <4>1 DEF HasUser
        <4> QED BY <2>2, <4>2, <4>3 DEF HasUser
      <3> QED BY <3>1, <3>2
    <2>5. ReadyIsTrue'
      BY <2>1, <2>4 DEF ReadyIsTrue, ReadyHasUser, StatusHasUser
    <2> QED BY <2>3, <2>5
  <1>6. CASE CreateUser /\ users[UserName] # NoUser
    <2>1. EndReconcile(TRUE, seen.ready) /\ UNCHANGED <<requestCache, requestQueue>>
      BY <1>6 DEF CreateUser
    <2>2. seen.ready \in {"Unknown", "True", "False"} /\ seen # NoRequest
      BY <1>t, <1>6, RequestFields, RequestFacts DEF RequestTypes, RequestsStay, CreateUser
    <2>3. HasUser(seen.subject)
      BY <1>6 DEF HasUser, UserName
    <2> QED BY <1>5, <2>1, <2>2, <2>3
  <1>7. CASE UpdateRequestStatus
    <2> DEFINE decided == seen.state # "pending"
               ready == IF GrantsLevel(seen) THEN "True"
                        ELSE IF seen.state = "pending" THEN "Unknown" ELSE "False"
    <2>1. EndReconcile(decided, ready) /\ UNCHANGED <<requestCache, requestQueue>>
      BY <1>7 DEF UpdateRequestStatus
    <2>2. decided \in BOOLEAN /\ ready \in {"Unknown", "True", "False"}
      OBVIOUS
    <2>3. ready = "True" => GrantsLevel(seen)
      OBVIOUS
    <2> HIDE DEF decided, ready
    <2>4. seen # NoRequest \/ ready # "True"
      BY <2>3, RequestFacts
    <2>5. edits = 0 /\ ready = "True" => HasUser(seen.subject)
      BY <1>7, <2>3 DEF ReadyIsTrue, StatusHasUser, UpdateRequestStatus
    <2> QED BY <1>5, <2>1, <2>2, <2>4, <2>5
  <1>8. CASE ConsoleController \/ UserInformer \/ UNCHANGED vars
             \/ (\E n \in Names, u \in User : EditUser(n, u))
             \/ \E n \in Names : DeleteUser(n) \/ ChangePasswordSecret(n)
    <2>1. UNCHANGED <<requests, requestCache, seen, current, requestStep>>
      BY <1>8 DEF ConsoleController, ReconcileConsole, RenderConfiguration, UserInformer,
         DeliverUser, EditUser, DeleteUser, ChangePasswordSecret, requestVars, requestWorker, vars
    <2>2. CopiesAgree'
      BY <1>t, <2>1, CopiesStep
    <2> QED BY <1>k, <2>1, <2>2
  <1>9. ASSUME NEW r \in Requests, DeliverRequest(r) PROVE CopiesAgree' /\ ReadyIsTrue'
    <2>1. /\ requestCache' = [requestCache EXCEPT ![r] = requests[r]]
          /\ UNCHANGED <<requests, seen, current, requestStep>>
      BY <1>9 DEF DeliverRequest
    <2>2. \A q \in Requests : requestCache'[q] \in {requestCache[q], requests[q]}
      BY <1>t, <2>1 DEF RequestTypes
    <2>3. CopiesAgree'
      BY <1>t, <2>1, <2>2, CopiesStep
    <2> QED BY <1>k, <2>1, <2>3
  <1>10. CASE RestartManager
    <2>1. /\ requestCache' = requests /\ seen' = NoRequest /\ requestStep' = "idle"
          /\ UNCHANGED requests
      BY <1>10 DEF RestartManager
    <2>2. CopiesAgree'
      BY <1>t, <2>1, CopiesStep
    <2> QED BY <1>i, <2>1, <2>2
  <1>11. ASSUME NEW r \in Requests, NEW d \in Request,
                requests' = [requests EXCEPT ![r] = d],
                requests[r] # NoRequest => d.subject = requests[r].subject,
                d.ready = "True" => requests[r].ready = "True" /\ requests[r] # NoRequest,
                UNCHANGED <<requestCache, seen, current, requestStep, users, edits>>
         PROVE  CopiesAgree' /\ ReadyIsTrue'
    <2>1. \A q \in Requests : requests'[q] = IF q = r THEN d ELSE requests[q]
      BY <1>t, <1>11 DEF RequestTypes
    <2>2. d # NoRequest
      BY RequestFacts
    <2>3. \A q \in Requests : requests[q] # NoRequest =>
             requests'[q] # NoRequest /\ requests'[q].subject = requests[q].subject
      BY <1>11, <2>1, <2>2
    <2>4. CopiesAgree'
      BY <1>t, <1>11, <2>3, CopiesStep
    <2>5. ReadyIsTrue'
      BY <1>11, <2>1 DEF ReadyIsTrue, ReadyHasUser, StatusHasUser, HasUser
    <2> QED BY <2>4, <2>5
  <1>12. ASSUME NEW r \in Requests, NEW s \in Subjects, CreateAccessRequest(r, s)
         PROVE  CopiesAgree' /\ ReadyIsTrue'
    <2> DEFINE d == [NoRequest EXCEPT !.subject = s, !.state = "pending"]
    <2>1. /\ requests' = [requests EXCEPT ![r] = d] /\ requests[r] = NoRequest
          /\ UNCHANGED <<requestCache, seen, current, requestStep, users, edits>>
      BY <1>12 DEF CreateAccessRequest, WriteRequests, userVars, requestWorker, historyVars
    <2>2. d \in Request /\ d.ready = "Unknown"
      BY RequestFacts DEF NoRequest
    <2> HIDE DEF d
    <2> QED BY <1>11, <2>1, <2>2
  <1>13. ASSUME NEW r \in Requests, NEW state \in {"approved", "denied"},
                NEW level \in Levels \cup {NoLevel}, Decide(r, state, level)
         PROVE  CopiesAgree' /\ ReadyIsTrue'
    <2> DEFINE d == [requests[r] EXCEPT !.state = state, !.level = level]
    <2>1. /\ requests' = [requests EXCEPT ![r] = d] /\ requests[r] # NoRequest
          /\ UNCHANGED <<requestCache, seen, current, requestStep, users, edits>>
      BY <1>13 DEF Decide, WriteRequests, userVars, requestWorker
    <2>2. requests[r] \in Request
      BY <1>t, <2>1 DEF RequestTypes, RequestOrNone
    <2>3. d \in Request /\ d.subject = requests[r].subject /\ d.ready = requests[r].ready
      BY <2>2 DEF Request
    <2> HIDE DEF d
    <2> QED BY <1>11, <2>1, <2>3
  <1>14. CASE RequestController
    <2>1. CASE CreateUser
      BY <1>3, <1>6, <2>1
    <2>2. CASE PatchUser
      BY <1>3, <1>4, <2>2
    <2> QED BY <1>14, <1>1, <1>2, <1>7, <2>1, <2>2 DEF RequestController
  <1>15. CASE People
    BY <1>15, <1>8, <1>12, <1>13 DEF People
  <1> QED BY <1>8, <1>9, <1>10, <1>14, <1>15 DEF Next, RequestInformer

\* Unless people edit users by hand, a request that reports UserReady=True has
\* a user: the condition is written from a copy of the request, a step after
\* the user was read or written, while decisions change, the other requests
\* of that identity are reconciled and managers restart.
THEOREM ReadyRequestsHaveUsers == Spec => [](edits = 0 => ReadyHasUser)
  <1>1. Init => ReadyIsTrue
    <2> SUFFICES ASSUME Init PROVE ReadyIsTrue
      OBVIOUS
    <2>1. requestStep = "idle" /\ \A r \in Requests : requests[r] = NoRequest
      BY DEF Init
    <2>2. NoRequest.ready # "True"
      BY DEF NoRequest
    <2> QED BY <2>1, <2>2 DEF ReadyIsTrue, ReadyHasUser, StatusHasUser
  <1>2. ReadyIsTrue => (edits = 0 => ReadyHasUser)
    BY DEF ReadyIsTrue
  <1> QED BY AccessTypeInit, AccessTypeNext, CopiesInit, ReadyNext, <1>1, <1>2, PTL DEF Spec

=============================================================================
