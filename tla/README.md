# Verification of pgToolBox

TLA+ specifications of the control logic of the pgToolBox operator and of the
two processes it runs beside a console (the authentication proxy and the
admin-sync sidecar), TLC models that check them on small instances, and TLAPS
proofs of the results that matter most. Source paths below are relative to the
repository; `pgconsole/` is `internal/controller/pgconsole/`.

## 1. The system

pgToolBox is a Kubernetes operator. For every `PgConsole` it keeps a Pod with an
authentication proxy, a console, optionally pgAdmin with an admin-sync sidecar,
and optionally an evidence viewer. People are `PgToolBoxUser` objects; someone
without one asks for access with a `PgToolBoxAccessRequest`.

### Inventory

| Component | State it keeps | Operations | What makes it correct |
|---|---|---|---|
| evidence token (`pgconsole/evidence_token.go`) | generation in `status`, rotation annotation, immutable token Secrets, generation in the Pod template | resolve, mint, acknowledge, collect | a Pod never loses the token it mounts; one request, one successor; no roll-back; it settles |
| console pipeline (`pgconsole/controller.go`) | finalizer, conditions, work queue, timers | finalize, early returns, ordered steps, status patch, requeue | every stale or failed reconcile is repaired by a later one |
| workload RBAC (`pgconsole/rbac.go`) | Roles; a cluster-scoped pair without owner | apply, remove when switched off, release on deletion | the pair never outlives its console |
| exposure and network policy (`pgconsole/exposure.go`, `networkpolicy.go`) | one of Ingress, Route, HTTPRoute; a NetworkPolicy; condition `RouteReady` and URL | apply the wanted one, remove the others, check the Gateway, repeat the platform's verdict | exactly what the specification asks for remains; a console never claims a hostname nobody admitted |
| administrator and users (`pgconsole/bootstrapadmin.go`, `users.go`) | `PgToolBoxUser` objects and their status | restore the administrator, list, order, exclude, render | nobody has a level nobody gave; configuration follows the users |
| access requests (`internal/controller/pgtoolboxaccessrequest/`) | decision, conditions | create or change the user of an approved request | every approval takes effect |
| configuration Secret (`pgconsole/proxyconfig.go`) | session key, rendered configuration | check the OIDC client, render, create or update | a key that is there is kept; Secret before template |
| proxy start and reload (`cmd/proxy`, `internal/proxy/config`) | snapshot in force, file watch | load, set up providers, watch, reload | the users in the API are those in force in the end |
| proxy sign-in and sessions (`internal/proxy/{local,oidc,openshift,session,server}`) | sealed cookies, failure counters | sign in, admit, sign out, file a request | a revocation takes effect within a session; failures are limited; requests name who filed them |
| pgAdmin sync (`pgconsole/pgadmin_sync.go`, `internal/adminsync/sidecar_client.go`) | condition `PgAdminSynced` | send the connections, every two minutes | every account gets the published connections |
| admin-sync sidecar (`internal/adminsync/sidecar_server.go`) | credential file, server rows and revision of each account, combined file | list accounts, write, load, record | a recorded revision means the account has it |
| generated Secrets (`pgconsole/pgadmin_bootstrap.go`, `adminsync_secret.go`) | pgAdmin's bootstrap password; certificate and token of the sidecar | read live, create once, refuse a partial one | the password stays the one in pgAdmin's database; the sidecar comes to accept the operator's calls |
| cluster credentials, evidence resolution (`pgconsole/clustercredentials.go`, `evidence.go`, `evidence_compose.go`) | evidence composition in the Pod template, condition `RepositoryEvidenceReady` | walk Cluster, plugin and ObjectStore; read Secrets and roles into a list | viewer and list follow objects that nobody watches |

How they interact: the two controllers and the sidecar share no memory with each
other; they meet at the API server (users, requests, console), through watch
events that arrive late, through the Pod template (checksum and token name),
through a volume the kubelet refreshes, and through one HTTPS call (sync). The
controllers read most objects from caches and some live (`APIReader`), in the
same reconcile.

What is hard: caches that lag behind the controller's own writes; reconciles that
end half-way; the order of two writes that others read in between (Secret and
template, acknowledgement and template, credential file and revision); handlers
that go on after their caller gave up; snapshots swapped under running requests;
and convergence without any timer. `PROJECT.json` lists these as hazards, line by
line, with the properties that would catch them.

## 2. Modules

Each module is the state machine of one part; an `MC` module and a `.cfg`
instantiate it. "Mutant" definitions beside an operator are deliberately wrong
versions of it, used to show that a property depends on it.

### EvidenceToken (with TokenService, EvidenceTokenProofs)

A Secret is its generation number. `console`, `feed`, `cache` are the live
`PgConsole`, the versions on their way, and the informer's copy; `secrets`,
`listed` the Secrets and the metadata cache; `template`, `pod`, `complete` the
Deployment. `pc` walks one reconcile through `ResolveToken` (with the live
template as a floor), `CreateEvidenceTokenSecret`, `AcknowledgeRotation`,
`ReconcileDeployment`, `CollectSupersededTokens`, `UpdateStatus`. `AbortReconcile`
and `CollectFails` are errors, restarts and partial failures; `LoseSecret`,
`ToggleEvidence`, `RequestRotation` are other people; `StopPod`, `StartPod`,
`ReportRollout`, `EvictPod` the Deployment controller with strategy Recreate.
`ParsableGeneration` is the largest generation whose Secret name
`BoundedName` leaves whole.

`TokenService` is what the Pods may rely on, without cache, queue, counter or
annotation: tokens are minted, named by the workload, mounted, retired when neither
workload nor Pod has them, or withdrawn by somebody else. `EvidenceToken` instantiates
it (`Service`) with the Secrets as `available`, the lost ones as `withdrawn`, the
template's token as `named` and the Pod's as `mounted`; `RefinesService` is its
specification. `Withdraw` and the re-minting of a withdrawn token are in the abstract
specification because the system has both.

Left out: a foreign Secret of the same name or one without data; digest
collisions; other inputs of the Pod template.

### Delivery (with DeliveryProofs)

From the user list to the running proxy. A configuration is the version of the
users and the session key in it, and its own checksum. The reconcile is `Begin`
(users from the cache), `ReportIssue` (the OIDC client Secret is missing or cannot be
read, or nothing can be rendered: the reconcile ends without error, and nothing starts
another), `ReadSecret` (live), `RefuseSecret` (it is not owned by this console, an error),
`WriteSecret` (refused if somebody wrote in between), `ReconcileDeployment`. The Pod
is a record: template checksum, mounted file, process (`down`, `loaded`,
`watching`, or `unwatched` after `FailWatch`: it serves on without reloads),
configuration in force. `Load`, `StartWatch` and `Reload` are the proxy; `armed` is the
debounced event, `missed` a swap that raised none. `Tamper` is somebody who deletes the
Secret, its key, its file or its owner reference, or edits the file.

Left out: the events of the operator's own status patches (they only start more
reconciles). The kubelet mounts the current Secret when a Pod starts.

### Proxy (with ProxyProofs)

One proxy process, one browser with several tabs, one address. `runtime` is the
snapshot behind `Env.Runtime()`; every handler step that loads it anew is a step of
its own: `SubmitPassword`, `CheckPassword`, then `RefusePassword` or `IssueSession`
for local sign-in; `StartLogin`, `BeginExchange`, `LookUpIdentity` and `IssueSession`,
or `FailLogin`, for OIDC and OpenShift. The session and the transient cookie are
records that name the key they are sealed under. `ShowForm` and `FileRequest` are the
access-request form. `Swap` is the watcher's callback, `Restart` the process.
Serving a request changes no state and is the predicate `Admits`.

Left out: forwarding and headers; several keys at once, which the operator never
renders. Ticks are coarse: a handler that has looked an identity up finishes within
the tick. Which submitted passwords match is not modelled: the comparison of an identity
that has a user may go either way, with a password of its own or with the hash that stands
in for one, as the code refuses on a failed comparison and on an unknown user only.

### Access (with AccessProofs)

Both controllers over requests and users: `ReconcileRequest`, `ReadUser`,
`CreateUser` or `PatchUser`, `UpdateRequestStatus`; and `ReconcileBootstrapAdmin`,
`ReconcileConsole`, `RenderConfiguration`, which also patches the users' statuses.
Caches are refreshed object by object (`DeliverRequest`, `DeliverUser`). `EditUser` declares
or changes any user in any field, the subject of one made for a request too; `moved`
remembers who was put under a name derived for somebody else. `ChangePasswordSecret` takes
a password Secret away or brings it back, which no watch sees; `unusable` is what the last
rendering found.
`Lower` is the lower-case key under which identities are compared, `Before` the
order in which users claim one.

Left out: a request whose console does not exist, the skip annotation, deleted
requests. `RenderConfiguration` is one step though the code lists the users, writes the
Secret and patches the statuses in separate requests: the cache it works from is already
older than the users, the write of the Secret is Delivery's, and a failure between the two
(`Retry`) repeats both. Two of the three levels are enough, as no code here compares levels.

### AdminSync (with AdminSyncProofs)

The operator's call and the sidecar's handlers, of which several may run. A list of
connections is an opaque value, read at once. A handler takes one step for each
file or command: `ListAccounts`, `RevisionApplied` (skip), `WritePassfile`,
`LoadServers`, `RecordRevision`, `WriteLegacyPassfile`; any may fail, and a failure
leaves what was written (`load-servers` may leave the old rows, none or the new).
`TimeOut` and `ManagerRestarts` orphan a call, whose handler goes on; `PodStops`
keeps the settings volume and loses the combined file.

### Console (with ConsoleProofs)

The life of a `PgConsole`: `BeginFinalizer`, `BeginNothing` (skipped, invalid, gone),
`BeginWithoutCluster`, `BeginProxyIssue` (the return before any other step, and without
the timer, when the proxy's configuration has an issue), `BeginSteps`, `BeginRelease`,
`Release`, `Unfinalize`. `ChangeClientSecret` makes and ends such an issue, unwatched. A
reconcile proper works off `Plan(spec)`, one request at a time: the catalog pair, the
exposures, the network policy. Updates of the console carry a version and conflict;
`seen` is the cache, refreshed kind by kind, and only owned kinds start a reconcile.

Left out: objects that every reconcile applies in the same way and that go with
their console (Service, ServiceAccount, read and operate Roles, Secrets, Deployment);
a console that is created again under the same name; objects of the same name with
another owner.

### SidecarSecrets (with SidecarSecretsProofs)

The two Secrets generated once for a console with pgAdmin. A Secret is its resource
version, whether the operator accepts it (`whole`: keys that are not empty, a token of 32
bytes) and whether the containers do (`loads`: a trimmed token of 32 bytes, a certificate
that loads). The reconcile is `ReadBootstrap`, `CreateBootstrap`,
`ReadSync`, `CreateSync` (which treats a Secret that appeared meanwhile differently),
`ReconcileDeployment` (the version in the template), then `SelectReadyPod`, `ReadToken`
and `Call`. `pod` holds the mounted volumes and `material`, what the sidecar read when
it started; `baked` is the password in pgAdmin's settings database. `MeddleWith...`
deletes, empties, spoils, replaces or restores a Secret.

Left out: an edit that changes a Secret's version and keeps its content, which rolls
the Deployment for nothing; in `SelectReadyPod` the configuration checksum, which says
nothing of a Secret's version, and a Pod that is ready and has no address yet, which costs
one call.

### ClusterInputs

What a reconcile reads of the CNPG cluster, one object after the other while they
change: `ResolveEvidence`, `ReadObjectStore` and `Compose` for the viewer, `ReadHost`,
`ReadApplication`, `ReadSuperuser`, `ListRoles` (the only cached read) and `ReadRole` for
the list that `Send` hands to pgAdmin. `Supported` keeps one test for each check of
`composeFromConfiguration`. `since`, in the reconcile's record, collects the passwords
each Secret had since it began, and `read` is the copy of the two conditions it compares
with: `Publish` writes nothing if they agree, though the live ones may not, until
`DeliverStatus` brings these. `Published` and `Composition` say what the walks should
find, directly from the cluster.

Left out: names, ports and users of connections; the fields of the viewer's container and
the Cluster's UID; the token, which is EvidenceToken's. A credential Secret that the
ObjectStore names is not looked for by the operator: the viewer is composed without it all
the same, and so it is here. A failed call (`SendFails`) leaves pgAdmin with the list or
without it; the accounts and files that a sync half-way leaves behind, and a list that
comes back after that, are AdminSync's (`FailureLeaves`, section 6).

Its theorems stand in AdminSyncProofs, which instantiates it beside AdminSync: the list is
the one that AdminSync synchronises.

### RouteReadiness (with RouteReadinessProofs)

One exposure of a fixed kind. `console` and `known`, `object` and `seen`, `gateways` and
`seenGateways` are live objects and cached copies. `ReconcileIngress`, `ReconcileRoute` and
`ReconcileHTTPRoute` apply the object or keep it, `SetCondition` draws the condition from
the status that came with it. `Publish` is a merge patch: it sends the condition if that
differs from the copy the reconcile began with, and the URL if that differs, so either may
stay behind. `Apply` is a server-side apply that does not force: where somebody else has
set the hostname (`foreign`) to another value (`Contested`), it is refused and the
reconcile fails. `FirstListener` is the answer of the first
of a Gateway's listeners that decides, where the code's walk ends; `Attaches`, by which `Judge` decides, states the Gateway API's
rules without it. A hostname is the sequence of its labels.

Left out: changing the kind (in Console); Ingress classes, TLS and allow-listed
annotations, which are data; one console with several parents; a Route admitted by several
routers, of which `setRouteCondition` takes the first that decides.

### Assumptions common to all

One linearizable API server; a single manager (leader election) with one worker for
each console and each request; caches that do not go back in time; no two
configurations with one digest. Fault and edit bounds are constants named `Max...`.

## 3. Runs

| Run | Checks | Bounds | Shows |
|---|---|---|---|
| `token_safety` | `TypeOK`, `TokenOutlivesItsPods`, `OneSuccessorPerRequest`, `NoTemplateRollback`, `RefinesService`, `HealsUnderNewName` | 2 rotations, 1 loss, 1 fault | a rotation over a rotation with one thing going wrong anywhere |
| `token_settles` | `EventuallySettles` | 1 rotation, 1 loss, 1 toggle, 1 fault | convergence without the timer |
| `delivery` | `TypeOK`, `KeysOnlyHealed`, `PodServesItsRevision`, `EventuallyInForce` | 2 edits, 2 tamperings, 1 fault | key, revision and configuration in force, see below |
| `proxy` | `TypeOK`, `RevocationBound`, `FailuresBounded`, `FiledForShownIdentity` | 2 tabs, 3 spellings of 2 identities, 3 ticks, session of 2 ticks, 2 failures, 2 events out of flows, swaps, restarts | every pair of handlers interleaves with a swap or a restart |
| `access` | `TypeOK`, `OnlyGrantedLevels`, `EventuallyFollowsUsers`, `EventuallyAdministered`, `EventuallyEffective` | 1 request, administrator, 1 declared user, 2 events, 1 change of a password Secret | decisions, edits, passwords and a restart in every order |
| `adminsync` | `TypeOK`, `CurrentUnlessDisordered`, `SuccessMeansProvisioned`, `EventuallyProvisioned` | 2 accounts, 2 lists, 2 calls, 2 disturbances | two handlers side by side, failures at every step |
| `console` | `TypeOK`, `PairHasFinalizer`, `DeletionCompletes`, `EventuallyConverged` | 4 specifications, 2 events (edits, faults, the client Secret), deletion at any time | every switch of a capability, lagging caches |
| `sidecar_secrets` | `TypeOK`, `CallsAreAuthorized`, `BootstrapMatchesDatabase`, `NeverOverwritten`, `EventuallyAnswered` | 3 changes by hand, 2 faults | a Secret lost, restored and lost again around evictions and container restarts |
| `inputs` | `TypeOK`, `EventuallyOffered`, `EventuallyComposed`, `OffersNoOldPassword` | 1 role, 2 ObjectStores, 5 configurations, 2 hosts, 2 changes, 1 fault | changes between any two reads |
| `exposure` | `TypeOK`, `ReadyWasAdmitted`, `EventuallyTruthful` | 6 platforms, 2 hostnames, 2 parents, 4 states of a Gateway, 2 events | edits, verdicts and late copies in every order |
| `token_crash`, `adminsync_revert` | one property each | as small as the case allows | a disagreement with the repository's own words (section 6) |

The bounds are chosen so that a stale view and a fault can coincide: two versions
in flight, a fault between any two steps, a second actor in every window. Counters
that only limit other people's actions do not weaken what the operator may do.
`delivery`, `console`, `access`, `proxy` and `exposure` do not check for deadlock: with the
last permitted event spent, an idle operator (without pgAdmin's timer), and a proxy nobody
uses, really stop. In
`access` the only branch no step reaches is `PatchUser` on a user deleted since it
was read, which takes one event more.

In `exposure` each kind of exposure is a platform of its own, and the Gateways have one
listener for each way not to admit a route, so that two events reach every answer of the
check. In `inputs` every check of a configuration has one that fails it. In `access` the
one edit may put the reader's identity under the name derived for another, and the one
change of a password may fall between any two steps.

What the properties say in detail stands above each of them. Some deserve a word.
`FailuresBounded` is weaker than the constant in the code suggests: attempts that
passed `allow` together may all fail, so the bound is the limit plus the handlers
running. `RevocationBound` holds although the level is looked up in one snapshot and
sealed under the key of another, and whichever comparisons of passwords succeed.
`EventuallyInForce` has exceptions that TLC shows to be needed: an issue that ended the
last reconcile, as the OIDC client Secret is not watched; a Secret that was taken from
this console; and an edit of the configuration Secret by hand that is undone between the
proxy's load and its watch, or in a Pod without a watch, and leaves the edited file in
force. `EventuallyConverged` excepts the same issue: no other object of the console moves
either until something else starts a reconcile.

`OnlyGrantedLevels` counts what anybody ever gave an identity; it says nothing of a grant
that was taken back, which is `EventuallyFollowsUsers`. Its exception (`Given`) is what
`reconcileApprovedUser` does with a user whose subject was changed by hand. TLC refutes the
property without it, within the bounds of `access`. `EventuallyFollowsUsers` and
`EventuallyAdministered` hold of the passwords as the last rendering read them.

`ReadyWasAdmitted` speaks of the hostname for which the condition was concluded, not of
`status.url`: the two are patched separately, and after the hostname went forth and back
under an old copy the URL may be that of another one until the next reconcile
(`EventuallyTruthful` says that they come to agree). The condition carries the generation,
and one stamped with the present generation is about the present hostname.

`EventuallyTruthful` and the two properties of `inputs` have exceptions that TLC shows to be
needed: a namespace selector that cannot be read, a hostname that somebody else owns, and an
ObjectStore without a configuration fail every reconcile where they are met.
`EventuallyAnswered` excepts Secrets that one side refuses. `CallsAreAuthorized` is about a
call that presents what its own reconcile deployed; a Secret replaced in the middle of a
reconcile costs one failed call, which `EventuallyAnswered` says is made good.
`HealsUnderNewName` is about the token in the template, with a name that parses, and excepts
a rotation that is observed again from a stale status: it may mint, under its name, a Secret
deleted from outside. `OneSuccessorPerRequest` holds while nobody takes tokens away, be it
the Secret or, by switching evidence off and on, its place in the template: a request not yet
acknowledged then gets another successor, and should.

`EventuallyConverged` is checked with pgAdmin enabled. Without it there is no
timer, and a catalog role deleted by hand, or compared with a cache that was
behind, is not repaired before another event: the pair is not watched.

### Fairness

Weak fairness of the reconcile worker (a work queue hands every queued key to a
worker), of each informer kind separately (a watch delivers; kinds are not ordered
among each other), of the Deployment controller, garbage collector, kubelet and Pod
start, of the proxy's load, watch and debounced reload, of every sidecar handler, and
in `console`, `adminsync`, `sidecar_secrets`, `inputs` and, where pgAdmin is enabled,
`exposure` of the pgAdmin timer (`RequeueAfter` after every reconcile that succeeds). In
`exposure` also of the platform's verdict: a router or Gateway controller judges what it is
given. Its properties about Gateways need the timer, as Gateways are not watched. Failed reconciles are bounded, so a
retried one eventually succeeds. Nothing is assumed of users, reviewers, faults, or
the ten-hour resync of the informers, and `EvidenceToken` does without any timer.

## 4. Proofs

Each theorem below holds for every value of the constants that satisfies the modules'
assumptions (`...Assumption`), which only say that bounds are naturals, that sets hold
what their names say, and (`ListenerAssumption`) that listeners are what the API server's
schema admits: the protocols of the Gateway API and no bare wildcard as a hostname. Except for types, none of the properties is inductive as it stands;
each proof module names the strengthening, shows that the initial states have it and that
every action keeps it, one case for each action. The strengthenings were checked with TLC
before they were proved.

**EvidenceTokenProofs**

* `TypeCorrectness`, `TokenSafety` (`TokenOutlivesItsPods`). The reconcile decides on a token
  several steps before it deploys it and on the rollout before it collects. `TokenInv` adds:
  a token about to be deployed was minted or read live (`DeployableToken`); a rollout reported
  complete leaves no older Pod (`ReportedRollout`); a collecting reconcile works for the token
  in the template (`CollectingReconcile`).
* `LostTokensGetNewNames` (`HealsUnderNewName`). `MintsAhead`: what a reconcile that observes no
  rotation is about to mint is ahead of the template, if the template's name parses.
* `TokenServiceIsImplemented` (`RefinesService`). Initial states map to initial states, and
  with `TokenInv` and `LostIsGone` (a Secret counted as lost does not exist) every step maps
  to a step of `TokenService` or to a stutter: minting to `Mint`, the Deployment write to
  `Name` or `Unname`, collection to `Retire`, Pods to `Mount` and `Unmount`, an outside
  deletion to `Withdraw`.
* `RotationIsNotRolledBack` (`NoTemplateRollback`), if every generation that can be requested
  has a name that parses (`NamesParse`, which the first observation of section 6 shows to be
  needed). `RollbackInv` orders the versions between cache and API server (`VersionsRise`),
  bounds template and token by one generation over the cached status
  (`StatusTrailsTemplate`), counts generations against requests (`GenerationsAreRequested`),
  and excludes tokens without evidence.
* `RequestsMintOnce` (`OneSuccessorPerRequest`), also under `NamesParse`. The model keeps no
  record of which request a version of the console belongs to, so `SuccessorInv` claims that
  the versions in flight can be ranked by the requests made before them, such that the
  successors minted are at most the rank of the cached version, and fewer in each of the five
  situations where that version may still cause one.

**DeliveryProofs**: `DeliveryTypes`; `SessionKeysAreKept` (`KeysOnlyHealed`), from an account
of which keys the Secret and the reconcile can hold (`KeysAccounted`);
`PodsServeTheirRevision` (`PodServesItsRevision`), from `RevisionInv`: template, reconcile,
Secret, volume and process carry configurations in the order in which they hand them on, and
the Secret is written before the template that names it. `OldUsersDoNotComeBack`: once a
proxy of the console has worked with version `g` of the users, none ever works with an older
one, so that a user taken out stays out. It is about pairs of states, and takes two
invariants: `Trail` (process, volume and Secret follow one another, and cache and reconcile
are as new as the Pod, which matters when somebody deletes the Secret), and `HeldSince(g)`,
which begins to hold when `g` runs and is kept by every step, also while no process runs. A
file edited by hand is not a version, and is excepted.

**ProxyProofs**: `ProxyTypes`; `RevocationTakesEffect` (`RevocationBound`), from `GrantInv`:
every level in a handler or a cookie was in force when it was looked up, and a cookie's age
counts from no earlier than that; `FailuresAreBounded` (`FailuresBounded`), from `LimiterInv`,
which adds to the failures counted the handlers that passed the check and have yet to fail;
`RequestsNameTheShownIdentity` (`FiledForShownIdentity`), from `FormInv`: the form's token is
bound to the identity it showed. None of them depends on which passwords are right.

**AccessProofs**: `AccessTypes`; `LevelsAreGranted` (`OnlyGrantedLevels`), from `GrantedInv`:
every copy of a user or of an approval, in caches, in reconciles and in the configuration, is
one that somebody granted, and the name derived from a subject belongs to a user of that
subject or of an identity that was put there by hand (`NamesAreOwn`), who may then have what
was granted to the first. `ReadyRequestsHaveUsers`: unless users are edited by hand (`edits = 0`; a deletion
makes an old condition false, section 6), a request with `UserReady` has a user. From
`ReadyIsTrue`: a reconcile at the status step of an approved request has met the user
(`StatusHasUser`); `CopiesAgree`: its copy is of the identity of the request it writes to; and
`UsersStay`: no controller removes a user.

**AdminSyncProofs**: `SyncTypes`; `CurrentAccountsAreProvisioned` (`CurrentUnlessDisordered`)
and `SuccessIsProvisioned` (`SuccessMeansProvisioned`), if accounts have directories of their
own (`OwnDirectories`; `userStorageDirectory`, `sidecar_server.go:419`, maps two accounts that
differ in `@` and `_` to one). `OrderInv`: while nothing is orphaned or comes back, only the
awaited call is at work, revisions do not exceed the latest list, and a call leaves every
account it is done with provisioned (`Serves`).

The list itself (ClusterInputs, instantiated in the same module as `Inputs`; every theorem has
`InputsAssumption` as its hypothesis): `InputsTypeCorrect` (`TypeOK`); `ListHasNoOldPassword`
(`OffersNoOldPassword`); `ListIsUntorn`, one host and one password at most from each Secret in
whatever pgAdmin has; `ListHasEveryUser`, a sync leaves the application user or the superuser
out only if its Secret was missing at some time of that reconcile. All from `InputsInv`, about
the list half-way: its passwords are among those its Secrets had since the reconcile began
(`Current`); it has the reconcile's one host and nothing of a Secret still to be read
(`Untorn`, by `Unread`), without which the next read could add a second password; and what has
been read and was there is in it (`Complete`).

**SidecarSecretsProofs**: `SecretsTypes`, `SecretsNeverOverwritten` (`NeverOverwritten`);
`BootstrapPassword` (`BootstrapMatchesDatabase`), as the database takes the password from the
Pod, from `BootInv`: a Pod's password is the Secret's; `SyncCallsAreAuthorized`
(`CallsAreAuthorized`), from `CallInv`: nobody carries a newer version than a Secret that is
whole, a Pod's volume and sidecar are no older than the Pod's own revision, and a rollout is
reported for the template there is.

**ConsoleProofs**: `PairIsReleased` (`PairHasFinalizer`), from `PairInv`: a deleted console
holds the finalizer until released, what the cache says of deletion and finalizer remains
true (`CacheTrails`), an applying reconcile works for a console holding it, and a releasing
one has left nothing of the pair behind; `ConsoleTypes`, where `VersionCounted` shows that
the finalizer is added and removed at most once.

**RouteReadinessProofs**: `ReadinessWasAdmitted` (`ReadyWasAdmitted`), from `AdmittedInv`:
wherever a verdict rests it tells what was admitted, one on the present generation is about
the present hostname, the reconcile checks an object at the hostname it concludes for, and a
condition stamped with the present generation is about the present hostname (`Stamped`),
although the patch may leave it as it was;
`RouteTypes`, where the bound of the object's generation needs an account of who writes it
(`GenerationsCounted`): the operator once for each generation of the console and once for
each change by somebody else. `ListenersAreReadRightly`, for any list of listeners: the
operator's look at a Gateway says yes only of a route that the Gateway API's rules attach and
no only of one that they do not, and errs only where a selector cannot be read. It compares
two definitions that share no operator but the namespace of the parent: the walk with its
early end against a quantifier over listeners (`WalkAgrees`), a suffix of labels against a
prefix that completes it (`SuffixLeavesPrefix`, `HostnamesMatch`), and excluded protocols
against permitted ones.

What the proofs changed: `CrashProcess` (Delivery) left a debounced reload armed in a process
that was gone; `OneSuccessorPerRequest` excepted only deleted Secrets and not evidence
switched off and on; `HealsUnderNewName` spoke of the Pod's token, which a switch off and on
can outlive, and of names that do not parse; `Expose` (Console) was a filter over a sequence,
whose elements the prover cannot know, and is now a sequence of three conditional steps;
`FirstListener` (RouteReadiness) was another, and is now the answer at the least decisive
index.

Only model-checked: liveness (`Eventually...`, `DeletionCompletes`), as fairness and
`ENABLED` are out of the prover's reach. Every other property of a passing run is a theorem.
Only proved: `OldUsersDoNotComeBack`, `ReadyRequestsHaveUsers`, `ListIsUntorn`,
`ListHasEveryUser` and `ListenersAreReadRightly`. They rest on invariants that were tried with
TLC on the instances of their modules' runs and are not repeated there.

## 5. Plan

1. Access: a missing console, deleted requests. Two requests of one identity have been
   tried; safety alone takes 4.3 million states, and the liveness properties do not
   finish.
2. Console: the operate pair and owner checks.

## 6. Findings

Each is a run that TLC refutes; `PROJECT.json` quotes the lines.

* `token_crash`: the rotation is acknowledged before the Deployment is written; an
  interruption in between loses the rotation to the collector, which the comment in
  `evidence_token.go` says cannot happen.
* `adminsync_revert`: a list that fails half-way and is then withdrawn leaves an account
  with the withdrawn credential file and a revision that calls it current.

Observed while modelling, without a run of their own:

* the configuration guide says that "a user without one simply does not participate in local
  sign-in" (`web/docs/operator/configuration.md:58`, of a password Secret). The handler
  (`local.go:96`) compares such a user as well, with the hash that stands in for unknown
  identities, and refuses only a failed comparison or an unknown user: a comparison decides,
  where the guide promises that there is none. TLC refutes `OnlyAccountsSignIn` (Proxy) in three
  steps when it is added to `proxy.cfg`. Requiring a password hash beside `known` would make
  code and guide agree;
* for consoles with names of 42 characters or more (41 from the tenth token on)
  `BoundedName` cuts the counter off the token Secret's name, `tokenGeneration`
  (`evidence_token.go:266`) reads zero, and the first rotation is rolled back: TLC refutes
  `NoTemplateRollback` with `ParsableGeneration = 1`, one request and no fault;
* an approved request stays approved when its user is deleted, and its next reconcile
  (a restart of the manager is enough) creates the user again
  (`pgtoolboxaccessrequest/controller.go:151`), although `pgtoolboxuser_types.go` says that
  deleting a user de-provisions it;
* whoever was granted access after signing in stays refused until signing out or the end
  of the session, as the level is sealed in the cookie (`server.go:353`); the tutorial on
  access requests says a reload is enough;
* an ObjectStore without `spec.configuration` fails every reconcile at that point
  (`evidence.go:227`), so that Deployment, exposure and pgAdmin sync stop following the
  specification, while every other gap merely leaves the viewer out;
* a Gateway's listener with an invalid namespace selector fails every reconcile, though a
  later listener would admit the route;
* when the cluster publishes no credential at all nothing is sent, and pgAdmin keeps the
  last list;
* evidence, credentials and the Gateway check follow objects nobody watches only by
  pgAdmin's timer; a console without pgAdmin waits for another event;
* `gatewayHostnameMatches` says a wildcard stands for exactly one label; the code, like the
  Gateway API, accepts several;
* an Ingress is called admitted for a new hostname as long as the address of the previous
  one is in its status;
* two DatabaseRoles of one name tie in the sort of the list;
* a rotation requested before the last successor reached the status, or before the
  first token, is acknowledged and nothing is minted (`evidence_token.go:92`);
* the first configuration is rendered from a cache that does not have the administrator
  created a moment before, so it lacks the one user the comment at `controller.go:253`
  wants in it; the user's own event repairs it;
* `session.go` says a session's subject is lower case; an OpenShift name is sealed as
  the platform spells it, and requests are filed under that spelling;
* the comment on `reconcileExposure` speaks of exactly one exposure object at a time;
  the new one is created before the old one goes;
* an OIDC client Secret that is missing, or could not be read this once, is reported and not
  retried: the reconcile ends without error and without the timer, before every other object
  of the console (`controller.go:274`);
* `reconcileApprovedUser` finds the user by its derived name and sets the level without
  comparing the subject (`pgtoolboxaccessrequest/controller.go:172`): whoever was put there
  by hand gets the level approved for another;
* a password Secret that is repaired is noticed at the console's next reconcile, which it
  does not start (`users.go:140`);
* `ApplyObject` does not force ownership (`shared/runtime.go:62`): after somebody else set
  the hostname of the exposure object every apply of another one is a conflict, the reconcile
  fails for good, and `RouteReady` stays what it was;
* `RouteReady` and the URL are separate fields of one merge patch against a cached copy
  (`controller.go:457`) and may for a while be of different hostnames;
* an admin-sync Secret whose token is long enough only with its white space, or whose
  certificate does not load, is usable to the operator (`adminsync_secret.go:97`) and not to
  the sidecar (`sidecar_server.go:89`), so that the advice to delete it is not given;
* a proxy that cannot set its watch up logs this and serves on (`cmd/proxy/main.go:120`); it
  follows changes only as they replace the Pod.

## 7. Not modelled

Rendering of containers, environment, roles' rules and pages: data without control, that
every reconcile applies alike. The forwarding proxy itself: it changes no state. Generated
deep copies, manifests, bundles and the documentation site. Flags, signals and the wiring
of the manager. Objects of the same name with another owner (but for the proxy's Secret), a
console created again under its name, and the skip annotation of requests. `PROJECT.json` gives the reason part by part.
