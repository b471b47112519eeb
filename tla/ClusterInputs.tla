--------------------------- MODULE ClusterInputs ---------------------------
(***************************************************************************)
(* What a reconcile takes from objects of the CNPG cluster that it does not *)
(* own and whose changes do not start it: the walk from the Cluster over    *)
(* its plugin to an ObjectStore, which decides on the evidence viewer       *)
(* (evidence.go, evidence_compose.go), and the credentials that pgAdmin     *)
(* offers (clustercredentials.go, pgadmin_sync.go).                         *)
(*                                                                          *)
(* The objects are read one after the other, live but for the               *)
(* DatabaseRoles, and may change in between.  A password is a number, new   *)
(* for each change; 0 is a Secret that is missing or incomplete.  A list of *)
(* connections is a set: the code sorts it.                                 *)
(***************************************************************************)
EXTENDS Integers

CONSTANTS
    Roles,          \* DatabaseRoles that may be declared, with a password Secret
    Stores,         \* names an ObjectStore may have
    Hosts,          \* write Services of the cluster
    Configurations, \* spec.configuration an ObjectStore may have
    Platforms,      \* what the manager and the console's specification give
    MaxChanges,     \* bound: changes of any of these objects
    MaxFaults       \* bound: failed requests and manager restarts

\* composeFromConfiguration: S3 with a static pair of keys and a destination
\* that parses; everything else names the gap.
Supported(c) ==
    /\ c.provider = "s3"
    /\ c.keys = "static"
    /\ c.destination # "unparsable"

ASSUME InputsAssumption ==
    /\ {"application", "superuser"} \cap Roles = {}
    /\ "none" \notin Stores
    /\ Configurations \subseteq
          [provider: {"s3", "azure", "none"}, keys: {"static", "iam", "missing"},
           destination: STRING]
    /\ \E c \in Configurations : Supported(c)
    /\ Platforms \subseteq [enabled: BOOLEAN, served: BOOLEAN, image: BOOLEAN]
    /\ Hosts # {} /\ Stores # {}
    /\ MaxChanges \in Nat /\ MaxFaults \in Nat

VARIABLES
    platform,  \* evidence is enabled; the ObjectStore API is served; there is an image
    cluster,   \* the CNPG Cluster
    stores,    \* the ObjectStores
    secrets,   \* the password in each Secret
    roles,     \* the DatabaseRoles of the cluster
    known,     \* the manager's cache of them
    template,  \* evidence composition in the Pod template
    rolled,    \* rolloutComplete
    reason,    \* of the condition RepositoryEvidenceReady
    offered,   \* connections pgAdmin has been given
    synced,    \* the condition PgAdminSynced
    copy,      \* the manager's cache of both conditions
    worker,    \* the reconcile in progress
    queued,    \* the console is in the work queue
    changes, faults \* history

clusterVars == <<platform, cluster, stores, secrets, roles, known, copy>>
consoleVars == <<template, rolled, reason, offered, synced>>
vars == <<clusterVars, consoleVars, worker, queued, changes, faults>>

Sources == {"application", "superuser"} \cup Roles
Password == 0..MaxChanges + 1
Connection == [source: Sources, host: Hosts, password: Password \ {0}]

AbsentStore == [spec |-> "absent"]
BrokenStore == [spec |-> "broken"] \* no spec.configuration, or not decodable
ConfiguredStore(c) == [spec |-> "configured", configuration |-> c]
StoreValues == {AbsentStore, BrokenStore} \cup {ConfiguredStore(c) : c \in Configurations}

NoTemplate == [viewer |-> "undeployed"]
NoViewer == [viewer |-> "none"]
Viewer(store, c) == [viewer |-> store, destination |-> c.destination]
Viewers == {Viewer(s, c) : s \in Stores, c \in Configurations}

Reasons == {"Unknown", "AsExpected", "EvidenceDisabled", "ObjectStoreNotFound",
            "UnsupportedCredentialMode", "ImageRequired"}
Outcome(r, v) == [reason |-> r, viewer |-> v]
Unavailable(r) == Outcome(r, NoViewer)

\* The two conditions, which updateStatus compares and writes together.
SyncReasons == {"Unknown", "PendingRollout", "ClusterNotFound", "SomeDegraded", "SyncFailed",
                "AsExpected"}
Conditions == [reason: Reasons, synced: SyncReasons]
Condition(r, s) == [reason |-> r, synced |-> s]

IdleWorker == [pc |-> "idle", read |-> Condition("Unknown", "Unknown"),
               outcome |-> Unavailable("Unknown"), store |-> "none",
               host |-> CHOOSE h \in Hosts : TRUE, list |-> {}, todo |-> {},
               synced |-> "Unknown",
               since |-> [s \in Sources |-> {}]] \* passwords since the reconcile began

TypeOK ==
    /\ platform \in Platforms
    /\ cluster \in [exists: BOOLEAN, host: Hosts, plugin: Stores \cup {"none"}]
    /\ stores \in [Stores -> StoreValues]
    /\ secrets \in [Sources -> Password]
    /\ roles \subseteq Roles /\ known \subseteq Roles
    /\ template \in {NoTemplate, NoViewer} \cup Viewers
    /\ rolled \in BOOLEAN
    /\ reason \in Reasons
    /\ offered \subseteq Connection
    /\ synced \in SyncReasons
    /\ copy \in Conditions /\ worker.read \in Conditions
    /\ worker.pc \in {"idle", "evidence", "store", "deploy", "sync", "application",
                      "superuser", "list", "role", "send", "publish"}
    /\ worker.outcome.reason \in Reasons /\ worker.synced \in SyncReasons
    /\ worker.outcome.viewer \in {NoViewer} \cup Viewers
    /\ worker.list \subseteq Connection /\ worker.todo \subseteq Roles
    /\ queued \in BOOLEAN
    /\ worker.since \in [Sources -> SUBSET Password]
    /\ changes \in 0..MaxChanges /\ faults \in 0..MaxFaults

\* A console on a cluster with an application user and an archive, before its
\* first reconcile.
Init ==
    /\ platform \in Platforms
    /\ cluster = [exists |-> TRUE, host |-> CHOOSE h \in Hosts : TRUE,
                  plugin |-> CHOOSE s \in Stores : TRUE]
    /\ LET archive == CHOOSE c \in Configurations : Supported(c)
       IN  stores = [s \in Stores |-> ConfiguredStore(archive)]
    /\ secrets = [s \in Sources |-> IF s = "superuser" THEN 0 ELSE 1]
    /\ roles = {} /\ known = {}
    /\ template = NoTemplate /\ rolled = FALSE
    /\ reason = "Unknown" /\ offered = {} /\ synced = "Unknown"
    /\ copy = Condition("Unknown", "Unknown")
    /\ worker = IdleWorker
    /\ queued = TRUE
    /\ changes = 0 /\ faults = 0

-----------------------------------------------------------------------------
(***************************************************************************)
(* The composition.                                                         *)
(***************************************************************************)

\* Mutant: the reason of a composition that did not succeed.
ComposeUnnamed(store, c) == Outcome("", Viewer(store, c))

\* reconcileEvidence asks for the viewer's image once all the rest is there.
Compose(store, c) ==
    IF ~Supported(c) THEN Unavailable("UnsupportedCredentialMode")
    ELSE IF ~platform.image THEN Unavailable("ImageRequired")
    ELSE Outcome("AsExpected", Viewer(store, c))

-----------------------------------------------------------------------------
(***************************************************************************)
(* The reconcile.                                                           *)
(***************************************************************************)
Goto(pc) == worker' = [worker EXCEPT !.pc = pc]
Concludes(s) == worker' = [worker EXCEPT !.pc = "publish", !.synced = s]
Fails == worker' = IdleWorker /\ queued' = TRUE
Resolves(o) == worker' = [worker EXCEPT !.pc = "deploy", !.outcome = o]

\* Reconcile: without its Cluster the console waits, and is revisited.
Begin ==
    /\ worker.pc = "idle" /\ queued
    /\ queued' = FALSE
    /\ IF cluster.exists
       THEN worker' = [worker EXCEPT !.pc = "evidence", !.read = copy,
                                     !.since = [s \in Sources |-> {secrets[s]}]]
       ELSE UNCHANGED worker
    /\ UNCHANGED <<clusterVars, consoleVars, changes, faults>>

\* resolveEvidence, as far as barmanObjectStoreName: a disabled plugin counts
\* as none.
ResolveEvidence ==
    /\ worker.pc = "evidence"
    /\ \/ /\ ~platform.enabled
          /\ Resolves(Unavailable("EvidenceDisabled"))
       \/ /\ platform.enabled
          /\ ~cluster.exists \/ cluster.plugin = "none" \/ ~platform.served
          /\ Resolves(Unavailable("ObjectStoreNotFound"))
       \/ /\ platform.enabled
          /\ cluster.exists /\ cluster.plugin # "none" /\ platform.served
          /\ worker' = [worker EXCEPT !.pc = "store", !.store = cluster.plugin]
    /\ UNCHANGED <<clusterVars, consoleVars, queued, changes, faults>>

\* Mutant: a missing ObjectStore fails the reconcile.
ReadStoreStrictly ==
    /\ worker.pc = "store"
    /\ LET store == stores[worker.store]
       IN  \/ store.spec # "configured" /\ Fails
           \/ /\ store.spec = "configured"
              /\ Resolves(Compose(worker.store, store.configuration))
              /\ UNCHANGED queued
    /\ UNCHANGED <<clusterVars, consoleVars, changes, faults>>

\* readObjectStoreConfiguration and composeFromConfiguration: a missing
\* ObjectStore is an outcome, one without a configuration is an error.
ReadObjectStore ==
    /\ worker.pc = "store"
    /\ LET store == stores[worker.store]
       IN  \/ store.spec = "broken" /\ Fails
           \/ /\ store.spec = "absent"
              /\ Resolves(Unavailable("ObjectStoreNotFound")) /\ UNCHANGED queued
           \/ /\ store.spec = "configured"
              /\ Resolves(Compose(worker.store, store.configuration))
              /\ UNCHANGED queued
    /\ UNCHANGED <<clusterVars, consoleVars, changes, faults>>

\* composeEvidence and reconcileDeployment; reconcilePgAdminSync goes on only
\* when this very template has rolled out.
ReconcileDeployment ==
    /\ worker.pc = "deploy"
    /\ LET kept == template = worker.outcome.viewer
       IN  /\ template' = worker.outcome.viewer
           /\ rolled' = (rolled /\ kept)
           /\ queued' = (queued \/ ~kept)
           /\ IF rolled /\ kept THEN Goto("sync") ELSE Concludes("PendingRollout")
    /\ UNCHANGED <<clusterVars, reason, offered, synced, changes, faults>>

\* The Cluster is read once more, for the host.
ReadHost ==
    /\ worker.pc = "sync"
    /\ IF cluster.exists
       THEN worker' = [worker EXCEPT !.pc = "application", !.host = cluster.host,
                                     !.list = {}]
       ELSE Concludes("ClusterNotFound")
    /\ UNCHANGED <<clusterVars, consoleVars, queued, changes, faults>>

\* Mutant: what pgAdmin has of a source already is not read again.
OfferedBefore(s) ==
    LET before == {c \in offered : c.source = s}
    IN  IF before # {} THEN before
        ELSE IF secrets[s] = 0 THEN {}
        ELSE {[source |-> s, host |-> worker.host, password |-> secrets[s]]}

\* credentialServer: a Secret that is missing or incomplete offers nothing.
CredentialServer(s) ==
    IF secrets[s] = 0 THEN {}
    ELSE {[source |-> s, host |-> worker.host, password |-> secrets[s]]}

\* Mutant: a missing Secret fails the reconcile.
RequireCredential(source, next) ==
    /\ worker.pc = source
    /\ IF secrets[source] = 0 THEN Fails
       ELSE /\ worker' = [worker EXCEPT !.pc = next, !.list = @ \cup CredentialServer(source)]
            /\ UNCHANGED queued
    /\ UNCHANGED <<clusterVars, consoleVars, changes, faults>>

\* clusterCredentials: the application user, then the superuser.
ReadCredential(source, next) ==
    /\ worker.pc = source
    /\ worker' = [worker EXCEPT !.pc = next, !.list = @ \cup CredentialServer(source)]
    /\ UNCHANGED <<clusterVars, consoleVars, queued, changes, faults>>

ReadApplication == ReadCredential("application", "superuser")
ReadSuperuser == ReadCredential("superuser", "list")

\* databaseRoleServers: the roles come from the cache.
ListRoles ==
    /\ worker.pc = "list"
    /\ worker' = [worker EXCEPT !.pc = "role", !.todo = known]
    /\ UNCHANGED <<clusterVars, consoleVars, queued, changes, faults>>

ReadRole ==
    /\ worker.pc = "role"
    /\ \/ \E r \in worker.todo :
            worker' = [worker EXCEPT !.todo = @ \ {r}, !.list = @ \cup CredentialServer(r)]
       \/ worker.todo = {} /\ Goto("send")
    /\ UNCHANGED <<clusterVars, consoleVars, queued, changes, faults>>

\* An empty list is never sent; pgAdmin keeps what it had.
Send ==
    /\ worker.pc = "send"
    /\ IF worker.list = {} THEN Concludes("SomeDegraded") /\ UNCHANGED offered
       ELSE Concludes("AsExpected") /\ offered' = worker.list
    /\ UNCHANGED <<clusterVars, template, rolled, reason, synced, queued, changes,
                   faults>>

\* The call fails, and perhaps not before the sidecar had the list.
SendFails ==
    /\ worker.pc = "send" /\ worker.list # {}
    /\ faults < MaxFaults
    /\ offered' \in {offered, worker.list}
    /\ Concludes("SyncFailed")
    /\ faults' = faults + 1
    /\ UNCHANGED <<clusterVars, template, rolled, reason, synced, queued, changes>>

\* updateStatus writes only what differs from the copy the reconcile began
\* with, so that an old copy may keep it from writing.
Publish ==
    /\ worker.pc = "publish"
    /\ LET found == Condition(worker.outcome.reason, worker.synced)
       IN  IF found = worker.read THEN UNCHANGED <<reason, synced>>
           ELSE reason' = found.reason /\ synced' = found.synced
    /\ worker' = IdleWorker
    /\ UNCHANGED <<clusterVars, template, rolled, offered, queued, changes, faults>>

AbortReconcile ==
    /\ worker.pc # "idle"
    /\ faults < MaxFaults
    /\ Fails
    /\ faults' = faults + 1
    /\ UNCHANGED <<clusterVars, consoleVars, changes>>

\* The timers: two minutes with pgAdmin, half a minute without a Cluster.
Resync ==
    /\ ~queued /\ worker.pc = "idle"
    /\ queued' = TRUE
    /\ UNCHANGED <<clusterVars, consoleVars, worker, changes, faults>>

RollOut ==
    /\ template # NoTemplate /\ ~rolled
    /\ rolled' = TRUE
    /\ queued' = TRUE
    /\ UNCHANGED <<clusterVars, template, reason, offered, synced, worker, changes,
                   faults>>

-----------------------------------------------------------------------------
(***************************************************************************)
(* The cluster's own life.  None of it starts a reconcile.                  *)
(***************************************************************************)
Changes == changes < MaxChanges /\ changes' = changes + 1

ChangeCluster ==
    /\ Changes
    /\ \/ cluster' = [cluster EXCEPT !.exists = ~@]
       \/ \E h \in Hosts \ {cluster.host} : cluster' = [cluster EXCEPT !.host = h]
       \/ \E p \in (Stores \cup {"none"}) \ {cluster.plugin} :
            cluster' = [cluster EXCEPT !.plugin = p]
    /\ UNCHANGED <<platform, stores, secrets, roles, known, copy, consoleVars, worker, queued,
                   faults>>

ChangeStore ==
    /\ Changes
    /\ \E s \in Stores : \E v \in StoreValues \ {stores[s]} :
         stores' = [stores EXCEPT ![s] = v]
    /\ UNCHANGED <<platform, cluster, secrets, roles, known, copy, consoleVars, worker, queued,
                   faults>>

\* A password is rotated, or a Secret goes.
ChangeSecret ==
    /\ Changes
    /\ \E s \in Sources : \E p \in {0, changes + 2} \ {secrets[s]} :
         /\ secrets' = [secrets EXCEPT ![s] = p]
         /\ worker' = IF worker.pc = "idle" THEN worker
                      ELSE [worker EXCEPT !.since[s] = @ \cup {p}]
    /\ UNCHANGED <<platform, cluster, stores, roles, known, copy, consoleVars, queued, faults>>

ChangeRole ==
    /\ Changes
    /\ \E r \in Roles : roles' = IF r \in roles THEN roles \ {r} ELSE roles \cup {r}
    /\ UNCHANGED <<platform, cluster, stores, secrets, known, copy, consoleVars, worker, queued,
                   faults>>

DeliverRoles ==
    /\ known # roles
    /\ known' = roles
    /\ UNCHANGED <<platform, cluster, stores, secrets, roles, copy, consoleVars, worker, queued,
                   changes, faults>>

\* The console's own status comes back through the informer, and starts a
\* reconcile.
DeliverStatus ==
    /\ copy # Condition(reason, synced)
    /\ copy' = Condition(reason, synced)
    /\ queued' = TRUE
    /\ UNCHANGED <<platform, cluster, stores, secrets, roles, known, consoleVars, worker,
                   changes, faults>>

-----------------------------------------------------------------------------
Worker ==
    \/ Begin \/ ResolveEvidence \/ ReadObjectStore \/ ReconcileDeployment
    \/ ReadHost \/ ReadApplication \/ ReadSuperuser \/ ListRoles \/ ReadRole
    \/ Send \/ Publish

Next ==
    \/ Worker \/ SendFails \/ AbortReconcile \/ Resync \/ RollOut
    \/ ChangeCluster \/ ChangeStore \/ ChangeSecret \/ ChangeRole \/ DeliverRoles
    \/ DeliverStatus

Fairness ==
    /\ WF_vars(Worker) /\ WF_vars(Resync) /\ WF_vars(RollOut) /\ WF_vars(DeliverRoles)
    /\ WF_vars(DeliverStatus)

Spec == Init /\ [][Next]_vars /\ Fairness

-----------------------------------------------------------------------------
(***************************************************************************)
(* Properties.  First what the two walks should find, without the walks.    *)
(***************************************************************************)
Published ==
    {[source |-> s, host |-> cluster.host, password |-> secrets[s]] :
        s \in {t \in {"application", "superuser"} \cup roles : secrets[t] # 0}}

Archives(s) == stores[s].spec = "configured" /\ Supported(stores[s].configuration)
Viewable ==
    /\ platform.enabled /\ platform.served /\ platform.image
    /\ cluster.plugin # "none" /\ Archives(cluster.plugin)
Composition ==
    IF Viewable THEN Viewer(cluster.plugin, stores[cluster.plugin].configuration)
    ELSE NoViewer

\* An ObjectStore without a configuration fails every reconcile at that point.
Blocked ==
    /\ platform.enabled /\ platform.served
    /\ cluster.plugin # "none" /\ stores[cluster.plugin].spec = "broken"

\* "A Secret that has not appeared yet resolves on a later reconcile": though
\* the list is put together from many reads, and may be torn when something
\* changes meanwhile, pgAdmin comes to offer what the cluster publishes.
\* Nothing is sent when the cluster publishes nothing at all.
EventuallyOffered ==
    <>[](Blocked \/ ~cluster.exists \/ Published = {} \/ offered = Published)

\* The viewer, and the condition that speaks of it, follow a Cluster and an
\* ObjectStore that nobody watches; every shape that is not supported, and
\* everything that is missing, ends in a console without viewer.
EventuallyComposed ==
    <>[](Blocked \/ ~cluster.exists
          \/ (template = Composition /\ (reason = "AsExpected" <=> Viewable)))

\* credentialServer reads every Secret live: no list that reaches pgAdmin has
\* a password that was replaced before its reconcile began.
OffersNoOldPassword ==
    [][offered' # offered => \A c \in offered' : c.password \in worker.since[c.source]]_vars

=============================================================================
