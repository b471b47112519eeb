--------------------------- MODULE SidecarSecrets ---------------------------
(***************************************************************************)
(* The two Secrets the operator generates once for a console with pgAdmin:  *)
(* the bootstrap password, which pgAdmin bakes into its settings database   *)
(* at its first start, and the certificate and token of the admin-sync      *)
(* API, which the sidecar reads when it starts and the operator reads for   *)
(* every call.  The reconcile makes sure of both, puts the version of the   *)
(* second into the Pod template, and calls the sidecar once the Deployment  *)
(* has rolled out.  All its reads are live.                                 *)
(*                                                                          *)
(* A Secret is the resource version of its content, whether it holds all    *)
(* the keys the operator looks for, and whether the containers that mount   *)
(* it can start with what is in them.  The operator looks at lengths; the   *)
(* sidecar trims the token and loads the certificate.                       *)
(***************************************************************************)
EXTENDS Integers

CONSTANTS
    MaxMeddles, \* bound: Secrets deleted, emptied, replaced or restored by hand
    MaxFaults   \* bound: failed steps, manager restarts, evictions, container restarts

ASSUME SecretsAssumption == MaxMeddles \in Nat /\ MaxFaults \in Nat

VARIABLES
    boot,      \* the bootstrap Secret
    sync,      \* the admin-sync Secret
    version,   \* the last resource version the API server gave out
    template,  \* version in the Pod template's annotation
    pod,       \* the Pod
    complete,  \* what rolloutComplete makes of the Deployment's status
    baked,     \* version of the password in pgAdmin's settings database
    worker,    \* the reconcile in progress
    condition, \* PgAdminSynced
    queued,    \* the console is in the work queue
    byHand,    \* someone else has touched the bootstrap Secret
    meddles, faults \* history

secretVars == <<boot, sync, version>>
podVars == <<template, pod, complete, baked>>
queueVars == <<condition, queued>>
countVars == <<byHand, meddles, faults>>
vars == <<secretVars, podVars, worker, queueVars, countVars>>

Version == Nat
Secrets == [version: Version, whole: BOOLEAN, loads: BOOLEAN]
Absent == [version |-> 0, whole |-> FALSE, loads |-> FALSE]
NoDeployment == 0
NoPod == [phase |-> "none", revision |-> 0, volume |-> Absent, password |-> Absent,
          material |-> 0]
IdleWorker == [pc |-> "idle", version |-> 0, presented |-> 0, target |-> FALSE]

Present(s) == s.version # 0
Unusable(s) == Present(s) /\ ~s.whole

Pods == [phase: {"none", "starting", "ready"}, revision: Version,
         volume: Secrets, password: Secrets, material: Version]
Workers == [pc: {"idle", "createBootstrap", "readSync", "createSync", "deploy",
                 "select", "read", "call"},
            version: Version, presented: Version, target: BOOLEAN]

TypeOK ==
    /\ boot \in Secrets /\ sync \in Secrets
    /\ version \in Version
    /\ template \in Version
    /\ pod \in Pods
    /\ complete \in BOOLEAN
    /\ baked \in Version
    /\ worker \in Workers
    /\ condition \in {"unknown", "pending", "failed", "synced"}
    /\ queued \in BOOLEAN /\ byHand \in BOOLEAN
    /\ meddles \in 0..MaxMeddles /\ faults \in 0..MaxFaults

Init ==
    /\ boot = Absent /\ sync = Absent /\ version = 0
    /\ template = NoDeployment /\ pod = NoPod /\ complete = FALSE /\ baked = 0
    /\ worker = IdleWorker
    /\ condition = "unknown" /\ queued = TRUE
    /\ byHand = FALSE /\ meddles = 0 /\ faults = 0

-----------------------------------------------------------------------------
(***************************************************************************)
(* The reconcile, as far as the two Secrets go.  An error queues the        *)
(* console again and leaves the condition as it was.                        *)
(***************************************************************************)
\* Mutant: the object as it was sent, which has no version yet.
AsSent == [version |-> -1, whole |-> TRUE, loads |-> TRUE]

Generated == [version |-> version + 1, whole |-> TRUE, loads |-> TRUE]
Goto(pc) == worker' = [worker EXCEPT !.pc = pc]
Fails == worker' = IdleWorker /\ queued' = TRUE
Reports(c) == worker' = IdleWorker /\ condition' = c

\* Mutant: the password is generated again by every reconcile.
RotateBootstrap ==
    /\ worker.pc = "idle" /\ queued
    /\ queued' = FALSE
    /\ boot' = Generated /\ version' = version + 1
    /\ Goto("readSync")
    /\ UNCHANGED <<sync, podVars, condition, countVars>>

\* reconcilePgAdminBootstrapSecret, the live read.
ReadBootstrap ==
    /\ worker.pc = "idle" /\ queued
    /\ IF Unusable(boot) THEN Fails
       ELSE /\ queued' = FALSE
            /\ Goto(IF Present(boot) THEN "readSync" ELSE "createBootstrap")
    /\ UNCHANGED <<secretVars, podVars, condition, countVars>>

\* Mutant: the generated password replaces one that appeared meanwhile.
ReplaceBootstrap ==
    /\ worker.pc = "createBootstrap"
    /\ boot' = Generated /\ version' = version + 1
    /\ Goto("readSync")
    /\ queued' = TRUE
    /\ UNCHANGED <<sync, podVars, condition, countVars>>

\* Create: a Secret that appeared meanwhile is left alone.
CreateBootstrap ==
    /\ worker.pc = "createBootstrap"
    /\ IF Present(boot) THEN UNCHANGED <<boot, version, queued>>
       ELSE boot' = Generated /\ version' = version + 1 /\ queued' = TRUE
    /\ Goto("readSync")
    /\ UNCHANGED <<sync, podVars, condition, countVars>>

\* reconcileAdminSyncSecret, the live read and adminSyncSecretUsable.
ReadSync ==
    /\ worker.pc = "readSync"
    /\ \/ Unusable(sync) /\ Fails
       \/ /\ ~Present(sync)
          /\ Goto("createSync") /\ UNCHANGED queued
       \/ /\ Present(sync) /\ sync.whole
          /\ worker' = [worker EXCEPT !.pc = "deploy", !.version = sync.version]
          /\ UNCHANGED queued
    /\ UNCHANGED <<secretVars, podVars, condition, countVars>>

\* Create: here a Secret that appeared meanwhile is an error.
CreateSync ==
    /\ worker.pc = "createSync"
    /\ IF Present(sync) THEN Fails /\ UNCHANGED <<sync, version>>
       ELSE /\ sync' = Generated /\ version' = version + 1 /\ queued' = TRUE
            /\ worker' = [worker EXCEPT !.pc = "deploy", !.version = version + 1]
    /\ UNCHANGED <<boot, podVars, condition, countVars>>

\* Mutants: the version left out of the template; a call while the Deployment
\* rolls out.
AnyTemplate(v) == template # NoDeployment
AnyRollout(v) == TRUE

\* deploymentMatches: the live template carries the version.
DeploymentMatches(v) == template = v

\* rolloutComplete, of the Deployment that was kept: one that was applied has
\* a generation its status has not observed.
RolledOut(v) == complete /\ DeploymentMatches(v)

\* reconcileDeployment, and reconcilePgAdminSync as far as the roll-out.
ReconcileDeployment ==
    /\ worker.pc = "deploy"
    /\ LET v == worker.version
       IN  /\ template' = IF DeploymentMatches(v) THEN template ELSE v
           /\ complete' = (complete /\ DeploymentMatches(v))
           /\ queued' = (queued \/ ~DeploymentMatches(v))
           /\ IF RolledOut(v) THEN Goto("select") /\ UNCHANGED condition
              ELSE Reports("pending")
    /\ UNCHANGED <<secretVars, pod, baked, countVars>>

\* Sync: readyPod, a live list.
SelectReadyPod ==
    /\ worker.pc = "select"
    /\ IF pod.phase = "ready"
       THEN worker' = [worker EXCEPT !.pc = "read", !.target = TRUE] /\ UNCHANGED condition
       ELSE Reports("failed")
    /\ UNCHANGED <<secretVars, podVars, queued, countVars>>

\* Sync: the certificate and token are read again, live; without them the call
\* fails, here or at the sidecar.
ReadToken ==
    /\ worker.pc = "read"
    /\ IF Present(sync) /\ sync.loads
       THEN /\ worker' = [worker EXCEPT !.pc = "call", !.presented = sync.version]
            /\ UNCHANGED condition
       ELSE Reports("failed")
    /\ UNCHANGED <<secretVars, podVars, queued, countVars>>

\* The sidecar compares the token with the one it read when it started; so
\* does TLS with the certificate.
Call ==
    /\ worker.pc = "call"
    /\ Reports(IF worker.target /\ pod.material = worker.presented
               THEN "synced" ELSE "failed")
    /\ UNCHANGED <<secretVars, podVars, queued, countVars>>

\* The call itself fails, is not answered in time, or fails in the sidecar.
CallFails ==
    /\ worker.pc = "call"
    /\ faults < MaxFaults
    /\ Reports("failed")
    /\ faults' = faults + 1
    /\ UNCHANGED <<secretVars, podVars, queued, byHand, meddles>>

\* Any other request fails, or the manager restarts.
AbortReconcile ==
    /\ worker.pc # "idle"
    /\ faults < MaxFaults
    /\ Fails
    /\ faults' = faults + 1
    /\ UNCHANGED <<secretVars, podVars, condition, byHand, meddles>>

\* The two-minute resync of a console with pgAdmin.
Resync ==
    /\ ~queued
    /\ queued' = TRUE
    /\ UNCHANGED <<secretVars, podVars, worker, condition, countVars>>

-----------------------------------------------------------------------------
(***************************************************************************)
(* The Deployment controller (Recreate), the kubelet and the containers.    *)
(* A Pod is created only when both Secrets can be mounted.                  *)
(***************************************************************************)
Vanishes ==
    /\ pod' = NoPod
    /\ worker' = [worker EXCEPT !.target = FALSE]

StopPod ==
    /\ pod.phase # "none" /\ pod.revision # template
    /\ Vanishes
    /\ UNCHANGED <<secretVars, template, complete, baked, queueVars, countVars>>

StartPod ==
    /\ pod.phase = "none" /\ template # NoDeployment
    /\ Present(boot) /\ Present(sync)
    /\ pod' = [phase |-> "starting", revision |-> template, volume |-> sync,
               password |-> boot, material |-> 0]
    /\ UNCHANGED <<secretVars, template, complete, baked, worker, queueVars, countVars>>

\* The kubelet refreshes the volumes with what is there; a deleted Secret
\* leaves them as they are.
Current(s, mounted) == IF Present(s) THEN s ELSE mounted
RefreshVolumes ==
    /\ pod.phase # "none"
    /\ <<pod.volume, pod.password>> # <<Current(sync, pod.volume), Current(boot, pod.password)>>
    /\ pod' = [pod EXCEPT !.volume = Current(sync, @), !.password = Current(boot, @)]
    /\ UNCHANGED <<secretVars, template, complete, baked, worker, queueVars, countVars>>

\* pgAdmin refuses to start without a password while it has no settings
\* database; RunSidecar refuses an incomplete certificate or token.
StartContainers ==
    /\ pod.phase = "starting"
    /\ pod.volume.loads
    /\ baked # 0 \/ pod.password.loads
    /\ pod' = [pod EXCEPT !.phase = "ready", !.material = pod.volume.version]
    /\ baked' = IF baked = 0 THEN pod.password.version ELSE baked
    /\ UNCHANGED <<secretVars, template, complete, worker, queueVars, countVars>>

ReportRollout ==
    LET rolled == pod.phase = "ready" /\ pod.revision = template
    IN  /\ template # NoDeployment
        /\ complete # rolled
        /\ complete' = rolled
        /\ queued' = TRUE
        /\ UNCHANGED <<secretVars, template, pod, baked, worker, condition, countVars>>

EvictPod ==
    /\ pod.phase # "none"
    /\ faults < MaxFaults
    /\ Vanishes
    /\ faults' = faults + 1
    /\ UNCHANGED <<secretVars, template, complete, baked, queueVars, byHand, meddles>>

\* A container ends and is started again in the same Pod.
RestartContainers ==
    /\ pod.phase = "ready"
    /\ faults < MaxFaults
    /\ pod' = [pod EXCEPT !.phase = "starting", !.material = 0]
    /\ faults' = faults + 1
    /\ UNCHANGED <<secretVars, template, complete, baked, worker, queueVars, byHand, meddles>>

-----------------------------------------------------------------------------
(***************************************************************************)
(* Whoever else may write the Secrets of the namespace.  Every write is an  *)
(* event of an owned object.                                                *)
(***************************************************************************)
Meddle(s) ==
    \/ Present(s) /\ s' = Absent /\ UNCHANGED version
    \/ /\ version' = version + 1
       /\ \E whole, loads \in BOOLEAN :
            /\ (s.whole /\ s.loads) \/ (whole /\ loads)
            /\ s' = [version |-> version + 1, whole |-> whole, loads |-> loads]

MeddleWithBootstrap ==
    /\ meddles < MaxMeddles
    /\ Meddle(boot)
    /\ byHand' = TRUE /\ queued' = TRUE /\ meddles' = meddles + 1
    /\ UNCHANGED <<sync, podVars, worker, condition, faults>>

MeddleWithSync ==
    /\ meddles < MaxMeddles
    /\ Meddle(sync)
    /\ queued' = TRUE /\ meddles' = meddles + 1
    /\ UNCHANGED <<boot, podVars, worker, condition, byHand, faults>>

-----------------------------------------------------------------------------
Worker ==
    \/ ReadBootstrap \/ CreateBootstrap \/ ReadSync \/ CreateSync
    \/ ReconcileDeployment \/ SelectReadyPod \/ ReadToken \/ Call

Cluster == StopPod \/ StartPod \/ StartContainers

Next ==
    \/ Worker \/ CallFails \/ AbortReconcile \/ Resync
    \/ Cluster \/ RefreshVolumes \/ ReportRollout \/ EvictPod \/ RestartContainers
    \/ MeddleWithBootstrap \/ MeddleWithSync

\* The manager, its timer, the Deployment controller and the kubelet go on.
Fairness ==
    /\ WF_vars(Worker) /\ WF_vars(Resync)
    /\ WF_vars(Cluster) /\ WF_vars(RefreshVolumes) /\ WF_vars(ReportRollout)

Spec == Init /\ [][Next]_vars /\ Fairness

-----------------------------------------------------------------------------
(***************************************************************************)
(* Properties.                                                              *)
(***************************************************************************)

\* "The resource version participates in the workload checksum so regeneration
\* rolls the Deployment": a call that presents what this reconcile deployed,
\* and that is still there, meets a sidecar that runs with it, however the Pod
\* and its containers came to run.
CallsAreAuthorized ==
    (worker.pc = "call" /\ worker.target /\ pod.phase = "ready"
       /\ worker.presented = worker.version /\ sync.version = worker.version)
        => pod.material = worker.presented

\* reconcilePgAdminBootstrapSecret: the password "is baked into pgAdmin's
\* settings database at first start", and the Secret keeps holding it, through
\* failed reconciles, restarts and evictions, unless someone else touched it.
BootstrapMatchesDatabase == ~byHand /\ baked # 0 => boot.version = baked

\* A Secret that is there is never written over, be it partial ("the caller
\* never overwrites a partial Secret") or put there between the read and the
\* create: its version changes only by hand.
NeverOverwritten ==
    [][/\ Present(boot) /\ boot' # boot => meddles' > meddles
       /\ Present(sync) /\ sync' # sync => meddles' > meddles]_vars

\* "delete it to regenerate": whatever was deleted, replaced or restored, the
\* sidecar comes to run with the Secret and the operator to be answered, unless
\* an unusable Secret is left in place: one the operator refuses, or one that
\* it takes and no container starts with.
Unloadable(s) == Present(s) /\ ~s.loads
Blocked ==
    \/ Unusable(boot) \/ Unusable(sync)
    \/ Unloadable(sync) \/ (Unloadable(boot) /\ baked = 0)
Synchronized ==
    /\ condition = "synced"
    /\ template = sync.version
    /\ pod.phase = "ready" /\ pod.material = sync.version
EventuallyAnswered == <>[](Blocked \/ Synchronized)
=============================================================================
