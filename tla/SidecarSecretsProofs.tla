------------------------ MODULE SidecarSecretsProofs ------------------------
(***************************************************************************)
(* The generated Secrets, for any number of faults and of meddling hands.   *)
(***************************************************************************)
EXTENDS SidecarSecrets, TLAPS

\* A Secret is its version and what its content is good for, the absent one
\* included.
LEMMA SecretFields ==
    /\ Absent \in Secrets
    /\ \A v \in Version, w, l \in BOOLEAN :
           [version |-> v, whole |-> w, loads |-> l] \in Secrets
    /\ \A s \in Secrets : s.version \in Version /\ s.whole \in BOOLEAN
  BY DEF Secrets, Absent, Version

\* The Pod and the reconcile in progress before there is either.
LEMMA NothingYet == NoPod \in Pods /\ IdleWorker \in Workers
  <1>1. NoPod \in Pods
    BY SecretFields DEF NoPod, Pods, Version
  <1>2. IdleWorker \in Workers
    BY DEF IdleWorker, Workers, Version
  <1> QED BY <1>1, <1>2

\* Init has the types.
LEMMA TypeInit == Init => TypeOK
  <1> SUFFICES ASSUME Init PROVE TypeOK
    OBVIOUS
  <1>1. boot \in Secrets /\ sync \in Secrets /\ pod \in Pods /\ worker \in Workers
    BY SecretFields, NothingYet DEF Init
  <1>2. meddles \in 0..MaxMeddles /\ faults \in 0..MaxFaults
    BY SecretsAssumption DEF Init
  <1> QED
    BY <1>1, <1>2 DEF Init, TypeOK, Version, NoDeployment

\* Types are kept: versions are numbers the API server counts up.
LEMMA TypeNext == TypeOK /\ [Next]_vars => TypeOK'
  <1> SUFFICES ASSUME TypeOK, [Next]_vars PROVE TypeOK'
    OBVIOUS
  <1> USE SecretsAssumption, SecretFields, NothingYet
      DEF TypeOK, Version, secretVars, podVars, queueVars, countVars
  <1>0. \A w, l \in BOOLEAN : [version |-> version + 1, whole |-> w, loads |-> l] \in Secrets
    <2>1. version + 1 \in Version
      OBVIOUS
    <2> QED BY <2>1, SecretFields
  <1>1. CASE ReadBootstrap
    BY <1>1 DEF ReadBootstrap, Fails, Goto, Workers
  <1>2. CASE CreateBootstrap
    BY <1>0, <1>2 DEF CreateBootstrap, Goto, Generated, Workers
  <1>3. CASE ReadSync
    BY <1>3 DEF ReadSync, Fails, Goto, Workers
  <1>4. CASE CreateSync
    BY <1>0, <1>4 DEF CreateSync, Fails, Generated, Workers
  <1>5. CASE ReconcileDeployment
    BY <1>5 DEF ReconcileDeployment, Goto, Reports, Workers
  <1>6. CASE SelectReadyPod
    BY <1>6 DEF SelectReadyPod, Reports, Workers
  <1>7. CASE ReadToken
    BY <1>7 DEF ReadToken, Reports, Workers
  <1>8. CASE Call
    BY <1>8 DEF Call, Reports
  <1>9. CASE CallFails
    BY <1>9 DEF CallFails, Reports
  <1>10. CASE AbortReconcile
    BY <1>10 DEF AbortReconcile, Fails
  <1>11. CASE Resync
    BY <1>11 DEF Resync
  <1>12. CASE StopPod
    BY <1>12 DEF StopPod, Vanishes, Workers
  <1>13. CASE StartPod
    BY <1>13 DEF StartPod, Pods
  <1>14. CASE StartContainers
    BY <1>14 DEF StartContainers, Pods
  <1>15. CASE RefreshVolumes
    BY <1>15 DEF RefreshVolumes, Current, Pods
  <1>16. CASE ReportRollout
    BY <1>16 DEF ReportRollout
  <1>17. CASE EvictPod
    <2>1. pod' \in Pods /\ worker' \in Workers
      BY <1>17 DEF EvictPod, Vanishes, Workers
    <2> QED BY <2>1, <1>17 DEF EvictPod
  <1>18. CASE RestartContainers
    <2>1. pod' \in Pods
      BY <1>18 DEF RestartContainers, Pods
    <2> QED BY <2>1, <1>18 DEF RestartContainers
  <1>19. CASE MeddleWithBootstrap
    <2>1. boot' \in Secrets /\ version' \in Version
      BY <1>0, <1>19 DEF MeddleWithBootstrap, Meddle
    <2> QED BY <2>1, <1>19 DEF MeddleWithBootstrap
  <1>20. CASE MeddleWithSync
    <2>1. sync' \in Secrets /\ version' \in Version
      BY <1>0, <1>20 DEF MeddleWithSync, Meddle
    <2> QED BY <2>1, <1>20 DEF MeddleWithSync
  <1>21. CASE UNCHANGED vars
    BY <1>21 DEF vars
  <1> QED
    BY <1>1, <1>2, <1>3, <1>4, <1>5, <1>6, <1>7, <1>8, <1>9, <1>10, <1>11, <1>12,
       <1>13, <1>14, <1>15, <1>16, <1>17, <1>18, <1>19, <1>20, <1>21
    DEF Next, Worker, Cluster

\* Types, for any number of faults and of meddling hands.
THEOREM SecretsTypes == Spec => []TypeOK
  BY TypeInit, TypeNext, PTL DEF Spec

-----------------------------------------------------------------------------
(***************************************************************************)
(* The password.  That the Secret agrees with the database is not inductive: *)
(* the database takes its password from the Pod, so the Pod's has to agree  *)
(* with the Secret too, from the moment the Pod is created.                 *)
(***************************************************************************)
PodHasPassword ==
    ~byHand /\ pod.phase # "none" => Present(boot) /\ pod.password = boot

BootInv == PodHasPassword /\ BootstrapMatchesDatabase

\* Neither is there before the first Pod.
LEMMA BootInit == Init => BootInv
  BY DEF Init, BootInv, PodHasPassword, BootstrapMatchesDatabase, NoPod

\* Only CreateBootstrap and hands write the Secret, and only StartContainers
\* the database.
LEMMA BootNext == TypeOK /\ BootInv /\ [Next]_vars => BootInv'
  <1> SUFFICES ASSUME TypeOK, BootInv, [Next]_vars PROVE BootInv'
    OBVIOUS
  <1> USE DEF BootInv, PodHasPassword, BootstrapMatchesDatabase, Present
  <1>1. CASE CreateBootstrap
    <2>1. CASE Present(boot)
      BY <1>1, <2>1 DEF CreateBootstrap, podVars, countVars
    <2>2. CASE ~Present(boot)
      <3>1. pod' = pod /\ baked' = baked /\ byHand' = byHand
        BY <1>1 DEF CreateBootstrap, podVars, countVars
      <3>2. ~byHand => pod.phase = "none" /\ baked = 0
        BY <2>2
      <3> QED BY <3>1, <3>2
    <2> QED BY <2>1, <2>2
  <1>2. CASE MeddleWithBootstrap
    BY <1>2 DEF MeddleWithBootstrap
  <1>3. CASE StartContainers
    <2>1. /\ pod'.phase = "ready" /\ pod'.password = pod.password
          /\ pod.phase = "starting"
      BY <1>3 DEF StartContainers, TypeOK, Pods
    <2>2. boot' = boot /\ byHand' = byHand
      BY <1>3 DEF StartContainers, secretVars, countVars
    <2> QED BY <1>3, <2>1, <2>2 DEF StartContainers
  <1>4. CASE StartPod
    BY <1>4 DEF StartPod, secretVars, countVars
  <1>5. CASE RefreshVolumes
    <2>1. pod'.phase = pod.phase /\ pod'.password = Current(boot, pod.password)
      BY <1>5 DEF RefreshVolumes, TypeOK, Pods
    <2> QED BY <1>5, <2>1 DEF RefreshVolumes, Current, secretVars, countVars
  <1>6. CASE RestartContainers
    <2>1. pod'.password = pod.password /\ pod.phase = "ready"
      BY <1>6 DEF RestartContainers, TypeOK, Pods
    <2> QED BY <1>6, <2>1 DEF RestartContainers, secretVars
  <1>7. CASE StopPod \/ EvictPod
    BY <1>7 DEF StopPod, EvictPod, Vanishes, NoPod, secretVars, countVars
  <1>8. CASE UNCHANGED <<boot, pod, baked, byHand>>
    BY <1>8
  <1> QED
    BY <1>1, <1>2, <1>3, <1>4, <1>5, <1>6, <1>7, <1>8
    DEF Next, Worker, Cluster, ReadBootstrap, ReadSync, CreateSync,
        ReconcileDeployment, SelectReadyPod, ReadToken, Call, CallFails,
        AbortReconcile, Resync, ReportRollout, MeddleWithSync,
        vars, secretVars, podVars, countVars

\* reconcilePgAdminBootstrapSecret: however often reconciles fail, the manager
\* restarts and Pods are evicted, the Secret holds the password that pgAdmin's
\* settings database was made with, unless someone else touched the Secret.
THEOREM BootstrapPassword == Spec => []BootstrapMatchesDatabase
  <1>1. BootInv => BootstrapMatchesDatabase
    BY DEF BootInv
  <1> QED
    BY <1>1, TypeInit, TypeNext, BootInit, BootNext, PTL DEF Spec

-----------------------------------------------------------------------------
\* One step writes over no Secret, except by hand.
LEMMA NotOverwrittenNext ==
    ASSUME TypeOK, [Next]_vars
    PROVE  /\ Present(boot) /\ boot' # boot => meddles' > meddles
           /\ Present(sync) /\ sync' # sync => meddles' > meddles
  <1>1. CASE CreateBootstrap
    BY <1>1 DEF CreateBootstrap, secretVars
  <1>2. CASE CreateSync
    BY <1>2 DEF CreateSync
  <1>3. CASE MeddleWithBootstrap \/ MeddleWithSync
    BY <1>3 DEF MeddleWithBootstrap, MeddleWithSync, TypeOK
  <1>4. CASE UNCHANGED <<boot, sync>>
    BY <1>4
  <1> QED
    BY <1>1, <1>2, <1>3, <1>4
    DEF Next, Worker, Cluster, ReadBootstrap, ReadSync, ReconcileDeployment,
        SelectReadyPod, ReadToken, Call, CallFails, AbortReconcile, Resync,
        StopPod, StartPod, RefreshVolumes, StartContainers, ReportRollout, EvictPod,
        RestartContainers, vars, secretVars

\* "The caller never overwrites a partial Secret", nor one that appeared
\* between the read and the create: neither Secret is written over by the
\* operator, in any interleaving.
THEOREM SecretsNeverOverwritten == Spec => NeverOverwritten
  BY NotOverwrittenNext, SecretsTypes, PTL DEF Spec, NeverOverwritten

-----------------------------------------------------------------------------
(***************************************************************************)
(* The calls.  A sidecar that was started for a template runs with material *)
(* at least as new as the version the template carries, because a Secret    *)
(* that is there is the newest there has been; and a call goes to a Pod of  *)
(* the template its reconcile deployed.  When the Secret is still the one   *)
(* that was deployed, the two bounds meet.                                  *)
(***************************************************************************)
Carried == {template, worker.version, pod.volume.version, pod.material}
SecretIsNewest ==
    /\ sync.version <= version
    /\ \A v \in Carried : v <= version /\ (Present(sync) => v <= sync.version)
PodKeepsUp ==
    /\ pod.phase # "none" => pod.revision <= pod.volume.version
    /\ pod.phase = "ready" => pod.revision <= pod.material
PodOfTemplate == pod.phase = "none" \/ pod.revision = template
ReportIsOfTemplate == complete => PodOfTemplate
CallerDeployed ==
    /\ worker.pc \in {"select", "read", "call"} => template = worker.version /\ PodOfTemplate
    /\ worker.pc = "call" => worker.presented # 0

CallInv == SecretIsNewest /\ PodKeepsUp /\ ReportIsOfTemplate /\ CallerDeployed

\* The fields of the Pod and of the reconcile that the bounds compare.
LEMMA CarriedTypes ==
    ASSUME TypeOK
    PROVE  /\ sync.version \in Nat /\ version \in Nat /\ template \in Nat
           /\ worker.version \in Nat /\ worker.presented \in Nat
           /\ pod.volume.version \in Nat /\ pod.material \in Nat /\ pod.revision \in Nat
  <1>1. pod.volume \in Secrets
    BY DEF TypeOK, Pods
  <1> QED
    BY <1>1, SecretFields DEF TypeOK, Pods, Workers, Version

\* Before the first reconcile there is nothing to compare.
LEMMA CallInit == Init => CallInv
  BY DEF Init, CallInv, SecretIsNewest, Carried, PodKeepsUp, ReportIsOfTemplate,
     PodOfTemplate, CallerDeployed, NoPod, IdleWorker, Absent, Present, NoDeployment

\* The invariant speaks of these fields only.
LEMMA CallFrame ==
    ASSUME CallInv, UNCHANGED <<sync, version, template, pod, complete>>,
           worker'.version = worker.version, worker'.presented = worker.presented,
           worker'.pc \in {"select", "read", "call"} => worker'.pc = worker.pc
    PROVE  CallInv'
  BY DEF CallInv, SecretIsNewest, Carried, PodKeepsUp, ReportIsOfTemplate,
     PodOfTemplate, CallerDeployed, Present

\* A write of the Secret, by the operator or by hand, makes it the newest.
LEMMA NewSecretIsNewest ==
    ASSUME TypeOK, SecretIsNewest, version' = version + 1, sync'.version = version + 1,
           Carried' \subseteq Carried \cup {version + 1}
    PROVE  SecretIsNewest'
  BY CarriedTypes DEF SecretIsNewest, Carried, Present

\* Every step keeps the bounds.
LEMMA CallNext == TypeOK /\ TypeOK' /\ CallInv /\ [Next]_vars => CallInv'
  <1> SUFFICES ASSUME TypeOK, TypeOK', CallInv, [Next]_vars PROVE CallInv'
    OBVIOUS
  <1>a. /\ SecretIsNewest /\ PodKeepsUp /\ ReportIsOfTemplate /\ CallerDeployed
        /\ worker \in Workers /\ pod \in Pods
    BY DEF CallInv, TypeOK
  <1>b. /\ sync.version \in Nat /\ version \in Nat /\ template \in Nat
        /\ worker.version \in Nat /\ pod.volume.version \in Nat
        /\ pod.material \in Nat /\ pod.revision \in Nat
    BY CarriedTypes
  <1>c. ASSUME worker' = IdleWorker, UNCHANGED <<sync, version, template, pod>>,
               complete' => complete
        PROVE  CallInv'
    <2>1. worker'.pc = "idle" /\ worker'.version = 0
      BY <1>c DEF IdleWorker
    <2> QED
      BY <1>a, <1>b, <1>c, <2>1 DEF CallInv, SecretIsNewest, Carried, PodKeepsUp,
         ReportIsOfTemplate, PodOfTemplate, CallerDeployed, Present
  <1>1. CASE ReadBootstrap
    <2>1. UNCHANGED <<sync, version, template, pod, complete>>
      BY <1>1 DEF ReadBootstrap, secretVars, podVars
    <2>2. CASE worker' = IdleWorker
      BY <1>c, <2>1, <2>2
    <2>3. CASE worker' # IdleWorker
      <3>1. /\ worker'.pc \in {"readSync", "createBootstrap"}
            /\ worker'.version = worker.version /\ worker'.presented = worker.presented
        BY <1>1, <1>a, <2>3 DEF ReadBootstrap, Fails, Goto, Workers
      <3> QED BY <2>1, <3>1, CallFrame
    <2> QED BY <2>2, <2>3
  <1>2. CASE CreateBootstrap
    <2>1. /\ UNCHANGED <<sync, template, pod, complete>> /\ version' \in {version, version + 1}
          /\ worker'.pc = "readSync" /\ worker'.version = worker.version
      BY <1>2, <1>a DEF CreateBootstrap, podVars, Goto, Workers
    <2> QED
      BY <1>a, <1>b, <2>1 DEF CallInv, SecretIsNewest, Carried, PodKeepsUp,
         ReportIsOfTemplate, PodOfTemplate, CallerDeployed, Present
  <1>3. CASE ReadSync
    <2>1. UNCHANGED <<sync, version, template, pod, complete>>
      BY <1>3 DEF ReadSync, secretVars, podVars
    <2>2. CASE worker' = IdleWorker
      BY <1>c, <2>1, <2>2
    <2>3. CASE worker' # IdleWorker
      <3>1. /\ worker'.pc \in {"createSync", "deploy"}
            /\ worker'.version \in {worker.version, sync.version}
        BY <1>3, <1>a, <2>3 DEF ReadSync, Fails, Goto, Workers
      <3> QED
        BY <1>a, <1>b, <2>1, <3>1 DEF CallInv, SecretIsNewest, Carried, PodKeepsUp,
           ReportIsOfTemplate, PodOfTemplate, CallerDeployed, Present
    <2> QED BY <2>2, <2>3
  <1>4. CASE CreateSync
    <2>1. UNCHANGED <<template, pod, complete>>
      BY <1>4 DEF CreateSync, podVars
    <2>2. CASE Present(sync)
      BY <1>4, <2>1, <2>2, <1>c DEF CreateSync, Fails
    <2>3. CASE ~Present(sync)
      <3>0. /\ version' = version + 1 /\ sync' = Generated
            /\ worker' = [worker EXCEPT !.pc = "deploy", !.version = version + 1]
        BY Zenon, <1>4, <2>3 DEF CreateSync
      <3>1. /\ version' = version + 1 /\ sync'.version = version + 1
            /\ worker'.pc = "deploy" /\ worker'.version = version + 1
        BY <1>a, <3>0 DEF Generated, Workers
      <3>2. SecretIsNewest'
        BY <1>a, <2>1, <3>1, NewSecretIsNewest DEF Carried
      <3> QED
        BY <1>a, <2>1, <3>1, <3>2 DEF CallInv, PodKeepsUp, ReportIsOfTemplate,
           PodOfTemplate, CallerDeployed
    <2> QED BY <2>2, <2>3
  <1>5. CASE ReconcileDeployment
    <2>1. /\ UNCHANGED <<sync, version, pod>> /\ template' = worker.version
          /\ complete' => complete /\ template = worker.version
      BY <1>5 DEF ReconcileDeployment, secretVars, DeploymentMatches
    <2>2. /\ worker'.version \in {0, worker.version}
          /\ worker'.pc \in {"select", "idle"}
          /\ worker'.pc = "select" => /\ worker'.version = worker.version
                                      /\ complete /\ template = worker.version
      BY <1>5, <1>a DEF ReconcileDeployment, RolledOut, DeploymentMatches, Goto, Reports,
         IdleWorker, Workers
    <2>3. SecretIsNewest'
      BY <1>a, <1>b, <2>1, <2>2 DEF SecretIsNewest, Carried, Present
    <2> QED
      BY <1>a, <2>1, <2>2, <2>3 DEF CallInv, PodKeepsUp, ReportIsOfTemplate,
         PodOfTemplate, CallerDeployed
  <1>6. CASE SelectReadyPod \/ ReadToken
    <2>1. UNCHANGED <<sync, version, template, pod, complete>>
      BY <1>6 DEF SelectReadyPod, ReadToken, secretVars, podVars
    <2>2. CASE worker' = IdleWorker
      BY <1>c, <2>1, <2>2
    <2>3. CASE worker' # IdleWorker
      <3>1. /\ worker'.version = worker.version
            /\ worker.pc \in {"select", "read"}
            /\ worker'.pc = "call" => worker'.presented = sync.version /\ Present(sync)
        BY <1>6, <1>a, <2>3 DEF SelectReadyPod, ReadToken, Reports, Workers
      <3> QED
        BY <1>a, <2>1, <3>1 DEF CallInv, SecretIsNewest, Carried, PodKeepsUp,
           ReportIsOfTemplate, PodOfTemplate, CallerDeployed, Present
    <2> QED BY <2>2, <2>3
  <1>7. CASE Call \/ CallFails \/ AbortReconcile
    BY <1>7, <1>c DEF Call, CallFails, AbortReconcile, Reports, Fails, secretVars, podVars
  <1>8. CASE StopPod \/ EvictPod
    <2>1. /\ UNCHANGED <<sync, version, template, complete>>
          /\ pod' = NoPod /\ worker' = [worker EXCEPT !.target = FALSE]
      BY <1>8 DEF StopPod, EvictPod, Vanishes, secretVars
    <2>2. /\ pod'.phase = "none" /\ pod'.volume.version = 0 /\ pod'.material = 0
          /\ worker'.version = worker.version /\ worker'.pc = worker.pc
          /\ worker'.presented = worker.presented
      BY <1>a, <2>1 DEF NoPod, Absent, Workers
    <2> QED
      BY <1>a, <1>b, <2>1, <2>2 DEF CallInv, SecretIsNewest, Carried, PodKeepsUp,
         ReportIsOfTemplate, PodOfTemplate, CallerDeployed, Present
  <1>9. CASE StartPod
    <2>1. /\ UNCHANGED <<sync, version, template, complete, worker>> /\ Present(sync)
          /\ pod'.phase = "starting" /\ pod'.revision = template
          /\ pod'.volume = sync /\ pod'.material = 0
      BY <1>9 DEF StartPod, secretVars
    <2> QED
      BY <1>a, <1>b, <2>1 DEF CallInv, SecretIsNewest, Carried, PodKeepsUp,
         ReportIsOfTemplate, PodOfTemplate, CallerDeployed, Present
  <1>10. CASE RefreshVolumes
    <2>1. /\ UNCHANGED <<sync, version, template, complete, worker>>
          /\ pod'.phase = pod.phase /\ pod'.revision = pod.revision
          /\ pod'.material = pod.material /\ pod'.volume = Current(sync, pod.volume)
      BY <1>10, <1>a DEF RefreshVolumes, Pods, secretVars
    <2> QED
      BY <1>a, <1>b, <2>1 DEF CallInv, SecretIsNewest, Carried, PodKeepsUp,
         ReportIsOfTemplate, PodOfTemplate, CallerDeployed, Present, Current
  <1>11. CASE StartContainers \/ RestartContainers
    <2>1. /\ UNCHANGED <<sync, version, template, complete, worker>>
          /\ pod.phase # "none" /\ pod'.phase # "none"
          /\ pod'.revision = pod.revision /\ pod'.volume = pod.volume
          /\ pod'.material \in {0, pod.volume.version}
          /\ pod'.phase = "ready" => pod'.material = pod.volume.version
      BY <1>11, <1>a DEF StartContainers, RestartContainers, Pods, secretVars
    <2> QED
      BY <1>a, <1>b, <2>1 DEF CallInv, SecretIsNewest, Carried, PodKeepsUp,
         ReportIsOfTemplate, PodOfTemplate, CallerDeployed, Present
  <1>12. CASE ReportRollout
    <2>1. /\ UNCHANGED <<sync, version, template, pod, worker>>
          /\ complete' = (pod.phase = "ready" /\ pod.revision = template)
      BY <1>12 DEF ReportRollout, secretVars
    <2> QED
      BY <1>a, <2>1 DEF CallInv, SecretIsNewest, Carried, PodKeepsUp,
         ReportIsOfTemplate, PodOfTemplate, CallerDeployed, Present
  <1>13. CASE MeddleWithBootstrap
    <2>1. /\ UNCHANGED <<sync, template, pod, complete, worker>>
          /\ version' \in {version, version + 1}
      BY <1>13 DEF MeddleWithBootstrap, Meddle, podVars
    <2> QED
      BY <1>a, <1>b, <2>1 DEF CallInv, SecretIsNewest, Carried, PodKeepsUp,
         ReportIsOfTemplate, PodOfTemplate, CallerDeployed, Present
  <1>14. CASE MeddleWithSync
    <2>1. UNCHANGED <<template, pod, complete, worker>>
      BY <1>14 DEF MeddleWithSync, podVars
    <2>2. SecretIsNewest'
      <3>1. CASE sync' = Absent /\ version' = version
        BY <1>a, <1>b, <2>1, <3>1 DEF SecretIsNewest, Carried, Present, Absent
      <3>2. CASE version' = version + 1 /\ sync'.version = version + 1
        BY <1>a, <2>1, <3>2, NewSecretIsNewest DEF Carried
      <3> QED BY <1>14, <3>1, <3>2 DEF MeddleWithSync, Meddle
    <2> QED
      BY <1>a, <2>1, <2>2 DEF CallInv, PodKeepsUp, ReportIsOfTemplate,
         PodOfTemplate, CallerDeployed
  <1>15. CASE Resync \/ UNCHANGED vars
    BY <1>15, CallFrame DEF Resync, vars, secretVars, podVars
  <1> QED
    BY <1>1, <1>2, <1>3, <1>4, <1>5, <1>6, <1>7, <1>8, <1>9, <1>10, <1>11, <1>12,
       <1>13, <1>14, <1>15
    DEF Next, Worker, Cluster

\* "The resource version participates in the workload checksum so regeneration
\* rolls the Deployment": for any number of regenerations, restarts, evictions
\* and failed reconciles, a call that presents what its reconcile deployed, and
\* that is still there, is one the sidecar accepts.
THEOREM SyncCallsAreAuthorized == Spec => []CallsAreAuthorized
  <1>1. TypeOK /\ CallInv => CallsAreAuthorized
    <2> SUFFICES ASSUME TypeOK, CallInv, worker.pc = "call", pod.phase = "ready",
                        worker.presented = worker.version,
                        sync.version = worker.version
                 PROVE  pod.material = worker.presented
      BY DEF CallsAreAuthorized
    <2>1. pod.revision = worker.version /\ Present(sync)
      BY DEF CallInv, CallerDeployed, PodOfTemplate, Present
    <2>2. pod.revision <= pod.material /\ pod.material <= sync.version
      BY <2>1 DEF CallInv, PodKeepsUp, SecretIsNewest, Carried
    <2> QED BY <2>1, <2>2, CarriedTypes
  <1> QED
    BY <1>1, TypeInit, TypeNext, CallInit, CallNext, PTL DEF Spec
=============================================================================
