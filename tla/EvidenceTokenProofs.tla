------------------------ MODULE EvidenceTokenProofs ------------------------
(***************************************************************************)
(* Proofs about EvidenceToken, for every value of its constants: its types, *)
(* that no Pod loses its token, that lost tokens come back under new names, *)
(* that it implements TokenService, that no rotation is rolled back, and    *)
(* that a request mints one successor.                                      *)
(***************************************************************************)
EXTENDS EvidenceToken, TLAPS

USE BoundsAssumption DEF BoundsAssumption

\* The generations a reconcile computes from a console are natural numbers.
LEMMA GenerationTypes ==
    ASSUME TypeOK, NEW c \in Console
    PROVE  /\ DeployedTokenGeneration \in Generation
           /\ BaseGeneration(c) \in Generation
           /\ ResolvedGeneration(c) \in Generation \ {0}
  <1>1. template \in Nat \cup {-1} /\ c.status \in Nat
    BY DEF TypeOK, Generation, Console, NoDeployment
  <1>2. DeployedTokenGeneration \in Nat
    BY <1>1 DEF DeployedTokenGeneration, TokenGeneration, NoDeployment
  <1>3. BaseGeneration(c) \in Nat
    BY <1>1, <1>2 DEF BaseGeneration, TokenGeneration, Larger
  <1>4. QED
    BY <1>2, <1>3 DEF ResolvedGeneration, SuccessorGeneration, Generation

\* A reconcile that keeps the active token found its Secret.
LEMMA KeptTokenExists ==
    ASSUME NEW c, KeepsActive(c)
    PROVE  ResolvedGeneration(c) \in secrets
  BY DEF KeepsActive, ResolvedGeneration

\* A write of the console leaves it, and the informer's feed, well-formed.
LEMMA WriteConsoleTypes ==
    ASSUME NEW c \in Console, feed \in Seq(Console), WriteConsole(c)
    PROVE  console' \in Console /\ feed' \in Seq(Console)
  BY DEF WriteConsole

\* A console that has just been created satisfies the inductive invariant.
LEMMA TokenInvInit == Init => TokenInv
  <1> SUFFICES ASSUME Init PROVE TokenInv
    OBVIOUS
  <1>1. TypeOK
    <2>0. PICK e \in BOOLEAN : console = [status |-> 0, rotate |-> FALSE, evidence |-> e]
      BY DEF Init
    <2>1. console \in Console /\ cache \in Console /\ seen \in Console
      BY <2>0 DEF Init, Console, Generation
    <2>2. feed \in Seq(Console)
      BY DEF Init
    <2>3. /\ requests \in 0..MaxRequests /\ losses \in 0..MaxLosses
          /\ toggles \in 0..MaxToggles /\ faults \in 0..MaxFaults
      BY DEF Init
    <2>4. QED
      BY <2>1, <2>2, <2>3 DEF Init, TypeOK, Generation, Steps, NoDeployment, NoPod
  <1>2. TokenOutlivesItsPods
    BY DEF Init, TokenOutlivesItsPods, NoDeployment, NoPod
  <1>3. DeployableToken /\ ReportedRollout /\ CollectingReconcile
    BY DEF Init, DeployableToken, ReportedRollout, CollectingReconcile
  <1>4. QED
    BY <1>1, <1>2, <1>3 DEF TokenInv

\* What the collector removes: never the token this reconcile resolved.
LEMMA ActiveIsKept == active \notin Superseded
  BY DEF Superseded

\* Every step of the worker, the informers, the Deployment controller and the
\* users keeps it: one case for each action.
LEMMA TokenInvNext == TokenInv /\ [Next]_vars => TokenInv'
  <1> SUFFICES ASSUME TokenInv, [Next]_vars PROVE TokenInv'
    OBVIOUS
  <1> USE DEF TokenInv
  <1>a. template \in Nat \cup {-1} /\ pod \in Nat \cup {-1} /\ active \in Nat
    BY DEF TypeOK, Generation, NoDeployment, NoPod
  <1>1. CASE ResolveToken
    <2>1. cache \in Console
      BY DEF TypeOK
    <2>2. active' \in Generation
      BY <1>1, <2>1, GenerationTypes DEF ResolveToken, Generation
    <2>3. TypeOK'
      BY <1>1, <2>1, <2>2 DEF ResolveToken, TypeOK, Steps, clusterVars, informerVars,
         rolloutVars, countVars
    <2>4. DeployableToken'
      <3>1. CASE cache.evidence /\ ~KeepsActive(cache)
        BY <1>1, <3>1, <2>1, GenerationTypes
        DEF ResolveToken, DeployableToken, Generation
      <3>2. CASE cache.evidence /\ KeepsActive(cache)
        BY <1>1, <3>2, KeptTokenExists
        DEF ResolveToken, DeployableToken, clusterVars
      <3>3. CASE ~cache.evidence
        BY <1>1, <3>3 DEF ResolveToken, DeployableToken
      <3>4. QED
        BY <3>1, <3>2, <3>3
    <2>5. (TokenOutlivesItsPods /\ ReportedRollout /\ CollectingReconcile)'
      BY <1>1 DEF ResolveToken, TokenOutlivesItsPods, ReportedRollout,
         CollectingReconcile, clusterVars, rolloutVars
    <2>6. QED
      BY <2>3, <2>4, <2>5
  <1>2. CASE CreateEvidenceTokenSecret
    <2>1. active > 0
      BY <1>2 DEF CreateEvidenceTokenSecret, DeployableToken
    <2>2. TypeOK'
      BY <1>2, <2>1, <1>a DEF CreateEvidenceTokenSecret, WriteSecrets, TypeOK, Steps,
         Generation, informerVars, rolloutVars
    <2>3. TokenOutlivesItsPods'
      BY <1>2 DEF CreateEvidenceTokenSecret, WriteSecrets, TokenOutlivesItsPods,
         rolloutVars
    <2>4. (DeployableToken /\ ReportedRollout /\ CollectingReconcile)'
      BY <1>2, <2>1 DEF CreateEvidenceTokenSecret, WriteSecrets, DeployableToken,
         ReportedRollout, CollectingReconcile, rolloutVars
    <2>5. QED
      BY <2>2, <2>3, <2>4
  <1>3. CASE AcknowledgeRotation
    <2>1. [console EXCEPT !.rotate = FALSE] \in Console
      BY DEF TypeOK, Console
    <2>2. console' \in Console /\ feed' \in Seq(Console)
      BY <1>3, <2>1, WriteConsoleTypes DEF AcknowledgeRotation, TypeOK
    <2>3. TypeOK'
      BY <1>3, <2>2 DEF AcknowledgeRotation, TypeOK, Steps, informerVars, rolloutVars
    <2>4. (TokenOutlivesItsPods /\ DeployableToken /\ ReportedRollout
             /\ CollectingReconcile)'
      BY <1>3 DEF AcknowledgeRotation, TokenOutlivesItsPods, DeployableToken,
         ReportedRollout, CollectingReconcile, rolloutVars
    <2>5. QED
      BY <2>3, <2>4
  <1>4. CASE ReconcileDeployment
    <2>1. TypeOK'
      BY <1>4 DEF ReconcileDeployment, RolloutComplete, TypeOK, Steps, clusterVars,
         informerVars, countVars
    <2>2. TokenOutlivesItsPods'
      BY <1>4, <1>a DEF ReconcileDeployment, TokenOutlivesItsPods, DeployableToken,
         clusterVars
    <2>3. (DeployableToken /\ ReportedRollout /\ CollectingReconcile)'
      BY <1>4 DEF ReconcileDeployment, RolloutComplete, DeployableToken, ReportedRollout,
         CollectingReconcile, clusterVars
    <2>4. QED
      BY <2>1, <2>2, <2>3
  <1>5. CASE CollectSupersededTokens
    <2>1. TypeOK'
      BY <1>5 DEF CollectSupersededTokens, WriteSecrets, TypeOK, Steps, informerVars,
         rolloutVars, countVars
    <2>2. TokenOutlivesItsPods'
      <3>1. CASE rolledOut
        BY <1>5, <3>1, <1>a, ActiveIsKept DEF CollectSupersededTokens, WriteSecrets,
           TokenOutlivesItsPods, CollectingReconcile, rolloutVars, NoPod
      <3>2. CASE ~rolledOut
        BY <1>5, <3>2 DEF CollectSupersededTokens, WriteSecrets, Superseded,
           TokenOutlivesItsPods, rolloutVars
      <3>3. QED
        BY <3>1, <3>2
    <2>3. (DeployableToken /\ ReportedRollout /\ CollectingReconcile)'
      BY <1>5 DEF CollectSupersededTokens, DeployableToken, ReportedRollout,
         CollectingReconcile, rolloutVars
    <2>4. QED
      BY <2>1, <2>2, <2>3
  <1>6. CASE CollectFails
    <2>1. PICK gone \in SUBSET Superseded : WriteSecrets(secrets \ gone)
      BY <1>6 DEF CollectFails
    <2>2. TypeOK'
      BY <1>6, <2>1 DEF CollectFails, WriteSecrets, TypeOK, Steps, informerVars,
         rolloutVars
    <2>3. TokenOutlivesItsPods'
      <3>1. CASE rolledOut
        BY <1>6, <2>1, <3>1, <1>a, ActiveIsKept DEF CollectFails, WriteSecrets,
           TokenOutlivesItsPods, CollectingReconcile, rolloutVars, NoPod
      <3>2. CASE ~rolledOut
        BY <1>6, <2>1, <3>2 DEF CollectFails, WriteSecrets, Superseded,
           TokenOutlivesItsPods, rolloutVars
      <3>3. QED
        BY <3>1, <3>2
    <2>4. (DeployableToken /\ ReportedRollout /\ CollectingReconcile)'
      BY <1>6 DEF CollectFails, DeployableToken, ReportedRollout, CollectingReconcile,
         rolloutVars
    <2>5. QED
      BY <2>2, <2>3, <2>4
  <1>7. CASE UpdateStatus
    <2>1. [console EXCEPT !.status = active] \in Console /\ console \in Console
      BY DEF TypeOK, Console
    <2>2. console' \in Console /\ feed' \in Seq(Console)
      BY <1>7, <2>1 DEF UpdateStatus, WriteConsole, TypeOK
    <2>3. TypeOK'
      BY <1>7, <2>2 DEF UpdateStatus, TypeOK, Steps, informerVars, rolloutVars, countVars
    <2>4. (TokenOutlivesItsPods /\ DeployableToken /\ ReportedRollout
             /\ CollectingReconcile)'
      BY <1>7 DEF UpdateStatus, TokenOutlivesItsPods, DeployableToken, ReportedRollout,
         CollectingReconcile, rolloutVars
    <2>5. QED
      BY <2>3, <2>4
  <1>8. CASE AbortReconcile
    <2>1. TypeOK'
      BY <1>8 DEF AbortReconcile, RequeueReconcile, TypeOK, Steps, clusterVars,
         informerVars, rolloutVars
    <2>2. QED
      BY <1>8, <2>1 DEF AbortReconcile, TokenOutlivesItsPods, DeployableToken,
         ReportedRollout, CollectingReconcile, clusterVars, rolloutVars
  <1>9. CASE DeliverConsole \/ DeliverSecrets \/ Resync
    <2>1. TypeOK'
      <3>1. CASE DeliverConsole
        BY <3>1 DEF DeliverConsole, TypeOK, rolloutVars, workerVars, countVars
      <3>2. CASE DeliverSecrets
        BY <3>2 DEF DeliverSecrets, TypeOK, rolloutVars, workerVars, countVars
      <3>3. CASE Resync
        BY <3>3 DEF Resync, TypeOK, clusterVars, informerVars, rolloutVars, workerVars,
           countVars
      <3>4. QED
        BY <1>9, <3>1, <3>2, <3>3
    <2>2. QED
      BY <1>9, <2>1 DEF DeliverConsole, DeliverSecrets, Resync, TokenOutlivesItsPods,
         DeployableToken, ReportedRollout, CollectingReconcile, clusterVars, rolloutVars,
         workerVars
  <1>10. CASE StopPod \/ StartPod \/ ReportRollout \/ EvictPod
    <2>1. CASE StopPod
      <3>1. TypeOK'
        BY <2>1 DEF StopPod, TypeOK, clusterVars, informerVars, workerVars, countVars
      <3>2. QED
        BY <2>1, <3>1 DEF StopPod, TokenOutlivesItsPods, DeployableToken,
           ReportedRollout, CollectingReconcile, clusterVars, workerVars, NoPod
    <2>2. CASE StartPod
      <3>1. TypeOK'
        BY <2>2, <1>a DEF StartPod, TypeOK, clusterVars, informerVars, workerVars,
           countVars, NoDeployment, Generation
      <3>2. QED
        BY <2>2, <3>1 DEF StartPod, TokenOutlivesItsPods, DeployableToken,
           ReportedRollout, CollectingReconcile, clusterVars, workerVars
    <2>3. CASE ReportRollout
      <3>1. complete' \in BOOLEAN
        BY <2>3 DEF ReportRollout
      <3>2. TypeOK'
        BY <2>3, <3>1 DEF ReportRollout, TypeOK, clusterVars, informerVars, workerVars,
           countVars
      <3>3. ReportedRollout'
        BY <2>3 DEF ReportRollout, ReportedRollout
      <3>4. QED
        BY <2>3, <3>2, <3>3 DEF ReportRollout, TokenOutlivesItsPods, DeployableToken,
           CollectingReconcile, clusterVars, workerVars
    <2>4. CASE EvictPod
      <3>1. TypeOK'
        BY <2>4 DEF EvictPod, TypeOK, clusterVars, informerVars, workerVars
      <3>2. QED
        BY <2>4, <3>1 DEF EvictPod, TokenOutlivesItsPods, DeployableToken,
           ReportedRollout, CollectingReconcile, clusterVars, workerVars, NoPod
    <2>5. QED
      BY <1>10, <2>1, <2>2, <2>3, <2>4
  <1>11. CASE RequestRotation \/ ToggleEvidence
    <2>1. /\ [console EXCEPT !.rotate = TRUE] \in Console
          /\ [console EXCEPT !.evidence = ~console.evidence] \in Console
      BY DEF TypeOK, Console
    <2>2. console' \in Console /\ feed' \in Seq(Console)
      BY <1>11, <2>1, WriteConsoleTypes DEF RequestRotation, ToggleEvidence, TypeOK
    <2>3. TypeOK'
      <3>1. CASE RequestRotation
        BY <3>1, <2>2 DEF RequestRotation, TypeOK, informerVars, rolloutVars, workerVars
      <3>2. CASE ToggleEvidence
        BY <3>2, <2>2 DEF ToggleEvidence, TypeOK, informerVars, rolloutVars, workerVars
      <3>3. QED
        BY <1>11, <3>1, <3>2
    <2>4. QED
      BY <1>11, <2>3 DEF RequestRotation, ToggleEvidence, TokenOutlivesItsPods,
         DeployableToken, ReportedRollout, CollectingReconcile, rolloutVars, workerVars
  <1>12. CASE LoseSecret
    <2>1. TypeOK'
      BY <1>12 DEF LoseSecret, WriteSecrets, TypeOK, informerVars, rolloutVars, workerVars
    <2>2. QED
      BY <1>12, <2>1 DEF LoseSecret, WriteSecrets, TokenOutlivesItsPods,
         DeployableToken, ReportedRollout, CollectingReconcile, rolloutVars, workerVars
  <1>13. CASE UNCHANGED vars
    <2>1. TypeOK'
      BY <1>13 DEF TypeOK, vars, clusterVars, informerVars, rolloutVars, workerVars,
         countVars
    <2>2. QED
      BY <1>13, <2>1 DEF TokenOutlivesItsPods, DeployableToken, ReportedRollout,
         CollectingReconcile, vars, clusterVars, rolloutVars, workerVars
  <1>14. QED
    BY <1>1, <1>2, <1>3, <1>4, <1>5, <1>6, <1>7, <1>8, <1>9, <1>10, <1>11, <1>12, <1>13
    DEF Next, Worker

\* The token lifecycle keeps its inductive invariant.
THEOREM TokenInvariance == Spec => []TokenInv
  BY TokenInvInit, TokenInvNext, PTL DEF Spec

\* Every variable of the token lifecycle stays within its type.
THEOREM TypeCorrectness == Spec => []TypeOK
  <1>1. TokenInv => TypeOK
    BY DEF TokenInv
  <1>2. QED
    BY <1>1, TokenInvariance, PTL

\* However reconciles, failures, deliveries and rollouts interleave, the
\* operator deletes no token Secret that the Pod template or the running Pod
\* still refers to.
THEOREM TokenSafety == Spec => []TokenOutlivesItsPods
  <1>1. TokenInv => TokenOutlivesItsPods
    BY DEF TokenInv
  <1>2. QED
    BY <1>1, TokenInvariance, PTL

-----------------------------------------------------------------------------
(***************************************************************************)
(* Healing.  What a reconcile that is no rotation is about to mint is ahead *)
(* of the template, because it started from the template's generation.      *)
(***************************************************************************)
MintsAhead ==
    (pc = "create" /\ ~seen.rotate /\ template <= ParsableGeneration)
        => active > template

\* A reconcile that is no rotation resolves a generation ahead of the template,
\* or the one it found there.
LEMMA ResolvedAhead ==
    ASSUME TypeOK, NEW c \in Console, ~c.rotate, ~KeepsActive(c),
           template <= ParsableGeneration
    PROVE  ResolvedGeneration(c) > template
  <1>1. template \in Nat \cup {-1} /\ c.status \in Nat
    BY DEF TypeOK, Generation, Console, NoDeployment
  <1>2. /\ BaseGeneration(c) \in Nat /\ BaseGeneration(c) >= DeployedTokenGeneration
        /\ DeployedTokenGeneration \in Nat
    BY GenerationTypes DEF BaseGeneration, Larger, Generation, TokenGeneration, Console
  <1>3. template = -1 \/ DeployedTokenGeneration = template
    BY <1>1 DEF DeployedTokenGeneration, TokenGeneration, NoDeployment
  <1>4. ResolvedGeneration(c) = BaseGeneration(c) + 1
    BY <1>2 DEF ResolvedGeneration, KeepsActive, SuccessorGeneration
  <1> QED
    BY <1>1, <1>2, <1>3, <1>4

\* The template does not move between the resolution and the mint.
LEMMA MintsAheadNext == TypeOK /\ MintsAhead /\ [Next]_vars => MintsAhead'
  <1> SUFFICES ASSUME TypeOK, MintsAhead, [Next]_vars PROVE MintsAhead'
    OBVIOUS
  <1>1. CASE ResolveToken
    <2>1. template' = template /\ seen' = cache /\ cache \in Console
      BY <1>1 DEF ResolveToken, rolloutVars, TypeOK
    <2>2. pc' = "create" => ~KeepsActive(cache) /\ active' = ResolvedGeneration(cache)
      BY <1>1 DEF ResolveToken
    <2> QED
      BY <2>1, <2>2, ResolvedAhead DEF MintsAhead
  <1>2. CASE UNCHANGED <<pc, seen, template, active>>
    BY <1>2 DEF MintsAhead
  <1>3. CASE pc' # "create"
    BY <1>3 DEF MintsAhead
  <1> QED
    BY <1>1, <1>2, <1>3
    DEF Next, Worker, CreateEvidenceTokenSecret, AcknowledgeRotation, ReconcileDeployment,
        CollectSupersededTokens, CollectFails, UpdateStatus, AbortReconcile,
        DeliverConsole, DeliverSecrets, Resync, StopPod, StartPod, ReportRollout,
        EvictPod, RequestRotation, ToggleEvidence, LoseSecret, vars, rolloutVars,
        workerVars

\* "Never regenerate under the same name": a token that was deleted while the
\* template names it comes back under that name only by a rotation, in any
\* interleaving and after any number of losses.
THEOREM LostTokensGetNewNames == Spec => HealsUnderNewName
  <1>1. Init => MintsAhead
    BY DEF Init, MintsAhead
  <1>2. TypeOK /\ MintsAhead /\ [Next]_vars =>
          [\A g \in secrets' \ secrets :
              g = template /\ g <= ParsableGeneration => seen.rotate]_vars
    <2> SUFFICES ASSUME TypeOK, MintsAhead, Next, NEW g \in secrets' \ secrets,
                        g = template, g <= ParsableGeneration
                 PROVE  seen.rotate
      OBVIOUS
    <2>1. CASE CreateEvidenceTokenSecret
      <3>1. pc = "create" /\ g = active
        BY <2>1 DEF CreateEvidenceTokenSecret, WriteSecrets
      <3> QED
        BY <3>1 DEF MintsAhead, TypeOK, Generation
    <2>2. CASE ~CreateEvidenceTokenSecret
      <3>1. secrets' \subseteq secrets
        BY <2>2 DEF Next, Worker, ResolveToken, AcknowledgeRotation, ReconcileDeployment,
           CollectSupersededTokens, CollectFails, UpdateStatus, AbortReconcile,
           DeliverConsole, DeliverSecrets, Resync, StopPod, StartPod, ReportRollout,
           EvictPod, RequestRotation, ToggleEvidence, LoseSecret, WriteSecrets,
           clusterVars
      <3> QED BY <3>1
    <2> QED BY <2>1, <2>2
  <1> QED
    BY <1>1, <1>2, MintsAheadNext, TypeCorrectness, PTL DEF Spec, HealsUnderNewName

-----------------------------------------------------------------------------
(***************************************************************************)
(* The token lifecycle implements TokenService, for every value of the      *)
(* constants.                                                               *)
(***************************************************************************)
\* What the abstract specification says of a state or a step, in terms of the
\* operator's variables.
serviceVars == <<secrets, lost, template, pod>>

\* A step that moves none of these variables is a stutter of the service.
LEMMA ServiceStutters ==
    ASSUME UNCHANGED serviceVars
    PROVE  UNCHANGED Service!vars
  BY DEF serviceVars, Service!vars, Tokens

\* No Secret is both there and lost: whoever mints one takes it off the list.
LEMMA LostInit == Init => LostIsGone
  BY DEF Init, LostIsGone

\* A Secret that goes is added to the list, one that is minted taken off it.
LEMMA LostNext == LostIsGone /\ [Next]_vars => LostIsGone'
  <1> SUFFICES ASSUME LostIsGone, [Next]_vars PROVE LostIsGone'
    OBVIOUS
  <1> USE DEF LostIsGone
  <1>1. CASE CreateEvidenceTokenSecret
    BY <1>1 DEF CreateEvidenceTokenSecret, WriteSecrets
  <1>2. CASE CollectSupersededTokens
    BY <1>2 DEF CollectSupersededTokens, WriteSecrets
  <1>3. CASE CollectFails
    BY <1>3 DEF CollectFails, WriteSecrets
  <1>4. CASE LoseSecret
    BY <1>4 DEF LoseSecret, WriteSecrets
  <1>5. CASE \/ ResolveToken \/ AcknowledgeRotation \/ ReconcileDeployment \/ UpdateStatus
             \/ AbortReconcile \/ DeliverConsole \/ DeliverSecrets \/ Resync
             \/ StopPod \/ StartPod \/ ReportRollout \/ EvictPod
             \/ RequestRotation \/ ToggleEvidence \/ UNCHANGED vars
    <2>1. UNCHANGED <<secrets, lost>>
      BY <1>5 DEF ResolveToken, AcknowledgeRotation, ReconcileDeployment, UpdateStatus,
         AbortReconcile, DeliverConsole, DeliverSecrets, Resync, StopPod, StartPod,
         ReportRollout, EvictPod, RequestRotation, ToggleEvidence, vars, clusterVars
    <2>2. QED
      BY <2>1
  <1>6. QED
    BY <1>1, <1>2, <1>3, <1>4, <1>5 DEF Next, Worker

\* A console that has just been created has no token.
LEMMA ServiceInit == Init => Service!Init
  BY DEF Init, Service!Init, Tokens, NoDeployment, NoPod

\* Every step of the operator, the cluster and the users is one step of the
\* service or none.
LEMMA ServiceNext ==
    TokenInv /\ LostIsGone /\ [Next]_vars => [Service!Next]_(Service!vars)
  <1> SUFFICES ASSUME TokenInv, LostIsGone, [Next]_vars
               PROVE  [Service!Next]_(Service!vars)
    OBVIOUS
  <1> USE DEF TokenInv
  <1>a. template \in Nat \cup {-1} /\ pod \in Nat \cup {-1} /\ active \in Nat
    BY DEF TypeOK, Generation, NoDeployment, NoPod
  <1>1. CASE CreateEvidenceTokenSecret
    <2>1. /\ secrets' = secrets \cup {active} /\ lost' = lost \ {active}
          /\ template' = template /\ pod' = pod
      BY <1>1 DEF CreateEvidenceTokenSecret, WriteSecrets, rolloutVars
    <2>2. CASE active \in secrets
      BY <2>1, <2>2, ServiceStutters DEF LostIsGone, serviceVars
    <2>3. CASE active \notin secrets
      <3>1. active \in Tokens(template) \cup Tokens(pod) => active \in lost
        BY <2>3, <1>a DEF TokenOutlivesItsPods, Tokens, NoPod
      <3>2. Service!Mint(active)
        BY <2>1, <2>3, <3>1 DEF Service!Mint, Tokens
      <3>3. QED
        BY <2>1, <2>3, <3>2 DEF Service!Next
    <2>4. QED
      BY <2>2, <2>3
  <1>2. CASE ReconcileDeployment
    <2>1. /\ secrets' = secrets /\ lost' = lost /\ pod' = pod /\ template' = active
          /\ active \in secrets \cup lost \cup {0}
      BY <1>2 DEF ReconcileDeployment, clusterVars, DeployableToken
    <2>2. CASE active = 0
      <3>1. Service!Unname
        BY <2>1, <2>2 DEF Service!Unname, Tokens
      <3>2. QED
        BY <3>1 DEF Service!Next
    <2>3. CASE active # 0
      <3>1. Tokens(active) = {active} /\ active \in secrets \cup lost
        BY <2>1, <2>3, <1>a DEF Tokens, NoPod
      <3>2. Service!Name(active)
        BY <2>1, <3>1 DEF Service!Name, Tokens
      <3>3. QED
        BY <3>1, <3>2 DEF Service!Next
    <2>4. QED
      BY <2>2, <2>3
  <1>3. CASE CollectSupersededTokens \/ CollectFails
    <2>1. PICK gone \in SUBSET Superseded :
             /\ secrets' = secrets \ gone
             /\ lost' = lost /\ template' = template /\ pod' = pod
      <3>1. CASE CollectSupersededTokens
        BY <3>1 DEF CollectSupersededTokens, WriteSecrets, rolloutVars
      <3>2. CASE CollectFails
        BY <3>2 DEF CollectFails, WriteSecrets, rolloutVars
      <3>3. QED
        BY <1>3, <3>1, <3>2
    <2>2. gone \cap (Tokens(template) \cup Tokens(pod)) = {}
      <3>1. CASE rolledOut
        BY <1>3, <3>1, ActiveIsKept DEF CollectSupersededTokens, CollectFails,
           CollectingReconcile, Tokens, NoPod
      <3>2. CASE ~rolledOut
        BY <3>2 DEF Superseded
      <3>3. QED
        BY <3>1, <3>2
    <2>3. Service!Retire(gone \cap secrets)
      BY <2>1, <2>2 DEF Service!Retire, Tokens
    <2>4. QED
      BY <2>3 DEF Service!Next
  <1>4. CASE StopPod \/ EvictPod
    <2>1. Service!Unmount
      BY <1>4 DEF StopPod, EvictPod, Service!Unmount, Tokens, NoPod, clusterVars
    <2>2. QED
      BY <2>1 DEF Service!Next
  <1>5. CASE StartPod
    <2>1. Service!Mount
      BY <1>5, <1>a DEF StartPod, Service!Mount, Tokens, NoPod, NoDeployment, clusterVars
    <2>2. QED
      BY <2>1 DEF Service!Next
  <1>6. CASE LoseSecret
    <2>1. PICK g \in secrets : secrets' = secrets \ {g} /\ lost' = lost \cup {g}
      BY <1>6 DEF LoseSecret, WriteSecrets
    <2>2. Service!Withdraw(g)
      BY <1>6, <2>1 DEF LoseSecret, Service!Withdraw, Tokens, rolloutVars
    <2>3. QED
      BY <2>2 DEF Service!Next
  <1>7. CASE \/ ResolveToken \/ AcknowledgeRotation \/ UpdateStatus \/ AbortReconcile
             \/ DeliverConsole \/ DeliverSecrets \/ Resync \/ ReportRollout
             \/ RequestRotation \/ ToggleEvidence \/ UNCHANGED vars
    <2>1. UNCHANGED serviceVars
      BY <1>7 DEF ResolveToken, AcknowledgeRotation, UpdateStatus, AbortReconcile,
         DeliverConsole, DeliverSecrets, Resync, ReportRollout, RequestRotation,
         ToggleEvidence, vars, clusterVars, rolloutVars, serviceVars
    <2>2. QED
      BY <2>1, ServiceStutters
  <1>8. QED
    BY <1>1, <1>2, <1>3, <1>4, <1>5, <1>6, <1>7 DEF Next, Worker

\* The lifecycle of the evidence token, with its caches, retries and failures,
\* implements the abstract token service: RefinesService.
THEOREM TokenServiceIsImplemented == Spec => RefinesService
  <1>1. Spec => []LostIsGone
    BY LostInit, LostNext, PTL DEF Spec
  <1>2. QED
    BY <1>1, TokenInvariance, ServiceInit, ServiceNext, PTL
    DEF Spec, RefinesService, Service!Spec

-----------------------------------------------------------------------------
(***************************************************************************)
(* A rotation is never rolled back: NoTemplateRollback, from the order of   *)
(* the console's versions.                                                  *)
(***************************************************************************)

\* A write of the console adds at most one version to the feed, its last.
LEMMA FeedAfterWrite ==
    ASSUME NEW c \in Console, feed \in Seq(Console), WriteConsole(c)
    PROVE  /\ console' = c
           /\ feed' \in Seq(Console)
           /\ Len(feed') \in {Len(feed), Len(feed) + 1}
           /\ \A i \in 1..Len(feed') :
                feed'[i] = IF i <= Len(feed) THEN feed[i] ELSE c
  <1>1. CASE c = console
    BY <1>1 DEF WriteConsole
  <1>2. CASE c # console
    BY <1>2 DEF WriteConsole
  <1>3. QED
    BY <1>1, <1>2

\* A delivery takes the first version of the feed.
LEMMA FeedAfterDelivery ==
    ASSUME feed \in Seq(Console), DeliverConsole
    PROVE  /\ 1 \in 1..Len(feed)
           /\ cache' = feed[1]
           /\ Len(feed') = Len(feed) - 1
           /\ \A i \in 1..Len(feed') : i + 1 \in 1..Len(feed) /\ feed'[i] = feed[i + 1]
  BY DEF DeliverConsole

\* The types of the numbers that the arguments below compare.
LEMMA NumberTypes ==
    ASSUME TypeOK
    PROVE  /\ console.status \in Nat /\ cache.status \in Nat /\ seen.status \in Nat
           /\ Len(feed) \in Nat
           /\ \A i \in 1..Len(feed) : feed[i] \in Console /\ feed[i].status \in Nat
           /\ template \in Nat \cup {-1} /\ active \in Nat /\ Deployed \in Nat
           /\ requests \in Nat /\ requests <= MaxRequests
           /\ losses \in Nat /\ toggles \in Nat
  <1>1. \A c \in Console : c.status \in Nat
    BY DEF Console, Generation
  <1>2. Len(feed) \in Nat /\ \A i \in 1..Len(feed) : feed[i] \in Console
    BY DEF TypeOK
  <1>3. template \in Nat \cup {-1} /\ active \in Nat /\ Deployed \in Nat
    BY DEF TypeOK, Generation, Deployed, NoDeployment
  <1>4. /\ requests \in Nat /\ requests <= MaxRequests
        /\ losses \in Nat /\ toggles \in Nat
    BY DEF TypeOK
  <1>5. QED
    BY <1>1, <1>2, <1>3, <1>4 DEF TypeOK

\* A version written on top of the live one keeps the versions rising.
LEMMA WriteKeepsRising ==
    ASSUME TypeOK, VersionsRise, NEW c \in Console, WriteConsole(c), cache' = cache,
           Rising(console, c)
    PROVE  VersionsRise'
  <1>1. /\ console' = c
        /\ Len(feed') \in {Len(feed), Len(feed) + 1}
        /\ \A i \in 1..Len(feed') :
             feed'[i] = IF i <= Len(feed) THEN feed[i] ELSE c
    BY FeedAfterWrite DEF TypeOK
  <1>2. c.status \in Nat
    BY DEF Console, Generation
  <1>3. Rising(cache, c) /\ Rising(c, c)
    BY <1>2, NumberTypes DEF VersionsRise, Rising
  <1>4. \A i \in 1..Len(feed) : Rising(feed[i], c)
    BY <1>2, NumberTypes DEF VersionsRise, Rising
  <1>5. \A i \in 1..Len(feed') : Rising(cache, feed'[i]) /\ Rising(feed'[i], c)
    BY <1>1, <1>3, <1>4, NumberTypes DEF VersionsRise
  <1>6. ASSUME NEW i \in 1..Len(feed'), NEW j \in 1..Len(feed'), i <= j
        PROVE  Rising(feed'[i], feed'[j])
    <2>1. CASE j <= Len(feed)
      BY <2>1, <1>6, <1>1, NumberTypes DEF VersionsRise
    <2>2. CASE ~(j <= Len(feed))
      BY <2>2, <1>6, <1>1, <1>5
    <2>3. QED
      BY <2>1, <2>2
  <1>7. QED
    BY <1>1, <1>3, <1>5, <1>6 DEF VersionsRise

\* An affordable version keeps the whole feed affordable.
LEMMA WriteKeepsAffordable ==
    ASSUME TypeOK, NEW c \in Console, WriteConsole(c),
           NEW n \in Nat, Affordable(c, n),
           \A i \in 1..Len(feed) : Affordable(feed[i], n)
    PROVE  \A i \in 1..Len(feed') : Affordable(feed'[i], n)
  BY FeedAfterWrite, NumberTypes DEF TypeOK

\* With more requests, an affordable version stays affordable.
LEMMA AffordableGrows ==
    ASSUME NEW c \in Console, NEW n \in Nat, Affordable(c, n)
    PROVE  Affordable(c, n + 1)
  BY DEF Affordable, Console, Generation

\* Without outside deletions the deployed token exists.
LEMMA DeployedTokenExists ==
    ASSUME TokenInv, losses = 0, losses = 0 => lost = {}, Deployed # 0
    PROVE  Deployed \in secrets
  <1>1. template > 0 /\ Deployed = template
    BY DEF TokenInv, TypeOK, Generation, Deployed, NoDeployment
  <1>2. QED
    BY <1>1 DEF TokenInv, TokenOutlivesItsPods

\* What a reconcile resolves: nothing below the deployed generation, nothing
\* more than one above the status it saw, and nothing that was not requested.
LEMMA ResolvedInOrder ==
    ASSUME NamesParse, TokenInv, RollbackInv, Undisturbed, cache.evidence
    PROVE  LET g == ResolvedGeneration(cache)
           IN  /\ g >= Deployed
               /\ g <= cache.status + 1
               /\ g <= requests + 1
               /\ (console.rotate /\ ~cache.rotate) => g <= requests
               /\ KeepsActive(cache) => ~cache.rotate
  <1> USE DEF TokenInv
  <1>1. TypeOK /\ VersionsRise /\ GenerationsAreRequested /\ StatusTrailsTemplate
    BY DEF RollbackInv
  <1>2. /\ cache.status \in Nat /\ Deployed \in Nat /\ requests \in Nat
        /\ requests <= MaxRequests /\ console.status \in Nat
    BY NumberTypes
  <1>3. cache.status <= Deployed
    BY <1>1, <1>2 DEF VersionsRise, Rising, StatusTrailsTemplate
  <1>4. Deployed <= cache.status + 1 /\ Deployed <= requests + 1
    BY <1>1 DEF StatusTrailsTemplate, GenerationsAreRequested
  <1>5. TokenGeneration(cache.status) = cache.status /\ TokenGeneration(Deployed) = Deployed
    <2>1. ParsableGeneration \in Nat /\ MaxRequests \in Nat
      BY BoundsAssumption
    <2>2. cache.status <= ParsableGeneration /\ Deployed <= ParsableGeneration
      BY <1>2, <1>3, <1>4, <2>1 DEF NamesParse
    <2>3. QED
      BY <2>2 DEF TokenGeneration
  <1>6. DeployedTokenGeneration = Deployed
    <2>1. CASE template = NoDeployment
      BY <2>1 DEF DeployedTokenGeneration, Deployed
    <2>2. CASE template # NoDeployment
      <3>1. Deployed = template
        BY <2>2 DEF Deployed
      <3>2. QED
        BY <1>5, <2>2, <3>1 DEF DeployedTokenGeneration
    <2>3. QED
      BY <2>1, <2>2
  <1>7. CASE cache.rotate
    <2>1. BaseGeneration(cache) = cache.status
      BY <1>5, <1>7 DEF BaseGeneration
    <2>2. ResolvedGeneration(cache) = cache.status + 1
      BY <1>2, <1>7, <2>1 DEF ResolvedGeneration, SuccessorGeneration
    <2>3. cache.status <= requests
      BY <1>1, <1>7 DEF GenerationsAreRequested, Affordable
    <2>4. QED
      BY <1>2, <1>4, <1>7, <2>2, <2>3 DEF KeepsActive
  <1>8. CASE ~cache.rotate
    <2>1. BaseGeneration(cache) = Deployed
      BY <1>2, <1>3, <1>5, <1>6, <1>8 DEF BaseGeneration, Larger
    <2>2. ResolvedGeneration(cache) = IF Deployed = 0 THEN 1 ELSE Deployed
      BY <1>8, <2>1, DeployedTokenExists
      DEF ResolvedGeneration, SuccessorGeneration, RollbackInv, Undisturbed
    <2>3. console.rotate => Deployed <= requests /\ requests > 0
      BY <1>1 DEF GenerationsAreRequested, Affordable
    <2>4. QED
      BY <1>2, <1>4, <1>8, <2>2, <2>3
  <1>9. QED
    BY <1>7, <1>8

\* A console that has just been created satisfies the rollback invariant.
LEMMA RollbackInvInit == Init => RollbackInv
  <1> SUFFICES ASSUME Init PROVE RollbackInv
    OBVIOUS
  <1>1. PICK e \in BOOLEAN : console = [status |-> 0, rotate |-> FALSE, evidence |-> e]
    BY DEF Init
  <1>2. /\ cache = console /\ Len(feed) = 0 /\ Deployed = 0 /\ pc = "idle"
        /\ requests = 0 /\ lost = {}
    BY DEF Init, Deployed
  <1>3. console.status = 0 /\ ~console.rotate
    BY <1>1
  <1>4. VersionsRise
    BY <1>2, <1>3 DEF VersionsRise, Rising
  <1>5. GenerationsAreRequested
    BY <1>2, <1>3 DEF GenerationsAreRequested, Affordable
  <1>6. NoEvidenceNoToken /\ StatusTrailsTemplate
    BY <1>2, <1>3 DEF NoEvidenceNoToken, StatusTrailsTemplate
  <1>7. QED
    BY <1>2, <1>4, <1>5, <1>6 DEF RollbackInv

\* The steps that leave the versions of the console, the template and the
\* worker's token alone, and may only end the reconcile, keep the invariant.
LEMMA QuietStep ==
    ASSUME RollbackInv, Undisturbed,
           UNCHANGED <<console, cache, feed, template, active, seen, requests>>,
           pc' = pc \/ pc' = "idle" \/ (pc = "collect" /\ pc' = "publish")
    PROVE  VersionsRise' /\ GenerationsAreRequested' /\ NoEvidenceNoToken'
             /\ StatusTrailsTemplate'
  <1>1. VersionsRise /\ GenerationsAreRequested /\ NoEvidenceNoToken
          /\ StatusTrailsTemplate
    BY DEF RollbackInv
  <1>2. Deployed' = Deployed
    BY DEF Deployed
  <1>3. VersionsRise'
    BY <1>1 DEF VersionsRise, Rising
  <1>4. GenerationsAreRequested'
    BY <1>1, <1>2 DEF GenerationsAreRequested, Affordable
  <1>5. NoEvidenceNoToken' /\ StatusTrailsTemplate'
    BY <1>1, <1>2 DEF NoEvidenceNoToken, StatusTrailsTemplate
  <1>6. QED
    BY <1>3, <1>4, <1>5

\* What has been disturbed stays disturbed.
LEMMA StaysDisturbed ==
    ASSUME TypeOK, [Next]_vars
    PROVE  Undisturbed' => Undisturbed
  <1>1. CASE LoseSecret \/ ToggleEvidence
    BY <1>1, NumberTypes DEF LoseSecret, ToggleEvidence, Undisturbed
  <1>2. CASE ~LoseSecret /\ ~ToggleEvidence
    BY <1>2 DEF Undisturbed, Next, Worker, ResolveToken, CreateEvidenceTokenSecret,
       AcknowledgeRotation, ReconcileDeployment,
       CollectSupersededTokens, CollectFails, UpdateStatus, AbortReconcile,
       DeliverConsole, DeliverSecrets, Resync, StopPod, StartPod, ReportRollout,
       EvictPod, RequestRotation, vars, countVars
  <1> QED
    BY <1>1, <1>2

\* Every step keeps the rollback invariant, on top of TokenInv.
LEMMA RollbackInvNext ==
    ASSUME NamesParse, TokenInv, TokenInv', RollbackInv, [Next]_vars
    PROVE  RollbackInv'
  <1>0. TypeOK /\ TypeOK'
    BY DEF TokenInv
  <1>a. (losses = 0 => lost = {})'
    <2>1. losses = 0 => lost = {}
      BY DEF RollbackInv
    <2>2. CASE LoseSecret
      BY <2>2, <1>0, NumberTypes DEF LoseSecret
    <2>3. CASE CreateEvidenceTokenSecret
      BY <2>1, <2>3 DEF CreateEvidenceTokenSecret
    <2>4. CASE ~LoseSecret /\ ~CreateEvidenceTokenSecret
      <3>1. lost' = lost /\ losses' = losses
        BY <2>4 DEF Next, Worker, ResolveToken, AcknowledgeRotation, ReconcileDeployment,
           CollectSupersededTokens, CollectFails, UpdateStatus, AbortReconcile,
           DeliverConsole, DeliverSecrets, Resync, StopPod, StartPod, ReportRollout,
           EvictPod, RequestRotation, ToggleEvidence, vars, clusterVars, countVars
      <3>2. QED
        BY <2>1, <3>1
    <2>5. QED
      BY <2>2, <2>3, <2>4
  <1>b. Undisturbed' => Undisturbed
    BY <1>0, StaysDisturbed
  <1> SUFFICES ASSUME Undisturbed'
               PROVE  VersionsRise' /\ GenerationsAreRequested' /\ NoEvidenceNoToken'
                        /\ StatusTrailsTemplate'
    BY <1>a DEF RollbackInv
  <1>c. Undisturbed
    BY <1>b
  <1>d. VersionsRise /\ GenerationsAreRequested /\ NoEvidenceNoToken
          /\ StatusTrailsTemplate
    BY <1>c DEF RollbackInv
  <1>e. /\ console \in Console /\ cache \in Console /\ console.status \in Nat
        /\ cache.status \in Nat /\ Len(feed) \in Nat /\ Deployed \in Nat
        /\ active \in Nat /\ requests \in Nat
        /\ \A i \in 1..Len(feed) : feed[i] \in Console /\ feed[i].status \in Nat
    BY <1>0, NumberTypes DEF TypeOK
  <1>1. CASE ResolveToken
    <2>1. /\ UNCHANGED <<console, cache, feed, template, requests>>
          /\ seen' = cache /\ Deployed' = Deployed
      BY <1>1 DEF ResolveToken, clusterVars, informerVars, rolloutVars, countVars, Deployed
    <2>2. VersionsRise'
      BY <2>1, <1>d DEF VersionsRise, Rising
    <2>3. cache.evidence = console.evidence
      BY <1>d DEF VersionsRise, Rising
    <2>4. CASE cache.evidence
      <3>1. active' = ResolvedGeneration(cache)
        BY <1>1, <2>4 DEF ResolveToken
      <3>2. /\ active' >= Deployed /\ active' <= cache.status + 1
            /\ active' <= requests + 1
            /\ (console.rotate /\ ~cache.rotate) => active' <= requests
            /\ KeepsActive(cache) => ~cache.rotate
        BY <3>1, <2>4, <1>c, ResolvedInOrder
      <3>3. /\ pc' \in {"create", "apply"}
            /\ pc' = "apply" => KeepsActive(cache)
        BY <1>1, <2>4 DEF ResolveToken
      <3>4. GenerationsAreRequested'
        BY <2>1, <3>2, <3>3, <1>d DEF GenerationsAreRequested, Affordable
      <3>5. NoEvidenceNoToken' /\ StatusTrailsTemplate'
        BY <2>1, <2>3, <2>4, <3>2, <1>d DEF NoEvidenceNoToken, StatusTrailsTemplate
      <3>6. QED
        BY <2>2, <3>4, <3>5
    <2>5. CASE ~cache.evidence
      <3>1. active' = 0 /\ pc' = "apply" /\ Deployed = 0
        BY <1>1, <2>3, <2>5, <1>d DEF ResolveToken, NoEvidenceNoToken
      <3>2. GenerationsAreRequested'
        BY <2>1, <3>1, <1>d, <1>e DEF GenerationsAreRequested, Affordable
      <3>3. NoEvidenceNoToken' /\ StatusTrailsTemplate'
        BY <2>1, <3>1, <1>d, <1>e DEF NoEvidenceNoToken, StatusTrailsTemplate
      <3>4. QED
        BY <2>2, <3>2, <3>3
    <2>6. QED
      BY <2>4, <2>5
  <1>2. CASE CreateEvidenceTokenSecret
    <2>1. /\ UNCHANGED <<console, cache, feed, template, active, seen, requests>>
          /\ Deployed' = Deployed
          /\ pc = "create" /\ pc' = IF seen.rotate THEN "ack" ELSE "apply"
      BY <1>2 DEF CreateEvidenceTokenSecret, informerVars, rolloutVars, Deployed
    <2>2. VersionsRise'
      BY <2>1, <1>d DEF VersionsRise, Rising
    <2>3. GenerationsAreRequested'
      BY <2>1, <1>d DEF GenerationsAreRequested, Affordable
    <2>4. NoEvidenceNoToken' /\ StatusTrailsTemplate'
      BY <2>1, <1>d DEF NoEvidenceNoToken, StatusTrailsTemplate
    <2>5. QED
      BY <2>2, <2>3, <2>4
  <1>3. CASE AcknowledgeRotation
    <2> DEFINE c == [console EXCEPT !.rotate = FALSE]
    <2>1. /\ c \in Console /\ c.status = console.status /\ ~c.rotate
          /\ c.evidence = console.evidence
      BY <1>e DEF Console
    <2>2. /\ WriteConsole(c) /\ pc = "ack" /\ pc' = "apply"
          /\ UNCHANGED <<cache, template, active, seen, requests>>
          /\ Deployed' = Deployed
      BY <1>3 DEF AcknowledgeRotation, informerVars, rolloutVars, Deployed
    <2>3. console' = c
      BY <2>2 DEF WriteConsole
    <2> HIDE DEF c
    <2>4. VersionsRise'
      BY <2>1, <2>2, <1>0, <1>d, <1>e, WriteKeepsRising DEF Rising
    <2>5. Affordable(c, requests) /\ \A i \in 1..Len(feed) : Affordable(feed[i], requests)
      BY <2>1, <1>d DEF GenerationsAreRequested, Affordable
    <2>6. \A i \in 1..Len(feed') : Affordable(feed'[i], requests)
      BY <2>1, <2>2, <2>5, <1>0, <1>e, WriteKeepsAffordable
    <2>7. GenerationsAreRequested'
      BY <2>1, <2>2, <2>3, <2>5, <2>6, <1>d DEF GenerationsAreRequested
    <2>8. NoEvidenceNoToken' /\ StatusTrailsTemplate'
      BY <2>1, <2>2, <2>3, <1>d DEF NoEvidenceNoToken, StatusTrailsTemplate
    <2>9. QED
      BY <2>4, <2>7, <2>8
  <1>4. CASE ReconcileDeployment
    <2>1. /\ UNCHANGED <<console, cache, feed, active, seen, requests>>
          /\ template' = active /\ pc = "apply" /\ pc' = "collect"
      BY <1>4 DEF ReconcileDeployment, clusterVars, informerVars, countVars
    <2>2. Deployed' = active
      BY <2>1, <1>e DEF Deployed, NoDeployment
    <2>3. /\ active >= Deployed /\ active <= cache.status + 1
          /\ active <= requests + 1
          /\ console.rotate => active <= requests
          /\ ~console.evidence => active = 0
      BY <2>1, <1>d DEF StatusTrailsTemplate, GenerationsAreRequested, NoEvidenceNoToken
    <2>4. VersionsRise'
      BY <2>1, <1>d DEF VersionsRise, Rising
    <2>5. GenerationsAreRequested'
      BY <2>1, <2>2, <2>3, <1>d DEF GenerationsAreRequested, Affordable
    <2>6. NoEvidenceNoToken' /\ StatusTrailsTemplate'
      BY <2>1, <2>2, <2>3, <1>d, <1>e DEF NoEvidenceNoToken, StatusTrailsTemplate
    <2>7. QED
      BY <2>4, <2>5, <2>6
  <1>5. CASE UpdateStatus
    <2> DEFINE c == IF seen.status = active THEN console
                    ELSE [console EXCEPT !.status = active]
    <2>1. active = Deployed
      BY <1>5, <1>e DEF UpdateStatus, TokenInv, CollectingReconcile, Deployed, NoDeployment
    <2>2. /\ c \in Console /\ c.status \in {console.status, active}
          /\ c.rotate = console.rotate /\ c.evidence = console.evidence
      BY <1>e DEF Console, Generation
    <2>3. /\ WriteConsole(c) /\ pc = "publish" /\ pc' = "idle"
          /\ UNCHANGED <<cache, template, active, seen, requests>>
          /\ Deployed' = Deployed
      BY <1>5 DEF UpdateStatus, informerVars, rolloutVars, countVars, Deployed
    <2>4. console' = c
      BY <2>3 DEF WriteConsole
    <2> HIDE DEF c
    <2>5. Rising(console, c)
      BY <2>1, <2>2, <1>d, <1>e DEF Rising, StatusTrailsTemplate
    <2>6. VersionsRise'
      BY <2>2, <2>3, <2>5, <1>0, <1>d, WriteKeepsRising
    <2>7. /\ active <= requests + 1
          /\ console.rotate => active <= requests
      BY <2>1, <1>d DEF GenerationsAreRequested
    <2>8. Affordable(c, requests) /\ \A i \in 1..Len(feed) : Affordable(feed[i], requests)
      BY <2>2, <2>7, <1>d DEF GenerationsAreRequested, Affordable
    <2>9. \A i \in 1..Len(feed') : Affordable(feed'[i], requests)
      BY <2>2, <2>3, <2>8, <1>0, <1>e, WriteKeepsAffordable
    <2>10. GenerationsAreRequested'
      BY <2>2, <2>3, <2>4, <2>8, <2>9, <1>d DEF GenerationsAreRequested
    <2>11. NoEvidenceNoToken' /\ StatusTrailsTemplate'
      BY <2>1, <2>2, <2>3, <2>4, <1>d, <1>e DEF NoEvidenceNoToken, StatusTrailsTemplate
    <2>12. QED
      BY <2>6, <2>10, <2>11
  <1>6. CASE DeliverConsole
    <2>1. /\ 1 \in 1..Len(feed) /\ cache' = feed[1] /\ Len(feed') = Len(feed) - 1
          /\ \A i \in 1..Len(feed') : i + 1 \in 1..Len(feed) /\ feed'[i] = feed[i + 1]
      BY <1>6, <1>0, FeedAfterDelivery DEF TypeOK
    <2>2. /\ UNCHANGED <<console, template, active, seen, pc, requests>>
          /\ Deployed' = Deployed
      BY <1>6 DEF DeliverConsole, rolloutVars, workerVars, countVars, Deployed
    <2>3. VersionsRise'
      <3>1. Rising(cache, console)'
        BY <2>1, <2>2, <1>d DEF VersionsRise, Rising
      <3>2. ASSUME NEW i \in 1..Len(feed')
            PROVE  Rising(cache', feed'[i]) /\ Rising(feed'[i], console')
        <4>1. i + 1 \in 1..Len(feed) /\ 1 <= i + 1
          BY <3>2, <2>1, <1>e
        <4>2. Rising(feed[1], feed[i + 1]) /\ Rising(feed[i + 1], console)
          BY <4>1, <2>1, <1>d DEF VersionsRise
        <4>3. cache' = feed[1] /\ feed'[i] = feed[i + 1] /\ console' = console
          BY <3>2, <2>1, <2>2
        <4>4. QED
          BY <4>2, <4>3
      <3>3. ASSUME NEW i \in 1..Len(feed'), NEW j \in 1..Len(feed'), i <= j
            PROVE  Rising(feed'[i], feed'[j])
        <4>1. i + 1 \in 1..Len(feed) /\ j + 1 \in 1..Len(feed) /\ i + 1 <= j + 1
          BY <3>3, <2>1, <1>e
        <4>2. QED
          BY <4>1, <2>1, <1>d DEF VersionsRise
      <3>4. QED
        BY <3>1, <3>2, <3>3 DEF VersionsRise, Rising
    <2>4. GenerationsAreRequested'
      BY <2>1, <2>2, <1>d DEF GenerationsAreRequested, Affordable
    <2>5. cache.status <= cache'.status /\ cache'.status \in Nat
      BY <2>1, <1>d, <1>e DEF VersionsRise, Rising
    <2>6. NoEvidenceNoToken' /\ StatusTrailsTemplate'
      BY <2>2, <2>5, <1>d, <1>e DEF NoEvidenceNoToken, StatusTrailsTemplate
    <2>7. QED
      BY <2>3, <2>4, <2>6
  <1>7. CASE RequestRotation
    <2> DEFINE c == [console EXCEPT !.rotate = TRUE]
    <2>1. /\ c \in Console /\ c.status = console.status
          /\ c.evidence = console.evidence
      BY <1>e DEF Console
    <2>2. /\ WriteConsole(c) /\ requests' = requests + 1
          /\ UNCHANGED <<cache, template, active, seen, pc>>
          /\ Deployed' = Deployed
      BY <1>7 DEF RequestRotation, informerVars, rolloutVars, workerVars, Deployed
    <2>3. console' = c
      BY <2>2 DEF WriteConsole
    <2> HIDE DEF c
    <2>4. VersionsRise'
      BY <2>1, <2>2, <1>0, <1>d, <1>e, WriteKeepsRising DEF Rising
    <2>5. /\ Affordable(c, requests + 1) /\ Affordable(cache, requests + 1)
          /\ \A i \in 1..Len(feed) : Affordable(feed[i], requests + 1)
      <3>1. Affordable(c, requests + 1)
        BY <2>1, <1>d, <1>e DEF GenerationsAreRequested, Affordable
      <3>2. QED
        BY <3>1, <1>d, <1>e, AffordableGrows DEF GenerationsAreRequested
    <2>6. \A i \in 1..Len(feed') : Affordable(feed'[i], requests + 1)
      BY <2>1, <2>2, <2>5, <1>0, <1>e, WriteKeepsAffordable
    <2>7. /\ Deployed <= requests + 1
          /\ pc # "idle" => active <= requests + 1
      BY <1>d DEF GenerationsAreRequested
    <2>8. GenerationsAreRequested'
      BY <2>2, <2>3, <2>5, <2>6, <2>7, <1>e DEF GenerationsAreRequested
    <2>9. NoEvidenceNoToken' /\ StatusTrailsTemplate'
      BY <2>1, <2>2, <2>3, <1>d DEF NoEvidenceNoToken, StatusTrailsTemplate
    <2>10. QED
      BY <2>4, <2>8, <2>9
  <1>8. CASE LoseSecret \/ ToggleEvidence
    BY <1>8, <1>c, <1>0, NumberTypes DEF LoseSecret, ToggleEvidence, Undisturbed
  <1>9. CASE \/ CollectSupersededTokens \/ CollectFails \/ AbortReconcile
             \/ DeliverSecrets \/ Resync \/ StopPod \/ StartPod \/ ReportRollout
             \/ EvictPod \/ UNCHANGED vars
    <2>1. /\ UNCHANGED <<console, cache, feed, template, active, seen, requests>>
          /\ pc' = pc \/ pc' = "idle" \/ (pc = "collect" /\ pc' = "publish")
      BY <1>9 DEF CollectSupersededTokens, CollectFails, AbortReconcile, DeliverSecrets,
         Resync, StopPod, StartPod, ReportRollout, EvictPod, vars, clusterVars,
         informerVars, rolloutVars, workerVars, countVars
    <2>2. QED
      BY <2>1, <1>c, QuietStep
  <1>10. QED
    BY <1>1, <1>2, <1>3, <1>4, <1>5, <1>6, <1>7, <1>8, <1>9 DEF Next, Worker

\* A step that keeps both invariants does not roll the template back.
LEMMA StepNeverRollsBack ==
    ASSUME TokenInv, RollbackInv, [Next]_vars,
           template > 0, template' > 0, losses = 0, toggles = 0
    PROVE  template' >= template
  <1>1. template \in Nat
    BY NumberTypes DEF TokenInv
  <1>2. CASE ReconcileDeployment
    BY <1>1, <1>2 DEF ReconcileDeployment, RollbackInv, Undisturbed, StatusTrailsTemplate,
       Deployed, NoDeployment
  <1>3. CASE ~ReconcileDeployment
    <2>1. template' = template
      BY <1>3 DEF Next, Worker, ResolveToken, CreateEvidenceTokenSecret,
         AcknowledgeRotation, CollectSupersededTokens, CollectFails, UpdateStatus,
         AbortReconcile, DeliverConsole, DeliverSecrets, Resync, StopPod, StartPod,
         ReportRollout, EvictPod, RequestRotation, ToggleEvidence, LoseSecret, vars,
         rolloutVars
    <2>2. QED
      BY <1>1, <2>1
  <1>4. QED
    BY <1>2, <1>3

\* As long as every generation the allowed requests can reach has a name that
\* parses back, no stale cache, retry or restart makes a reconcile roll the
\* Pod template back to an earlier token.
THEOREM RotationIsNotRolledBack ==
    ASSUME NamesParse
    PROVE  Spec => NoTemplateRollback
  <1>1. Init => RollbackInv
    BY RollbackInvInit
  <1>2. TokenInv /\ TokenInv' /\ RollbackInv /\ [Next]_vars => RollbackInv'
    BY RollbackInvNext
  <1>3. TokenInv /\ RollbackInv /\ [Next]_vars =>
          [(template > 0 /\ template' > 0 /\ losses = 0 /\ toggles = 0)
              => template' >= template]_vars
    BY StepNeverRollsBack
  <1>4. QED
    BY <1>1, <1>2, <1>3, TokenInvariance, PTL DEF Spec, NoTemplateRollback

-----------------------------------------------------------------------------
(***************************************************************************)
(* One successor for each request.  The versions of the console from the    *)
(* one the informer shows to the live one carry a rank, the number of       *)
(* requests made when they were written: it rises at every version that     *)
(* asks again.  No more successors have been minted than the rank of the    *)
(* version the informer shows, and fewer where that version may still lead  *)
(* to one:                                                                  *)
(*   - it asks, and the successor of its status is not there;               *)
(*   - the worker is about to mint;                                         *)
(*   - it asks, and the reconcile under way may yet collect its successor;  *)
(*   - a later version asks, under a status the informer has not shown;     *)
(*   - the live version asks, and the reconcile under way, which is not its *)
(*     answer, may yet publish a status under it.                           *)
(***************************************************************************)
Version(i) == IF i = 0 THEN cache ELSE feed[i]

Ranked(rank) ==
    /\ rank \in [0..Len(feed) -> 0..requests]
    /\ Version(Len(feed)) = console
    /\ rank[Len(feed)] = requests
    /\ \A i, j \in 0..Len(feed) : i < j =>
          /\ rank[i] <= rank[j]
          /\ Version(j).rotate /\ ~Version(i).rotate => rank[i] < rank[j]

NotItsAnswer ==
    pc \in {"apply", "collect", "publish"} \/ (pc = "create" /\ ~seen.rotate)

Spends(rank) ==
    /\ cache.rotate /\ cache.status + 1 \notin secrets => successors < rank[0]
    /\ pc = "create" /\ seen.rotate /\ active \notin secrets => successors < rank[0]
    /\ pc # "idle" /\ cache.rotate /\ active <= cache.status => successors < rank[0]
    /\ \A j \in 0..Len(feed) :
          Version(j).rotate /\ Version(j).status > cache.status => successors < rank[j]
    /\ NotItsAnswer /\ console.rotate => successors < requests

Accounted(rank) ==
    /\ Ranked(rank)
    /\ successors <= rank[0]
    /\ cache.evidence => Spends(rank)

SuccessorInv ==
    Undisturbed => \E rank \in [0..Len(feed) -> 0..requests] : Accounted(rank)

\* The types of what the accounts compare.
LEMMA RankTypes ==
    ASSUME TypeOK, NEW rank \in [0..Len(feed) -> 0..requests]
    PROVE  /\ successors \in Nat /\ requests \in Nat /\ active \in Nat
           /\ Len(feed) \in Nat
           /\ cache \in Console /\ console \in Console
           /\ cache.status \in Nat /\ console.status \in Nat
           /\ 0 \in 0..Len(feed) /\ Len(feed) \in 0..Len(feed)
           /\ \A i \in 0..Len(feed) : rank[i] \in Nat /\ rank[i] <= requests
           /\ \A i \in 0..Len(feed) : Version(i) \in Console /\ Version(i).status \in Nat
           /\ Version(0) = cache
  <1>1. \A c \in Console : c.status \in Nat
    BY DEF Console, Generation
  <1>2. /\ Len(feed) \in Nat /\ \A i \in 1..Len(feed) : feed[i] \in Console
        /\ cache \in Console /\ console \in Console
    BY DEF TypeOK
  <1>3. successors \in Nat /\ requests \in Nat /\ active \in Nat
    BY DEF TypeOK, Generation
  <1>4. \A i \in 0..Len(feed) : Version(i) \in Console
    BY <1>2 DEF Version
  <1> QED
    BY <1>1, <1>2, <1>3, <1>4 DEF Version

\* A rotation that is observed resolves the successor of the status it shows.
LEMMA RotationResolves ==
    ASSUME NamesParse, TypeOK, RollbackInv, Undisturbed, cache.rotate
    PROVE  ResolvedGeneration(cache) = cache.status + 1 /\ ~KeepsActive(cache)
  <1>1. cache.status <= requests
    BY DEF RollbackInv, GenerationsAreRequested, Affordable
  <1>2. TokenGeneration(cache.status) = cache.status
    BY <1>1, NumberTypes, BoundsAssumption DEF NamesParse, TokenGeneration
  <1> QED
    BY <1>2, NumberTypes DEF BaseGeneration, ResolvedGeneration, SuccessorGeneration,
       KeepsActive

\* A token about to be minted is the successor of the only status there is:
\* every version from the informer's to the live one has it.
LEMMA MintsTheNext ==
    ASSUME TokenInv, RollbackInv, Undisturbed, pc = "create", active \notin secrets
    PROVE  /\ cache.evidence
           /\ active = cache.status + 1
           /\ \A j \in 0..Len(feed) : Version(j).status = cache.status
  <1>1. TypeOK /\ VersionsRise /\ NoEvidenceNoToken /\ StatusTrailsTemplate
    BY DEF RollbackInv, TokenInv
  <1>2. active > 0 /\ active \in Nat
    BY <1>1, NumberTypes DEF TokenInv, DeployableToken
  <1>3. cache.evidence
    BY <1>1, <1>2, NumberTypes DEF VersionsRise, Rising, NoEvidenceNoToken
  <1>4. Deployed # active
    BY <1>2, DeployedTokenExists DEF RollbackInv, Undisturbed
  <1>5. active >= Deployed /\ active <= cache.status + 1 /\ console.status <= Deployed
    BY <1>1 DEF StatusTrailsTemplate
  <1>6. /\ cache.status <= console.status
        /\ \A i \in 1..Len(feed) :
             cache.status <= feed[i].status /\ feed[i].status <= console.status
    BY <1>1 DEF VersionsRise, Rising
  <1>7. active = cache.status + 1 /\ console.status = cache.status
    <2>1. cache.status \in Nat /\ console.status \in Nat /\ Deployed \in Nat
      BY <1>1, NumberTypes
    <2> QED
      BY <1>2, <1>4, <1>5, <1>6, <2>1
  <1>8. \A i \in 1..Len(feed) : feed[i].status = cache.status
    BY <1>1, <1>6, <1>7, NumberTypes
  <1> QED
    BY <1>3, <1>7, <1>8 DEF Version

\* A step that leaves the versions alone leaves their ranks.
LEMMA RanksStay ==
    ASSUME NEW rank, Ranked(rank), UNCHANGED <<console, cache, feed, requests>>
    PROVE  /\ rank \in [0..Len(feed') -> 0..requests']
           /\ Ranked(rank)'
           /\ \A j : Version(j)' = Version(j)
  <1>1. \A j : Version(j)' = Version(j)
    BY DEF Version
  <1> QED BY <1>1 DEF Ranked

\* A write adds a version whose rank is the number of requests made by then.
LEMMA RanksAfterWrite ==
    ASSUME TypeOK, TypeOK', NEW rank, Ranked(rank), NEW c \in Console, WriteConsole(c),
           cache' = cache,
           \/ requests' = requests /\ (c.rotate => console.rotate)
           \/ requests' = requests + 1 /\ c # console
    PROVE  \E r \in [0..Len(feed') -> 0..requests'] :
             /\ Ranked(r)'
             /\ r[0] = rank[0]
             /\ \A j \in 0..Len(feed') :
                  \/ j \in 0..Len(feed) /\ r[j] = rank[j] /\ Version(j)' = Version(j)
                  \/ r[j] = requests' /\ Version(j)' = c
  <1>0. rank \in [0..Len(feed) -> 0..requests]
    BY DEF Ranked
  <1>1. /\ Len(feed) \in Nat /\ requests \in Nat /\ requests' \in Nat
        /\ requests <= requests'
        /\ \A i \in 0..Len(feed) : rank[i] \in Nat /\ rank[i] <= requests
    BY <1>0, RankTypes
  <1>2. CASE c = console
    <2>1. UNCHANGED <<console, feed, requests>>
      BY <1>2 DEF WriteConsole
    <2> QED
      BY <1>0, <2>1, RanksStay
  <1>3. CASE c # console
    <2>1. /\ console' = c /\ Len(feed') = Len(feed) + 1 /\ feed'[Len(feed) + 1] = c
          /\ \A i \in 1..Len(feed) : feed'[i] = feed[i]
      BY <1>3 DEF WriteConsole, TypeOK
    <2>2. /\ \A j \in 0..Len(feed) : Version(j)' = Version(j)
          /\ \A j : j = Len(feed) + 1 => Version(j)' = c
      BY <1>1, <2>1 DEF Version
    <2>3. PICK r \in [0..Len(feed') -> 0..requests'] :
             r = [i \in 0..Len(feed') |-> IF i <= Len(feed) THEN rank[i] ELSE requests']
      <3> DEFINE f == [i \in 0..Len(feed') |-> IF i <= Len(feed) THEN rank[i] ELSE requests']
      <3>1. f \in [0..Len(feed') -> 0..requests']
        BY <1>1, <2>1
      <3> QED BY <3>1
    <2>4. /\ \A j \in 0..Len(feed) : r[j] = rank[j]
          /\ r[Len(feed) + 1] = requests'
      BY <1>1, <2>1, <2>3
    <2>5. 0..Len(feed') = 0..Len(feed) \cup {Len(feed) + 1}
      BY <1>1, <2>1
    <2>6. ASSUME NEW i \in 0..Len(feed), c.rotate, ~Version(i).rotate
          PROVE  rank[i] < requests'
      <3>1. CASE requests' = requests + 1
        BY <1>1, <3>1
      <3>2. CASE requests' = requests /\ console.rotate
        <4>1. i < Len(feed)
          BY <1>1, <2>6, <3>2 DEF Ranked
        <4> QED
          BY <1>1, <2>6, <3>2, <4>1 DEF Ranked
      <3> QED BY <2>6, <3>1, <3>2
    <2>7. ASSUME NEW i \in 0..Len(feed'), NEW j \in 0..Len(feed'), i < j
          PROVE  /\ r[i] <= r[j]
                 /\ Version(j)'.rotate /\ ~Version(i)'.rotate => r[i] < r[j]
      <3>1. CASE j \in 0..Len(feed)
        <4>1. i \in 0..Len(feed)
          BY <1>1, <2>7, <3>1, <2>5
        <4> QED
          BY <2>2, <2>4, <2>7, <3>1, <4>1 DEF Ranked
      <3>2. CASE j = Len(feed) + 1
        <4>1. i \in 0..Len(feed)
          BY <1>1, <2>7, <3>2, <2>5
        <4> QED
          BY <1>1, <2>2, <2>4, <2>6, <3>2, <4>1
      <3> QED BY <2>5, <3>1, <3>2
    <2>8. Ranked(r)'
      <3>1. Version(Len(feed))' = console' /\ r[Len(feed')] = requests'
        BY <2>1, <2>2, <2>4 DEF Version
      <3> QED
        BY <2>7, <3>1 DEF Ranked
    <2>9. r[0] = rank[0]
      BY <1>1, <2>4
    <2> QED
      BY <2>2, <2>3, <2>4, <2>5, <2>8, <2>9
  <1> QED BY <1>2, <1>3

\* A delivery drops the rank of the version the informer showed.
LEMMA RanksAfterDelivery ==
    ASSUME TypeOK, TypeOK', NEW rank, Ranked(rank), DeliverConsole
    PROVE  \E r \in [0..Len(feed') -> 0..requests'] :
             /\ Ranked(r)'
             /\ 1 \in 0..Len(feed)
             /\ \A j \in 0..Len(feed') :
                  /\ j + 1 \in 0..Len(feed)
                  /\ r[j] = rank[j + 1] /\ Version(j)' = Version(j + 1)
  <1>0. rank \in [0..Len(feed) -> 0..requests]
    BY DEF Ranked
  <1>1. /\ 1 \in 1..Len(feed) /\ cache' = feed[1] /\ Len(feed') = Len(feed) - 1
        /\ \A i \in 1..Len(feed') : i + 1 \in 1..Len(feed) /\ feed'[i] = feed[i + 1]
    BY FeedAfterDelivery DEF TypeOK
  <1>2. /\ Len(feed) \in Nat /\ requests' = requests /\ console' = console
        /\ \A i \in 0..Len(feed) : rank[i] \in 0..requests
    BY <1>0, RankTypes DEF DeliverConsole, countVars
  <1>3. \A j \in 0..Len(feed') : j + 1 \in 0..Len(feed)
    BY <1>1, <1>2
  <1>4. \A j \in 0..Len(feed') : Version(j)' = Version(j + 1)
    BY <1>1, <1>2 DEF Version
  <1>5. PICK r \in [0..Len(feed') -> 0..requests'] :
           r = [i \in 0..Len(feed') |-> rank[i + 1]]
    BY <1>2, <1>3
  <1>6. \A j \in 0..Len(feed') : r[j] = rank[j + 1]
    BY <1>5
  <1>7. Version(Len(feed))' = console' /\ r[Len(feed')] = requests'
    <2>1. Len(feed') \in 0..Len(feed') /\ Len(feed') + 1 = Len(feed)
      BY <1>1, <1>2
    <2> QED
      BY <1>2, <1>4, <1>6, <2>1 DEF Ranked
  <1>8. ASSUME NEW i \in 0..Len(feed'), NEW j \in 0..Len(feed'), i < j
        PROVE  /\ r[i] <= r[j]
               /\ Version(j)'.rotate /\ ~Version(i)'.rotate => r[i] < r[j]
    <2>1. i + 1 < j + 1
      BY <1>8, <1>1, <1>2
    <2> QED
      BY <1>3, <1>4, <1>6, <2>1 DEF Ranked
  <1>9. Ranked(r)'
    BY <1>5, <1>7, <1>8 DEF Ranked
  <1>10. 1 \in 0..Len(feed)
    BY <1>1
  <1> QED
    BY <1>3, <1>4, <1>5, <1>6, <1>9, <1>10

\* A console that has just been created has one version and no request.
LEMMA SuccessorInit == Init => SuccessorInv
  <1> SUFFICES ASSUME Init PROVE SuccessorInv
    OBVIOUS
  <1>1. /\ cache = console /\ Len(feed) = 0 /\ pc = "idle" /\ requests = 0
        /\ successors = 0 /\ 0..0 = {0}
    BY DEF Init
  <1>2. ~console.rotate
    BY DEF Init
  <1>3. PICK rank \in [0..0 -> 0..0] : rank = [i \in 0..0 |-> 0]
    BY <1>1
  <1>4. rank[0] = 0 /\ Version(0) = cache
    BY <1>1, <1>3 DEF Version
  <1>5. Ranked(rank)
    BY <1>1, <1>3, <1>4 DEF Ranked
  <1>6. Spends(rank)
    BY <1>1, <1>2, <1>4 DEF Spends, NotItsAnswer
  <1> QED
    BY <1>1, <1>3, <1>4, <1>5, <1>6 DEF SuccessorInv, Accounted

\* A step that leaves the versions, the Secrets and the worker's token alone,
\* and may only move the worker on, leaves the accounts.
LEMMA AccountsStay ==
    ASSUME NEW rank, Accounted(rank),
           UNCHANGED <<console, cache, feed, requests, successors, secrets, active, seen>>,
           pc' \in {pc, "idle"} \/ (pc \in {"apply", "collect"} /\ NotItsAnswer'
                                      /\ pc' # "create")
    PROVE  Accounted(rank)'
  <1>1. Ranked(rank)' /\ \A j : Version(j)' = Version(j)
    BY RanksStay DEF Accounted
  <1>2. ASSUME cache.evidence PROVE Spends(rank)'
    <2>1. Spends(rank)
      BY <1>2 DEF Accounted
    <2>2. NotItsAnswer' => NotItsAnswer
      BY DEF NotItsAnswer
    <2> QED
      BY <1>1, <2>1, <2>2 DEF Spends
  <1> QED
    BY <1>1, <1>2 DEF Accounted

\* What every step does to the accounts.
LEMMA AccountsNext ==
    ASSUME NamesParse, TokenInv, TokenInv', RollbackInv, RollbackInv',
           Undisturbed, Undisturbed', [Next]_vars, NEW rank, Accounted(rank)
    PROVE  \E r \in [0..Len(feed') -> 0..requests'] : Accounted(r)'
  <1>0. TypeOK /\ TypeOK'
    BY DEF TokenInv
  <1>a. /\ Ranked(rank) /\ rank \in [0..Len(feed) -> 0..requests]
        /\ successors <= rank[0]
        /\ cache.evidence => Spends(rank)
    BY DEF Accounted, Ranked
  <1>b. /\ successors \in Nat /\ requests \in Nat /\ active \in Nat /\ Len(feed) \in Nat
        /\ cache \in Console /\ console \in Console
        /\ cache.status \in Nat /\ console.status \in Nat
        /\ 0 \in 0..Len(feed) /\ Len(feed) \in 0..Len(feed) /\ Version(0) = cache
    BY <1>0, <1>a, RankTypes
  <1>c. \A i \in 0..Len(feed) : rank[i] \in Nat /\ rank[i] <= requests
    BY <1>0, <1>a, RankTypes
  <1>d. \A i \in 0..Len(feed) : Version(i) \in Console /\ Version(i).status \in Nat
    BY <1>0, <1>a, RankTypes
  <1>e. VersionsRise /\ GenerationsAreRequested /\ NoEvidenceNoToken /\ StatusTrailsTemplate
    BY DEF RollbackInv
  <1>1. CASE ResolveToken
    <2>1. /\ UNCHANGED <<console, cache, feed, requests, successors, secrets>>
          /\ seen' = cache
      BY <1>1 DEF ResolveToken, clusterVars, informerVars, countVars
    <2>2. /\ rank \in [0..Len(feed') -> 0..requests'] /\ Ranked(rank)'
          /\ \A j : Version(j)' = Version(j)
      BY <1>a, <2>1, RanksStay
    <2>3. ASSUME cache.evidence PROVE Spends(rank)'
      <3>1. Spends(rank)
        BY <1>a, <2>3
      <3>2. active' = ResolvedGeneration(cache) /\ pc' \in {"create", "apply"}
        BY <1>1, <2>3 DEF ResolveToken
      <3>3. cache.rotate => active' = cache.status + 1 /\ pc' = "create"
        BY <1>0, <1>1, <2>3, <3>2, RotationResolves DEF ResolveToken
      <3>4. ~cache.rotate /\ console.rotate => successors < requests
        <4>1. ~cache.rotate /\ console.rotate => Len(feed) # 0
          BY <1>a, <1>b DEF Ranked
        <4>2. ~cache.rotate /\ console.rotate => rank[0] < rank[Len(feed)]
          BY <1>a, <1>b, <4>1 DEF Ranked
        <4> QED
          BY <1>a, <1>b, <1>c, <4>2 DEF Ranked
      <3>5. NotItsAnswer' /\ console'.rotate => successors' < requests'
        BY <2>1, <3>2, <3>3, <3>4 DEF NotItsAnswer
      <3>6. /\ cache'.rotate /\ cache'.status + 1 \notin secrets' => successors' < rank[0]
            /\ \A j \in 0..Len(feed') :
                 Version(j)'.rotate /\ Version(j)'.status > cache'.status
                   => successors' < rank[j]
        BY <2>1, <2>2, <3>1 DEF Spends
      <3>7. /\ pc' = "create" /\ seen'.rotate /\ active' \notin secrets' => successors' < rank[0]
            /\ pc' # "idle" /\ cache'.rotate /\ active' <= cache'.status
                 => successors' < rank[0]
        BY <1>b, <2>1, <3>3, <3>6
      <3> QED
        BY <3>5, <3>6, <3>7 DEF Spends
    <2> QED
      BY <1>a, <2>1, <2>2, <2>3 DEF Accounted
  <1>2. CASE CreateEvidenceTokenSecret
    <2>1. /\ UNCHANGED <<console, cache, feed, requests, active, seen>>
          /\ pc = "create" /\ secrets' = secrets \cup {active}
          /\ pc' = IF seen.rotate THEN "ack" ELSE "apply"
      BY <1>2 DEF CreateEvidenceTokenSecret, WriteSecrets, informerVars
    <2>2. /\ rank \in [0..Len(feed') -> 0..requests'] /\ Ranked(rank)'
          /\ \A j : Version(j)' = Version(j)
      BY <1>a, <2>1, RanksStay
    <2>3. CASE ~(seen.rotate /\ active \notin secrets)
      <3>1. successors' = successors
        BY <1>2, <2>3 DEF CreateEvidenceTokenSecret
      <3>2. ASSUME cache.evidence PROVE Spends(rank)'
        <4>1. Spends(rank)
          BY <1>a, <3>2
        <4>2. NotItsAnswer' => NotItsAnswer
          BY <2>1 DEF NotItsAnswer
        <4> QED
          BY <2>1, <2>2, <3>1, <4>1, <4>2 DEF Spends
      <3> QED
        BY <1>a, <2>1, <2>2, <3>1, <3>2 DEF Accounted
    <2>4. CASE seen.rotate /\ active \notin secrets
      <3>1. successors' = successors + 1 /\ pc' = "ack"
        BY <1>2, <2>1, <2>4 DEF CreateEvidenceTokenSecret
      <3>2. /\ cache.evidence /\ active = cache.status + 1
            /\ \A j \in 0..Len(feed) : Version(j).status = cache.status
        BY <2>1, <2>4, MintsTheNext
      <3>3. successors' <= rank[0]
        BY <1>a, <1>b, <1>c, <2>1, <2>4, <3>1, <3>2 DEF Spends
      <3>4. Spends(rank)'
        BY <1>b, <2>1, <2>2, <3>1, <3>2 DEF Spends, NotItsAnswer
      <3> QED
        BY <2>2, <3>3, <3>4 DEF Accounted
    <2> QED BY <2>3, <2>4
  <1>3. CASE AcknowledgeRotation
    <2> DEFINE c == [console EXCEPT !.rotate = FALSE]
    <2>1. c \in Console /\ ~c.rotate
      BY <1>b DEF Console
    <2>2. /\ WriteConsole(c) /\ pc = "ack" /\ pc' = "apply"
          /\ UNCHANGED <<cache, requests, successors, secrets, active, seen>>
      BY <1>3 DEF AcknowledgeRotation, informerVars
    <2>3. console' = c
      BY <2>2 DEF WriteConsole
    <2> HIDE DEF c
    <2>4. PICK r \in [0..Len(feed') -> 0..requests'] :
             /\ Ranked(r)' /\ r[0] = rank[0]
             /\ \A j \in 0..Len(feed') :
                  \/ j \in 0..Len(feed) /\ r[j] = rank[j] /\ Version(j)' = Version(j)
                  \/ r[j] = requests' /\ Version(j)' = c
      BY <1>0, <1>a, <2>1, <2>2, RanksAfterWrite
    <2>5. ASSUME cache.evidence PROVE Spends(r)'
      <3>1. Spends(rank)
        BY <1>a, <2>5
      <3> QED
        BY <2>1, <2>2, <2>3, <2>4, <3>1 DEF Spends, NotItsAnswer
    <2> QED
      BY <1>a, <2>2, <2>4, <2>5 DEF Accounted
  <1>4. CASE UpdateStatus
    <2> DEFINE c == IF seen.status = active THEN console
                    ELSE [console EXCEPT !.status = active]
    <2>1. c \in Console /\ c.rotate = console.rotate
      BY <1>b DEF Console, Generation
    <2>2. /\ WriteConsole(c) /\ pc = "publish" /\ pc' = "idle"
          /\ UNCHANGED <<cache, requests, successors, secrets, active, seen>>
      BY <1>4 DEF UpdateStatus, informerVars, countVars
    <2> HIDE DEF c
    <2>4. PICK r \in [0..Len(feed') -> 0..requests'] :
             /\ Ranked(r)' /\ r[0] = rank[0]
             /\ \A j \in 0..Len(feed') :
                  \/ j \in 0..Len(feed) /\ r[j] = rank[j] /\ Version(j)' = Version(j)
                  \/ r[j] = requests' /\ Version(j)' = c
      BY <1>0, <1>a, <2>1, <2>2, RanksAfterWrite
    <2>5. ASSUME cache.evidence PROVE Spends(r)'
      <3>1. Spends(rank)
        BY <1>a, <2>5
      <3>2. console.rotate => successors < requests
        BY <2>2, <3>1 DEF Spends, NotItsAnswer
      <3>3. ASSUME NEW j \in 0..Len(feed'), Version(j)'.rotate,
                   Version(j)'.status > cache'.status
            PROVE  successors' < r[j]
        <4>1. CASE j \in 0..Len(feed) /\ r[j] = rank[j] /\ Version(j)' = Version(j)
          BY <2>2, <3>1, <3>3, <4>1 DEF Spends
        <4>2. CASE r[j] = requests' /\ Version(j)' = c
          BY <2>1, <2>2, <3>2, <3>3, <4>2
        <4> QED BY <2>4, <4>1, <4>2
      <3> QED
        BY <2>2, <2>4, <3>1, <3>3 DEF Spends, NotItsAnswer
    <2> QED
      BY <1>a, <2>2, <2>4, <2>5 DEF Accounted
  <1>5. CASE RequestRotation
    <2> DEFINE c == [console EXCEPT !.rotate = TRUE]
    <2>1. c \in Console /\ c # console
      <3>1. c \in Console /\ c.rotate
        BY <1>b DEF Console
      <3>2. ~console.rotate
        BY <1>5 DEF RequestRotation
      <3> QED BY <3>1, <3>2
    <2>2. /\ WriteConsole(c) /\ requests' = requests + 1
          /\ UNCHANGED <<cache, successors, secrets, active, seen, pc>>
      BY <1>5 DEF RequestRotation, informerVars, workerVars
    <2> HIDE DEF c
    <2>4. PICK r \in [0..Len(feed') -> 0..requests'] :
             /\ Ranked(r)' /\ r[0] = rank[0]
             /\ \A j \in 0..Len(feed') :
                  \/ j \in 0..Len(feed) /\ r[j] = rank[j] /\ Version(j)' = Version(j)
                  \/ r[j] = requests' /\ Version(j)' = c
      BY <1>0, <1>a, <2>1, <2>2, RanksAfterWrite
    <2>5. ASSUME cache.evidence PROVE Spends(r)'
      <3>1. Spends(rank)
        BY <1>a, <2>5
      <3>2. successors' < requests'
        BY <1>a, <1>b, <1>c, <2>2
      <3>3. ASSUME NEW j \in 0..Len(feed'), Version(j)'.rotate,
                   Version(j)'.status > cache'.status
            PROVE  successors' < r[j]
        <4>1. CASE j \in 0..Len(feed) /\ r[j] = rank[j] /\ Version(j)' = Version(j)
          BY <2>2, <3>1, <3>3, <4>1 DEF Spends
        <4>2. CASE r[j] = requests'
          BY <3>2, <4>2
        <4> QED BY <2>4, <4>1, <4>2
      <3> QED
        BY <2>2, <2>4, <3>1, <3>2, <3>3 DEF Spends
    <2> QED
      BY <1>a, <2>2, <2>4, <2>5 DEF Accounted
  <1>6. CASE DeliverConsole
    <2>1. UNCHANGED <<console, requests, successors, secrets, active, seen, pc>>
      BY <1>6 DEF DeliverConsole, workerVars, countVars
    <2>2. PICK r \in [0..Len(feed') -> 0..requests'] :
             /\ Ranked(r)' /\ 1 \in 0..Len(feed)
             /\ \A j \in 0..Len(feed') :
                  /\ j + 1 \in 0..Len(feed)
                  /\ r[j] = rank[j + 1] /\ Version(j)' = Version(j + 1)
      BY <1>0, <1>a, <1>6, RanksAfterDelivery
    <2>3. 0 \in 0..Len(feed') /\ 0 + 1 = 1
      BY <1>0, <2>2, RankTypes DEF TypeOK
    <2>4. r[0] = rank[1] /\ cache' = Version(1)
      <3>1. r[0] = rank[1] /\ Version(0)' = Version(1)
        BY <2>2, <2>3
      <3> QED BY <3>1 DEF Version
    <2>5. /\ rank[0] <= rank[1] /\ rank[0] \in Nat /\ rank[1] \in Nat
          /\ Version(1).rotate /\ ~cache.rotate => rank[0] < rank[1]
      BY <1>a, <1>b, <1>c, <2>2 DEF Ranked
    <2>6. /\ cache.status <= cache'.status /\ cache'.status \in Nat
          /\ cache'.evidence = cache.evidence
      BY <1>6, <1>d, <1>0, <1>e, <2>2, <2>4, FeedAfterDelivery
      DEF VersionsRise, Rising, TypeOK
    <2>7. successors <= rank[1]
      BY <1>a, <1>b, <2>5
    <2>8. ASSUME cache.evidence PROVE Spends(r)'
      <3>1. Spends(rank)
        BY <1>a, <2>8
      <3>2. cache'.rotate /\ (~cache.rotate \/ cache'.status > cache.status)
              => successors < rank[1]
        BY <1>a, <1>b, <2>2, <2>4, <2>5, <3>1 DEF Spends
      <3>3. cache'.rotate /\ cache'.status + 1 \notin secrets => successors < rank[1]
        BY <1>a, <1>b, <2>5, <2>6, <3>1, <3>2 DEF Spends
      <3>4. pc = "create" /\ seen.rotate /\ active \notin secrets => successors < rank[1]
        BY <1>b, <2>5, <3>1 DEF Spends
      <3>5. pc # "idle" /\ cache'.rotate /\ active <= cache'.status => successors < rank[1]
        BY <1>b, <2>5, <2>6, <3>1, <3>2 DEF Spends
      <3>6. ASSUME NEW j \in 0..Len(feed'), Version(j)'.rotate,
                   Version(j)'.status > cache'.status
            PROVE  successors < r[j]
        <4>1. /\ j + 1 \in 0..Len(feed) /\ r[j] = rank[j + 1]
              /\ Version(j + 1).rotate /\ Version(j + 1).status > cache'.status
              /\ Version(j + 1).status \in Nat
          BY <1>d, <2>2, <3>6
        <4>2. Version(j + 1).status > cache.status
          BY <1>b, <2>6, <4>1
        <4> QED
          BY <3>1, <4>1, <4>2 DEF Spends
      <3> QED
        BY <2>1, <2>4, <3>1, <3>3, <3>4, <3>5, <3>6 DEF Spends, NotItsAnswer
    <2> QED
      BY <2>1, <2>2, <2>4, <2>6, <2>7, <2>8 DEF Accounted
  <1>7. CASE CollectSupersededTokens \/ CollectFails
    <2>1. /\ UNCHANGED <<console, cache, feed, requests, successors, active, seen, template>>
          /\ pc = "collect" /\ pc' \in {"publish", "idle"}
      BY <1>7 DEF CollectSupersededTokens, CollectFails, WriteSecrets, informerVars,
         rolloutVars, countVars
    <2>2. /\ rank \in [0..Len(feed') -> 0..requests'] /\ Ranked(rank)'
          /\ \A j : Version(j)' = Version(j)
      BY <1>a, <2>1, RanksStay
    <2>3. active \in secrets => active \in secrets'
      BY <1>7, ActiveIsKept DEF CollectSupersededTokens, CollectFails, WriteSecrets
    <2>4. secrets' \subseteq secrets /\ secrets \ secrets' \subseteq Superseded
      BY <1>7 DEF CollectSupersededTokens, CollectFails, WriteSecrets
    <2>5. active <= cache.status + 1
      BY <1>0, <1>b, <1>e, <2>1, NumberTypes
      DEF TokenInv, CollectingReconcile, StatusTrailsTemplate, Deployed, NoDeployment
    <2>6. ASSUME cache.evidence PROVE Spends(rank)'
      <3>1. Spends(rank)
        BY <1>a, <2>6
      <3>2. cache.rotate /\ cache.status + 1 \notin secrets' => successors < rank[0]
        <4>1. CASE active = cache.status + 1
          BY <2>3, <3>1, <4>1 DEF Spends
        <4>2. CASE active <= cache.status
          BY <2>1, <3>1, <4>2 DEF Spends
        <4> QED BY <1>b, <2>5, <4>1, <4>2
      <3> QED
        BY <2>1, <2>2, <3>1, <3>2 DEF Spends, NotItsAnswer
    <2> QED
      BY <1>a, <2>1, <2>2, <2>6 DEF Accounted
  <1>8. CASE LoseSecret \/ ToggleEvidence
    BY <1>8, <1>0, NumberTypes DEF LoseSecret, ToggleEvidence, Undisturbed
  <1>9. CASE \/ ReconcileDeployment \/ AbortReconcile \/ DeliverSecrets \/ Resync
             \/ StopPod \/ StartPod \/ ReportRollout \/ EvictPod \/ UNCHANGED vars
    <2>1. /\ UNCHANGED <<console, cache, feed, requests, successors, secrets, active, seen>>
          /\ pc' \in {pc, "idle"} \/ (pc = "apply" /\ pc' = "collect")
      BY <1>9 DEF ReconcileDeployment, AbortReconcile, DeliverSecrets, Resync, StopPod,
         StartPod, ReportRollout, EvictPod, vars, clusterVars, informerVars, rolloutVars,
         workerVars, countVars
    <2>2. Accounted(rank)'
      BY <2>1, AccountsStay DEF NotItsAnswer
    <2> QED
      BY <1>a, <2>1, <2>2
  <1> QED
    BY <1>1, <1>2, <1>3, <1>4, <1>5, <1>6, <1>7, <1>8, <1>9 DEF Next, Worker

\* However often a request is observed, through stale caches, retries, crashes
\* and restarts, it mints one successor, as long as names parse back.
THEOREM RequestsMintOnce ==
    ASSUME NamesParse
    PROVE  Spec => []OneSuccessorPerRequest
  <1>1. Init => RollbackInv /\ SuccessorInv
    BY RollbackInvInit, SuccessorInit
  <1>2. TokenInv /\ TokenInv' /\ RollbackInv /\ [Next]_vars => RollbackInv'
    BY RollbackInvNext
  <1>3. ASSUME TokenInv, TokenInv', RollbackInv, RollbackInv', SuccessorInv, [Next]_vars
        PROVE  SuccessorInv'
    <2> SUFFICES ASSUME Undisturbed'
                 PROVE  \E r \in [0..Len(feed') -> 0..requests'] : Accounted(r)'
      BY DEF SuccessorInv
    <2>1. Undisturbed
      BY <1>3, StaysDisturbed DEF TokenInv
    <2>2. PICK rank : Accounted(rank)
      BY <1>3, <2>1 DEF SuccessorInv
    <2> QED
      BY <1>3, <2>1, <2>2, AccountsNext
  <1>4. TokenInv /\ SuccessorInv => OneSuccessorPerRequest
    <2> SUFFICES ASSUME TokenInv, SuccessorInv, Undisturbed
                 PROVE  successors <= requests
      BY DEF OneSuccessorPerRequest
    <2>1. PICK rank \in [0..Len(feed) -> 0..requests] : Accounted(rank)
      BY DEF SuccessorInv
    <2> QED
      BY <2>1, RankTypes DEF TokenInv, Accounted
  <1> QED
    BY <1>1, <1>2, <1>3, <1>4, TokenInvariance, PTL DEF Spec
=============================================================================
