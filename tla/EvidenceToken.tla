--------------------------- MODULE EvidenceToken ---------------------------
(***************************************************************************)
(* The lifecycle of the pod-local evidence token of one PgConsole           *)
(* (internal/controller/pgconsole/evidence_token.go and the reconcile       *)
(* pipeline around it): the token Secrets, the Deployment whose Pod         *)
(* template names one of them, the Pod that mounts it, the PgConsole        *)
(* object as the API server holds it and as the manager's informer shows    *)
(* it, and the one worker that reconciles the console.                      *)
(*                                                                          *)
(* A token Secret is identified by its generation, the counter at the end   *)
(* of its name ("...-evidence-t3" is 3).  Generation 0 stands for "no       *)
(* token": the empty status field, or a template without a token volume.    *)
(*                                                                          *)
(* One step is one call of the API server, or a group of calls between      *)
(* which no other actor of the model can be told apart.                     *)
(***************************************************************************)
EXTENDS Integers, Sequences, FiniteSets

CONSTANTS
    ParsableGeneration, \* largest generation whose name BoundedName leaves whole
    MaxRequests,        \* rotations the user asks for
    MaxLosses,          \* token Secrets deleted by someone else
    MaxToggles,         \* changes of spec.evidence.enabled
    MaxFaults           \* failed reconciles, manager restarts and Pod evictions

ASSUME BoundsAssumption ==
    /\ ParsableGeneration \in Nat
    /\ MaxRequests \in Nat
    /\ MaxLosses \in Nat
    /\ MaxToggles \in Nat
    /\ MaxFaults \in Nat

VARIABLES
    console,    \* the PgConsole held by the API server
    cache,      \* the PgConsole the manager's informer shows
    feed,       \* versions of it the informer has still to deliver, in order
    secrets,    \* generations whose token Secret exists
    listed,     \* generations in the manager's metadata cache of Secrets
    changed,    \* the Secrets have changed since the informer filled that cache
    lost,       \* generations someone else deleted and nobody minted again
    template,   \* generation the Deployment's Pod template mounts
    pod,        \* generation mounted by the running Pod
    complete,   \* what rolloutComplete makes of the Deployment's status
    queued,     \* the console is in the work queue
    pc,         \* next step of the worker
    seen,       \* the worker's copy of the PgConsole, as it read it
    active,     \* generation this reconcile resolved
    rolledOut,  \* rolloutComplete of the Deployment this reconcile returned
    requests, successors, losses, toggles, faults \* history

clusterVars == <<console, feed, secrets, changed, lost>>
informerVars == <<cache, listed>>
rolloutVars == <<template, pod, complete>>
workerVars == <<pc, seen, active, rolledOut>>
countVars == <<requests, successors, losses, toggles, faults>>
vars == <<clusterVars, informerVars, rolloutVars, queued, workerVars, countVars>>

NoDeployment == -1 \* template: the Deployment has not been created
NoPod == -1        \* pod: no Pod is running

Generation == Nat
Console == [status: Generation,  \* name in status.evidence.tokenSecretName
            rotate: BOOLEAN,     \* annotation rotate-evidence-token: now
            evidence: BOOLEAN]   \* resolveEvidence finds a composition
Steps == {"idle", "create", "ack", "apply", "collect", "publish"}

TypeOK ==
    /\ console \in Console
    /\ cache \in Console
    /\ feed \in Seq(Console)
    /\ secrets \subseteq Generation \ {0}
    /\ listed \subseteq Generation \ {0}
    /\ changed \in BOOLEAN
    /\ lost \subseteq Generation \ {0}
    /\ template \in Generation \cup {NoDeployment}
    /\ pod \in Generation \cup {NoPod}
    /\ complete \in BOOLEAN
    /\ queued \in BOOLEAN
    /\ pc \in Steps
    /\ seen \in Console
    /\ active \in Generation
    /\ rolledOut \in BOOLEAN
    /\ requests \in 0..MaxRequests
    /\ successors \in Nat
    /\ losses \in 0..MaxLosses
    /\ toggles \in 0..MaxToggles
    /\ faults \in 0..MaxFaults

(***************************************************************************)
(* A console has just been created, with or without evidence.               *)
(***************************************************************************)
Init ==
    /\ console \in {[status |-> 0, rotate |-> FALSE, evidence |-> e] : e \in BOOLEAN}
    /\ cache = console
    /\ feed = <<>>
    /\ secrets = {} /\ listed = {} /\ changed = FALSE /\ lost = {}
    /\ template = NoDeployment /\ pod = NoPod /\ complete = FALSE
    /\ queued = TRUE
    /\ pc = "idle" /\ seen = console /\ active = 0 /\ rolledOut = FALSE
    /\ requests = 0 /\ successors = 0
    /\ losses = 0 /\ toggles = 0 /\ faults = 0

-----------------------------------------------------------------------------
(***************************************************************************)
(* Names.  tokenGeneration parses the counter back out of a name;           *)
(* BoundedName has replaced the end of a name over 63 characters by a       *)
(* digest, and such a name parses as zero.                                  *)
(***************************************************************************)
TokenGeneration(g) == IF g <= ParsableGeneration THEN g ELSE 0

\* deployedTokenGeneration: zero without a Deployment or a token volume.
DeployedTokenGeneration ==
    IF template = NoDeployment THEN 0 ELSE TokenGeneration(template)

Larger(a, b) == IF a > b THEN a ELSE b

\* Mutants: the rotate path floored too; no path floored.
FloorAlways(c) == Larger(TokenGeneration(c.status), DeployedTokenGeneration)
FloorNever(c) == TokenGeneration(c.status)

\* The generation a reconcile starts from: what the cached status names,
\* floored by the live template unless this is a rotation.
BaseGeneration(c) ==
    IF c.rotate
    THEN TokenGeneration(c.status)
    ELSE Larger(TokenGeneration(c.status), DeployedTokenGeneration)

\* Mutant: an off-by-one in the successor's number.
PreviousGeneration(g) == g - 1

SuccessorGeneration(g) == g + 1

\* Mutant: a lost Secret is created again under its name.
RegeneratedGeneration(c) ==
    LET base == BaseGeneration(c)
    IN  IF base = 0 THEN 1
        ELSE IF c.rotate THEN SuccessorGeneration(base) ELSE base

\* The generation reconcileEvidenceToken returns the name of, evidence on.
ResolvedGeneration(c) ==
    LET base == BaseGeneration(c)
    IN  IF base = 0 THEN 1
        ELSE IF c.rotate THEN SuccessorGeneration(base)
        ELSE IF base \in secrets THEN base
        ELSE SuccessorGeneration(base)

\* No Secret has to be minted: the active one was read live and is valid.
KeepsActive(c) ==
    LET base == BaseGeneration(c)
    IN  base # 0 /\ ~c.rotate /\ base \in secrets

-----------------------------------------------------------------------------
(***************************************************************************)
(* A write of the PgConsole reaches the informer later, in write order.     *)
(* A patch that changes nothing makes no new version.                       *)
(***************************************************************************)
WriteConsole(c) ==
    /\ console' = c
    /\ feed' = IF c = console THEN feed ELSE Append(feed, c)

\* A change of the Secrets is an event the metadata informer will deliver.
WriteSecrets(s) ==
    /\ secrets' = s
    /\ changed' = (changed \/ s # secrets)

\* Reconcile up to reconcileEvidence: read the cached console and resolve
\* the composition and the token.  Without evidence the Deployment is built
\* without a token volume.
ResolveToken ==
    /\ pc = "idle"
    /\ queued
    /\ queued' = FALSE
    /\ seen' = cache
    /\ active' = IF cache.evidence THEN ResolvedGeneration(cache) ELSE 0
    /\ pc' = IF cache.evidence /\ ~KeepsActive(cache) THEN "create" ELSE "apply"
    /\ UNCHANGED <<clusterVars, informerVars, rolloutVars, rolledOut, countVars>>

\* createEvidenceTokenSecret: AlreadyExists is not an error.
CreateEvidenceTokenSecret ==
    /\ pc = "create"
    /\ WriteSecrets(secrets \cup {active})
    /\ lost' = lost \ {active}
    /\ successors' = IF seen.rotate /\ active \notin secrets
                     THEN successors + 1 ELSE successors
    /\ pc' = IF seen.rotate THEN "ack" ELSE "apply"
    /\ UNCHANGED <<console, feed, informerVars, rolloutVars, queued, seen, active,
                   rolledOut, requests, losses, toggles, faults>>

\* The merge patch removes the annotation from whatever version is live.
AcknowledgeRotation ==
    /\ pc = "ack"
    /\ WriteConsole([console EXCEPT !.rotate = FALSE])
    /\ pc' = "apply"
    /\ UNCHANGED <<secrets, changed, lost, informerVars, rolloutVars, queued, seen, active,
                   rolledOut, requests, successors, losses, toggles, faults>>

\* Mutant: the superseded Secrets are collected whatever the rollout.
AnyRollout(d) == TRUE

RolloutComplete(d) == d

\* reconcileDeployment: the live Deployment is kept when its volumes match;
\* an applied one has a generation its status has not observed.  The applied
\* or kept object is what collectSupersededTokens looks at.  The write, and
\* any later status change, brings the console back to the queue.
ReconcileDeployment ==
    /\ pc = "apply"
    /\ template' = active
    /\ complete' = (complete /\ template = active)
    /\ rolledOut' = RolloutComplete(complete /\ template = active)
    /\ queued' = (queued \/ template # active)
    /\ pc' = "collect"
    /\ UNCHANGED <<clusterVars, informerVars, pod, seen, active, countVars>>

Superseded == IF rolledOut THEN listed \ {active} ELSE {}

\* collectSupersededTokens: every listed Secret but the active one, by name.
CollectSupersededTokens ==
    /\ pc = "collect"
    /\ WriteSecrets(secrets \ Superseded)
    /\ pc' = "publish"
    /\ UNCHANGED <<console, feed, lost, informerVars, rolloutVars, queued, seen, active,
                   rolledOut, countVars>>

\* A Delete fails: the ones before it were carried out, the reconcile returns
\* the error and is queued again.
CollectFails ==
    /\ pc = "collect"
    /\ faults < MaxFaults
    /\ \E gone \in SUBSET Superseded :
         /\ gone # Superseded
         /\ WriteSecrets(secrets \ gone)
    /\ pc' = "idle"
    /\ queued' = TRUE
    /\ faults' = faults + 1
    /\ UNCHANGED <<console, feed, lost, informerVars, rolloutVars, seen, active, rolledOut,
                   requests, successors, losses, toggles>>

\* updateStatus, the last step: a merge patch of what changed against the
\* status this reconcile read, so nothing is sent when that was the same.
UpdateStatus ==
    /\ pc = "publish"
    /\ WriteConsole(IF seen.status = active THEN console
                    ELSE [console EXCEPT !.status = active])
    /\ pc' = "idle"
    /\ UNCHANGED <<secrets, changed, lost, informerVars, rolloutVars, queued, seen, active,
                   rolledOut, countVars>>

\* Mutant: a failed reconcile that is not queued again.
DropReconcile == queued' = queued

RequeueReconcile == queued' = TRUE

\* A step returns an error, before or after the call it makes took effect,
\* or the manager dies and its successor starts: the rest of the reconcile
\* does not happen, and the console is queued again.
AbortReconcile ==
    /\ pc # "idle"
    /\ faults < MaxFaults
    /\ pc' = "idle"
    /\ RequeueReconcile
    /\ faults' = faults + 1
    /\ UNCHANGED <<clusterVars, informerVars, rolloutVars, seen, active, rolledOut,
                   requests, successors, losses, toggles>>

-----------------------------------------------------------------------------
(***************************************************************************)
(* The manager's informers and the work queue.                              *)
(***************************************************************************)
DeliverConsole ==
    /\ feed # <<>>
    /\ cache' = Head(feed)
    /\ feed' = Tail(feed)
    /\ queued' = TRUE
    /\ UNCHANGED <<console, secrets, changed, lost, listed, rolloutVars, workerVars, countVars>>

DeliverSecrets ==
    /\ changed
    /\ changed' = FALSE
    /\ listed' = secrets
    /\ queued' = TRUE
    /\ UNCHANGED <<console, feed, secrets, lost, cache, rolloutVars, workerVars, countVars>>

\* The two-minute pgAdmin resync, or an event of any other watched object.
Resync ==
    /\ ~queued
    /\ queued' = TRUE
    /\ UNCHANGED <<clusterVars, informerVars, rolloutVars, workerVars, countVars>>

-----------------------------------------------------------------------------
(***************************************************************************)
(* The Deployment controller, under the Recreate strategy: the Pod of an    *)
(* old template is gone before the next one starts, and a Pod whose Secret  *)
(* is missing does not start.                                               *)
(***************************************************************************)
\* Mutant: a Pod of the new template takes over from the old one.
ReplacePod ==
    /\ pod # NoPod
    /\ pod # template
    /\ template = 0 \/ template \in secrets
    /\ pod' = template
    /\ UNCHANGED <<clusterVars, informerVars, template, complete, queued, workerVars,
                   countVars>>

StopPod ==
    /\ pod # NoPod
    /\ pod # template
    /\ pod' = NoPod
    /\ UNCHANGED <<clusterVars, informerVars, template, complete, queued, workerVars,
                   countVars>>

StartPod ==
    /\ pod = NoPod
    /\ template # NoDeployment
    /\ template = 0 \/ template \in secrets
    /\ pod' = template
    /\ UNCHANGED <<clusterVars, informerVars, template, complete, queued, workerVars,
                   countVars>>

ReportRollout ==
    /\ template # NoDeployment
    /\ complete # (pod = template)
    /\ complete' = (pod = template)
    /\ queued' = TRUE
    /\ UNCHANGED <<clusterVars, informerVars, template, pod, workerVars, countVars>>

EvictPod ==
    /\ pod # NoPod
    /\ faults < MaxFaults
    /\ pod' = NoPod
    /\ faults' = faults + 1
    /\ UNCHANGED <<clusterVars, informerVars, template, complete, queued, workerVars,
                   requests, successors, losses, toggles>>

-----------------------------------------------------------------------------
(***************************************************************************)
(* The user, and whoever else may delete a Secret of the namespace.         *)
(***************************************************************************)
RequestRotation ==
    /\ ~console.rotate
    /\ requests < MaxRequests
    /\ WriteConsole([console EXCEPT !.rotate = TRUE])
    /\ requests' = requests + 1
    /\ UNCHANGED <<secrets, changed, lost, informerVars, rolloutVars, queued, workerVars,
                   successors, losses, toggles, faults>>

ToggleEvidence ==
    /\ toggles < MaxToggles
    /\ WriteConsole([console EXCEPT !.evidence = ~console.evidence])
    /\ toggles' = toggles + 1
    /\ UNCHANGED <<secrets, changed, lost, informerVars, rolloutVars, queued, workerVars, requests,
                   successors, losses, faults>>

LoseSecret ==
    /\ losses < MaxLosses
    /\ \E g \in secrets :
         /\ WriteSecrets(secrets \ {g})
         /\ lost' = lost \cup {g}
    /\ losses' = losses + 1
    /\ UNCHANGED <<console, feed, informerVars, rolloutVars, queued, workerVars, requests,
                   successors, toggles, faults>>

-----------------------------------------------------------------------------
Worker ==
    \/ ResolveToken
    \/ CreateEvidenceTokenSecret
    \/ AcknowledgeRotation
    \/ ReconcileDeployment
    \/ CollectSupersededTokens
    \/ UpdateStatus

Next ==
    \/ Worker
    \/ CollectFails \/ AbortReconcile
    \/ DeliverConsole \/ DeliverSecrets \/ Resync
    \/ StopPod \/ StartPod \/ ReportRollout \/ EvictPod
    \/ RequestRotation \/ ToggleEvidence \/ LoseSecret

Spec == Init /\ [][Next]_vars

(***************************************************************************)
(* The manager, its informers and the Deployment controller keep running.   *)
(* Nothing is assumed of users, faults, or the resync timer.                *)
(***************************************************************************)
Fairness ==
    /\ WF_vars(Worker)
    /\ WF_vars(DeliverConsole) /\ WF_vars(DeliverSecrets)
    /\ WF_vars(StopPod) /\ WF_vars(StartPod) /\ WF_vars(ReportRollout)

FairSpec == Spec /\ Fairness

-----------------------------------------------------------------------------
(***************************************************************************)
(* Properties.                                                              *)
(***************************************************************************)

\* collectSupersededTokens waits for the rollout "so the old token outlives
\* every Pod that still presents it": the Secret of the token a running Pod
\* mounts, and of the one the template names, is there, unless someone other
\* than the operator deleted it.
TokenOutlivesItsPods ==
    \A g \in {template, pod} : g > 0 => g \in secrets \cup lost

\* Why that holds.  A token that is about to be deployed was minted or read
\* live by the same reconcile; a rollout that was reported complete leaves no
\* Pod of an older template; and the Secrets are only collected by a reconcile
\* whose token is the one in the template.
DeployableToken ==
    /\ pc \in {"create", "ack"} => active > 0
    /\ pc \in {"ack", "apply"} => active \in secrets \cup lost \cup {0}
ReportedRollout == complete => pod \in {template, NoPod}
CollectingReconcile ==
    pc \in {"collect", "publish"} =>
        /\ template = active
        /\ rolledOut => pod \in {template, NoPod}
TokenInv ==
    /\ TypeOK
    /\ TokenOutlivesItsPods
    /\ DeployableToken
    /\ ReportedRollout
    /\ CollectingReconcile

\* reconcileEvidenceToken: however often one request is observed (a stale
\* cache, a retry after an error, a restart), it mints one successor.  A request
\* whose successor someone else deleted, or that evidence switched off and on
\* again took away before the acknowledgement, mints another.
Undisturbed == losses = 0 /\ toggles = 0
OneSuccessorPerRequest == Undisturbed => successors <= requests

\* reconcileEvidenceToken floors its answer with the live template so that a
\* reconcile that sees neither the annotation nor the successor cannot "roll
\* the freshly rotated Pod template back".
NoTemplateRollback ==
    [][(template > 0 /\ template' > 0 /\ losses = 0 /\ toggles = 0)
          => template' >= template]_vars

\* Why that holds, as long as the rotation counter can be parsed back from
\* every name.  The versions of the console, from the one the informer shows
\* to the live one, have a rising status; no status is ahead of the template;
\* and the template, and the token on its way there, are at most one
\* generation ahead of the status the informer shows.
NamesParse == ParsableGeneration > MaxRequests
Deployed == IF template = NoDeployment THEN 0 ELSE template
Rising(c, d) == c.status <= d.status /\ c.evidence = d.evidence
VersionsRise ==
    /\ Rising(cache, console)
    /\ \A i \in 1..Len(feed) : Rising(cache, feed[i]) /\ Rising(feed[i], console)
    /\ \A i, j \in 1..Len(feed) : i <= j => Rising(feed[i], feed[j])
StatusTrailsTemplate ==
    /\ console.status <= Deployed
    /\ Deployed <= cache.status + 1
    /\ pc \in {"create", "ack", "apply"} =>
          active >= Deployed /\ active <= cache.status + 1
\* A generation needs a request, but for the first.  A version that asks for
\* a rotation has one to spare.
Affordable(c, n) ==
    /\ c.status <= n + 1
    /\ c.rotate => c.status <= n /\ n > 0
GenerationsAreRequested ==
    /\ Affordable(console, requests) /\ Affordable(cache, requests)
    /\ \A i \in 1..Len(feed) : Affordable(feed[i], requests)
    /\ Deployed <= requests + 1
    /\ pc # "idle" => active <= requests + 1
    /\ console.rotate =>
          /\ Deployed <= requests
          /\ \/ pc = "idle"
             \/ pc \in {"create", "ack"} /\ seen.rotate
             \/ active <= requests
\* Without evidence there is never a token.
NoEvidenceNoToken ==
    ~console.evidence => Deployed = 0 /\ (pc # "idle" => active = 0)
RollbackInv ==
    /\ losses = 0 => lost = {}
    /\ Undisturbed =>
          /\ VersionsRise
          /\ GenerationsAreRequested
          /\ NoEvidenceNoToken
          /\ StatusTrailsTemplate

\* What a console left alone comes to: status, template, Pod and Secrets
\* agree on one token, or on none, and no rotation is pending.
Settled ==
    /\ template = console.status
    /\ pod = template
    /\ IF console.evidence
       THEN template > 0 /\ secrets = {template} /\ ~console.rotate
       ELSE template = 0 /\ secrets = {}

\* Level-triggered reconciliation converges: after finitely many requests,
\* losses, toggles and faults the console settles, with no timer to help.
EventuallySettles == <>[]Settled

\* Whatever caches, annotations and counters are in between, the lifecycle
\* keeps the promise of TokenService: a token is minted, deployed, mounted by
\* one Pod after the other, and retired after the last of them.
Tokens(g) == {g} \ {0, NoPod}
Service == INSTANCE TokenService
    WITH available <- secrets, withdrawn <- lost,
         named <- Tokens(template), mounted <- Tokens(pod)
RefinesService == Service!Spec

\* Why that holds, beside TokenInv: a Secret that is there is not counted as
\* lost, so what a reconcile finds already minted stays as it is.
LostIsGone == secrets \cap lost = {}

\* reconcileEvidenceToken: "Never regenerate under the same name".  A token is
\* minted under the name in the template only by a rotation that is observed
\* again after someone deleted what it had minted, unless that name is one that
\* BoundedName has cut.
HealsUnderNewName ==
    [][\A g \in secrets' \ secrets :
          g = template /\ g <= ParsableGeneration => seen.rotate]_vars

\* evidence_token.go: the crash window after the acknowledgement may not
\* "silently lose the rotation to the superseded-token collector".  What the
\* collector deletes is older than the active token.
CollectsOnlySuperseded ==
    [][(pc = "collect" /\ active > 0) =>
          \A g \in secrets \ secrets' : g < active \/ losses' > losses]_vars

=============================================================================
