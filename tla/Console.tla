------------------------------ MODULE Console ------------------------------
(***************************************************************************)
(* The life of one PgConsole and of the objects that exist for it: the      *)
(* finalizer, the early returns of the reconcile, the authority of the      *)
(* console's ServiceAccount, its exposure and its network policy.           *)
(*                                                                          *)
(* The catalog ClusterRole and its binding have no owner and are removed    *)
(* only by the operator; the other objects go with their console.  The      *)
(* operator compares with a cache that lags behind the API server kind by   *)
(* kind, and is told of changes of the console and of the objects it owns,  *)
(* not of the catalog pair.                                                 *)
(***************************************************************************)
EXTENDS Integers, Sequences

CONSTANTS
    Specs,        \* specifications the console may be given
    Served,       \* optional platform APIs that are served
    PgAdmin,      \* the console has pgAdmin, and is revisited on a timer
    MaxEdits,     \* bound: changes of the specification
    MaxFaults,    \* bound: failed reconciles, restarts, deletions by hand
    MaxEvents     \* bound: all of these together

Exposures == {"ingress", "route", "httproute"}
Catalog == {"catalogRole", "catalogBinding"}
Owned == {"policy"} \cup Exposures
Kinds == Owned \cup Catalog

Specifications ==
    [held: BOOLEAN, catalogs: BOOLEAN,
     policy: BOOLEAN, exposure: Exposures \cup {"clusterIP"}]

ASSUME ConsoleAssumption ==
    /\ Specs \subseteq Specifications /\ Specs # {}
    /\ Served \subseteq {"route", "httproute"}
    /\ PgAdmin \in BOOLEAN
    /\ MaxEdits \in Nat /\ MaxFaults \in Nat
    /\ MaxEvents \in Nat

\* held: the skip annotation is set, or the specification does not validate.
VARIABLES
    console,  \* the PgConsole at the API server
    cached,   \* the manager's copy of it
    objects,  \* the other objects at the API server
    seen,     \* the manager's copies of them
    cluster,  \* the CNPG Cluster exists
    renderable, \* the OIDC client Secret is there and the configuration renders
    issue,    \* the reconcile has reported that it was not
    queued,   \* the console is in the controller's queue
    timer,    \* a RequeueAfter is pending
    worker,   \* the reconcile in progress
    edits, faults \* history

proxyConfig == <<renderable, issue>>

vars == <<console, cached, objects, seen, cluster, proxyConfig, queued, timer, worker,
          edits, faults>>

Verbs == {"apply", "create", "delete", "remove"}
Lives == {"none", "live", "deleting"}
Versions == 0..MaxEdits + 3 \* finalized, deleted, released
Consoles == [life: Lives, finalizer: BOOLEAN, spec: Specs, version: Versions]
NoConsole ==
    [life |-> "none", finalizer |-> FALSE, spec |-> CHOOSE s \in Specs : TRUE, version |-> 0]
IdleWorker == [pc |-> "idle", copy |-> NoConsole, todo |-> <<>>]

TypeOK ==
    /\ console \in Consoles /\ cached \in Consoles
    /\ objects \subseteq Kinds /\ seen \subseteq Kinds
    /\ cluster \in BOOLEAN /\ renderable \in BOOLEAN /\ issue \in BOOLEAN
    /\ queued \in BOOLEAN /\ timer \in BOOLEAN
    /\ worker.pc \in {"idle", "release", "unbind", "unfinalize", "steps"}
    /\ worker.copy \in Consoles
    /\ \A i \in DOMAIN worker.todo : worker.todo[i] \in Verbs \X Kinds
    /\ edits \in 0..MaxEdits /\ faults \in 0..MaxFaults

Init ==
    /\ \E s \in Specs : console = [life |-> "live", finalizer |-> FALSE, spec |-> s, version |-> 0]
    /\ cached = console
    /\ objects = {} /\ seen = {}
    /\ cluster = FALSE
    /\ renderable \in BOOLEAN /\ issue = FALSE
    /\ queued = TRUE /\ timer = FALSE
    /\ worker = IdleWorker
    /\ edits = 0 /\ faults = 0

-----------------------------------------------------------------------------
(***************************************************************************)
(* What the reconcile does for a specification: one step for each request,  *)
(* in the order of the code.                                                *)
(***************************************************************************)
Step(verb, kind) == <<verb, kind>>

\* reconcileRBAC: the pair is applied, or deleted whether the cache has it or
\* not.  The operate pair is switched in the same way; it goes with the
\* console and is left out here.
Authority(s) ==
    LET verb == IF s.catalogs THEN "apply" ELSE "delete"
    IN  <<Step(verb, "catalogRole"), Step(verb, "catalogBinding")>>

\* An exposure kind whose platform API is not served is never touched.
Usable == Exposures \ ({"route", "httproute"} \ Served)

\* Mutant: the console leaves the exposure it had before in place.
ExposeOnly(s) ==
    IF s.exposure \in Usable THEN <<Step("apply", s.exposure)>> ELSE <<>>

\* reconcileExposure: the wanted kind first, then the others are removed.
Expose(s) ==
    LET RemoveUnlessWanted(k) ==
            IF k \in Usable /\ k # s.exposure THEN <<Step("remove", k)>> ELSE <<>>
    IN  (IF s.exposure \in Usable THEN <<Step("apply", s.exposure)>> ELSE <<>>)
        \o RemoveUnlessWanted("ingress") \o RemoveUnlessWanted("route")
        \o RemoveUnlessWanted("httproute")

\* reconcileResources
Plan(s) ==
    Authority(s) \o Expose(s)
    \o <<Step(IF s.policy THEN "create" ELSE "remove", "policy")>>

-----------------------------------------------------------------------------
(***************************************************************************)
(* The reconcile.                                                           *)
(***************************************************************************)
Events == edits + faults
Goto(pc) == worker' = [worker EXCEPT !.pc = pc]
Ends(again) == worker' = IdleWorker /\ queued' = again
Finalized == cached.finalizer

\* Nothing to do: no console in the cache, or a deleted one that the operator
\* holds no longer; and a living one that is skipped or not valid.
BeginNothing ==
    /\ worker.pc = "idle" /\ queued
    /\ queued' = FALSE
    /\ \/ cached.life = "none"
       \/ cached.life = "deleting" /\ ~Finalized
       \/ cached.life = "live" /\ Finalized /\ cached.spec.held
    /\ UNCHANGED <<console, cached, objects, seen, cluster, proxyConfig, timer, worker,
                   edits, faults>>

\* Mutant: every reconcile writes the finalizer, and so starts another.
BeginFinalizerAgain ==
    /\ worker.pc = "idle" /\ queued
    /\ cached.life = "live"
    /\ IF cached = console
       THEN /\ console' = [console EXCEPT !.finalizer = TRUE, !.version = @ + 1]
            /\ queued' = FALSE
       ELSE UNCHANGED <<console, queued>>
    /\ UNCHANGED <<cached, objects, seen, cluster, proxyConfig, timer, worker, edits, faults>>

\* AddFinalizer and Update, which is refused when the copy is old.
BeginFinalizer ==
    /\ worker.pc = "idle" /\ queued
    /\ cached.life = "live" /\ ~Finalized
    /\ IF cached = console
       THEN /\ console' = [console EXCEPT !.finalizer = TRUE, !.version = @ + 1]
            /\ queued' = FALSE
       ELSE UNCHANGED <<console, queued>>
    /\ UNCHANGED <<cached, objects, seen, cluster, proxyConfig, timer, worker, edits, faults>>

\* The CNPG Cluster is read live; without it the console is revisited.
BeginWithoutCluster ==
    /\ worker.pc = "idle" /\ queued
    /\ cached.life = "live" /\ Finalized /\ ~cached.spec.held
    /\ ~cluster
    /\ queued' = FALSE
    /\ timer' = TRUE
    /\ UNCHANGED <<console, cached, objects, seen, cluster, proxyConfig, worker, edits, faults>>

\* reconcileProxyConfigSecret has nothing it can render: the reconcile reports
\* it and ends before any other object moves, without an error and without a
\* timer.  A report that is new comes back as an event of the console.
BeginProxyIssue ==
    /\ worker.pc = "idle" /\ queued
    /\ cached.life = "live" /\ Finalized /\ ~cached.spec.held
    /\ cluster /\ ~renderable
    /\ issue' = TRUE
    /\ queued' = ~issue
    /\ UNCHANGED <<console, cached, objects, seen, cluster, renderable, timer, worker,
                   edits, faults>>

\* The reconcile proper.
BeginSteps ==
    /\ worker.pc = "idle" /\ queued
    /\ cached.life = "live" /\ Finalized /\ ~cached.spec.held
    /\ cluster /\ renderable
    /\ queued' = FALSE
    /\ worker' = [IdleWorker EXCEPT !.pc = "steps", !.todo = Plan(cached.spec)]
    /\ UNCHANGED <<console, cached, objects, seen, cluster, proxyConfig, timer, edits, faults>>

\* Mutant: the finalizer goes first.
BeginUnfinalize ==
    /\ worker.pc = "idle" /\ queued
    /\ cached.life = "deleting" /\ Finalized
    /\ queued' = FALSE
    /\ worker' = [IdleWorker EXCEPT !.pc = "unfinalize", !.copy = cached]
    /\ UNCHANGED <<console, cached, objects, seen, cluster, proxyConfig, timer, edits, faults>>

\* Mutant: the skip annotation holds a deletion up.
BeginReleaseUnskipped ==
    /\ worker.pc = "idle" /\ queued
    /\ cached.life = "deleting" /\ Finalized /\ ~cached.spec.held
    /\ queued' = FALSE
    /\ worker' = [IdleWorker EXCEPT !.pc = "release", !.copy = cached]
    /\ UNCHANGED <<console, cached, objects, seen, cluster, proxyConfig, timer, edits, faults>>

\* The console is being deleted.
BeginRelease ==
    /\ worker.pc = "idle" /\ queued
    /\ cached.life = "deleting" /\ Finalized
    /\ queued' = FALSE
    /\ worker' = [IdleWorker EXCEPT !.pc = "release", !.copy = cached]
    /\ UNCHANGED <<console, cached, objects, seen, cluster, proxyConfig, timer, edits, faults>>

\* deleteCatalogClusterRBAC: the role, then the binding.
Release(pc, kind, next) ==
    /\ worker.pc = pc
    /\ objects' = objects \ {kind}
    /\ Goto(next)
    /\ UNCHANGED <<console, cached, seen, cluster, proxyConfig, queued, timer, edits, faults>>

\* RemoveFinalizer and Update: the last finalizer of a deleted console.
Unfinalize ==
    /\ worker.pc = "unfinalize"
    /\ IF worker.copy = console
       THEN /\ console' = [console EXCEPT !.life = "none", !.finalizer = FALSE, !.version = @ + 1]
            /\ Ends(queued)
       ELSE /\ Ends(TRUE)
            /\ UNCHANGED console
    /\ UNCHANGED <<cached, objects, seen, cluster, proxyConfig, timer, edits, faults>>

\* apply writes unless the cached copy is as it should be; the policy is
\* created when the cache has none; delete goes to the API server; remove
\* deletes what the cache has.
After(verb, kind) ==
    CASE verb \in {"apply", "create"} /\ kind \notin seen -> objects \cup {kind}
      [] verb = "delete" -> objects \ {kind}
      [] verb = "remove" /\ kind \in seen -> objects \ {kind}
      [] OTHER -> objects

Refused(verb, kind) == verb = "create" /\ kind \notin seen /\ kind \in objects

DoStep ==
    LET verb == Head(worker.todo)[1]
        kind == Head(worker.todo)[2]
    IN  /\ worker.pc = "steps" /\ worker.todo # <<>>
        /\ IF Refused(verb, kind) THEN Ends(TRUE) /\ UNCHANGED objects
           ELSE /\ objects' = After(verb, kind)
                /\ worker' = [worker EXCEPT !.todo = Tail(@)]
                /\ UNCHANGED queued
        /\ UNCHANGED <<console, cached, seen, cluster, proxyConfig, timer, edits, faults>>

\* The reconcile is done and its status written; with pgAdmin it comes back by
\* itself.
EndSteps ==
    /\ worker.pc = "steps" /\ worker.todo = <<>>
    /\ Ends(queued \/ issue)
    /\ issue' = FALSE
    /\ timer' = (timer \/ PgAdmin)
    /\ UNCHANGED <<console, cached, objects, seen, cluster, renderable, edits, faults>>

\* A request fails.
FailReconcile ==
    /\ worker.pc # "idle"
    /\ faults < MaxFaults /\ Events < MaxEvents
    /\ faults' = faults + 1
    /\ Ends(TRUE)
    /\ UNCHANGED <<console, cached, objects, seen, cluster, proxyConfig, timer, edits>>

\* A new manager lists every object.
RestartManager ==
    /\ faults < MaxFaults /\ Events < MaxEvents
    /\ faults' = faults + 1
    /\ Ends(TRUE)
    /\ timer' = FALSE
    /\ cached' = console /\ seen' = objects
    /\ UNCHANGED <<console, objects, cluster, proxyConfig, edits>>

FireTimer ==
    /\ timer
    /\ timer' = FALSE /\ queued' = TRUE
    /\ UNCHANGED <<console, cached, objects, seen, cluster, proxyConfig, worker, edits, faults>>

\* SetupWithManager: For(PgConsole)
DeliverConsole ==
    /\ cached # console
    /\ cached' = console
    /\ queued' = TRUE
    /\ UNCHANGED <<console, objects, seen, cluster, proxyConfig, timer, worker, edits, faults>>

\* SetupWithManager: Owns(...) for each kind but the catalog pair.
DeliverObject(kind) ==
    /\ (kind \in objects) # (kind \in seen)
    /\ seen' = IF kind \in objects THEN seen \cup {kind} ELSE seen \ {kind}
    /\ queued' = (queued \/ kind \in Owned)
    /\ UNCHANGED <<console, cached, objects, cluster, proxyConfig, timer, worker, edits, faults>>

-----------------------------------------------------------------------------
(***************************************************************************)
(* The users, and Kubernetes.                                               *)
(***************************************************************************)
EditConsole(s) ==
    /\ console.life = "live" /\ console.spec # s
    /\ edits < MaxEdits /\ Events < MaxEvents
    /\ edits' = edits + 1
    /\ console' = [console EXCEPT !.spec = s, !.version = @ + 1]
    /\ UNCHANGED <<cached, objects, seen, cluster, proxyConfig, queued, timer, worker, faults>>

\* Without a finalizer the console is gone at once.
DeleteConsole ==
    /\ console.life = "live"
    /\ console' = [console EXCEPT !.life = IF console.finalizer THEN "deleting" ELSE "none",
                                  !.version = @ + 1]
    /\ UNCHANGED <<cached, objects, seen, cluster, proxyConfig, queued, timer, worker,
                   edits, faults>>

\* What a deleted console owned is collected.
CollectOwned ==
    /\ console.life = "none" /\ objects \cap Owned # {}
    /\ objects' = objects \ Owned
    /\ UNCHANGED <<console, cached, seen, cluster, proxyConfig, queued, timer, worker,
                   edits, faults>>

DeleteObject(kind) ==
    /\ kind \in objects
    /\ faults < MaxFaults /\ Events < MaxEvents
    /\ faults' = faults + 1
    /\ objects' = objects \ {kind}
    /\ UNCHANGED <<console, cached, seen, cluster, proxyConfig, queued, timer, worker, edits>>

CreateCluster ==
    /\ ~cluster
    /\ cluster' = TRUE
    /\ UNCHANGED <<console, cached, objects, seen, proxyConfig, queued, timer, worker,
                   edits, faults>>

\* The client Secret of the provider appears, or goes; nobody tells the
\* operator.
ChangeClientSecret ==
    /\ faults < MaxFaults /\ Events < MaxEvents
    /\ faults' = faults + 1
    /\ renderable' = ~renderable
    /\ UNCHANGED <<console, cached, objects, seen, cluster, issue, queued, timer, worker, edits>>

-----------------------------------------------------------------------------
Begin ==
    \/ BeginNothing \/ BeginFinalizer \/ BeginWithoutCluster
    \/ BeginProxyIssue \/ BeginSteps \/ BeginRelease

Delete ==
    \/ Release("release", "catalogRole", "unbind")
    \/ Release("unbind", "catalogBinding", "unfinalize")
    \/ Unfinalize

Worker == Begin \/ Delete \/ DoStep \/ EndSteps

Next ==
    \/ Worker \/ FailReconcile \/ RestartManager \/ FireTimer
    \/ DeliverConsole \/ \E kind \in Kinds : DeliverObject(kind)
    \/ \E s \in Specs : EditConsole(s)
    \/ DeleteConsole \/ CollectOwned \/ CreateCluster \/ ChangeClientSecret
    \/ \E kind \in Kinds : DeleteObject(kind)

Fairness ==
    /\ WF_vars(Worker) /\ WF_vars(FireTimer)
    /\ WF_vars(DeliverConsole) /\ \A kind \in Kinds : WF_vars(DeliverObject(kind))
    /\ WF_vars(CollectOwned)

Spec == Init /\ [][Next]_vars /\ Fairness

-----------------------------------------------------------------------------
(***************************************************************************)
(* Properties.                                                              *)
(***************************************************************************)

\* Nobody but the finalizer removes the cluster-scoped pair of a console that
\* is gone.  So there is no role or binding of the pair without a console
\* that holds the finalizer: not before it is added, not through a reconcile
\* that works on an old copy, not when the deletion fails half-way.
PairHasFinalizer == objects \cap Catalog # {} => console.life # "none" /\ console.finalizer

\* The finalizer delays a deletion, also of a console that is skipped, not
\* valid or without a Cluster, and does not block it.
DeletionCompletes == console.life = "deleting" ~> console.life = "none"

Wanted(s) ==
    (IF s.catalogs THEN Catalog ELSE {})
    \cup ({s.exposure} \cap Usable) \cup (IF s.policy THEN {"policy"} ELSE {})

Reconcilable ==
    console.life = "live" /\ ~console.spec.held /\ cluster

\* A capability switched off is removed and one switched on is there, the
\* requested exposure is the only one, after any switches, stale copies,
\* failures and deletions by hand.  The catalog pair is not watched: it is
\* the timer of a console with pgAdmin that repairs it.  The exception is a
\* console whose last reconcile found nothing to render for the proxy, and
\* says so: nothing else moves until somebody touches the console, even when
\* the client Secret has come back meanwhile.
EventuallyConverged ==
    <>[]Reconcilable => <>[](objects = Wanted(console.spec) \/ issue)

=============================================================================
