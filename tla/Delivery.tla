------------------------------ MODULE Delivery ------------------------------
(***************************************************************************)
(* How the users of a console reach its authentication proxy: the PgConsole *)
(* reconcile renders them with the session key into the configuration       *)
(* Secret and puts the checksum of what it rendered into the Pod template;  *)
(* the Deployment controller replaces the Pod; the kubelet keeps the Pod's  *)
(* volume up to date; the proxy loads the file when it starts and again     *)
(* when it sees the volume change.                                          *)
(*                                                                          *)
(* A configuration is the version of the user list it was rendered from and *)
(* the session key in it; its checksum is the configuration itself.         *)
(***************************************************************************)
EXTENDS Integers

CONSTANTS
    MaxEdits,  \* bound: changes of the console's users
    MaxTampers,\* bound: changes of the Secret by somebody else
    MaxFaults  \* bound: failed requests, restarts, crashes and evictions

ASSUME DeliveryAssumption == MaxEdits \in Nat /\ MaxTampers \in Nat /\ MaxFaults \in Nat

VARIABLES
    users,        \* version of the console's users at the API server
    cachedUsers,  \* the version in the manager's cache
    clientSecret, \* the OIDC client Secret is there
    secret,       \* the configuration Secret
    template,     \* checksum in the Deployment's Pod template
    events,       \* objects with an event that the manager has not seen
    queued,       \* the console is in the controller's queue
    worker,       \* the reconcile in progress
    issue,        \* the last reconcile reported ProxyConfigReady=False
    pod,          \* the console's Pod and the proxy process in it
    keys,         \* history: session keys ever written
    drops,        \* history: session keys removed by somebody else
    tampers, faults \* history

vars == <<users, cachedUsers, clientSecret, secret, template, events, queued, worker, issue, pod,
          keys, drops, tampers, faults>>

Gens == 0..MaxEdits
Keys == 1..MaxTampers + 1
Configs == [gen: Gens, key: Keys]
None == [gen |-> -1, key |-> 0]   \* no configuration
Broken == [gen |-> -2, key |-> 0] \* a file the proxy's parser refuses
Edited == [gen |-> -3, key |-> 0] \* a valid file that the operator did not write
Contents == Configs \cup {None, Broken, Edited}

NoSecret == [exists |-> FALSE, owned |-> FALSE, key |-> 0, config |-> None]
IdleWorker == [pc |-> "idle", gen |-> 0, found |-> FALSE, fresh |-> FALSE, config |-> None]
NoPod == [exists |-> FALSE, template |-> None, volume |-> None, process |-> "down",
          runtime |-> None, armed |-> FALSE, missed |-> FALSE]

Secrets == [exists: BOOLEAN, owned: BOOLEAN, key: {0} \cup Keys, config: Contents]
Workers == [pc: {"idle", "secret", "write", "deploy"}, gen: Gens, found: BOOLEAN,
            fresh: BOOLEAN, config: Configs \cup {None}]
Pods == [exists: BOOLEAN, template: Configs \cup {None}, volume: Contents,
         process: {"down", "loaded", "watching", "unwatched"}, runtime: Contents,
         armed: BOOLEAN, missed: BOOLEAN]

TypeOK ==
    /\ users \in Gens /\ cachedUsers \in Gens
    /\ clientSecret \in BOOLEAN
    /\ secret \in Secrets
    /\ template \in Configs \cup {None}
    /\ events \subseteq {"users", "secret", "deployment"}
    /\ queued \in BOOLEAN /\ issue \in BOOLEAN
    /\ worker \in Workers /\ pod \in Pods
    /\ keys \in 0..MaxTampers + 1
    /\ drops \in 0..MaxTampers /\ tampers \in 0..MaxTampers /\ faults \in 0..MaxFaults

Init ==
    /\ users = 0 /\ cachedUsers = 0
    /\ clientSecret \in BOOLEAN
    /\ secret = NoSecret /\ template = None
    /\ events = {} /\ queued = TRUE
    /\ worker = IdleWorker /\ issue = FALSE
    /\ pod = NoPod
    /\ keys = 0 /\ drops = 0 /\ tampers = 0 /\ faults = 0

-----------------------------------------------------------------------------
(***************************************************************************)
(* The reconcile.                                                           *)
(***************************************************************************)
Goto(pc) == worker' = [worker EXCEPT !.pc = pc]
Ends(again) == worker' = IdleWorker /\ queued' = again

\* The users are listed from the cache.
Begin ==
    /\ worker.pc = "idle"
    /\ queued
    /\ queued' = FALSE
    /\ worker' = [IdleWorker EXCEPT !.pc = "secret", !.gen = cachedUsers]
    /\ UNCHANGED <<users, cachedUsers, clientSecret, secret, template, events, issue, pod,
                   keys, drops, tampers, faults>>

\* A reconcile that reports why there is no configuration, and ends without
\* being queued again.  checkOIDCClientSecret: the client Secret is not there,
\* or cannot be read; renderProxyConfig: the configuration does not render.
ReportIssue ==
    /\ worker.pc = "secret"
    /\ \/ ~clientSecret /\ UNCHANGED faults
       \/ faults < MaxFaults /\ faults' = faults + 1
    /\ issue' = TRUE
    /\ Ends(queued)
    /\ UNCHANGED <<users, cachedUsers, clientSecret, secret, template, events, pod,
                   keys, drops, tampers>>

\* A Secret of that name that the console does not own is an error.
RefuseSecret ==
    /\ worker.pc = "secret"
    /\ clientSecret
    /\ secret.exists /\ ~secret.owned
    /\ Ends(TRUE)
    /\ UNCHANGED <<users, cachedUsers, clientSecret, secret, template, events, issue, pod,
                   keys, drops, tampers, faults>>

\* Mutant: every reconcile draws a key.
DrawnKey == keys + 1

\* Mutant: a Secret without a key is taken as it is.
KeyAsFound == secret.key

\* The key in the Secret is used again; one is drawn when there is none.
SessionKey == IF secret.key # 0 THEN secret.key ELSE keys + 1

\* Mutant: the Deployment is written before the Secret.
ReadAndDeploy ==
    LET config == [gen |-> worker.gen, key |-> SessionKey]
    IN  /\ worker.pc = "secret"
        /\ clientSecret
        /\ secret.exists => secret.owned
        /\ issue' = FALSE
        /\ template' = config
        /\ worker' = [worker EXCEPT !.pc = "write", !.found = secret.exists, !.fresh = TRUE,
                                    !.config = config]
        /\ UNCHANGED <<users, cachedUsers, clientSecret, secret, events, queued, pod,
                       keys, drops, tampers, faults>>

\* reconcileProxyConfigSecret: a live read, the rendering, and no write when
\* the Secret has both already.
ReadSecret ==
    LET config == [gen |-> worker.gen, key |-> SessionKey]
    IN  /\ worker.pc = "secret"
        /\ clientSecret
        /\ secret.exists => secret.owned
        /\ issue' = FALSE
        /\ worker' = [worker EXCEPT !.pc = IF secret.config = config /\ secret.key = config.key
                                           THEN "deploy" ELSE "write",
                                    !.found = secret.exists, !.fresh = TRUE, !.config = config]
        /\ UNCHANGED <<users, cachedUsers, clientSecret, secret, template, events, queued, pod,
                       keys, drops, tampers, faults>>

\* Create or Update: refused when the Secret was written or deleted since it
\* was read, and the reconcile is then run again.
WriteSecret ==
    /\ worker.pc = "write"
    /\ IF worker.fresh
       THEN /\ secret' = [exists |-> TRUE, owned |-> TRUE, key |-> worker.config.key,
                        config |-> worker.config]
            /\ keys' = IF worker.config.key > keys THEN worker.config.key ELSE keys
            /\ events' = events \cup {"secret"}
            /\ Goto("deploy")
            /\ UNCHANGED queued
       ELSE /\ Ends(TRUE)
            /\ UNCHANGED <<secret, keys, events>>
    /\ UNCHANGED <<users, cachedUsers, clientSecret, template, issue, pod, drops, tampers, faults>>

\* reconcileDeployment: a live read, and an apply when the checksum differs.
ReconcileDeployment ==
    /\ worker.pc = "deploy"
    /\ template' = worker.config
    /\ events' = IF template = worker.config THEN events ELSE events \cup {"deployment"}
    /\ Ends(queued)
    /\ UNCHANGED <<users, cachedUsers, clientSecret, secret, issue, pod,
                   keys, drops, tampers, faults>>

\* A request fails, and the reconcile is run again.
FailReconcile ==
    /\ worker.pc # "idle"
    /\ faults < MaxFaults
    /\ faults' = faults + 1
    /\ Ends(TRUE)
    /\ UNCHANGED <<users, cachedUsers, clientSecret, secret, template, events, issue, pod,
                   keys, drops, tampers>>

\* A new manager lists every object.
RestartManager ==
    /\ faults < MaxFaults
    /\ faults' = faults + 1
    /\ Ends(TRUE)
    /\ cachedUsers' = users
    /\ events' = {}
    /\ UNCHANGED <<users, clientSecret, secret, template, issue, pod, keys, drops, tampers>>

\* Mutant: the Secrets the console owns are not watched.
DeliverUnwatchedSecret(kind) ==
    /\ kind \in events
    /\ events' = events \ {kind}
    /\ cachedUsers' = IF kind = "users" THEN users ELSE cachedUsers
    /\ queued' = (queued \/ kind # "secret")
    /\ UNCHANGED <<users, clientSecret, secret, template, worker, issue, pod,
                   keys, drops, tampers, faults>>

\* SetupWithManager: users, owned Secrets and the Deployment are watched.
Deliver(kind) ==
    /\ kind \in events
    /\ events' = events \ {kind}
    /\ cachedUsers' = IF kind = "users" THEN users ELSE cachedUsers
    /\ queued' = TRUE
    /\ UNCHANGED <<users, clientSecret, secret, template, worker, issue, pod,
                   keys, drops, tampers, faults>>

-----------------------------------------------------------------------------
(***************************************************************************)
(* The Pod: the Deployment controller, the kubelet and the proxy.           *)
(***************************************************************************)
\* The strategy is Recreate: the old Pod goes before the new one comes.
StopPod ==
    /\ pod.exists
    /\ pod.template # template
    /\ pod' = NoPod
    /\ UNCHANGED <<users, cachedUsers, clientSecret, secret, template, events, queued, worker,
                   issue, keys, drops, tampers, faults>>

\* The volume needs the Secret's configuration key and the client Secret.
StartPod ==
    /\ ~pod.exists
    /\ template # None
    /\ secret.exists /\ secret.config # None
    /\ clientSecret
    /\ pod' = [NoPod EXCEPT !.exists = TRUE, !.template = template, !.volume = secret.config]
    /\ UNCHANGED <<users, cachedUsers, clientSecret, secret, template, events, queued, worker,
                   issue, keys, drops, tampers, faults>>

\* The kubelet swaps the volume.  A process that has loaded the file and does
\* not watch, or not yet, does not see it.
SyncVolume ==
    /\ pod.exists
    /\ secret.exists /\ secret.config # None
    /\ pod.volume # secret.config
    /\ pod' = [pod EXCEPT !.volume = secret.config,
                          !.armed = @ \/ pod.process = "watching",
                          !.missed = @ \/ pod.process \in {"loaded", "unwatched"}]
    /\ UNCHANGED <<users, cachedUsers, clientSecret, secret, template, events, queued, worker,
                   issue, keys, drops, tampers, faults>>

\* run, config.Load: a process whose file does not parse ends and is started
\* again.
Load ==
    /\ pod.exists
    /\ pod.process = "down"
    /\ pod.volume # Broken
    /\ pod' = [pod EXCEPT !.process = "loaded", !.runtime = pod.volume, !.armed = FALSE,
                          !.missed = FALSE]
    /\ UNCHANGED <<users, cachedUsers, clientSecret, secret, template, events, queued, worker,
                   issue, keys, drops, tampers, faults>>

\* Watcher.Run, fw.Add: after the providers have been set up.
StartWatch ==
    /\ pod.process = "loaded"
    /\ pod' = [pod EXCEPT !.process = "watching"]
    /\ UNCHANGED <<users, cachedUsers, clientSecret, secret, template, events, queued, worker,
                   issue, keys, drops, tampers, faults>>

\* The watch cannot be set up: the process logs it and serves on.
FailWatch ==
    /\ pod.process = "loaded"
    /\ faults < MaxFaults
    /\ faults' = faults + 1
    /\ pod' = [pod EXCEPT !.process = "unwatched"]
    /\ UNCHANGED <<users, cachedUsers, clientSecret, secret, template, events, queued, worker,
                   issue, keys, drops, tampers>>

\* Watcher.reload, after the debounce: the previous configuration is kept
\* when the file does not parse.
Reload ==
    /\ pod.armed
    /\ pod' = [pod EXCEPT !.armed = FALSE,
                          !.runtime = IF pod.volume = Broken THEN @ ELSE pod.volume,
                          !.missed = @ /\ pod.volume = Broken]
    /\ UNCHANGED <<users, cachedUsers, clientSecret, secret, template, events, queued, worker,
                   issue, keys, drops, tampers, faults>>

\* The container restarts and forgets a reload that was due, or the Pod is
\* evicted.
CrashProcess ==
    /\ pod.process # "down"
    /\ faults < MaxFaults
    /\ faults' = faults + 1
    /\ pod' \in {[pod EXCEPT !.process = "down", !.runtime = None, !.armed = FALSE], NoPod}
    /\ UNCHANGED <<users, cachedUsers, clientSecret, secret, template, events, queued, worker,
                   issue, keys, drops, tampers>>

-----------------------------------------------------------------------------
(***************************************************************************)
(* The users and everybody else.                                            *)
(***************************************************************************)
EditUsers ==
    /\ users < MaxEdits
    /\ users' = users + 1
    /\ events' = events \cup {"users"}
    /\ UNCHANGED <<cachedUsers, clientSecret, secret, template, queued, worker, issue, pod,
                   keys, drops, tampers, faults>>

\* Nothing the operator watches.
ProvideClientSecret ==
    /\ ~clientSecret
    /\ clientSecret' = TRUE
    /\ UNCHANGED <<users, cachedUsers, secret, template, events, queued, worker, issue, pod,
                   keys, drops, tampers, faults>>

\* The Secret is deleted, loses its key, its configuration or its owner, or
\* gets its owner back.
Tamper(result) ==
    /\ secret.exists
    /\ tampers < MaxTampers
    /\ result # secret
    /\ tampers' = tampers + 1
    /\ drops' = IF secret.key # 0 /\ result.key = 0 THEN drops + 1 ELSE drops
    /\ secret' = result
    /\ events' = events \cup {"secret"}
    /\ worker' = [worker EXCEPT !.fresh = FALSE]
    /\ UNCHANGED <<users, cachedUsers, clientSecret, template, queued, issue, pod, keys, faults>>

Tampered == {NoSecret, [secret EXCEPT !.key = 0], [secret EXCEPT !.owned = ~@]}
            \cup {[secret EXCEPT !.config = c] : c \in {None, Broken, Edited}}

-----------------------------------------------------------------------------
Worker ==
    \/ Begin \/ ReportIssue \/ RefuseSecret \/ ReadSecret \/ WriteSecret
    \/ ReconcileDeployment

Next ==
    \/ Worker \/ FailReconcile \/ RestartManager
    \/ \E kind \in {"users", "secret", "deployment"} : Deliver(kind)
    \/ StopPod \/ StartPod \/ SyncVolume
    \/ Load \/ StartWatch \/ FailWatch \/ Reload \/ CrashProcess
    \/ EditUsers \/ ProvideClientSecret
    \/ \E result \in Tampered : Tamper(result)

Fairness ==
    /\ WF_vars(Worker)
    /\ \A kind \in {"users", "secret", "deployment"} : WF_vars(Deliver(kind))
    /\ WF_vars(StopPod) /\ WF_vars(StartPod) /\ WF_vars(SyncVolume)
    /\ WF_vars(Load) /\ WF_vars(StartWatch) /\ WF_vars(Reload)

Spec == Init /\ [][Next]_vars /\ Fairness

-----------------------------------------------------------------------------
(***************************************************************************)
(* Properties.                                                              *)
(***************************************************************************)

\* The session key is drawn in a step of its own, before the write that may
\* be refused, fail or be lost with the manager.  Still no reconcile replaces
\* a key that is there: a new one appears only for one that was removed.
KeysOnlyHealed == keys <= 1 + drops

\* The checksum on a Pod is a promise: the process in it works with the users
\* of that revision or of a later one, however Secret, volume, template and
\* process race, unless the file was edited by hand.
PodServesItsRevision ==
    pod.process # "down" =>
        \/ pod.runtime = Edited
        \/ pod.runtime \in Configs /\ pod.runtime.gen >= pod.template.gen

InForce ==
    /\ pod.process \in {"watching", "unwatched"}
    /\ pod.runtime = [gen |-> users, key |-> secret.key]

\* When the changes stop, the process runs with the console's users and the
\* key of the Secret, even one that could not set up its watch, since every
\* change of the users replaces the Pod; or the console reports why it has no
\* configuration, or somebody took the Secret from it.  The one exception is
\* an edit of the Secret by hand that is undone while the process does not
\* watch, or not yet: it keeps the edited file, as the template does not
\* change.
EventuallyInForce ==
    <>[](\/ InForce \/ issue
         \/ secret.exists /\ ~secret.owned
         \/ pod.missed /\ pod.runtime = Edited)

=============================================================================
