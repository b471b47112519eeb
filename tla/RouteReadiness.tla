--------------------------- MODULE RouteReadiness ---------------------------
(***************************************************************************)
(* How a console comes to say that it can be reached: exposure.go writes    *)
(* the Ingress, Route or HTTPRoute, the platform judges it in the object's  *)
(* status, and the condition RouteReady, beside the URL, repeats the        *)
(* verdict.  Console, object and Gateway are read from caches that lag; a   *)
(* Gateway is not watched.  Switching from one kind to another is in        *)
(* Console.                                                                 *)
(*                                                                          *)
(* A hostname is the sequence of its labels, <<>> where none is given.      *)
(***************************************************************************)
EXTENDS Integers, SequencesExt

CONSTANTS
    Platforms,  \* kind of exposure, whether its API is served, whether pgAdmin's timer runs
    Hosts,      \* hostnames the console may be given
    Parents,    \* parentRefs it may be given
    Listeners,  \* the listeners of a Gateway, for each name of a configuration
    Starts,     \* first specifications of the console and of the Gateways
    Home,       \* the namespace of the console
    MaxChanges  \* bound: changes by users and the platform, failed requests, restarts

ParentRef == [namespace: STRING, name: STRING, section: STRING]

ASSUME RouteAssumption ==
    /\ Platforms \subseteq
          [kind: {"ClusterIP", "Ingress", "Route", "Gateway"}, served: BOOLEAN, timer: BOOLEAN]
    /\ \A h \in Hosts : h \in Seq(STRING) /\ h # <<>>
    /\ Parents # {} /\ Parents \subseteq ParentRef
    /\ Home # ""
    /\ "none" \notin DOMAIN Listeners
    /\ Starts \subseteq
          [host: Hosts, parent: Parents, gateway: {"none"} \cup DOMAIN Listeners]
    /\ MaxChanges \in Nat

\* What the API server admits as a listener: its own protocols, and no
\* wildcard without a suffix.
ASSUME ListenerAssumption ==
    \A g \in DOMAIN Listeners : Listeners[g] \in Seq(
        {l \in [name: STRING, protocol: {"HTTP", "HTTPS", "TLS", "TCP", "UDP"},
                hostname: Seq(STRING), kinds: SUBSET STRING,
                from: {"", "Same", "All", "Selector", "None"}, selector: STRING] :
            l.hostname # <<"*">>})

VARIABLES
    platform,  \* one of Platforms
    console,   \* specification and status of the PgConsole
    known,     \* the manager's copy of it
    object,    \* the exposure object
    seen,      \* the manager's copy of it
    fresh,     \* no event of the object is under way
    pending,   \* the platform has yet to judge the object as it is
    gateways,  \* the configuration of each Gateway, "none" where it is missing
    seenGateways, \* the manager's copy of them
    worker,    \* the reconcile in progress
    queued,    \* the console is in the work queue
    admitted,  \* hostnames the platform has admitted so far (history)
    changes    \* history

platformVars == <<platform, object, pending, gateways, admitted>>
cacheVars == <<known, seen, fresh, seenGateways>>
vars == <<platformVars, cacheVars, console, worker, queued, changes>>

\* An omitted namespace is the console's.
NamespaceOf(p) == IF p.namespace = "" THEN Home ELSE p.namespace
GatewayOf(p) == <<NamespaceOf(p), p.name>>
GatewayKeys == {GatewayOf(p) : p \in Parents}
Configurations == {"none"} \cup DOMAIN Listeners

Results == {"admitted", "conflict", "refused", "unresolved"}
Generation == 1..2 * MaxChanges + 2
Spelled(p) == [p EXCEPT !.namespace = NamespaceOf(p)]
Verdict == [parent: {Spelled(p) : p \in Parents}, host: Hosts, generation: Generation,
            result: Results]

Absent == [exists |-> FALSE]

Reasons == {"AsExpected", "NotRequested", "NotAdmitted", "HostnameConflict",
            "GatewayNotFound", "NotAccepted"}
\* mark stamps a condition with the generation of the console, and so with the
\* hostname that generation asks for; two of the messages name it, too.
Ready(c, reason) ==
    [status |-> reason \in {"AsExpected", "NotRequested"}, reason |-> reason, host |-> c.host,
     observed |-> c.generation]
Unpublished == [status |-> FALSE, reason |-> "Unknown", host |-> <<>>, observed |-> 0]

IdleWorker == [pc |-> "idle"]

\* A new console, and whatever the Gateways listen to.
Init ==
    /\ platform \in Platforms
    /\ \E s \in Starts :
         /\ console = [host |-> s.host, parent |-> s.parent, generation |-> 1,
                       ready |-> Unpublished, url |-> <<>>]
         /\ gateways = [k \in GatewayKeys |-> s.gateway]
    /\ known = console
    /\ object = Absent /\ seen = Absent /\ fresh = TRUE /\ pending = FALSE
    /\ seenGateways = gateways
    /\ worker = IdleWorker
    /\ queued = TRUE
    /\ admitted = {}
    /\ changes = 0

-----------------------------------------------------------------------------
(***************************************************************************)
(* What the operator asks of a Gateway before it looks at the route.        *)
(***************************************************************************)
HostnameMatches(listener, host) ==
    \/ listener = host
    \/ /\ Len(listener) > 1 /\ Head(listener) = "*"
       /\ IsStrictSuffix(Tail(listener), host)

\* listenerAllowsNamespace, for the namespace of the Gateway.  A selector that
\* cannot be read is an error.
AllowsNamespace(l, namespace) ==
    CASE l.from = "All" -> "yes"
      [] l.from \in {"", "Same"} /\ namespace = Home -> "yes"
      [] l.from = "Selector" /\ l.selector = "invalid" -> "error"
      [] l.from = "Selector" /\ l.selector = "matching" -> "yes"
      [] OTHER -> "no"

Considered(l, host, parent) ==
    /\ parent.section \in {"", l.name}
    /\ l.protocol \in {"HTTP", "HTTPS"}
    /\ l.hostname = <<>> \/ HostnameMatches(l.hostname, host)
    /\ l.kinds = {} \/ "HTTPRoute" \in l.kinds

\* gatewayHasCompatibleListener: the first listener that decides.
FirstListener ==
    [gateway \in DOMAIN Listeners |-> [host \in Hosts |-> [parent \in Parents |->
        LET listeners == Listeners[gateway]
            allowed(i) == AllowsNamespace(listeners[i], NamespaceOf(parent))
            decisive == {i \in DOMAIN listeners :
                            Considered(listeners[i], host, parent) /\ allowed(i) # "no"}
        IN  IF decisive = {} THEN "no" ELSE allowed(Min(decisive))]]]
CompatibleListener(gateway, c) == FirstListener[gateway][c.host][c.parent]

\* parentRefMatches
ParentMatches(c, parent) ==
    /\ GatewayOf(parent) = GatewayOf(c.parent)
    /\ parent.section = c.parent.section

\* Mutant: the verdict on any generation will do.
AcceptedAtAnyTime(c, route) ==
    \E v \in route.verdicts : ParentMatches(c, v.parent) /\ v.result = "admitted"

\* routeConditionIsTrue, for Accepted and ResolvedRefs: no verdict on an
\* earlier specification counts.
Accepted(c, route) ==
    \E v \in route.verdicts :
        /\ ParentMatches(c, v.parent)
        /\ v.result = "admitted"
        /\ v.generation >= route.generation

-----------------------------------------------------------------------------
(***************************************************************************)
(* RouteReady for each kind.                                                *)
(***************************************************************************)
\* Mutant: a missing address has no reason.
IngressReasonUnnamed(ingress) ==
    IF \E v \in ingress.verdicts : v.result = "admitted" THEN "AsExpected" ELSE ""

\* setIngressCondition: an address, whatever it was published for.
IngressReason(ingress) ==
    IF \E v \in ingress.verdicts : v.result = "admitted" THEN "AsExpected" ELSE "NotAdmitted"

\* setRouteCondition; a router's one verdict is admitted, or not.
RouteReason(c, route) ==
    LET mine == {v \in route.verdicts : v.host = c.host}
    IN  IF \E v \in mine : v.result = "admitted" THEN "AsExpected"
        ELSE IF \E v \in mine : v.result = "conflict" THEN "HostnameConflict"
        ELSE "NotAdmitted"

HTTPRouteReason(c, route, gateway) ==
    IF gateway = "none" THEN "GatewayNotFound"
    ELSE IF CompatibleListener(gateway, c) = "yes" /\ Accepted(c, route) THEN "AsExpected"
    ELSE "NotAccepted"

-----------------------------------------------------------------------------
(***************************************************************************)
(* The reconcile.                                                           *)
(***************************************************************************)
Changes == changes < MaxChanges /\ changes' = changes + 1

Fails == worker' = IdleWorker /\ queued' = TRUE
Concludes(reason, url) ==
    worker' = [pc |-> "publish", console |-> worker.console,
               ready |-> Ready(worker.console, reason), url |-> url]
Checks(o) == worker' = [pc |-> "check", console |-> worker.console, object |-> o]

Begin ==
    /\ worker.pc = "idle" /\ queued
    /\ queued' = FALSE
    /\ worker' = [pc |-> "apply", console |-> known]
    /\ UNCHANGED <<platformVars, cacheVars, console, changes>>

\* No object: nothing is requested, or the API is not served.
Unexposed ==
    /\ worker.pc = "apply"
    /\ platform.kind = "ClusterIP" \/ ~platform.served
    /\ CASE platform.kind = "ClusterIP" -> Concludes("NotRequested", <<>>)
         [] platform.kind = "Route" -> Concludes("NotAdmitted", worker.console.host)
         [] OTHER -> Concludes("GatewayNotFound", worker.console.host)
    /\ UNCHANGED <<platformVars, cacheVars, console, queued, changes>>

Matches(o, c) == o.exists /\ o.host = c.host /\ o.parent = c.parent

\* Somebody else has set the hostname and, as long as the object lasts, owns
\* that field: an apply that asks for another one is refused.
Contested(o, c) == o.exists /\ o.foreign /\ o.host # c.host

\* Server-side apply, where it is not refused: a change counts the generation
\* up and keeps the status.
Applied(o, c) ==
    IF ~o.exists
    THEN [exists |-> TRUE, host |-> c.host, parent |-> c.parent, generation |-> 1,
          foreign |-> FALSE, verdicts |-> {}]
    ELSE IF Matches(o, c) THEN o
    ELSE [o EXCEPT !.host = c.host, !.parent = c.parent, !.generation = @ + 1]

\* A new specification waits for the verdict, and every change for its event.
Writes(o) ==
    /\ object' = o
    /\ fresh' = (fresh /\ o = object)
    /\ pending' = (o.exists /\ (pending \/ o # object))

\* ApplyObject without ForceOwnership: the answer of the API server.
Apply ==
    \/ /\ ~Contested(object, worker.console)
       /\ Writes(Applied(object, worker.console))
       /\ Checks(object')
       /\ UNCHANGED queued
    \/ /\ Contested(object, worker.console)
       /\ Fails
       /\ UNCHANGED <<object, fresh, pending>>

\* Mutant: an object that exists is left as it is.
ApplyOnce(kind) ==
    /\ worker.pc = "apply" /\ platform.kind = kind /\ platform.served
    /\ IF seen.exists
       THEN Checks(seen) /\ UNCHANGED <<object, fresh, pending, queued>>
       ELSE Apply
    /\ UNCHANGED <<platform, gateways, admitted, known, seen, seenGateways, console, changes>>

\* A matching copy is taken as it is, otherwise the answer of the apply is.
ApplyExposure(kind) ==
    /\ worker.pc = "apply" /\ platform.kind = kind /\ platform.served
    /\ \/ /\ Matches(seen, worker.console)
          /\ Checks(seen)
          /\ UNCHANGED <<object, fresh, pending, queued>>
       \/ /\ ~Matches(seen, worker.console)
          /\ Apply
    /\ UNCHANGED <<platform, gateways, admitted, known, seen, seenGateways, console, changes>>

ReconcileIngress == ApplyExposure("Ingress")
ReconcileRoute == ApplyExposure("Route")
ReconcileHTTPRoute == ApplyExposure("Gateway")

\* setIngressCondition, setRouteCondition, setHTTPRouteCondition; only the
\* last can fail.
SetCondition ==
    /\ worker.pc = "check"
    /\ LET c == worker.console
           gateway == seenGateways[GatewayOf(c.parent)]
           reason == CASE platform.kind = "Ingress" -> IngressReason(worker.object)
                       [] platform.kind = "Route" -> RouteReason(c, worker.object)
                       [] OTHER -> HTTPRouteReason(c, worker.object, gateway)
       IN  IF /\ platform.kind = "Gateway"
              /\ gateway # "none" /\ CompatibleListener(gateway, c) = "error"
           THEN Fails
           ELSE Concludes(reason, c.host) /\ UNCHANGED queued
    /\ UNCHANGED <<platformVars, cacheVars, console, changes>>

\* updateStatus: a merge patch of the fields that differ from the copy's.  The
\* URL is one; the conditions are another, sent as a whole when any of them
\* differs (others).
Publish ==
    /\ worker.pc = "publish"
    /\ \E others \in BOOLEAN :
         console' = [console EXCEPT
             !.ready = IF others \/ worker.ready # worker.console.ready THEN worker.ready ELSE @,
             !.url = IF worker.url # worker.console.url THEN worker.url ELSE @]
    /\ worker' = IdleWorker
    /\ UNCHANGED <<platformVars, cacheVars, queued, changes>>

AbortReconcile ==
    /\ Changes /\ worker.pc # "idle"
    /\ Fails
    /\ UNCHANGED <<platformVars, cacheVars, console>>

RestartManager ==
    /\ Changes
    /\ worker' = IdleWorker /\ queued' = TRUE
    /\ known' = console /\ seen' = object /\ fresh' = TRUE /\ seenGateways' = gateways
    /\ UNCHANGED <<platformVars, console>>

\* With pgAdmin a console is revisited every two minutes.
Resync ==
    /\ platform.timer /\ ~queued /\ worker.pc = "idle"
    /\ queued' = TRUE
    /\ UNCHANGED <<platformVars, cacheVars, console, worker, changes>>

\* The controller is For the console and Owns the object.
DeliverConsole ==
    /\ known # console
    /\ known' = console /\ queued' = TRUE
    /\ UNCHANGED <<platformVars, seen, fresh, seenGateways, console, worker, changes>>

DeliverObject ==
    /\ ~fresh
    /\ seen' = object /\ fresh' = TRUE /\ queued' = TRUE
    /\ UNCHANGED <<platformVars, known, seenGateways, console, worker, changes>>

\* The copy of a Gateway is kept up to date and starts nothing.
DeliverGateways ==
    /\ seenGateways # gateways
    /\ seenGateways' = gateways
    /\ UNCHANGED <<platformVars, known, seen, fresh, console, worker, queued, changes>>

-----------------------------------------------------------------------------
(***************************************************************************)
(* Users and the platform.                                                  *)
(***************************************************************************)
EditConsole ==
    /\ Changes
    /\ \/ \E h \in Hosts \ {console.host} :
            console' = [console EXCEPT !.host = h, !.generation = @ + 1]
       \/ /\ platform.kind = "Gateway"
          /\ \E p \in Parents \ {console.parent} :
               console' = [console EXCEPT !.parent = p, !.generation = @ + 1]
    /\ UNCHANGED <<platformVars, cacheVars, worker, queued>>

\* Somebody else deletes the object, or gives it another hostname.
MeddleWithObject ==
    /\ Changes /\ object.exists
    /\ \/ Writes(Absent)
       \/ \E h \in Hosts \ {object.host} :
            Writes([object EXCEPT !.host = h, !.generation = @ + 1, !.foreign = TRUE])
    /\ UNCHANGED <<platform, gateways, admitted, known, seen, seenGateways, console,
                   worker, queued>>

\* The Gateway that the console refers to.
ChangeGateway ==
    /\ Changes /\ platform.kind = "Gateway" /\ platform.served
    /\ LET k == GatewayOf(console.parent)
       IN  \E g \in Configurations \ {gateways[k]} : gateways' = [gateways EXCEPT ![k] = g]
    /\ pending' = object.exists
    /\ UNCHANGED <<platform, object, admitted, cacheVars, console, worker, queued>>

\* Another Route gives up the hostname, an address is taken back.
Reconsider ==
    /\ Changes /\ platform.kind # "Gateway" /\ object.exists /\ ~pending
    /\ pending' = TRUE
    /\ UNCHANGED <<platform, object, gateways, admitted, cacheVars, console, worker,
                   queued>>

\* The rules by which a Gateway admits a route, independently of the code.
Attaches(o) ==
    LET gateway == gateways[GatewayOf(o.parent)]
        near == NamespaceOf(o.parent) = Home
    IN  /\ gateway # "none"
        /\ \E i \in DOMAIN Listeners[gateway] :
             LET l == Listeners[gateway][i]
                 fixed == SubSeq(l.hostname, 2, Len(l.hostname))
             IN  /\ o.parent.section = "" \/ o.parent.section = l.name
                 /\ l.protocol \notin {"TLS", "TCP", "UDP"}
                 /\ \/ l.hostname \in {<<>>, o.host}
                    \/ \E prefix \in Prefixes(o.host) :
                         /\ prefix # <<>> /\ Head(l.hostname) = "*"
                         /\ prefix \o fixed = o.host
                 /\ l.kinds = {} \/ "HTTPRoute" \in l.kinds
                 /\ \/ l.from = "All" \/ (near /\ l.from \in {"", "Same"})
                    \/ l.from = "Selector" /\ l.selector = "matching"

MayResult(r) ==
    CASE platform.kind = "Ingress" -> r \in {"admitted", "refused"}
      [] platform.kind = "Route" -> r \in {"admitted", "conflict", "refused"}
      [] platform.kind = "Gateway" ->
           IF Attaches(object) THEN r \in {"admitted", "unresolved"} ELSE r = "refused"
      [] OTHER -> FALSE

\* The router, Ingress or Gateway controller judges the object and writes the
\* status.  It spells out a namespace that was omitted, and the verdict of
\* another parent stays.
Judge ==
    /\ object.exists /\ pending
    /\ \E r \in {x \in Results : MayResult(x)} :
         LET by == Spelled(object.parent)
             v == [parent |-> by, host |-> object.host,
                   generation |-> object.generation, result |-> r]
         IN  /\ object' = [object EXCEPT !.verdicts =
                              {w \in @ : w.parent # by} \cup {v}]
             /\ admitted' = IF r = "admitted" THEN admitted \cup {object.host} ELSE admitted
    /\ pending' = FALSE /\ fresh' = FALSE
    /\ UNCHANGED <<platform, gateways, known, seen, seenGateways, console, worker,
                   queued, changes>>

-----------------------------------------------------------------------------
Worker ==
    \/ Begin \/ Unexposed \/ ReconcileIngress \/ ReconcileRoute \/ ReconcileHTTPRoute
    \/ SetCondition \/ Publish
Informers == DeliverConsole \/ DeliverObject \/ DeliverGateways

Next ==
    \/ Worker \/ Informers \/ AbortReconcile \/ RestartManager \/ Resync
    \/ EditConsole \/ MeddleWithObject \/ ChangeGateway \/ Reconsider \/ Judge

Fairness ==
    /\ WF_vars(Worker) /\ WF_vars(Resync) /\ WF_vars(Informers) /\ WF_vars(Judge)

Spec == Init /\ [][Next]_vars /\ Fairness

-----------------------------------------------------------------------------
(***************************************************************************)
(* Properties.                                                              *)
(***************************************************************************)
ConditionType == [status: BOOLEAN, reason: Reasons \cup {"Unknown"}, host: Hosts \cup {<<>>},
                  observed: 0..MaxChanges + 1]
ConsoleType == [host: Hosts, parent: Parents, generation: 1..MaxChanges + 1,
                ready: ConditionType, url: Hosts \cup {<<>>}]
IsObject(o) ==
    \/ o = Absent
    \/ /\ o.exists /\ o.host \in Hosts /\ o.parent \in Parents
       /\ o.generation \in Generation /\ o.foreign \in BOOLEAN
       /\ o.verdicts \subseteq Verdict

TypeOK ==
    /\ platform \in Platforms
    /\ {console, known} \subseteq ConsoleType
    /\ IsObject(object) /\ IsObject(seen)
    /\ {pending, fresh, queued} \subseteq BOOLEAN
    /\ {gateways, seenGateways} \subseteq [GatewayKeys -> Configurations]
    /\ \/ worker = IdleWorker
       \/ /\ worker.pc \in {"apply", "check", "publish"} /\ worker.console \in ConsoleType
          /\ worker.pc = "check" => IsObject(worker.object)
          /\ worker.pc = "publish" =>
                worker.ready \in ConditionType /\ worker.url \in Hosts \cup {<<>>}
    /\ admitted \subseteq Hosts
    /\ changes \in 0..MaxChanges

\* A console never calls itself reachable under a hostname that router or
\* Gateway have not admitted: neither a verdict on an earlier specification
\* ("stale acceptance from a previous spec is not mistaken for current
\* acceptance") nor one that the apply brought back counts.  And whoever
\* compares the stamp with the generation ("so consumers can detect stale
\* conditions") reads it of the hostname that is asked for now.  An Ingress has
\* no verdict per hostname.
ReadyWasAdmitted ==
    platform.kind \in {"Route", "Gateway"} /\ console.ready.status
        => /\ console.ready.host \in admitted
           /\ console.ready.observed = console.generation => console.ready.host = console.host

\* A selector that cannot be read fails every reconcile.
Blocked ==
    /\ platform.kind = "Gateway"
    /\ LET gateway == gateways[GatewayOf(console.parent)]
       IN  gateway # "none" /\ CompatibleListener(gateway, console) = "error"

\* The last verdict on the object.
Judged(r) ==
    /\ Matches(object, console) /\ ~pending
    /\ \E v \in object.verdicts :
         /\ v.result = r /\ v.generation = object.generation
         /\ v.parent = Spelled(object.parent)

\* Whatever the order of edits, copies and verdicts, RouteReady ends up saying
\* what the platform says of the exposure as it is now, with the URL and the
\* generation of the specification.  A Gateway's changes start no reconcile, so
\* that this takes the timer of pgAdmin there.  Where somebody else owns the
\* hostname of the object every reconcile fails at the apply, and RouteReady
\* stays what it was.
EventuallyTruthful ==
    platform.kind # "ClusterIP" /\ platform.served
        /\ (platform.kind = "Gateway" => platform.timer)
    => <>[](\/ /\ console.ready.status <=> Judged("admitted")
               /\ console.ready.reason = "HostnameConflict" <=> Judged("conflict")
               /\ console.url = console.host
               /\ console.ready.observed = console.generation
            \/ Blocked \/ Contested(object, console))

=============================================================================
