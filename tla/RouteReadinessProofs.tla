------------------------ MODULE RouteReadinessProofs ------------------------
(***************************************************************************)
(* What RouteReady claims was admitted, for every platform, hostnames,      *)
(* parentRefs, listeners and bounds.                                        *)
(*                                                                          *)
(* The condition is drawn from an answer that may be old by the time it is  *)
(* published, so ReadyWasAdmitted needs to be carried through every place a *)
(* verdict rests on its way (AdmittedInv): the object, the manager's copy,  *)
(* the reconcile and what it is about to publish.  An HTTPRoute's verdict   *)
(* does not name a hostname that the operator compares; there the           *)
(* generation stands for it (Honest).  That a late condition is told by its *)
(* stamp (Stamped) rests on the order in which the copies follow the        *)
(* console (CopiesTrail).                                                   *)
(*                                                                          *)
(* Even the types need an argument: that the object's generation stays      *)
(* within its bound is a count of who writes it (GenerationsCounted).       *)
(*                                                                          *)
(* The last part is about the walk over a Gateway's listeners, for lists of *)
(* any length.                                                              *)
(***************************************************************************)
EXTENDS RouteReadiness, SequenceTheorems, WellFoundedInduction, TLAPS

\* The records that the variables hold.
Unbounded ==
    [exists: {TRUE}, host: Hosts, parent: Parents, generation: Nat \ {0},
     foreign: BOOLEAN, verdicts: SUBSET Verdict]
Objects == {o \in Unbounded : o.generation \in Generation}
Applying == [pc: {"apply"}, console: ConsoleType]
Checking == [pc: {"check"}, console: ConsoleType, object: Objects]
Publishing ==
    [pc: {"publish"}, console: ConsoleType, ready: ConditionType, url: Hosts \cup {<<>>}]

WorkerTypes ==
    \/ worker = IdleWorker
    \/ worker \in Applying
    \/ worker \in Checking
    \/ worker \in Publishing

CopyTypes ==
    /\ console \in ConsoleType /\ known \in ConsoleType
    /\ object \in Objects \cup {Absent}
    /\ seen \in Objects \cup {Absent}
    /\ WorkerTypes

PlatformTypes ==
    /\ platform \in Platforms
    /\ pending \in BOOLEAN /\ fresh \in BOOLEAN /\ queued \in BOOLEAN
    /\ gateways \in [GatewayKeys -> Configurations]
    /\ seenGateways \in [GatewayKeys -> Configurations]
    /\ admitted \subseteq Hosts
    /\ changes \in 0..MaxChanges

\* The manager works with specifications the console had, in their order.
SameSpecification(c, d) == c.host = d.host /\ c.parent = d.parent

CopiesTrail ==
    /\ console.generation <= changes + 1
    /\ known.generation <= console.generation
    /\ known.generation = console.generation => SameSpecification(known, console)
    /\ worker.pc # "idle" =>
         /\ worker.console.generation <= known.generation
         /\ worker.console.generation = known.generation
               => SameSpecification(worker.console, known)

\* The object is at the specification of some generation a of the console, or
\* somebody else has changed it since.  The operator writes it once for each
\* generation and once for each change by somebody else.
Interference == 2 * (changes + 1 - console.generation)

Untouched(a) ==
    /\ console.generation = a => Matches(object, console)
    /\ known.generation = a => Matches(object, known)
    /\ worker.pc = "apply" /\ worker.console.generation = a
          => Matches(object, worker.console)

WrittenFor(a) ==
    /\ a <= known.generation
    /\ worker.pc = "apply" => a <= worker.console.generation
    /\ object.generation <= a + Interference
    /\ object.generation < a + Interference \/ Untouched(a)

GenerationsCounted ==
    object # Absent => \E a \in 1..console.generation : WrittenFor(a)

TypeInv == PlatformTypes /\ CopyTypes /\ CopiesTrail /\ GenerationsCounted

\* A verdict tells what was admitted, and the one on the present generation is
\* about the present hostname.
Honest(o, hosts) ==
    o # Absent => \A v \in o.verdicts :
        /\ v.result = "admitted" => v.host \in hosts
        /\ v.generation <= o.generation
        /\ v.generation = o.generation => v.host = o.host

Claims(kind, ready, hosts) ==
    kind \in {"Route", "Gateway"} /\ ready.status => ready.host \in hosts

\* A condition is stamped with the generation it was drawn for, which tells
\* its hostname.
Stamped(ready, c) ==
    /\ ready.observed <= c.generation
    /\ ready.observed = c.generation => ready.host = c.host

AdmittedInv ==
    /\ Honest(object, admitted) /\ Honest(seen, admitted)
    /\ worker.pc = "check" =>
          Honest(worker.object, admitted) /\ worker.object.host = worker.console.host
    /\ worker.pc = "publish" =>
          /\ Claims(platform.kind, worker.ready, admitted)
          /\ worker.ready.observed = worker.console.generation
          /\ worker.ready.host = worker.console.host
    /\ Claims(platform.kind, console.ready, admitted)
    /\ Stamped(console.ready, console)

-----------------------------------------------------------------------------
(***************************************************************************)
(* The records, field by field.                                             *)
(***************************************************************************)
LEMMA BoundIsNatural == MaxChanges \in Nat
BY RouteAssumption

\* What a console is.
LEMMA ConsoleFields ==
    ASSUME NEW c \in ConsoleType
    PROVE  /\ c.host \in Hosts /\ c.parent \in Parents /\ c.ready \in ConditionType
           /\ c.url \in Hosts \cup {<<>>}
           /\ c.generation \in Nat /\ c.generation >= 1 /\ c.generation <= MaxChanges + 1
BY BoundIsNatural DEF ConsoleType

\* A published object that is not there.
LEMMA AbsentFields == Absent.exists = FALSE
BY DEF Absent

\* What a published object is, whatever its generation.
LEMMA ObjectFields ==
    ASSUME NEW o \in Unbounded
    PROVE  /\ o.exists /\ o # Absent /\ o.host \in Hosts /\ o.parent \in Parents
           /\ o.generation \in Nat /\ o.generation >= 1 /\ o.verdicts \subseteq Verdict
           /\ o.foreign \in BOOLEAN
<1>1. o.exists = TRUE
  BY Zenon DEF Unbounded
<1>2. o # Absent
  BY <1>1, AbsentFields
<1>3. /\ o.host \in Hosts /\ o.parent \in Parents /\ o.verdicts \subseteq Verdict
      /\ o.generation \in Nat /\ o.generation >= 1
  BY DEF Unbounded
<1>4. o.foreign \in BOOLEAN
  BY DEF Unbounded
<1> QED
  BY <1>1, <1>2, <1>3, <1>4

\* What the worker holds at each of its steps.
LEMMA WorkerFields ==
    ASSUME WorkerTypes
    PROVE  /\ worker.pc \in {"idle", "apply", "check", "publish"}
           /\ worker.pc = "idle" <=> worker = IdleWorker
           /\ worker.pc # "idle" => worker.console \in ConsoleType
           /\ worker.pc = "apply" => worker \in Applying
           /\ worker.pc = "check" => worker \in Checking /\ worker.object \in Objects
           /\ worker.pc = "publish" =>
                 /\ worker \in Publishing /\ worker.ready \in ConditionType
                 /\ worker.url \in Hosts \cup {<<>>}
BY DEF WorkerTypes, Applying, Checking, Publishing, IdleWorker

\* The condition a reconcile writes.
LEMMA ReadyType ==
    ASSUME NEW c \in ConsoleType, NEW reason \in Reasons
    PROVE  /\ Ready(c, reason) \in ConditionType
           /\ Ready(c, reason).observed = c.generation /\ Ready(c, reason).host = c.host
           /\ Ready(c, reason).status <=> reason \in {"AsExpected", "NotRequested"}
<1>1. c.generation \in 0..MaxChanges + 1 /\ c.host \in Hosts \cup {<<>>}
  BY ConsoleFields, BoundIsNatural
<1>2. (reason \in {"AsExpected", "NotRequested"}) \in BOOLEAN
  OBVIOUS
<1>3. Ready(c, reason) \in ConditionType
  BY <1>1, <1>2 DEF Ready, ConditionType
<1> QED
  BY <1>3 DEF Ready

\* Server-side apply leaves the object at the specification, and counts.
LEMMA AppliedType ==
    ASSUME NEW o \in Unbounded \cup {Absent}, NEW c \in ConsoleType
    PROVE  /\ Applied(o, c) \in Unbounded
           /\ Applied(o, c).host = c.host /\ Applied(o, c).parent = c.parent
           /\ o = Absent => Applied(o, c).generation = 1 /\ Applied(o, c).verdicts = {}
           /\ o # Absent /\ Matches(o, c) => Applied(o, c) = o
           /\ o # Absent /\ ~Matches(o, c) =>
                 /\ Applied(o, c).generation = o.generation + 1
                 /\ Applied(o, c).verdicts = o.verdicts
<1>1. CASE o = Absent
  <2> DEFINE new == [exists |-> TRUE, host |-> c.host, parent |-> c.parent,
                     generation |-> 1, foreign |-> FALSE, verdicts |-> {}]
  <2>1. Applied(o, c) = new
    BY <1>1, AbsentFields DEF Applied
  <2>2. new \in Unbounded
    BY ConsoleFields DEF Unbounded
  <2>3. new.host = c.host /\ new.parent = c.parent /\ new.generation = 1 /\ new.verdicts = {}
    OBVIOUS
  <2> HIDE DEF new
  <2> QED
    BY <1>1, <2>1, <2>2, <2>3
<1>2. CASE o \in Unbounded /\ Matches(o, c)
  BY <1>2, ObjectFields DEF Applied, Matches
<1>3. CASE o \in Unbounded /\ ~Matches(o, c)
  <2>1. Applied(o, c) = [o EXCEPT !.host = c.host, !.parent = c.parent, !.generation = @ + 1]
    BY <1>3, ObjectFields DEF Applied
  <2>2. o.generation + 1 \in Nat \ {0}
    BY <1>3, ObjectFields
  <2>3. c.host \in Hosts /\ c.parent \in Parents
    BY ConsoleFields
  <2>4. Applied(o, c) \in Unbounded
    BY <1>3, <2>1, <2>2, <2>3 DEF Unbounded
  <2>5. /\ Applied(o, c).host = c.host /\ Applied(o, c).parent = c.parent
        /\ Applied(o, c).generation = o.generation + 1
        /\ Applied(o, c).verdicts = o.verdicts
    BY <1>3, <2>1 DEF Unbounded
  <2> QED
    BY <1>3, <2>4, <2>5, ObjectFields
<1> QED
  BY <1>1, <1>2, <1>3

-----------------------------------------------------------------------------
(***************************************************************************)
(* Types.                                                                   *)
(***************************************************************************)
LEMMA TypesAreOK == TypeInv => TypeOK
<1> SUFFICES ASSUME TypeInv PROVE TypeOK
  OBVIOUS
<1>1. \A o \in Objects : IsObject(o)
  BY ObjectFields DEF Objects, IsObject
<1>2. IsObject(object) /\ IsObject(seen)
  BY <1>1 DEF TypeInv, CopyTypes, IsObject
<1>3. \/ worker = IdleWorker
      \/ /\ worker.pc \in {"apply", "check", "publish"} /\ worker.console \in ConsoleType
         /\ worker.pc = "check" => IsObject(worker.object)
         /\ worker.pc = "publish" =>
               worker.ready \in ConditionType /\ worker.url \in Hosts \cup {<<>>}
  BY <1>1, WorkerFields DEF TypeInv, CopyTypes
<1> QED
  BY <1>2, <1>3 DEF TypeInv, CopyTypes, PlatformTypes, TypeOK

\* The types, in a new console.
LEMMA TypeInit == Init => TypeInv
<1> SUFFICES ASSUME Init PROVE TypeInv
  OBVIOUS
<1>1. PICK s \in Starts :
        /\ console = [host |-> s.host, parent |-> s.parent, generation |-> 1,
                      ready |-> Unpublished, url |-> <<>>]
        /\ gateways = [k \in GatewayKeys |-> s.gateway]
  BY DEF Init
<1>2. s.host \in Hosts /\ s.parent \in Parents /\ s.gateway \in Configurations
  <2>1. s \in [host: Hosts, parent: Parents, gateway: {"none"} \cup DOMAIN Listeners]
    BY RouteAssumption
  <2> QED
    BY <2>1 DEF Configurations
<1>3. Unpublished \in ConditionType
  BY BoundIsNatural DEF Unpublished, ConditionType
<1>4. console \in ConsoleType /\ console.generation = 1
  BY <1>1, <1>2, <1>3, BoundIsNatural DEF ConsoleType
<1>5. gateways \in [GatewayKeys -> Configurations]
  BY <1>1, <1>2
<1>6. PlatformTypes
  <2>1. fresh \in BOOLEAN /\ pending \in BOOLEAN /\ queued \in BOOLEAN
    BY DEF Init
  <2>2. platform \in Platforms /\ admitted = {} /\ seenGateways = gateways
    BY DEF Init
  <2>3. changes \in 0..MaxChanges
    BY BoundIsNatural DEF Init
  <2> QED
    BY <1>5, <2>1, <2>2, <2>3 DEF PlatformTypes
<1>7. CopyTypes
  BY <1>4 DEF Init, CopyTypes, WorkerTypes
<1>8. CopiesTrail /\ GenerationsCounted
  <2>1. worker.pc = "idle"
    BY DEF Init, IdleWorker
  <2>2. known = console /\ object = Absent /\ changes = 0
    BY DEF Init
  <2> QED
    BY <1>4, <2>1, <2>2 DEF CopiesTrail, GenerationsCounted, SameSpecification
<1> QED
  BY <1>6, <1>7, <1>8 DEF TypeInv

\* The numbers that are compared.
LEMMA Counters ==
    ASSUME TypeInv
    PROVE  /\ changes \in Nat /\ changes <= MaxChanges
           /\ console.generation \in Nat /\ console.generation >= 1
           /\ known.generation \in Nat /\ known.generation >= 1
           /\ worker.pc # "idle" =>
                 worker.console.generation \in Nat /\ worker.console.generation >= 1
           /\ object # Absent =>
                 object \in Unbounded /\ object.generation \in Nat /\ object.generation >= 1
BY BoundIsNatural, ConsoleFields, ObjectFields, WorkerFields
   DEF TypeInv, PlatformTypes, CopyTypes, Objects

\* Steps that neither write the object's specification nor the console's.
LEMMA CountsKept ==
    ASSUME TypeInv, changes' \in {changes, changes + 1},
           console'.generation = console.generation, SameSpecification(console', console),
           known' = known \/ (known' = console /\ console' = console),
           \/ worker' = worker
           \/ worker'.pc = "idle"
           \/ /\ worker.pc # "idle" /\ worker'.pc \in {"check", "publish"}
              /\ worker'.console = worker.console
           \/ worker'.pc = "apply" /\ worker'.console = known /\ known' = known,
           \/ object' = object
           \/ /\ object # Absent /\ object'.exists = object.exists
              /\ object'.host = object.host /\ object'.parent = object.parent
              /\ object'.generation = object.generation
    PROVE  CopiesTrail' /\ GenerationsCounted'
<1> USE Counters
<1>1. CopiesTrail
  BY DEF TypeInv
<1>2. CopiesTrail'
  BY <1>1 DEF CopiesTrail, SameSpecification
<1>3. GenerationsCounted'
  <2> SUFFICES ASSUME object' # Absent
               PROVE  (\E a \in 1..console.generation : WrittenFor(a))'
    BY DEF GenerationsCounted
  <2>1. object # Absent
    OBVIOUS
  <2>2. PICK a \in 1..console.generation : WrittenFor(a)
    BY <2>1 DEF TypeInv, GenerationsCounted
  <2>3. Interference \in Int /\ Interference' \in Int /\ Interference <= Interference'
    BY DEF Interference
  <2>4. object'.generation = object.generation
    OBVIOUS
  <2>5. a <= known'.generation /\ (worker'.pc = "apply" => a <= worker'.console.generation)
    BY <1>1, <2>2 DEF WrittenFor, CopiesTrail
  <2>6. CASE object.generation < a + Interference
    BY <2>3, <2>4, <2>5, <2>6, <2>1 DEF WrittenFor
  <2>7. CASE Untouched(a)
    <3>1. \A c : Matches(object, c) => Matches(object', c)
      BY DEF Matches
    <3>2. Matches(object', console) => Matches(object', console')
      BY DEF Matches, SameSpecification
    <3>3. Untouched(a)'
      BY <2>7, <3>1, <3>2 DEF Untouched
    <3>4. object'.generation <= a + Interference'
      BY <2>1, <2>2, <2>3, <2>4 DEF WrittenFor
    <3> QED
      BY <2>5, <3>3, <3>4 DEF WrittenFor
  <2> QED
    BY <2>2, <2>6, <2>7 DEF WrittenFor
<1> QED
  BY <1>2, <1>3

\* The bound of Generation is never met.
LEMMA GenerationFits ==
    ASSUME NEW n \in Nat \ {0}, NEW g \in Nat \ {0}, NEW a \in 1..g, NEW done \in 0..MaxChanges,
           n <= a + 2 * (done + 1 - g)
    PROVE  n \in Generation
BY BoundIsNatural DEF Generation

\* An object whose generation the changes so far account for has its type.
LEMMA ObjectFits ==
    ASSUME NEW o \in Unbounded, NEW g \in Nat \ {0}, NEW a \in 1..g, NEW done \in 0..MaxChanges,
           o.generation <= a + 2 * (done + 1 - g)
    PROVE  o \in Objects
<1>1. o.generation \in Nat \ {0}
  BY ObjectFields
<1>2. o.generation \in Generation
  BY <1>1, GenerationFits
<1> QED
  BY <1>2 DEF Objects

\* The operator's write of the object.
LEMMA ApplyCounts ==
    ASSUME TypeInv, worker.pc = "apply",
           object' = Applied(object, worker.console),
           worker'.pc = "check", worker'.console = worker.console,
           UNCHANGED <<console, known, changes>>
    PROVE  CopiesTrail' /\ GenerationsCounted' /\ object' \in Objects
<1> USE Counters
<1>1. CopiesTrail /\ worker.console \in ConsoleType
  BY WorkerFields DEF TypeInv, CopyTypes
<1>2. CopiesTrail'
  BY <1>1 DEF CopiesTrail, SameSpecification
<1>3. object \in Unbounded \cup {Absent}
  BY DEF TypeInv, CopyTypes, Objects
<1>4. /\ object' \in Unbounded /\ object' # Absent
      /\ Matches(object', worker.console)
  BY <1>1, <1>3, AppliedType, ObjectFields DEF Matches
<1> DEFINE a == worker.console.generation
<1>5. a \in 1..console.generation /\ a <= known.generation
  BY <1>1 DEF CopiesTrail
<1>6. Interference \in Int /\ Interference >= 0 /\ Interference' = Interference
  BY <1>1 DEF CopiesTrail, Interference
<1>7. object'.generation <= a + Interference
  <2>1. CASE object = Absent
    BY <1>1, <1>6, <2>1, AppliedType
  <2>2. CASE object # Absent /\ Matches(object, worker.console)
    <3>1. PICK b \in 1..console.generation : WrittenFor(b)
      BY <2>2 DEF TypeInv, GenerationsCounted
    <3>2. object' = object /\ b <= a
      BY <1>1, <1>3, <2>2, <3>1, AppliedType DEF WrittenFor
    <3> QED
      BY <1>6, <2>2, <3>1, <3>2 DEF WrittenFor
  <2>3. CASE object # Absent /\ ~Matches(object, worker.console)
    <3>1. PICK b \in 1..console.generation : WrittenFor(b)
      BY <2>3 DEF TypeInv, GenerationsCounted
    <3>2. object'.generation = object.generation + 1 /\ b <= a
      BY <1>1, <1>3, <2>3, <3>1, AppliedType DEF WrittenFor
    <3>3. object.generation < b + Interference \/ b < a
      BY <2>3, <3>1, <3>2 DEF WrittenFor, Untouched
    <3>4. object.generation <= b + Interference
      BY <3>1 DEF WrittenFor
    <3> QED
      BY <1>6, <2>3, <3>2, <3>3, <3>4
  <2> QED
    BY <2>1, <2>2, <2>3
<1>8. \A c : c.generation = a /\ SameSpecification(worker.console, c) => Matches(object', c)
  BY <1>4 DEF Matches, SameSpecification
<1>9. PICK b : b = a
  OBVIOUS
<1>10. WrittenFor(b)'
  <2>1. Untouched(b)'
    BY <1>1, <1>8, <1>9 DEF Untouched, CopiesTrail, SameSpecification
  <2> QED
    BY <1>5, <1>6, <1>7, <1>9, <2>1 DEF WrittenFor
<1>11. object' \in Objects
  <2>1. object'.generation <= a + 2 * (changes + 1 - console.generation)
    BY <1>7 DEF Interference
  <2>2. changes \in 0..MaxChanges /\ console.generation \in Nat \ {0}
    BY DEF TypeInv, PlatformTypes
  <2> QED
    BY <1>4, <1>5, <2>1, <2>2, ObjectFits
<1>12. GenerationsCounted'
  BY <1>5, <1>9, <1>10 DEF GenerationsCounted
<1> QED
  BY <1>2, <1>11, <1>12

\* Somebody else gives the object another hostname.
LEMMA MeddlingCounts ==
    ASSUME TypeInv, object # Absent, NEW h \in Hosts,
           object' = [object EXCEPT !.host = h, !.generation = @ + 1, !.foreign = TRUE],
           changes < MaxChanges, changes' = changes + 1,
           UNCHANGED <<console, known, worker>>
    PROVE  CopiesTrail' /\ GenerationsCounted' /\ object' \in Objects
<1> USE Counters
<1>1. CopiesTrail'
  BY DEF TypeInv, CopiesTrail, SameSpecification
<1>2. object \in Unbounded
  OBVIOUS
<1>3. object' \in Unbounded /\ object'.generation = object.generation + 1
  <2>1. object.generation + 1 \in Nat \ {0}
    BY <1>2
  <2> QED
    BY <1>2, <2>1 DEF Unbounded
<1>4. PICK a \in 1..console.generation : WrittenFor(a)
  BY DEF TypeInv, GenerationsCounted
<1>5. Interference \in Int /\ Interference' = Interference + 2
  BY DEF Interference
<1>6. object'.generation < a + Interference'
  BY <1>3, <1>4, <1>5 DEF WrittenFor
<1>7. WrittenFor(a)'
  <2>1. object'.generation <= a + Interference'
    BY <1>3, <1>5, <1>6
  <2>2. a <= known'.generation /\ (worker'.pc = "apply" => a <= worker'.console.generation)
    BY <1>4 DEF WrittenFor
  <2> QED
    BY <1>6, <2>1, <2>2 DEF WrittenFor
<1>8. object' \in Objects
  <2>1. object'.generation <= a + 2 * (changes' + 1 - console.generation)
    BY <1>3, <1>5, <1>6 DEF Interference
  <2>2. changes' \in 0..MaxChanges /\ console.generation \in Nat \ {0}
    BY BoundIsNatural
  <2> QED
    BY <1>3, <1>4, <2>1, <2>2, ObjectFits
<1> QED
  BY <1>1, <1>4, <1>7, <1>8 DEF GenerationsCounted

\* A change of the specification takes effect later.
LEMMA EditCounts ==
    ASSUME TypeInv, changes' = changes + 1,
           console'.generation = console.generation + 1,
           UNCHANGED <<object, known, worker>>
    PROVE  CopiesTrail' /\ GenerationsCounted'
<1> USE Counters
<1>1. CopiesTrail /\ CopiesTrail'
  BY DEF TypeInv, CopiesTrail, SameSpecification
<1>2. GenerationsCounted'
  <2> SUFFICES ASSUME object # Absent
               PROVE  (\E a \in 1..console.generation : WrittenFor(a))'
    BY DEF GenerationsCounted
  <2>1. PICK a \in 1..console.generation : WrittenFor(a)
    BY DEF TypeInv, GenerationsCounted
  <2>2. Interference' = Interference /\ a # console'.generation
    BY <2>1 DEF Interference
  <2>3. WrittenFor(a)'
    BY <2>1, <2>2 DEF WrittenFor, Untouched
  <2> QED
    BY <2>1, <2>3
<1> QED
  BY <1>1, <1>2

-----------------------------------------------------------------------------
\* How the reconcile moves on.
LEMMA Concluding ==
    ASSUME NEW reason \in Reasons, NEW url \in Hosts \cup {<<>>},
           Concludes(reason, url), worker.console \in ConsoleType
    PROVE  /\ worker' \in Publishing /\ WorkerTypes'
           /\ worker'.pc = "publish" /\ worker'.console = worker.console
           /\ worker'.ready = Ready(worker.console, reason)
<1>1. Ready(worker.console, reason) \in ConditionType
  BY ReadyType
<1> QED
  BY <1>1 DEF Concludes, Publishing, WorkerTypes

\* The worker goes on to read the status of an object.
LEMMA CheckingObject ==
    ASSUME NEW o \in Objects, Checks(o), worker.console \in ConsoleType
    PROVE  /\ worker' \in Checking /\ WorkerTypes'
           /\ worker'.pc = "check" /\ worker'.console = worker.console
           /\ worker'.object = o
BY DEF Checks, Checking, WorkerTypes

\* The worker ends.
LEMMA Idling ==
    ASSUME worker' = IdleWorker
    PROVE  WorkerTypes' /\ worker'.pc = "idle"
BY DEF WorkerTypes, IdleWorker

\* The reason is one of those the API knows.
LEMMA ReasonType ==
    ASSUME NEW c, NEW o, NEW gateway
    PROVE  /\ IngressReason(o) \in Reasons /\ RouteReason(c, o) \in Reasons
           /\ HTTPRouteReason(c, o, gateway) \in Reasons
BY DEF IngressReason, RouteReason, HTTPRouteReason, Reasons

\* Steps of the reconcile and of the informers that write nothing.
LEMMA ReadingStep ==
    ASSUME TypeInv, UNCHANGED platformVars, UNCHANGED console,
           changes' \in {changes, changes + 1}, changes' \in 0..MaxChanges,
           queued' \in BOOLEAN, fresh' \in BOOLEAN,
           known' = known \/ known' = console,
           seen' = seen \/ seen' = object,
           seenGateways' = seenGateways \/ seenGateways' = gateways,
           WorkerTypes',
           \/ worker' = worker
           \/ worker'.pc = "idle"
           \/ /\ worker.pc # "idle" /\ worker'.pc \in {"check", "publish"}
              /\ worker'.console = worker.console
           \/ worker'.pc = "apply" /\ worker'.console = known /\ known' = known
    PROVE  TypeInv'
<1>1. /\ object' = object /\ console'.generation = console.generation
      /\ SameSpecification(console', console)
  BY DEF platformVars, SameSpecification
<1>2. CopiesTrail' /\ GenerationsCounted'
  BY <1>1, CountsKept
<1>3. PlatformTypes'
  BY DEF TypeInv, PlatformTypes, platformVars
<1>4. CopyTypes'
  BY DEF TypeInv, CopyTypes, platformVars
<1> QED
  BY <1>2, <1>3, <1>4 DEF TypeInv

\* Every step keeps the types, and the generations accounted for.
LEMMA TypeStep == TypeInv /\ [Next]_vars => TypeInv'
<1> SUFFICES ASSUME TypeInv, [Next]_vars PROVE TypeInv'
  OBVIOUS
<1> USE DEF cacheVars
<1>0. /\ WorkerTypes /\ changes \in 0..MaxChanges /\ changes \in Nat /\ queued \in BOOLEAN
      /\ fresh \in BOOLEAN /\ pending \in BOOLEAN
      /\ console \in ConsoleType /\ known \in ConsoleType
      /\ object \in Objects \cup {Absent} /\ seen \in Objects \cup {Absent}
  BY BoundIsNatural DEF TypeInv, CopyTypes, PlatformTypes
<1>00. Changes => changes' = changes + 1 /\ changes' \in 0..MaxChanges
  BY <1>0, BoundIsNatural DEF Changes
<1>1. CASE Begin
  <2>1. worker' \in Applying /\ worker'.pc = "apply" /\ worker'.console = known
    BY <1>0, <1>1 DEF Begin, Applying
  <2>2. WorkerTypes'
    BY <2>1 DEF WorkerTypes
  <2> QED
    BY <1>0, <1>1, <2>1, <2>2, ReadingStep DEF Begin
<1>2. CASE Unexposed
  <2>1. worker.console \in ConsoleType /\ worker.pc = "apply"
    BY <1>0, <1>2, WorkerFields DEF Unexposed
  <2>3. PICK reason \in Reasons, url \in Hosts \cup {<<>>} : Concludes(reason, url)
    BY <1>2, <2>1, ConsoleFields DEF Unexposed, Reasons
  <2>4. WorkerTypes' /\ worker'.pc = "publish" /\ worker'.console = worker.console
    BY <2>1, <2>3, Concluding
  <2> QED
    BY <1>0, <1>2, <2>1, <2>4, ReadingStep DEF Unexposed
<1>3. ASSUME NEW kind, ApplyExposure(kind) PROVE TypeInv'
  <2>1. worker.console \in ConsoleType /\ worker.pc = "apply"
    BY <1>0, <1>3, WorkerFields DEF ApplyExposure
  <2>2. CASE Matches(seen, worker.console) /\ Checks(seen)
             /\ UNCHANGED <<object, fresh, pending, queued>>
    <3>1. seen \in Objects
      BY <1>0, <2>2, AbsentFields DEF Matches
    <3>2. WorkerTypes' /\ worker'.pc = "check" /\ worker'.console = worker.console
      BY <2>1, <2>2, <3>1, CheckingObject
    <3> QED
      BY <1>0, <1>3, <2>1, <2>2, <3>2, ReadingStep DEF ApplyExposure, platformVars
  <2>3. CASE Writes(Applied(object, worker.console)) /\ Checks(object') /\ UNCHANGED queued
    <3>1. /\ object' = Applied(object, worker.console)
          /\ pending' \in BOOLEAN /\ fresh' \in BOOLEAN
      BY <2>3 DEF Writes
    <3>2. worker'.pc = "check" /\ worker'.console = worker.console
      BY <2>3 DEF Checks
    <3>3. UNCHANGED <<console, known, changes, seen, platform, gateways, admitted,
                      seenGateways, queued>>
      BY <1>3, <2>3 DEF ApplyExposure
    <3>4. CopiesTrail' /\ GenerationsCounted' /\ object' \in Objects
      BY <2>1, <3>1, <3>2, <3>3, ApplyCounts
    <3>5. WorkerTypes'
      BY <2>1, <2>3, <3>4, CheckingObject
    <3>6. CopyTypes'
      BY <1>0, <3>3, <3>4, <3>5 DEF CopyTypes
    <3>7. PlatformTypes'
      BY <3>1, <3>3 DEF TypeInv, PlatformTypes
    <3> QED
      BY <3>4, <3>6, <3>7 DEF TypeInv
  <2>4. CASE Fails /\ UNCHANGED <<object, fresh, pending>>
    <3>1. WorkerTypes' /\ worker'.pc = "idle" /\ queued' \in BOOLEAN
      BY <2>4, Idling DEF Fails
    <3> QED
      BY <1>0, <1>3, <2>4, <3>1, ReadingStep DEF ApplyExposure, platformVars
  <2> QED
    BY <1>3, <2>2, <2>3, <2>4 DEF ApplyExposure, Apply
<1>4. CASE SetCondition
  <2>1. worker.console \in ConsoleType /\ worker.pc = "check"
    BY <1>0, <1>4, WorkerFields DEF SetCondition
  <2>2. CASE Fails
    <3>1. WorkerTypes' /\ worker'.pc = "idle" /\ queued' \in BOOLEAN
      BY <2>2, Idling DEF Fails
    <3> QED
      BY <1>0, <1>4, <3>1, ReadingStep DEF SetCondition
  <2>3. CASE ~Fails
    <3>1. PICK reason \in Reasons :
            Concludes(reason, worker.console.host) /\ UNCHANGED queued
      BY <1>4, <2>3, ReasonType DEF SetCondition
    <3>2. worker.console.host \in Hosts \cup {<<>>}
      BY <2>1, ConsoleFields
    <3>3. WorkerTypes' /\ worker'.pc = "publish" /\ worker'.console = worker.console
      BY <2>1, <3>1, <3>2, Concluding
    <3> QED
      BY <1>0, <1>4, <2>1, <3>1, <3>3, ReadingStep DEF SetCondition
  <2> QED
    BY <2>2, <2>3
<1>5. CASE Publish
  <2>1. worker.ready \in ConditionType /\ worker.url \in Hosts \cup {<<>>}
    BY <1>0, <1>5, WorkerFields DEF Publish
  <2>2. /\ console' \in ConsoleType /\ console'.generation = console.generation
        /\ SameSpecification(console', console)
    BY <1>0, <1>5, <2>1 DEF Publish, ConsoleType, SameSpecification
  <2>3. WorkerTypes' /\ worker'.pc = "idle"
    BY <1>5, Idling DEF Publish
  <2>4. UNCHANGED <<platformVars, cacheVars, queued, changes>>
    BY <1>5 DEF Publish
  <2>5. CopiesTrail' /\ GenerationsCounted'
    BY <2>2, <2>3, <2>4, CountsKept DEF platformVars
  <2>6. CopyTypes' /\ PlatformTypes'
    BY <1>0, <2>2, <2>3, <2>4 DEF TypeInv, PlatformTypes, CopyTypes, platformVars
  <2> QED
    BY <2>5, <2>6 DEF TypeInv
<1>6. CASE AbortReconcile
  <2>1. WorkerTypes' /\ worker'.pc = "idle" /\ queued' \in BOOLEAN
    BY <1>6, Idling DEF AbortReconcile, Fails
  <2> QED
    BY <1>0, <1>00, <1>6, <2>1, ReadingStep DEF AbortReconcile
<1>7. CASE RestartManager
  <2>1. WorkerTypes' /\ worker'.pc = "idle" /\ queued' \in BOOLEAN /\ fresh' \in BOOLEAN
    BY <1>7, Idling DEF RestartManager
  <2> QED
    BY <1>0, <1>00, <1>7, <2>1, ReadingStep DEF RestartManager
<1>8. CASE Resync
  <2>1. WorkerTypes' /\ worker' = worker /\ queued' \in BOOLEAN
    BY <1>0, <1>8 DEF Resync, WorkerTypes
  <2> QED
    BY <1>0, <1>8, <2>1, ReadingStep DEF Resync
<1>9. CASE Informers
  <2>1. WorkerTypes' /\ worker' = worker /\ queued' \in BOOLEAN /\ fresh' \in BOOLEAN
    BY <1>0, <1>9 DEF Informers, DeliverConsole, DeliverObject, DeliverGateways, WorkerTypes
  <2> QED
    BY <1>0, <1>9, <2>1, ReadingStep
       DEF Informers, DeliverConsole, DeliverObject, DeliverGateways
<1>10. CASE EditConsole
  <2>1. /\ changes' = changes + 1 /\ changes' \in 0..MaxChanges
        /\ UNCHANGED <<platformVars, cacheVars, worker, queued>>
    BY <1>00, <1>10 DEF EditConsole
  <2>2. console.generation + 1 \in 1..MaxChanges + 1
    BY <2>1, Counters, BoundIsNatural DEF TypeInv, CopiesTrail
  <2>3. console' \in ConsoleType /\ console'.generation = console.generation + 1
    BY <1>0, <1>10, <2>2 DEF EditConsole, ConsoleType
  <2>4. CopiesTrail' /\ GenerationsCounted'
    BY <2>1, <2>3, EditCounts DEF platformVars
  <2>5. CopyTypes' /\ PlatformTypes'
    BY <1>0, <2>1, <2>3 DEF TypeInv, PlatformTypes, CopyTypes, WorkerTypes, platformVars
  <2> QED
    BY <2>4, <2>5 DEF TypeInv
<1>11. CASE MeddleWithObject
  <2>1. /\ changes < MaxChanges /\ changes' = changes + 1 /\ changes' \in 0..MaxChanges
        /\ object # Absent
        /\ UNCHANGED <<platform, gateways, admitted, known, seen, seenGateways, console,
                       worker, queued>>
    BY <1>00, <1>11, AbsentFields DEF MeddleWithObject, Changes
  <2>2. pending' \in BOOLEAN /\ fresh' \in BOOLEAN
    BY <1>11 DEF MeddleWithObject, Writes
  <2>3. /\ CopiesTrail' /\ GenerationsCounted'
        /\ object' \in Objects \cup {Absent}
    <3>1. CASE Writes(Absent)
      <4>1. object' = Absent
        BY <3>1 DEF Writes
      <4>2. CopiesTrail'
        BY <2>1, Counters DEF TypeInv, CopiesTrail, SameSpecification
      <4> QED
        BY <4>1, <4>2 DEF GenerationsCounted
    <3>2. CASE \E h \in Hosts \ {object.host} :
                 Writes([object EXCEPT !.host = h, !.generation = @ + 1, !.foreign = TRUE])
      <4>1. PICK h \in Hosts :
              object' = [object EXCEPT !.host = h, !.generation = @ + 1, !.foreign = TRUE]
        BY <3>2 DEF Writes
      <4> QED
        BY <2>1, <4>1, MeddlingCounts
    <3> QED
      BY <1>11, <3>1, <3>2 DEF MeddleWithObject
  <2>4. CopyTypes' /\ PlatformTypes'
    BY <1>0, <2>1, <2>2, <2>3 DEF TypeInv, PlatformTypes, CopyTypes, WorkerTypes
  <2> QED
    BY <2>3, <2>4 DEF TypeInv
<1>12. CASE ChangeGateway \/ Reconsider
  <2>1. /\ changes' = changes + 1 /\ changes' \in 0..MaxChanges
        /\ UNCHANGED <<platform, object, admitted, cacheVars, console, worker, queued>>
    BY <1>00, <1>12 DEF ChangeGateway, Reconsider
  <2>2. pending' \in BOOLEAN
    <3>1. object.exists \in BOOLEAN
      BY <1>0, ObjectFields, AbsentFields DEF Objects
    <3> QED
      BY <1>12, <3>1 DEF ChangeGateway, Reconsider
  <2>3. gateways' \in [GatewayKeys -> Configurations]
    BY <1>12 DEF ChangeGateway, Reconsider, TypeInv, PlatformTypes
  <2>4. CopiesTrail' /\ GenerationsCounted'
    BY <2>1, CountsKept DEF SameSpecification
  <2>5. CopyTypes' /\ PlatformTypes'
    BY <1>0, <2>1, <2>2, <2>3 DEF TypeInv, PlatformTypes, CopyTypes, WorkerTypes
  <2> QED
    BY <2>4, <2>5 DEF TypeInv
<1>13. CASE Judge
  <2> DEFINE Given(r) == [parent |-> Spelled(object.parent), host |-> object.host,
                          generation |-> object.generation, result |-> r]
  <2>0. PICK r \in Results :
          /\ object' = [object EXCEPT !.verdicts =
                           {w \in @ : w.parent # Spelled(object.parent)} \cup {Given(r)}]
          /\ admitted' = IF r = "admitted" THEN admitted \cup {object.host} ELSE admitted
    BY <1>13 DEF Judge
  <2>1. PICK v :
          /\ v = Given(r)
          /\ object' = [object EXCEPT !.verdicts =
                           {w \in @ : w.parent # Spelled(object.parent)} \cup {v}]
    BY <2>0
  <2>2. /\ object \in Objects /\ object.host \in Hosts /\ object.parent \in Parents
        /\ object.generation \in Generation
    BY <1>0, <1>13, AbsentFields, ObjectFields DEF Judge, Objects
  <2>3. v \in Verdict
    BY <2>1, <2>2 DEF Verdict
  <2>4. /\ object' \in Objects /\ object'.exists = object.exists
        /\ object'.host = object.host /\ object'.parent = object.parent
        /\ object'.generation = object.generation
    BY <2>1, <2>2, <2>3 DEF Objects, Unbounded
  <2>5. UNCHANGED <<platform, gateways, known, seen, seenGateways, console, worker, queued,
                    changes>>
    BY <1>13 DEF Judge
  <2>6. CopiesTrail' /\ GenerationsCounted'
    BY <2>2, <2>4, <2>5, CountsKept, ObjectFields DEF SameSpecification, Objects
  <2>7. admitted' \subseteq Hosts /\ pending' \in BOOLEAN /\ fresh' \in BOOLEAN
    BY <1>13, <2>0, <2>2 DEF Judge, TypeInv, PlatformTypes
  <2>8. CopyTypes' /\ PlatformTypes'
    BY <1>0, <2>4, <2>5, <2>7 DEF TypeInv, PlatformTypes, CopyTypes, WorkerTypes
  <2> QED
    BY <2>6, <2>8 DEF TypeInv
<1>14. CASE UNCHANGED vars
  <2>1. UNCHANGED <<platformVars, cacheVars, console, worker, queued, changes>>
    BY <1>14 DEF vars
  <2>2. WorkerTypes'
    BY <1>0, <2>1 DEF WorkerTypes
  <2> QED
    BY <1>0, <2>1, <2>2, ReadingStep
<1> QED
  BY <1>1, <1>2, <1>3, <1>4, <1>5, <1>6, <1>7, <1>8, <1>9, <1>10, <1>11, <1>12, <1>13, <1>14
     DEF Next, Worker, ReconcileIngress, ReconcileRoute, ReconcileHTTPRoute

\* The types of console, exposure object, Gateways and their copies, and of the
\* reconcile, hold for any platforms, hostnames, listeners and bounds; among
\* them that the object's generation stays below its bound although operator
\* and users write it in turns.
THEOREM RouteTypes == Spec => []TypeOK
  <1>1. Spec => []TypeInv
    BY TypeInit, TypeStep, PTL DEF Spec
  <1>2. QED
    BY <1>1, TypesAreOK, PTL

-----------------------------------------------------------------------------
(***************************************************************************)
(* What was admitted.                                                       *)
(***************************************************************************)
LEMMA AdmittedInit == Init => AdmittedInv
<1> SUFFICES ASSUME Init PROVE AdmittedInv
  OBVIOUS
<1>1. worker.pc = "idle" /\ object = Absent /\ seen = Absent
  BY DEF Init, IdleWorker
<1>2. console.ready = Unpublished
  BY DEF Init
<1>3. ~Unpublished.status /\ Unpublished.observed = 0
  BY DEF Unpublished
<1>4. console.generation = 1
  BY DEF Init
<1> QED
  BY <1>1, <1>2, <1>3, <1>4 DEF AdmittedInv, Honest, Claims, Stamped

\* Verdicts and claims hold wherever they rest, as what was admitted once
\* stays in the history.
LEMMA MoreAdmitted ==
    ASSUME NEW hosts, NEW more, hosts \subseteq more
    PROVE  /\ \A o : Honest(o, hosts) => Honest(o, more)
           /\ \A kind, r : Claims(kind, r, hosts) => Claims(kind, r, more)
BY DEF Honest, Claims

\* A write of the object keeps the verdicts and makes them verdicts on an
\* earlier generation.
LEMMA RenumberedIsHonest ==
    ASSUME NEW o \in Unbounded, NEW n \in Unbounded, NEW hosts, Honest(o, hosts),
           n.verdicts = o.verdicts, n.generation = o.generation + 1
    PROVE  Honest(n, hosts)
<1> SUFFICES ASSUME NEW v \in o.verdicts
             PROVE  /\ v.result = "admitted" => v.host \in hosts
                    /\ v.generation <= n.generation
                    /\ v.generation = n.generation => v.host = n.host
  BY DEF Honest
<1>1. v.generation \in Nat /\ o.generation \in Nat
  BY ObjectFields, BoundIsNatural DEF Verdict, Generation
<1>2. v.generation <= o.generation /\ (v.result = "admitted" => v.host \in hosts)
  BY ObjectFields DEF Honest
<1> QED
  BY <1>1, <1>2

\* An apply leaves the verdicts on the spec they were given for.
LEMMA AppliedIsHonest ==
    ASSUME NEW o \in Unbounded \cup {Absent}, NEW c \in ConsoleType, NEW hosts,
           Honest(o, hosts)
    PROVE  Honest(Applied(o, c), hosts)
<1>1. CASE o = Absent
  BY <1>1, AppliedType DEF Honest
<1>2. CASE o \in Unbounded /\ Matches(o, c)
  BY <1>2, AppliedType, ObjectFields
<1>3. CASE o \in Unbounded /\ ~Matches(o, c)
  BY <1>3, AppliedType, ObjectFields, RenumberedIsHonest
<1> QED
  BY <1>1, <1>2, <1>3

\* What setRouteCondition and setHTTPRouteCondition call admitted, was: a
\* Route's verdict names the hostname, an HTTPRoute's counts only for the
\* generation at which the object had it.
LEMMA ConditionIsHonest ==
    ASSUME NEW c \in ConsoleType, NEW o \in Objects, NEW hosts, NEW gateway,
           Honest(o, hosts), o.host = c.host
    PROVE  /\ RouteReason(c, o) \in {"AsExpected", "NotRequested"} => c.host \in hosts
           /\ HTTPRouteReason(c, o, gateway) \in {"AsExpected", "NotRequested"} => c.host \in hosts
<1>1. o \in Unbounded /\ o # Absent
  BY ObjectFields DEF Objects
<1>2. RouteReason(c, o) \in {"AsExpected", "NotRequested"} => c.host \in hosts
  BY <1>1 DEF RouteReason, Honest
<1>3. HTTPRouteReason(c, o, gateway) \in {"AsExpected", "NotRequested"} => c.host \in hosts
  <2> SUFFICES ASSUME Accepted(c, o) PROVE c.host \in hosts
    BY DEF HTTPRouteReason
  <2>1. PICK v \in o.verdicts : v.result = "admitted" /\ v.generation >= o.generation
    BY DEF Accepted
  <2>2. v.generation \in Nat /\ o.generation \in Nat
    BY <1>1, ObjectFields, BoundIsNatural DEF Verdict, Generation
  <2>3. v.host \in hosts /\ v.host = o.host
    BY <1>1, <2>1, <2>2 DEF Honest
  <2> QED
    BY <2>3
<1> QED
  BY <1>2, <1>3

\* The platform's own step.
LEMMA JudgedIsHonest ==
    ASSUME TypeInv, Honest(object, admitted), Judge
    PROVE  Honest(object', admitted') /\ admitted \subseteq admitted'
<1> DEFINE Given(r) == [parent |-> Spelled(object.parent), host |-> object.host,
                        generation |-> object.generation, result |-> r]
<1>0. PICK r \in Results :
        /\ object' = [object EXCEPT !.verdicts =
                         {w \in @ : w.parent # Spelled(object.parent)} \cup {Given(r)}]
        /\ admitted' = IF r = "admitted" THEN admitted \cup {object.host} ELSE admitted
  BY DEF Judge
<1>1. PICK v :
        /\ v = Given(r)
        /\ object' = [object EXCEPT !.verdicts =
                         {w \in @ : w.parent # Spelled(object.parent)} \cup {v}]
  BY <1>0
<1>2. object \in Unbounded /\ object # Absent
  BY AbsentFields, ObjectFields DEF Judge, TypeInv, CopyTypes, Objects
<1>3. /\ object'.host = object.host /\ object'.generation = object.generation
      /\ object'.verdicts \subseteq object.verdicts \cup {v}
  BY <1>1, <1>2 DEF Unbounded
<1>4. v.host = object.host /\ v.generation = object.generation /\ v.result = r
      /\ object.generation \in Nat
  BY <1>1, <1>2, ObjectFields
<1>5. admitted \subseteq admitted' /\ (v.result = "admitted" => v.host \in admitted')
  BY <1>0, <1>4
<1>6. Honest(object, admitted')
  BY <1>5, MoreAdmitted
<1>7. ASSUME NEW w \in object'.verdicts
      PROVE  /\ w.result = "admitted" => w.host \in admitted'
             /\ w.generation <= object'.generation
             /\ w.generation = object'.generation => w.host = object'.host
  <2>1. CASE w = v
    BY <1>3, <1>4, <1>5, <2>1
  <2>2. CASE w \in object.verdicts
    BY <1>2, <1>3, <1>6, <2>2 DEF Honest
  <2> QED
    BY <1>3, <1>7, <2>1, <2>2
<1> QED
  BY <1>5, <1>7 DEF Honest

\* Steps that neither judge nor draw a condition.
LEMMA CarryingStep ==
    ASSUME AdmittedInv, UNCHANGED <<platform, admitted>>,
           Honest(object', admitted),
           seen' = seen \/ seen' = object,
           console'.ready = console.ready, Stamped(console'.ready, console'),
           \/ worker' = worker
           \/ worker'.pc \in {"idle", "apply"}
    PROVE  AdmittedInv'
BY DEF AdmittedInv

\* Every step keeps what a condition stands for.
LEMMA AdmittedStep == TypeInv /\ AdmittedInv /\ [Next]_vars => AdmittedInv'
<1> SUFFICES ASSUME TypeInv, AdmittedInv, [Next]_vars PROVE AdmittedInv'
  OBVIOUS
<1> USE DEF platformVars, cacheVars
<1>0. /\ WorkerTypes /\ console \in ConsoleType
      /\ object \in Unbounded \cup {Absent} /\ seen \in Unbounded \cup {Absent}
      /\ Honest(object, admitted) /\ Honest(seen, admitted)
      /\ Stamped(console.ready, console)
  BY DEF TypeInv, CopyTypes, Objects, AdmittedInv
<1>1. CASE Begin \/ AbortReconcile \/ RestartManager
  <2>1. worker'.pc \in {"idle", "apply"}
    BY <1>1 DEF Begin, AbortReconcile, RestartManager, Fails, IdleWorker
  <2> QED
    BY <1>0, <1>1, <2>1, CarryingStep DEF Begin, AbortReconcile, RestartManager
<1>2. CASE Resync \/ Informers \/ ChangeGateway \/ Reconsider \/ UNCHANGED vars
  BY <1>0, <1>2, CarryingStep DEF Resync, Informers, DeliverConsole, DeliverObject,
     DeliverGateways, ChangeGateway, Reconsider, vars
<1>3. CASE EditConsole
  <2>1. console'.ready = console.ready /\ console'.generation = console.generation + 1
    BY <1>0, <1>3 DEF EditConsole, ConsoleType
  <2>2. console.generation \in Nat /\ console.ready.observed \in Nat
    BY <1>0, ConsoleFields, BoundIsNatural DEF ConditionType
  <2>3. console'.ready.observed < console'.generation
    BY <1>0, <2>1, <2>2 DEF Stamped
  <2>4. Stamped(console'.ready, console')
    BY <2>1, <2>2, <2>3 DEF Stamped
  <2> QED
    BY <1>0, <1>3, <2>1, <2>4, CarryingStep DEF EditConsole
<1>4. CASE MeddleWithObject
  <2>1. Honest(object', admitted)
    <3>1. CASE Writes(Absent)
      BY <3>1 DEF Writes, Honest
    <3>2. ASSUME NEW h \in Hosts,
                 Writes([object EXCEPT !.host = h, !.generation = @ + 1, !.foreign = TRUE])
          PROVE  Honest(object', admitted)
      <4>1. object \in Unbounded
        BY <1>0, <1>4, AbsentFields DEF MeddleWithObject
      <4>2. object.generation + 1 \in Nat \ {0}
        BY <4>1, ObjectFields
      <4>3. /\ object' \in Unbounded /\ object'.verdicts = object.verdicts
            /\ object'.generation = object.generation + 1
        BY <3>2, <4>1, <4>2 DEF Writes, Unbounded
      <4> QED
        BY <1>0, <4>1, <4>3, RenumberedIsHonest
    <3> QED
      BY <1>4, <3>1, <3>2 DEF MeddleWithObject
  <2> QED
    BY <1>0, <1>4, <2>1, CarryingStep DEF MeddleWithObject
<1>5. CASE Unexposed
  <2>1. worker.console \in ConsoleType
    BY <1>0, <1>5, WorkerFields DEF Unexposed
  <2>2. PICK reason \in Reasons, url \in Hosts \cup {<<>>} :
          /\ Concludes(reason, url)
          /\ platform.kind # "ClusterIP" => reason \notin {"AsExpected", "NotRequested"}
    BY <1>5, <2>1, ConsoleFields DEF Unexposed, Reasons
  <2>3. /\ worker'.pc = "publish" /\ worker'.console = worker.console
        /\ worker'.ready = Ready(worker.console, reason)
    BY <2>1, <2>2, Concluding
  <2>4. /\ Claims(platform.kind, worker'.ready, admitted)
        /\ worker'.ready.observed = worker.console.generation
        /\ worker'.ready.host = worker.console.host
    BY <2>1, <2>2, <2>3, ReadyType DEF Claims
  <2> QED
    BY <1>5, <2>3, <2>4 DEF Unexposed, AdmittedInv
<1>6. ASSUME NEW kind, ApplyExposure(kind) PROVE AdmittedInv'
  <2>1. worker.console \in ConsoleType /\ worker.pc = "apply"
    BY <1>0, <1>6, WorkerFields DEF ApplyExposure
  <2>2. UNCHANGED <<platform, admitted, seen, console>>
    BY <1>6 DEF ApplyExposure
  <2>3. CASE Matches(seen, worker.console) /\ Checks(seen)
             /\ UNCHANGED <<object, fresh, pending, queued>>
    <3>1. worker'.pc = "check" /\ worker'.console = worker.console /\ worker'.object = seen
      BY <2>3 DEF Checks
    <3> QED
      BY <2>2, <2>3, <3>1 DEF AdmittedInv, Matches
  <2>4. CASE Writes(Applied(object, worker.console)) /\ Checks(object') /\ UNCHANGED queued
    <3>1. object' = Applied(object, worker.console)
      BY <2>4 DEF Writes
    <3>2. Honest(object', admitted) /\ object'.host = worker.console.host
      BY <1>0, <2>1, <3>1, AppliedIsHonest, AppliedType
    <3>3. worker'.pc = "check" /\ worker'.console = worker.console /\ worker'.object = object'
      BY <2>4 DEF Checks
    <3> QED
      BY <2>2, <3>2, <3>3 DEF AdmittedInv
  <2>5. CASE Fails /\ UNCHANGED <<object, fresh, pending>>
    <3>1. worker'.pc = "idle"
      BY <2>5 DEF Fails, IdleWorker
    <3> QED
      BY <1>0, <1>6, <2>2, <2>5, <3>1, CarryingStep DEF ApplyExposure
  <2> QED
    BY <1>6, <2>3, <2>4, <2>5 DEF ApplyExposure, Apply
<1>7. CASE SetCondition
  <2>1. worker.console \in ConsoleType /\ worker.object \in Objects /\ worker.pc = "check"
    BY <1>0, <1>7, WorkerFields DEF SetCondition
  <2>2. CASE Fails
    <3>1. worker'.pc = "idle"
      BY <2>2 DEF Fails, IdleWorker
    <3> QED
      BY <1>0, <1>7, <3>1, CarryingStep DEF SetCondition
  <2>3. CASE ~Fails
    <3> DEFINE gateway == seenGateways[GatewayOf(worker.console.parent)]
    <3>1. PICK reason \in Reasons :
            /\ Concludes(reason, worker.console.host)
            /\ platform.kind = "Route" => reason = RouteReason(worker.console, worker.object)
            /\ platform.kind = "Gateway" =>
                  reason = HTTPRouteReason(worker.console, worker.object, gateway)
      BY <1>7, <2>3, ReasonType DEF SetCondition
    <3>2. Honest(worker.object, admitted) /\ worker.object.host = worker.console.host
      BY <2>1 DEF AdmittedInv
    <3>3. platform.kind \in {"Route", "Gateway"} /\ reason \in {"AsExpected", "NotRequested"}
             => worker.console.host \in admitted
      <4> HIDE DEF gateway
      <4> QED
        BY <2>1, <3>1, <3>2, ConditionIsHonest
    <3>4. worker.console.host \in Hosts \cup {<<>>}
      BY <2>1, ConsoleFields
    <3>5. /\ worker'.pc = "publish" /\ worker'.console = worker.console
          /\ worker'.ready = Ready(worker.console, reason)
      BY <2>1, <3>1, <3>4, Concluding
    <3>6. /\ Claims(platform.kind, worker'.ready, admitted)
          /\ worker'.ready.observed = worker.console.generation
          /\ worker'.ready.host = worker.console.host
      BY <2>1, <3>3, <3>5, ReadyType DEF Claims
    <3> QED
      BY <1>7, <3>5, <3>6 DEF SetCondition, AdmittedInv
  <2> QED
    BY <2>2, <2>3
<1>8. CASE Publish
  <2>1. console'.ready = console.ready \/ console'.ready = worker.ready
    BY <1>0, <1>8 DEF Publish, ConsoleType
  <2>2. worker'.pc = "idle" /\ worker.pc = "publish"
    BY <1>8 DEF Publish, IdleWorker
  <2>3. console'.generation = console.generation /\ console'.host = console.host
    BY <1>0, <1>8 DEF Publish, ConsoleType
  <2>4. Stamped(worker.ready, console)
    <3>1. /\ worker.console.generation <= known.generation
          /\ worker.console.generation = known.generation
                => SameSpecification(worker.console, known)
          /\ known.generation <= console.generation
          /\ known.generation = console.generation => SameSpecification(known, console)
      BY <2>2 DEF TypeInv, CopiesTrail
    <3>2. /\ worker.console.generation \in Nat /\ known.generation \in Nat
          /\ console.generation \in Nat
      BY <2>2, Counters
    <3>3. /\ worker.ready.observed = worker.console.generation
          /\ worker.ready.host = worker.console.host
      BY <2>2 DEF AdmittedInv
    <3> QED
      BY <3>1, <3>2, <3>3 DEF Stamped, SameSpecification
  <2>5. Stamped(console'.ready, console')
    BY <1>0, <2>1, <2>3, <2>4 DEF Stamped
  <2> QED
    BY <1>8, <2>1, <2>2, <2>5 DEF Publish, AdmittedInv
<1>9. CASE Judge
  <2>1. Honest(object', admitted') /\ admitted \subseteq admitted'
    BY <1>0, <1>9, JudgedIsHonest
  <2>2. UNCHANGED <<platform, seen, console, worker>>
    BY <1>9 DEF Judge
  <2> QED
    BY <2>1, <2>2, MoreAdmitted DEF AdmittedInv
<1> QED
  BY <1>1, <1>2, <1>3, <1>4, <1>5, <1>6, <1>7, <1>8, <1>9
     DEF Next, Worker, ReconcileIngress, ReconcileRoute, ReconcileHTTPRoute

\* A console that says it is reachable through a Route or a Gateway says so of
\* a hostname that was admitted, and if stamped with the current generation of
\* the hostname asked for now, whatever edits, late copies, deletions by hand,
\* refused applies and old verdicts came between judgement and condition.
THEOREM ReadinessWasAdmitted == Spec => []ReadyWasAdmitted
  <1>1. AdmittedInv => ReadyWasAdmitted
    BY DEF AdmittedInv, Claims, Stamped, ReadyWasAdmitted
  <1>2. Spec => []AdmittedInv
    BY TypeInit, TypeStep, AdmittedInit, AdmittedStep, PTL DEF Spec
  <1>3. QED
    BY <1>1, <1>2, PTL

-----------------------------------------------------------------------------
(***************************************************************************)
(* The listeners of a Gateway: what the operator finds by walking over them *)
(* is what the rules of the Gateway API say of all of them.                 *)
(***************************************************************************)
ListenerType ==
    {l \in [name: STRING, protocol: {"HTTP", "HTTPS", "TLS", "TCP", "UDP"},
            hostname: Seq(STRING), kinds: SUBSET STRING,
            from: {"", "Same", "All", "Selector", "None"}, selector: STRING] :
        l.hostname # <<"*">>}

\* A suffix, counted from the end, is what is left of a prefix.
LEMMA SuffixLeavesPrefix ==
    ASSUME NEW S, NEW s \in Seq(S), NEW t \in Seq(S)
    PROVE  IsStrictSuffix(s, t)
              <=> \E prefix \in Prefixes(t) : prefix # <<>> /\ prefix \o s = t
  <1>m. PICK m \in Nat : Len(s) = m
    OBVIOUS
  <1>n. PICK n \in Nat : Len(t) = n
    OBVIOUS
  <1>1. /\ m \in Nat /\ Len(s) = m /\ DOMAIN s = 1..m
        /\ n \in Nat /\ Len(t) = n /\ DOMAIN t = 1..n
    BY <1>m, <1>n
  <1>2. IsSuffix(s, t) <=> m <= n /\ \A i \in 1..m : s[i] = t[n - m + i]
    <2>1. /\ Reverse(s) = [i \in 1..m |-> s[(m - i) + 1]]
          /\ Reverse(t) = [i \in 1..n |-> t[(n - i) + 1]]
      BY <1>1 DEF Reverse
    <2>2. Reverse(s) \in Seq(S) /\ Len(Reverse(s)) = m
      BY <1>1, <2>1
    <2>3. Reverse(t) \in Seq(S) /\ Len(Reverse(t)) = n
      BY <1>1, <2>1
    <2>4. IsSuffix(s, t)
            <=> m <= n /\ SubSeq(Reverse(s), 1, m) = SubSeq(Reverse(t), 1, m)
      BY <1>1, <2>2, <2>3 DEF IsSuffix, IsPrefix
    <2>5. ASSUME m <= n
          PROVE  SubSeq(Reverse(s), 1, m) = SubSeq(Reverse(t), 1, m)
                   <=> \A j \in 1..m : s[(m - j) + 1] = t[(n - j) + 1]
      <3>1. SubSeq(Reverse(s), 1, m) = [j \in 1..m |-> s[(m - j) + 1]]
        BY <1>1, <2>1, <2>2, <2>5
      <3>2. SubSeq(Reverse(t), 1, m) = [j \in 1..m |-> t[(n - j) + 1]]
        BY <1>1, <2>1, <2>3, <2>5
      <3> QED BY <3>1, <3>2
    <2>6. ASSUME m <= n
          PROVE  (\A j \in 1..m : s[(m - j) + 1] = t[(n - j) + 1])
                   <=> \A i \in 1..m : s[i] = t[n - m + i]
      <3>1. ASSUME \A j \in 1..m : s[(m - j) + 1] = t[(n - j) + 1], NEW i \in 1..m
            PROVE  s[i] = t[n - m + i]
        <4>1. (m - i) + 1 \in 1..m /\ m - ((m - i) + 1) + 1 = i
              /\ n - ((m - i) + 1) + 1 = n - m + i
          BY <1>1
        <4> QED BY <3>1, <4>1
      <3>2. ASSUME \A i \in 1..m : s[i] = t[n - m + i], NEW j \in 1..m
            PROVE  s[(m - j) + 1] = t[(n - j) + 1]
        <4>1. (m - j) + 1 \in 1..m /\ n - m + ((m - j) + 1) = (n - j) + 1
          BY <1>1
        <4> QED BY <3>2, <4>1
      <3> QED BY <3>1, <3>2
    <2> QED BY <2>4, <2>5, <2>6
  <1>3. ASSUME IsStrictSuffix(s, t)
        PROVE  \E prefix \in Prefixes(t) : prefix # <<>> /\ prefix \o s = t
    <2>1. m <= n /\ s # t /\ \A i \in 1..m : s[i] = t[n - m + i]
      BY <1>2, <1>3 DEF IsStrictSuffix
    <2>2. m # n
      <3>1. ASSUME m = n PROVE \A i \in 1..m : s[i] = t[i]
        BY <1>1, <2>1, <3>1
      <3> QED BY <1>1, <2>1, <3>1, SeqEqual
    <2>k. m < n
      BY <2>1, <2>2
    <2>3. PICK k \in 1..n : n = k + m
      BY <2>k
    <2> DEFINE p == SubSeq(t, 1, k)
    <2>p. p \in Prefixes(t)
      BY <1>1, <2>3 DEF Prefixes
    <2>4. p \in Seq(S) /\ Len(p) = k
      <3>1. \A i \in 1..k : t[i] \in S
        BY <1>1, <2>3
      <3> QED BY <2>3, <3>1, SubSeqProperties
    <2>5. \A i \in 1..k : p[i] = t[i]
      <3>1. \A i \in 1..k : t[i] \in S
        BY <1>1, <2>3
      <3>2. \A i \in 1..k - 1 + 1 : p[i] = t[1 + i - 1]
        BY <2>3, <3>1, SubSeqProperties
      <3> QED BY <2>3, <3>2
    <2> HIDE DEF p
    <2>6. p \o s \in Seq(S) /\ Len(p \o s) = n
      BY <1>1, <2>3, <2>4, ConcatProperties
    <2>7. ASSUME NEW i \in 1..n PROVE (p \o s)[i] = t[i]
      <3>i. i \in Int /\ k \in Int /\ i \in 1..k + m
        BY <2>3
      <3>c. (p \o s)[i] = IF i <= k THEN p[i] ELSE s[i - k]
        BY <1>1, <2>4, <3>i, ConcatProperties
      <3>1. CASE i <= k
        <4>1. (p \o s)[i] = p[i]
          BY <3>c, <3>1
        <4>2. i \in 1..k
          BY <2>3, <3>1
        <4> QED BY <2>5, <4>1, <4>2
      <3>2. CASE i > k
        <4>1. (p \o s)[i] = s[i - k]
          BY <3>i, <3>c, <3>2
        <4>2. i - k \in 1..m /\ n - m + (i - k) = i
          BY <1>1, <2>3, <3>2
        <4> QED BY <2>1, <4>1, <4>2
      <3>3. i <= k \/ i > k
        BY <3>i
      <3> QED BY <3>1, <3>2, <3>3
    <2>8. p \o s = t
      BY <1>1, <2>6, <2>7, SeqEqual
    <2>9. p # <<>>
      BY <2>3, <2>4
    <2> QED BY <2>p, <2>8, <2>9
  <1>4. ASSUME NEW p \in Prefixes(t), p # <<>>, p \o s = t
        PROVE  IsStrictSuffix(s, t)
    <2>1. PICK l \in 0..n : p = SubSeq(t, 1, l)
      BY <1>1 DEF Prefixes
    <2>2. p \in Seq(S)
      BY <1>1, <2>1
    <2>3. PICK k \in Nat : Len(p) = k
      BY <2>2
    <2>4. k # 0
      BY <1>4, <2>2, <2>3
    <2>5. /\ n = k + m
          /\ \A i \in 1..k + m : t[i] = IF i <= k THEN p[i] ELSE s[i - k]
      BY <1>1, <1>4, <2>2, <2>3, ConcatProperties
    <2>6. ASSUME NEW i \in 1..m PROVE s[i] = t[n - m + i]
      <3>1. k + i \in 1..k + m /\ ~(k + i <= k) /\ (k + i) - k = i /\ n - m + i = k + i
        BY <2>5
      <3> QED BY <2>5, <3>1
    <2>7. m <= n /\ s # t
      BY <1>1, <2>4, <2>5
    <2> QED BY <1>2, <2>6, <2>7 DEF IsStrictSuffix
  <1> QED BY <1>3, <1>4

\* There is a first among listeners.
LEMMA LeastExists ==
    ASSUME NEW S \in SUBSET Nat, S # {}
    PROVE  Min(S) \in S
  <1>1. PICK x \in S : \A y \in S : ~(<<y, x>> \in OpToRel(<, Nat))
    BY NatLessThanWellFounded, WFMin, Zenon
  <1>2. \A y \in S : ~(y < x)
    BY <1>1 DEF OpToRel
  <1>3. \A y \in S : x <= y
    BY <1>2
  <1> QED BY <1>3 DEF Min

\* gatewayHostnameMatches: an exact name, or a wildcard with one label or more
\* in place of the star.
LEMMA HostnamesMatch ==
    ASSUME NEW l \in Seq(STRING), l # <<>>, l # <<"*">>, NEW host \in Seq(STRING)
    PROVE  HostnameMatches(l, host)
              <=> \/ l \in {<<>>, host}
                  \/ \E prefix \in Prefixes(host) :
                       /\ prefix # <<>> /\ Head(l) = "*"
                       /\ prefix \o SubSeq(l, 2, Len(l)) = host
  <1>1. /\ Tail(l) = SubSeq(l, 2, Len(l)) /\ Tail(l) \in Seq(STRING)
        /\ Len(l) \in Nat /\ Len(l) # 0
    OBVIOUS
  <1>2. ASSUME Head(l) = "*" PROVE Len(l) > 1
    <2>1. ASSUME Len(l) = 1 PROVE l = <<"*">>
      BY <1>2, <2>1
    <2>2. PICK n \in Nat : Len(l) = n
      OBVIOUS
    <2>3. n # 0 /\ n # 1
      BY <1>1, <2>1, <2>2
    <2>4. n > 1
      BY <2>3
    <2> QED BY <2>2, <2>4
  <1>3. IsStrictSuffix(Tail(l), host)
          <=> \E prefix \in Prefixes(host) : prefix # <<>> /\ prefix \o Tail(l) = host
    BY <1>1, SuffixLeavesPrefix
  <1> QED BY <1>1, <1>2, <1>3 DEF HostnameMatches

\* "none" is no configuration of a Gateway.
LEMMA NoListenersOfNone == "none" \notin DOMAIN Listeners
  BY RouteAssumption DEF RouteAssumption

\* The rule for one listener, which Attaches asks of some of them.
Admits(l, host, parent) ==
    /\ parent.section = "" \/ parent.section = l.name
    /\ l.protocol \notin {"TLS", "TCP", "UDP"}
    /\ \/ l.hostname \in {<<>>, host}
       \/ \E prefix \in Prefixes(host) :
            /\ prefix # <<>> /\ Head(l.hostname) = "*"
            /\ prefix \o SubSeq(l.hostname, 2, Len(l.hostname)) = host
    /\ l.kinds = {} \/ "HTTPRoute" \in l.kinds
    /\ \/ l.from = "All" \/ (NamespaceOf(parent) = Home /\ l.from \in {"", "Same"})
       \/ l.from = "Selector" /\ l.selector = "matching"

\* The Gateway attaches a route by one of its listeners.
LEMMA AdmitsIsAttaches ==
    ASSUME NEW o, NEW g, gateways[GatewayOf(o.parent)] = g
    PROVE  Attaches(o) <=> g # "none" /\ \E i \in DOMAIN Listeners[g] :
                                            Admits(Listeners[g][i], o.host, o.parent)
  BY DEF Attaches, Admits

\* listenerAllowsNamespace and the conditions before it, for one listener.
LEMMA OneListenerAgrees ==
    ASSUME NEW l \in ListenerType, NEW host \in Seq(STRING), NEW parent
    PROVE  Admits(l, host, parent)
              <=> /\ Considered(l, host, parent)
                  /\ AllowsNamespace(l, NamespaceOf(parent)) = "yes"
  <1>1. /\ l.protocol \in {"HTTP", "HTTPS", "TLS", "TCP", "UDP"}
        /\ l.hostname \in Seq(STRING) /\ l.hostname # <<"*">>
        /\ l.from \in {"", "Same", "All", "Selector", "None"}
    BY DEF ListenerType
  <1>2. l.protocol \notin {"TLS", "TCP", "UDP"} <=> l.protocol \in {"HTTP", "HTTPS"}
    BY <1>1
  <1>3. (l.hostname = <<>> \/ HostnameMatches(l.hostname, host))
          <=> \/ l.hostname \in {<<>>, host}
              \/ \E prefix \in Prefixes(host) :
                   /\ prefix # <<>> /\ Head(l.hostname) = "*"
                   /\ prefix \o SubSeq(l.hostname, 2, Len(l.hostname)) = host
    <2>1. CASE l.hostname = <<>>
      BY <2>1
    <2>2. CASE l.hostname # <<>>
      BY <1>1, <2>2, HostnamesMatch
    <2> QED BY <2>1, <2>2
  <1>4. AllowsNamespace(l, NamespaceOf(parent)) = "yes"
          <=> \/ l.from = "All" \/ (NamespaceOf(parent) = Home /\ l.from \in {"", "Same"})
              \/ l.from = "Selector" /\ l.selector = "matching"
    BY <1>1 DEF AllowsNamespace
  <1> QED BY <1>2, <1>3, <1>4 DEF Admits, Considered

Unreadable(l) == l.from = "Selector" /\ l.selector = "invalid"

\* The operator stops at the first listener that allows the namespace or
\* cannot tell: the ones before it admit nothing, and the order matters only
\* where a selector cannot be read.
LEMMA WalkAgrees ==
    ASSUME NEW g \in DOMAIN Listeners, NEW host \in Hosts, NEW parent \in Parents
    PROVE  LET walk == FirstListener[g][host][parent]
               admitting == {i \in DOMAIN Listeners[g] : Admits(Listeners[g][i], host, parent)}
           IN  /\ walk = "yes" => admitting # {}
               /\ walk = "no" => admitting = {}
               /\ \/ walk \in {"yes", "no"}
                  \/ \E i \in DOMAIN Listeners[g] : Unreadable(Listeners[g][i])
  <1> DEFINE n == NamespaceOf(parent)
             allowed(i) == AllowsNamespace(Listeners[g][i], n)
             decisive == {i \in DOMAIN Listeners[g] :
                             /\ Considered(Listeners[g][i], host, parent)
                             /\ allowed(i) # "no"}
  <1>h. host \in Seq(STRING)
    BY RouteAssumption DEF RouteAssumption
  <1>1. FirstListener[g][host][parent] = IF decisive = {} THEN "no" ELSE allowed(Min(decisive))
    BY DEF FirstListener
  <1>l. Listeners[g] \in Seq(ListenerType)
    BY ListenerAssumption DEF ListenerAssumption, ListenerType
  <1>2. DOMAIN Listeners[g] \subseteq Nat
        /\ \A i \in DOMAIN Listeners[g] : Listeners[g][i] \in ListenerType
    BY <1>l
  <1>3. \A i \in DOMAIN Listeners[g] :
           Admits(Listeners[g][i], host, parent)
              <=> Considered(Listeners[g][i], host, parent) /\ allowed(i) = "yes"
    BY <1>2, <1>h, OneListenerAgrees
  <1>4. CASE decisive = {}
    BY <1>1, <1>3, <1>4
  <1>5. CASE decisive # {}
    <2>1. Min(decisive) \in decisive
      BY <1>2, <1>5, LeastExists
    <2>2. FirstListener[g][host][parent] = allowed(Min(decisive)) /\ allowed(Min(decisive)) # "no"
      BY <1>1, <1>5, <2>1
    <2>3. allowed(Min(decisive)) = "yes" \/ Unreadable(Listeners[g][Min(decisive)])
      BY <2>2 DEF AllowsNamespace, Unreadable
    <2> QED BY <1>3, <2>1, <2>2, <2>3
  <1> QED BY <1>4, <1>5

\* Where the manager knows the Gateway as it is, its own look at the listeners
\* and the platform's rules agree on the console as it is; an error takes a
\* selector that cannot be read.
ListenersAgree ==
    LET gateway == gateways[GatewayOf(console.parent)]
        verdict == CompatibleListener(gateway, console)
    IN  gateway # "none" =>
            /\ verdict = "yes" => Attaches(console)
            /\ verdict = "no" => ~Attaches(console)
            /\ \/ verdict \in {"yes", "no"}
               \/ \E i \in DOMAIN Listeners[gateway] : Unreadable(Listeners[gateway][i])

\* gatewayHasCompatibleListener stands before the verdict on the HTTPRoute:
\* for any list of listeners it neither holds back a route that the Gateway
\* API lets attach nor lets one pass that it does not.
THEOREM ListenersAreReadRightly == Spec => []ListenersAgree
  <1>1. TypeOK => ListenersAgree
    <2> SUFFICES ASSUME TypeOK, gateways[GatewayOf(console.parent)] # "none"
                 PROVE  ListenersAgree
      BY DEF ListenersAgree
    <2>1. console.host \in Hosts /\ console.parent \in Parents
      BY DEF TypeOK, ConsoleType
    <2>2. GatewayOf(console.parent) \in GatewayKeys
      BY <2>1 DEF GatewayKeys
    <2>3. PICK g \in DOMAIN Listeners : gateways[GatewayOf(console.parent)] = g
      BY <2>2 DEF TypeOK, Configurations
    <2>4. CompatibleListener(g, console) = FirstListener[g][console.host][console.parent]
      BY DEF CompatibleListener
    <2>5. Attaches(console) <=> g # "none" /\ \E i \in DOMAIN Listeners[g] :
                             Admits(Listeners[g][i], console.host, console.parent)
      BY <2>3, AdmitsIsAttaches
    <2>6. /\ CompatibleListener(g, console) = "yes" => Attaches(console)
          /\ CompatibleListener(g, console) = "no" => ~Attaches(console)
          /\ \/ CompatibleListener(g, console) \in {"yes", "no"}
             \/ \E i \in DOMAIN Listeners[g] : Unreadable(Listeners[g][i])
      BY <2>1, <2>4, <2>5, WalkAgrees, NoListenersOfNone
    <2> QED BY <2>3, <2>6 DEF ListenersAgree
  <1> QED BY <1>1, RouteTypes, PTL
=============================================================================
