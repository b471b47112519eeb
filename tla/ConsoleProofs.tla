--------------------------- MODULE ConsoleProofs ---------------------------
(***************************************************************************)
(* The finalizer of a PgConsole does what it is for: no part of the         *)
(* cluster-scoped catalog pair exists without a console that holds the      *)
(* finalizer, for any specifications, served APIs and bounds.               *)
(*                                                                          *)
(* PairHasFinalizer is not inductive: a reconcile applies the pair for a    *)
(* copy of the console that may be old, and removes the finalizer two       *)
(* requests after it decided to.  What carries it through is the order of   *)
(* things: a console is deleted once and the cache follows it (CacheTrails),*)
(* a reconcile that applies works for a console that holds the finalizer    *)
(* (ApplyingReconcile), and one that releases has left nothing of the pair  *)
(* behind it (ReleasingReconcile).                                          *)
(***************************************************************************)
EXTENDS Console, TLAPS

Copies == [life: Lives, finalizer: BOOLEAN, spec: Specs, version: Int]
Phases == {"idle", "release", "unbind", "unfinalize", "steps"}
Releasing == {"release", "unbind", "unfinalize"}

\* What the records are; the steps still to do are of no concern here.
Shapes ==
    /\ console \in Copies /\ cached \in Copies
    /\ worker = [pc |-> worker.pc, copy |-> worker.copy, todo |-> worker.todo]
    /\ worker.pc \in Phases /\ worker.copy \in Copies

\* A console that is being deleted holds the finalizer.
DeletingHolds == console.life = "deleting" => console.finalizer

\* What the cache says of deletion and finalizer was true, and remains so
\* until the operator itself lets the console go.
CacheTrails ==
    /\ cached.life # "live" => console.life # "live"
    /\ cached.life = "live" /\ cached.finalizer => console.life # "none" /\ console.finalizer

ApplyingReconcile ==
    worker.pc = "steps" => console.life # "none" /\ console.finalizer

ReleasingReconcile ==
    /\ worker.pc \in Releasing =>
           worker.copy.life = "deleting" /\ cached.life # "live" /\ console.life # "live"
    /\ worker.pc \in {"unbind", "unfinalize"} => "catalogRole" \notin objects
    /\ worker.pc = "unfinalize" => "catalogBinding" \notin objects

PairInv ==
    /\ Shapes
    /\ DeletingHolds
    /\ CacheTrails
    /\ ApplyingReconcile
    /\ ReleasingReconcile
    /\ PairHasFinalizer

-----------------------------------------------------------------------------
\* A reconcile can be abandoned at any point.
LEMMA IdleShape == IdleWorker.pc = "idle" /\ IdleWorker.copy \in Copies
                   /\ IdleWorker = [pc |-> IdleWorker.pc, copy |-> IdleWorker.copy,
                                    todo |-> IdleWorker.todo]
BY ConsoleAssumption DEF IdleWorker, NoConsole, Copies, Lives

\* A new console has nothing of the pair yet.
LEMMA PairInit == Init => PairInv
<1> SUFFICES ASSUME Init PROVE PairInv
  OBVIOUS
<1>1. Shapes
  BY IdleShape DEF Init, Shapes, Copies, Phases, Lives
<1>2. worker.pc = "idle"
  BY IdleShape DEF Init
<1> QED
  BY <1>1, <1>2 DEF Init, PairInv, DeletingHolds, CacheTrails, ApplyingReconcile,
     ReleasingReconcile, PairHasFinalizer, Releasing

-----------------------------------------------------------------------------
USE DEF Copies, Lives, proxyConfig

\* A write of the console raises its version and changes what it says.
LEMMA WrittenConsole ==
    ASSUME NEW c \in Copies, NEW d, NEW l \in Lives, NEW f \in BOOLEAN, NEW s \in Specs,
           \/ d = [c EXCEPT !.finalizer = f, !.version = @ + 1] /\ l = c.life /\ s = c.spec
           \/ d = [c EXCEPT !.life = l, !.finalizer = f, !.version = @ + 1] /\ s = c.spec
           \/ d = [c EXCEPT !.life = l, !.version = @ + 1] /\ f = c.finalizer /\ s = c.spec
           \/ d = [c EXCEPT !.spec = s, !.version = @ + 1] /\ l = c.life /\ f = c.finalizer
    PROVE  d \in Copies /\ d.life = l /\ d.finalizer = f
<1>1. c.version + 1 \in Int
  OBVIOUS
<1>2. d.life = l /\ d.finalizer = f
  OBVIOUS
<1> QED
  BY <1>1, <1>2

\* The steps of a reconcile that ends, whatever it did to the rest.
LEMMA EndingStep ==
    ASSUME PairInv, worker' = IdleWorker, UNCHANGED <<console, objects>>,
           cached' \in {cached, console}
    PROVE  PairInv'
<1>1. worker'.pc = "idle" /\ Shapes'
  BY IdleShape DEF PairInv, Shapes, Phases
<1> QED
  BY <1>1 DEF PairInv, DeletingHolds, CacheTrails, ApplyingReconcile, ReleasingReconcile,
     PairHasFinalizer, Releasing

\* Steps that leave the console, the pair and the reconcile alone.
LEMMA OtherStep ==
    ASSUME PairInv, UNCHANGED <<console, cached, worker>>,
           objects' \cap Catalog \subseteq objects
    PROVE  PairInv'
BY DEF PairInv, Shapes, DeletingHolds, CacheTrails, ApplyingReconcile, ReleasingReconcile,
   PairHasFinalizer, Releasing, Catalog

\* Every step keeps the pair.
LEMMA PairNext == PairInv /\ [Next]_vars => PairInv'
<1> SUFFICES ASSUME PairInv, [Next]_vars PROVE PairInv'
  OBVIOUS
<1>0. console \in Copies /\ console.life \in Lives /\ console.finalizer \in BOOLEAN
      /\ console.spec \in Specs
  BY DEF PairInv, Shapes
<1>1. CASE BeginNothing
  BY <1>1, OtherStep DEF BeginNothing
<1>2. CASE BeginFinalizer
  <2>1. CASE cached = console
    <3>1. console' = [console EXCEPT !.finalizer = TRUE, !.version = @ + 1]
          /\ UNCHANGED <<cached, worker, objects>> /\ worker.pc = "idle"
      BY <1>2, <2>1 DEF BeginFinalizer
    <3>2. console.life = "live" /\ console \in Copies
      BY <1>2, <2>1 DEF BeginFinalizer, PairInv, Shapes
    <3>3. console'.finalizer /\ console'.life = "live" /\ console' \in Copies
      BY <3>1, <3>2, WrittenConsole
    <3>4. Shapes'
      BY <3>1, <3>3 DEF PairInv, Shapes
    <3> QED
      BY <3>1, <3>2, <3>3, <3>4 DEF PairInv, DeletingHolds, CacheTrails, ApplyingReconcile,
         ReleasingReconcile, PairHasFinalizer, Releasing
  <2>2. CASE cached # console
    BY <1>2, <2>2, OtherStep DEF BeginFinalizer
  <2> QED
    BY <2>1, <2>2
<1>3. CASE BeginWithoutCluster \/ BeginProxyIssue
  BY <1>3, OtherStep DEF BeginWithoutCluster, BeginProxyIssue
<1>4. CASE BeginSteps
  <2>1. UNCHANGED <<console, cached, objects>> /\ cached.life = "live" /\ cached.finalizer
    BY <1>4 DEF BeginSteps, Finalized
  <2>2. worker'.pc = "steps" /\ Shapes'
    BY <1>4, <2>1, IdleShape DEF BeginSteps, PairInv, Shapes, Phases, IdleWorker
  <2> QED
    BY <2>1, <2>2 DEF PairInv, DeletingHolds, CacheTrails, ApplyingReconcile,
       ReleasingReconcile, PairHasFinalizer, Releasing
<1>5. CASE BeginRelease
  <2>1. UNCHANGED <<console, cached, objects>> /\ cached.life = "deleting"
    BY <1>5 DEF BeginRelease
  <2>2. worker'.pc = "release" /\ worker'.copy = cached /\ Shapes'
    BY <1>5, <2>1, IdleShape DEF BeginRelease, PairInv, Shapes, Phases, IdleWorker
  <2> QED
    BY <2>1, <2>2 DEF PairInv, DeletingHolds, CacheTrails, ApplyingReconcile,
       ReleasingReconcile, PairHasFinalizer, Releasing
<1>6. CASE Release("release", "catalogRole", "unbind")
  <2>1. UNCHANGED <<console, cached>> /\ objects' = objects \ {"catalogRole"}
        /\ worker.pc = "release"
    BY <1>6 DEF Release
  <2>2. worker'.pc = "unbind" /\ worker'.copy = worker.copy /\ Shapes'
    BY <1>6, <2>1 DEF Release, Goto, PairInv, Shapes, Phases
  <2> QED
    BY <2>1, <2>2 DEF PairInv, DeletingHolds, CacheTrails, ApplyingReconcile,
       ReleasingReconcile, PairHasFinalizer, Releasing
<1>7. CASE Release("unbind", "catalogBinding", "unfinalize")
  <2>1. UNCHANGED <<console, cached>> /\ objects' = objects \ {"catalogBinding"}
        /\ worker.pc = "unbind"
    BY <1>7 DEF Release
  <2>2. worker'.pc = "unfinalize" /\ worker'.copy = worker.copy /\ Shapes'
    BY <1>7, <2>1 DEF Release, Goto, PairInv, Shapes, Phases
  <2> QED
    BY <2>1, <2>2 DEF PairInv, DeletingHolds, CacheTrails, ApplyingReconcile,
       ReleasingReconcile, PairHasFinalizer, Releasing
<1>8. CASE Unfinalize
  <2>1. CASE worker.copy = console
    <3>1. worker.pc = "unfinalize" /\ worker' = IdleWorker /\ UNCHANGED <<cached, objects>>
          /\ console' = [console EXCEPT !.life = "none", !.finalizer = FALSE, !.version = @ + 1]
      BY <1>8, <2>1 DEF Unfinalize, Ends
    <3>2. console'.life = "none" /\ console' \in Copies
      BY <1>0, <3>1, WrittenConsole
    <3>3. worker'.pc = "idle" /\ Shapes'
      BY <3>1, <3>2, IdleShape DEF PairInv, Shapes, Phases
    <3>4. objects' \cap Catalog = {} /\ cached'.life # "live"
      BY <3>1 DEF PairInv, ReleasingReconcile, Catalog, Releasing
    <3> QED
      BY <3>2, <3>3, <3>4 DEF PairInv, DeletingHolds, CacheTrails, ApplyingReconcile,
         ReleasingReconcile, PairHasFinalizer, Releasing
  <2>2. CASE worker.copy # console
    BY <1>8, <2>2, EndingStep DEF Unfinalize, Ends
  <2> QED
    BY <2>1, <2>2
<1>9. CASE DoStep
  <2>1. worker.pc = "steps" /\ UNCHANGED <<console, cached>>
    BY <1>9 DEF DoStep
  <2>2. CASE worker' = IdleWorker /\ UNCHANGED objects
    BY <2>1, <2>2, EndingStep
  <2>3. CASE worker' = [worker EXCEPT !.todo = Tail(@)]
    <3>1. worker'.pc = "steps" /\ Shapes'
      BY <2>1, <2>3 DEF PairInv, Shapes, Phases
    <3> QED
      BY <2>1, <3>1 DEF PairInv, DeletingHolds, CacheTrails, ApplyingReconcile,
         ReleasingReconcile, PairHasFinalizer, Releasing
  <2> QED
    BY <1>9, <2>2, <2>3 DEF DoStep, Ends
<1>10. CASE EndSteps
  BY <1>10, EndingStep DEF EndSteps, Ends
<1>11. CASE FailReconcile
  BY <1>11, EndingStep DEF FailReconcile, Ends
<1>12. CASE RestartManager
  BY <1>12, EndingStep DEF RestartManager, Ends
<1>13. CASE FireTimer
  BY <1>13, OtherStep DEF FireTimer
<1>14. CASE DeliverConsole
  <2>1. UNCHANGED <<console, objects, worker>> /\ cached' = console
    BY <1>14 DEF DeliverConsole
  <2> QED
    BY <2>1 DEF PairInv, Shapes, DeletingHolds, CacheTrails, ApplyingReconcile,
       ReleasingReconcile, PairHasFinalizer, Releasing
<1>15. ASSUME NEW kind \in Kinds, DeliverObject(kind) PROVE PairInv'
  BY <1>15, OtherStep DEF DeliverObject
<1>16. ASSUME NEW s \in Specs, EditConsole(s) PROVE PairInv'
  <2>1. UNCHANGED <<cached, objects, worker>> /\ console.life = "live"
        /\ console' = [console EXCEPT !.spec = s, !.version = @ + 1]
    BY <1>16 DEF EditConsole
  <2>2. console'.life = "live" /\ console'.finalizer = console.finalizer /\ console' \in Copies
    BY <1>0, <2>1, WrittenConsole
  <2>3. Shapes'
    BY <2>1, <2>2 DEF PairInv, Shapes
  <2> QED
    BY <2>1, <2>2, <2>3 DEF PairInv, DeletingHolds, CacheTrails, ApplyingReconcile,
       ReleasingReconcile, PairHasFinalizer, Releasing
<1>17. CASE DeleteConsole
  <2>1. UNCHANGED <<cached, objects, worker>> /\ console.life = "live"
        /\ console' = [console EXCEPT !.life = IF console.finalizer THEN "deleting" ELSE "none",
                                      !.version = @ + 1]
    BY <1>17 DEF DeleteConsole
  <2>2. /\ console' \in Copies /\ console'.finalizer = console.finalizer
        /\ console'.life = IF console.finalizer THEN "deleting" ELSE "none"
    BY <1>0, <2>1, WrittenConsole
  <2>3. Shapes'
    BY <2>1, <2>2 DEF PairInv, Shapes
  <2> QED
    BY <2>1, <2>2, <2>3 DEF PairInv, DeletingHolds, CacheTrails, ApplyingReconcile,
       ReleasingReconcile, PairHasFinalizer, Releasing
<1>18. CASE CollectOwned
  BY <1>18, OtherStep DEF CollectOwned
<1>19. CASE CreateCluster \/ ChangeClientSecret
  BY <1>19, OtherStep DEF CreateCluster, ChangeClientSecret
<1>20. ASSUME NEW kind \in Kinds, DeleteObject(kind) PROVE PairInv'
  BY <1>20, OtherStep DEF DeleteObject
<1>21. CASE UNCHANGED vars
  BY <1>21, OtherStep DEF vars
<1> QED
  BY <1>1, <1>2, <1>3, <1>4, <1>5, <1>6, <1>7, <1>8, <1>9, <1>10, <1>11, <1>12, <1>13, <1>14,
     <1>15, <1>16, <1>17, <1>18, <1>19, <1>20, <1>21
     DEF Next, Worker, Begin, Delete

\* The catalog pair never exists without a console that holds the finalizer:
\* deleteCatalogClusterRBAC always has a reconcile left to run in, whatever
\* old copies, failures, restarts and deletions the reconciles meet.
THEOREM PairIsReleased == Spec => []PairHasFinalizer
<1>1. Init => PairInv
  BY PairInit
<1>2. PairInv /\ [Next]_vars => PairInv'
  BY PairNext
<1>3. PairInv => PairHasFinalizer
  BY DEF PairInv
<1> QED
  BY <1>1, <1>2, <1>3, PTL DEF Spec

-----------------------------------------------------------------------------
(***************************************************************************)
(* Types.  The version of the console is bounded because each of its three  *)
(* turns, finalized, deleted and released, is taken once, and the steps     *)
(* left to a reconcile are a rest of its plan.                              *)
(***************************************************************************)
Steps == Verbs \X Kinds

VersionCounted ==
    /\ console.version >= 0
    /\ console.life = "live" /\ ~console.finalizer => console.version <= edits
    /\ console.life = "live" => console.version <= edits + 1
    /\ console.life = "deleting" => console.version <= edits + 2
    /\ console.version <= edits + 3

TypeInv ==
    /\ cached.version \in Versions /\ worker.copy.version \in Versions
    /\ VersionCounted
    /\ objects \subseteq Kinds /\ seen \subseteq Kinds
    /\ cluster \in BOOLEAN /\ renderable \in BOOLEAN /\ issue \in BOOLEAN
    /\ queued \in BOOLEAN /\ timer \in BOOLEAN
    /\ worker.todo \in Seq(Steps)
    /\ edits \in 0..MaxEdits /\ faults \in 0..MaxFaults

\* What the assumption says of the bounds.
LEMMA Bounds == MaxEdits \in Nat /\ MaxFaults \in Nat /\ PgAdmin \in BOOLEAN
BY ConsoleAssumption

\* TypeInv, with the shapes of PairInv, is TypeOK.
LEMMA TypesAreOK == PairInv /\ TypeInv => TypeOK
<1> SUFFICES ASSUME PairInv, TypeInv PROVE TypeOK
  OBVIOUS
<1>1. console.version \in Versions
  BY Bounds DEF TypeInv, VersionCounted, Versions, PairInv, Shapes
<1>2. console \in Consoles /\ cached \in Consoles /\ worker.copy \in Consoles
  BY <1>1 DEF TypeInv, PairInv, Shapes, Consoles
<1>3. \A i \in DOMAIN worker.todo : worker.todo[i] \in Verbs \X Kinds
  BY DEF TypeInv, Steps
<1> QED
  BY <1>2, <1>3 DEF TypeInv, TypeOK, PairInv, Shapes, Phases

\* A worker between two reconciles has no plan.
LEMMA IdleFields == IdleWorker.copy.version \in Versions /\ IdleWorker.todo = <<>>
BY Bounds DEF IdleWorker, NoConsole, Versions

\* Every step of the plan is a verb and a kind.
LEMMA PlanType ==
    ASSUME NEW s \in Specs
    PROVE  Plan(s) \in Seq(Steps)
<1>1. s.exposure \in Exposures \cup {"clusterIP"}
  BY ConsoleAssumption DEF Specifications
<1>2. \A verb \in Verbs, kind \in Kinds : <<Step(verb, kind)>> \in Seq(Steps)
  BY DEF Step, Steps
<1>3. <<>> \in Seq(Steps)
  OBVIOUS
<1>4. \A p, q \in Seq(Steps) : p \o q \in Seq(Steps)
  OBVIOUS
<1>5. Authority(s) \in Seq(Steps)
  BY DEF Authority, Step, Steps, Verbs, Kinds, Catalog
<1>6. (IF s.exposure \in Usable THEN <<Step("apply", s.exposure)>> ELSE <<>>) \in Seq(Steps)
  BY <1>2, <1>3 DEF Usable, Verbs, Kinds, Owned
<1>7. \A k \in Exposures :
        (IF k \in Usable /\ k # s.exposure THEN <<Step("remove", k)>> ELSE <<>>) \in Seq(Steps)
  BY <1>2, <1>3 DEF Verbs, Kinds, Owned
<1>8. Expose(s) \in Seq(Steps)
  BY <1>4, <1>6, <1>7 DEF Expose, Exposures
<1>9. <<Step(IF s.policy THEN "create" ELSE "remove", "policy")>> \in Seq(Steps)
  BY <1>2 DEF Verbs, Kinds, Owned
<1> QED
  BY <1>4, <1>5, <1>8, <1>9 DEF Plan

\* The types, in a new console.
LEMMA TypeInit == Init => TypeInv
<1> SUFFICES ASSUME Init PROVE TypeInv
  OBVIOUS
<1>1. PICK s \in Specs :
        console = [life |-> "live", finalizer |-> FALSE, spec |-> s, version |-> 0]
  BY DEF Init
<1>2. console.version = 0 /\ console.life = "live" /\ cached = console
  BY <1>1 DEF Init
<1>3. VersionCounted /\ cached.version \in Versions
  BY <1>2, Bounds DEF Init, VersionCounted, Versions
<1>4. worker.copy.version \in Versions /\ worker.todo \in Seq(Steps)
  BY IdleFields DEF Init
<1>5. /\ cluster \in BOOLEAN /\ renderable \in BOOLEAN /\ issue \in BOOLEAN
      /\ queued \in BOOLEAN /\ timer \in BOOLEAN
  BY DEF Init
<1>6. edits \in 0..MaxEdits /\ faults \in 0..MaxFaults
  BY Bounds DEF Init
<1>7. objects \subseteq Kinds /\ seen \subseteq Kinds
  BY DEF Init
<1> QED
  BY <1>3, <1>4, <1>5, <1>6, <1>7 DEF TypeInv

\* Steps that do not write the console.
LEMMA UnwrittenStep ==
    ASSUME PairInv, TypeInv, UNCHANGED <<console, edits>>,
           cached' \in {cached, console}, objects' \subseteq Kinds, seen' \subseteq Kinds,
           cluster' \in BOOLEAN, renderable' \in BOOLEAN, issue' \in BOOLEAN,
           queued' \in BOOLEAN, timer' \in BOOLEAN,
           faults' \in 0..MaxFaults,
           worker'.copy.version \in Versions, worker'.todo \in Seq(Steps)
    PROVE  TypeInv'
<1>1. console.version \in Versions
  BY Bounds DEF TypeInv, VersionCounted, Versions, PairInv, Shapes
<1>2. VersionCounted'
  BY DEF TypeInv, VersionCounted
<1> QED
  BY <1>1, <1>2 DEF TypeInv

\* Steps that do.
LEMMA WritingStep ==
    ASSUME TypeInv, VersionCounted', UNCHANGED <<cached, objects, seen, cluster, proxyConfig, timer>>,
           UNCHANGED faults,
           queued' \in BOOLEAN, edits' \in 0..MaxEdits,
           worker'.copy.version \in Versions, worker'.todo \in Seq(Steps)
    PROVE  TypeInv'
BY DEF TypeInv

\* Every step keeps the types.
LEMMA TypeNext == PairInv /\ TypeInv /\ [Next]_vars => TypeInv'
<1> SUFFICES ASSUME PairInv, TypeInv, [Next]_vars PROVE TypeInv'
  OBVIOUS
<1>0. /\ objects \subseteq Kinds /\ seen \subseteq Kinds
      /\ cluster \in BOOLEAN /\ renderable \in BOOLEAN /\ issue \in BOOLEAN
      /\ queued \in BOOLEAN /\ timer \in BOOLEAN
      /\ worker.copy.version \in Versions /\ worker.todo \in Seq(Steps)
      /\ edits \in 0..MaxEdits /\ faults \in 0..MaxFaults
      /\ cached.version \in Versions
  BY DEF TypeInv
<1>00. /\ console \in Copies /\ console.version \in Int /\ edits \in Nat
       /\ worker = [pc |-> worker.pc, copy |-> worker.copy, todo |-> worker.todo]
  BY <1>0, Bounds DEF PairInv, Shapes
<1>1. CASE BeginNothing
  BY <1>0, <1>1, UnwrittenStep DEF BeginNothing
<1>2. CASE BeginFinalizer
  <2>1. CASE cached = console
    <3>1. /\ console' = [console EXCEPT !.finalizer = TRUE, !.version = @ + 1]
          /\ console.life = "live" /\ ~console.finalizer
          /\ UNCHANGED <<cached, objects, seen, cluster, proxyConfig, timer, worker>>
          /\ UNCHANGED <<edits, faults>>
          /\ queued' \in BOOLEAN
      BY <1>2, <2>1 DEF BeginFinalizer, Finalized
    <3>2. /\ console'.version = console.version + 1 /\ console'.life = "live"
          /\ console'.finalizer
      BY <1>00, <3>1
    <3>3. VersionCounted'
      BY <1>00, <3>1, <3>2 DEF TypeInv, VersionCounted
    <3> QED
      BY <1>0, <3>1, <3>3, WritingStep
  <2>2. CASE cached # console
    BY <1>0, <1>2, <2>2, UnwrittenStep DEF BeginFinalizer
  <2> QED
    BY <2>1, <2>2
<1>3. CASE BeginWithoutCluster
  BY <1>0, <1>3, UnwrittenStep DEF BeginWithoutCluster
<1>3a. CASE BeginProxyIssue
  BY <1>0, <1>3a, UnwrittenStep DEF BeginProxyIssue
<1>4. CASE BeginSteps
  <2>1. cached.spec \in Specs
    BY DEF PairInv, Shapes
  <2>2. worker'.copy = IdleWorker.copy /\ worker'.todo = Plan(cached.spec)
    BY <1>4, IdleShape DEF BeginSteps, IdleWorker
  <2>3. worker'.copy.version \in Versions /\ worker'.todo \in Seq(Steps)
    BY <2>1, <2>2, PlanType, IdleFields
  <2>4. /\ UNCHANGED <<console, cached, objects, seen, cluster, proxyConfig, timer>>
        /\ UNCHANGED <<edits, faults>>
        /\ queued' = FALSE
    BY <1>4 DEF BeginSteps
  <2> QED
    BY <1>0, <2>3, <2>4, UnwrittenStep
<1>5. CASE BeginRelease
  <2>1. worker'.copy = cached /\ worker'.todo = <<>>
    BY <1>5 DEF BeginRelease, IdleWorker
  <2>2. worker'.copy.version \in Versions /\ worker'.todo \in Seq(Steps)
    BY <1>0, <2>1
  <2>3. /\ UNCHANGED <<console, cached, objects, seen, cluster, proxyConfig, timer>>
        /\ UNCHANGED <<edits, faults>>
        /\ queued' = FALSE
    BY <1>5 DEF BeginRelease
  <2> QED
    BY <1>0, <2>2, <2>3, UnwrittenStep
<1>6. ASSUME NEW pc, NEW kind, NEW next, Release(pc, kind, next) PROVE TypeInv'
  <2>1. worker'.copy = worker.copy /\ worker'.todo = worker.todo
    BY <1>00, <1>6 DEF Release, Goto
  <2> QED
    BY <1>0, <1>6, <2>1, UnwrittenStep DEF Release
<1>7. CASE Unfinalize
  <2>1. /\ worker' = IdleWorker /\ queued' \in BOOLEAN
        /\ UNCHANGED <<cached, objects, seen, cluster, proxyConfig, timer, edits, faults>>
    BY <1>0, <1>7 DEF Unfinalize, Ends
  <2>2. worker'.copy.version \in Versions /\ worker'.todo \in Seq(Steps)
    BY <2>1, IdleFields
  <2>3. CASE worker.copy = console
    <3>1. /\ console' = [console EXCEPT !.life = "none", !.finalizer = FALSE, !.version = @ + 1]
          /\ console.life = "deleting"
      BY <1>7, <2>3 DEF Unfinalize, PairInv, ReleasingReconcile, Releasing
    <3>2. console'.version = console.version + 1 /\ console'.life = "none"
      BY <1>00, <3>1
    <3>3. VersionCounted'
      BY <1>00, <2>1, <3>1, <3>2 DEF TypeInv, VersionCounted
    <3> QED
      BY <1>0, <2>1, <2>2, <3>3, WritingStep
  <2>4. CASE worker.copy # console
    BY <1>0, <1>7, <2>1, <2>2, <2>4, UnwrittenStep DEF Unfinalize
  <2> QED
    BY <2>3, <2>4
<1>8. CASE DoStep
  <2>1. /\ UNCHANGED <<console, cached, seen, cluster, proxyConfig, timer, edits, faults>>
        /\ worker.todo # <<>>
    BY <1>8 DEF DoStep
  <2>2. CASE worker' = IdleWorker /\ queued' = TRUE /\ UNCHANGED objects
    BY <1>0, <2>1, <2>2, IdleFields, UnwrittenStep
  <2>3. CASE /\ objects' = After(Head(worker.todo)[1], Head(worker.todo)[2])
             /\ worker' = [worker EXCEPT !.todo = Tail(@)]
             /\ UNCHANGED queued
    <3>1. Head(worker.todo) \in Steps /\ Tail(worker.todo) \in Seq(Steps)
      BY <1>0, <2>1
    <3>2. Head(worker.todo)[2] \in Kinds
      BY <3>1 DEF Steps
    <3>3. objects' \subseteq Kinds
      BY <1>0, <2>3, <3>2 DEF After
    <3>4. worker'.copy = worker.copy /\ worker'.todo = Tail(worker.todo)
      BY <1>00, <2>3
    <3> QED
      BY <1>0, <2>1, <2>3, <3>1, <3>3, <3>4, UnwrittenStep
  <2> QED
    BY <1>8, <2>2, <2>3 DEF DoStep, Ends
<1>9. CASE EndSteps
  <2>1. worker' = IdleWorker /\ queued' = (queued \/ issue) /\ issue' = FALSE
    BY <1>9 DEF EndSteps, Ends
  <2>2. timer' = (timer \/ PgAdmin)
    BY <1>9 DEF EndSteps
  <2>3. timer' \in BOOLEAN /\ queued' \in BOOLEAN
    BY <2>1, <2>2
  <2> QED
    BY <1>0, <1>9, <2>1, <2>3, IdleFields, UnwrittenStep DEF EndSteps
<1>10. CASE FailReconcile \/ RestartManager
  <2>1. worker' = IdleWorker /\ queued' = TRUE /\ UNCHANGED <<console, objects, edits>>
        /\ UNCHANGED <<cluster, proxyConfig>>
    BY <1>10 DEF FailReconcile, RestartManager, Ends
  <2>2. cached' \in {cached, console} /\ seen' \subseteq Kinds
    BY <1>0, <1>10 DEF FailReconcile, RestartManager
  <2>3. faults' = faults + 1 /\ faults < MaxFaults /\ (timer' = timer \/ timer' = FALSE)
    BY <1>10 DEF FailReconcile, RestartManager
  <2>4. faults' \in 0..MaxFaults
    BY <1>0, <2>3, Bounds
  <2>5. timer' \in BOOLEAN
    BY <1>0, <2>3
  <2> QED
    BY <1>0, <2>1, <2>2, <2>4, <2>5, IdleFields, UnwrittenStep
<1>11. CASE FireTimer \/ DeliverConsole \/ CollectOwned \/ CreateCluster
  <2>1. /\ cluster' \in BOOLEAN /\ queued' \in BOOLEAN /\ timer' \in BOOLEAN
        /\ UNCHANGED <<console, seen, proxyConfig, worker, edits, faults>>
    BY <1>0, <1>11 DEF FireTimer, DeliverConsole, CollectOwned, CreateCluster
  <2>2. objects' \subseteq Kinds /\ cached' \in {cached, console}
    BY <1>0, <1>11 DEF FireTimer, DeliverConsole, CollectOwned, CreateCluster
  <2> QED
    BY <1>0, <2>1, <2>2, UnwrittenStep
<1>11a. CASE ChangeClientSecret
  <2>1. faults' \in 0..MaxFaults /\ renderable' \in BOOLEAN
    BY <1>0, <1>11a, Bounds DEF ChangeClientSecret
  <2> QED
    BY <1>0, <1>11a, <2>1, UnwrittenStep DEF ChangeClientSecret
<1>12. ASSUME NEW kind \in Kinds, DeliverObject(kind) PROVE TypeInv'
  <2>1. queued' \in BOOLEAN /\ seen' \subseteq Kinds
    BY <1>0, <1>12 DEF DeliverObject
  <2> QED
    BY <1>0, <1>12, <2>1, UnwrittenStep DEF DeliverObject
<1>13. ASSUME NEW s \in Specs, EditConsole(s) PROVE TypeInv'
  <2>1. /\ console' = [console EXCEPT !.spec = s, !.version = @ + 1]
        /\ edits < MaxEdits /\ edits' = edits + 1
        /\ UNCHANGED <<cached, objects, seen, cluster, proxyConfig, queued, timer, worker>>
        /\ UNCHANGED faults
    BY <1>13 DEF EditConsole
  <2>2. /\ console'.version = console.version + 1 /\ console'.life = console.life
        /\ console'.finalizer = console.finalizer
    BY <1>00, <2>1
  <2>3. VersionCounted' /\ edits' \in 0..MaxEdits
    BY <1>00, <2>1, <2>2, Bounds DEF TypeInv, VersionCounted
  <2> QED
    BY <1>0, <2>1, <2>3, WritingStep
<1>14. CASE DeleteConsole
  <2>1. /\ console' = [console EXCEPT !.life = IF console.finalizer THEN "deleting" ELSE "none",
                                      !.version = @ + 1]
        /\ console.life = "live"
        /\ UNCHANGED <<cached, objects, seen, cluster, proxyConfig, queued, timer, worker>>
        /\ UNCHANGED <<edits, faults>>
    BY <1>14 DEF DeleteConsole
  <2>2. console'.version = console.version + 1 /\ console'.life \in {"deleting", "none"}
    BY <1>00, <2>1
  <2>3. VersionCounted'
    BY <1>00, <2>1, <2>2 DEF TypeInv, VersionCounted
  <2> QED
    BY <1>0, <2>1, <2>3, WritingStep
<1>15. ASSUME NEW kind \in Kinds, DeleteObject(kind) PROVE TypeInv'
  <2>1. faults' \in 0..MaxFaults /\ objects' \subseteq Kinds
    BY <1>0, <1>15, Bounds DEF DeleteObject
  <2> QED
    BY <1>0, <1>15, <2>1, UnwrittenStep DEF DeleteObject
<1>16. CASE UNCHANGED vars
  BY <1>0, <1>16, UnwrittenStep DEF vars
<1> QED
  BY <1>1, <1>2, <1>3, <1>3a, <1>4, <1>5, <1>6, <1>7, <1>8, <1>9, <1>10, <1>11, <1>11a, <1>12,
     <1>13, <1>14, <1>15, <1>16
     DEF Next, Worker, Begin, Delete

\* The types of the console, its copies, the objects and the reconcile hold
\* for any specifications, served APIs and bounds; among them that a console is
\* written at most three times beside its edits, so that no reconcile adds or
\* removes the finalizer twice.
THEOREM ConsoleTypes == Spec => []TypeOK
<1>1. Spec => [](PairInv /\ TypeInv)
  BY PairInit, PairNext, TypeInit, TypeNext, PTL DEF Spec
<1> QED
  BY <1>1, TypesAreOK, PTL

=============================================================================
