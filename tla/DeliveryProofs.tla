--------------------------- MODULE DeliveryProofs ---------------------------
(***************************************************************************)
(* The session key and the revisions a Pod serves, for any number of edits, *)
(* of tampering hands and of faults.                                        *)
(*                                                                          *)
(* Neither property is inductive, and the types are not either: that a key  *)
(* drawn by a reconcile is within its type is a fact about how many were    *)
(* lost.  KeysAccounted says that every key ever written is in the Secret   *)
(* or has been counted as removed, and that a reconcile whose read of the   *)
(* Secret still stands would write the key the Secret has or the next one.  *)
(* RevisionOrder says that users, cache, reconcile, Secret, template, Pod   *)
(* and volume hold versions that follow one another; Trail adds the process *)
(* and closes the gaps that a deleted Secret, a lost volume or a stopped    *)
(* process leaves, so that nothing older than what has run can come back.   *)
(***************************************************************************)
EXTENDS Delivery, TLAPS

\* What is known of the session keys between the read of the Secret and the
\* write of it.
KeysAccounted ==
    /\ drops <= tampers
    /\ secret.key <= keys
    /\ secret.key # 0 => keys <= drops + 1
    /\ secret.key = 0 => keys <= drops
    /\ worker.pc = "write" /\ worker.fresh => worker.config.key = SessionKey

KeyInv == TypeOK /\ KeysAccounted

\* A reconcile in progress works for users no older than any it has worked for.
WorkerOrder ==
    /\ template.gen <= cachedUsers /\ cachedUsers <= users
    /\ secret.config.gen <= cachedUsers
    /\ worker.pc # "idle" =>
           /\ worker.gen <= cachedUsers
           /\ template.gen <= worker.gen
           /\ secret.config.gen <= worker.gen
    /\ worker.pc \in {"write", "deploy"} =>
           worker.config \in Configs /\ worker.config.gen = worker.gen
    /\ worker.pc = "deploy" /\ secret.config \in Configs => secret.config = worker.config

\* The Secret is written before the template that announces it.
SecretLeads == secret.config \in Configs => template.gen <= secret.config.gen

PodOrder ==
    /\ pod.template.gen <= template.gen
    /\ pod.volume \in Configs => pod.template.gen <= pod.volume.gen
    /\ pod.exists => pod.volume # None
    /\ pod.process # "down" \/ pod.armed => pod.exists

RevisionOrder == WorkerOrder /\ SecretLeads /\ PodOrder

RevisionInv == RevisionOrder /\ PodServesItsRevision

-----------------------------------------------------------------------------
(***************************************************************************)
(* The records of the model, so that the proofs below need not open them.   *)
(***************************************************************************)

\* A configuration is a version of the users and a key; the three contents
\* that are none differ from them and from one another.
LEMMA ConfigFacts ==
    /\ \A g \in Gens, k \in Keys :
           /\ [gen |-> g, key |-> k] \in Configs
           /\ [gen |-> g, key |-> k].gen = g
           /\ [gen |-> g, key |-> k].key = k
    /\ \A c \in Configs : c.gen \in Gens /\ c.key \in Keys
    /\ None.gen = -1 /\ Broken.gen = -2 /\ Edited.gen = -3
    /\ None \notin Configs /\ Broken \notin Configs /\ Edited \notin Configs
  <1>1. \A c \in Configs : c.gen \in Gens /\ c.key \in Keys
    BY DEF Configs
  <1>2. None.gen = -1 /\ Broken.gen = -2 /\ Edited.gen = -3
    BY DEF None, Broken, Edited
  <1>3. \A g \in Gens : g # -1 /\ g # -2 /\ g # -3
    BY DeliveryAssumption DEF Gens
  <1>4. \A g \in Gens, k \in Keys :
           /\ [gen |-> g, key |-> k] \in Configs
           /\ [gen |-> g, key |-> k].gen = g
           /\ [gen |-> g, key |-> k].key = k
    BY DEF Configs
  <1> QED BY <1>1, <1>2, <1>3, <1>4

\* What is in a Secret, a reconcile and a Pod.
LEMMA RecordFacts ==
    /\ NoSecret \in Secrets /\ NoSecret.key = 0 /\ NoSecret.config = None
    /\ \A s \in Secrets : s.exists \in BOOLEAN /\ s.key \in {0} \cup Keys /\ s.config \in Contents
    /\ IdleWorker \in Workers /\ IdleWorker.pc = "idle"
    /\ NoPod \in Pods /\ NoPod.template = None /\ NoPod.volume = None
    /\ ~NoPod.exists /\ NoPod.process = "down" /\ ~NoPod.armed
  <1>1. 0 \in Gens
    BY DeliveryAssumption DEF Gens
  <1>2. NoSecret \in Secrets /\ NoSecret.key = 0 /\ NoSecret.config = None
    BY DEF NoSecret, Secrets, Contents
  <1>3. \A s \in Secrets : s.exists \in BOOLEAN /\ s.key \in {0} \cup Keys /\ s.config \in Contents
    BY DEF Secrets
  <1>4. IdleWorker \in Workers /\ IdleWorker.pc = "idle"
    BY <1>1 DEF IdleWorker, Workers
  <1>5. /\ NoPod \in Pods /\ NoPod.template = None /\ NoPod.volume = None
        /\ ~NoPod.exists /\ NoPod.process = "down" /\ ~NoPod.armed
    BY DEF NoPod, Pods, Contents
  <1> QED BY <1>2, <1>3, <1>4, <1>5

\* What somebody else may leave of the Secret: its key or none, and never
\* another configuration of the operator.
LEMMA TamperFacts ==
    ASSUME NEW s \in Secrets, s = secret, NEW result \in Tampered
    PROVE  /\ result \in Secrets
           /\ result.key = 0 \/ result.key = s.key
           /\ result.config = s.config \/ result.config \in {None, Broken, Edited}
  <1> USE RecordFacts
  <1>1. CASE result = NoSecret
    BY <1>1
  <1>2. CASE result = [secret EXCEPT !.key = 0]
    BY <1>2 DEF Secrets
  <1>3. ASSUME NEW c \in {None, Broken, Edited}, result = [secret EXCEPT !.config = c]
        PROVE  /\ result \in Secrets /\ result.key = s.key
               /\ result.config \in {None, Broken, Edited}
    <2>1. c \in Contents
      BY DEF Contents
    <2> QED BY <1>3, <2>1 DEF Secrets
  <1>4. CASE result = [secret EXCEPT !.owned = ~@]
    BY <1>4 DEF Secrets
  <1> QED BY <1>1, <1>2, <1>3, <1>4 DEF Tampered

-----------------------------------------------------------------------------
(***************************************************************************)
(* Types and keys.                                                          *)
(***************************************************************************)
LEMMA KeyInit == Init => KeyInv
  <1> SUFFICES ASSUME Init PROVE KeyInv
    OBVIOUS
  <1>1. TypeOK
    <2>1. /\ users \in Gens /\ cachedUsers \in Gens /\ keys \in 0..MaxTampers + 1
          /\ drops \in 0..MaxTampers /\ tampers \in 0..MaxTampers /\ faults \in 0..MaxFaults
      BY DeliveryAssumption DEF Init, Gens
    <2>2. clientSecret \in BOOLEAN /\ queued \in BOOLEAN /\ issue \in BOOLEAN
      BY Zenon DEF Init
    <2> QED BY <2>1, <2>2, RecordFacts DEF Init, TypeOK
  <1>2. KeysAccounted
    BY RecordFacts DEF Init, KeysAccounted
  <1> QED BY <1>1, <1>2 DEF KeyInv

\* The key a reconcile settles on has its type: where there is none in the
\* Secret, every key so far was removed, and there were not that many hands.
LEMMA SessionKeyType == KeyInv => SessionKey \in Keys
  <1> SUFFICES ASSUME KeyInv PROVE SessionKey \in Keys
    OBVIOUS
  <1>1. CASE secret.key # 0
    BY <1>1, RecordFacts DEF KeyInv, TypeOK, SessionKey
  <1>2. CASE secret.key = 0
    <2>1. keys + 1 \in 1..MaxTampers + 1
      BY <1>2, DeliveryAssumption DEF KeyInv, TypeOK, KeysAccounted
    <2> QED BY <1>2, <2>1 DEF SessionKey, Keys
  <1> QED BY <1>1, <1>2

\* The parts of KeyInv that no action of the Pod disturbs.
LEMMA KeyInvButPod ==
    ASSUME KeyInv, pod' \in Pods, faults' \in 0..MaxFaults,
           UNCHANGED <<users, cachedUsers, clientSecret, secret, template, events, queued,
                       worker, issue, keys, drops, tampers>>
    PROVE  KeyInv'
  BY DEF KeyInv, TypeOK, KeysAccounted, SessionKey

\* Every step keeps the types, and the keys accounted for.
LEMMA KeyNext == KeyInv /\ [Next]_vars => KeyInv'
  <1> SUFFICES ASSUME KeyInv, [Next]_vars PROVE KeyInv'
    OBVIOUS
  <1> USE DeliveryAssumption, RecordFacts
  <1>t. /\ TypeOK /\ KeysAccounted
        /\ worker \in Workers /\ secret \in Secrets /\ pod \in Pods
    BY DEF KeyInv, TypeOK
  <1>1. CASE Begin
    <2>1. worker' \in Workers /\ worker'.pc = "secret"
      BY <1>t, <1>1 DEF Begin, TypeOK, Workers, IdleWorker
    <2> QED BY <1>t, <1>1, <2>1 DEF Begin, KeyInv, TypeOK, KeysAccounted, SessionKey
  <1>2. CASE ReportIssue \/ RefuseSecret
    <2>1. /\ worker' = IdleWorker
          /\ UNCHANGED <<users, cachedUsers, clientSecret, secret, template, events, pod, keys,
                         drops, tampers>>
      BY <1>2 DEF ReportIssue, RefuseSecret, Ends
    <2>2. faults' \in 0..MaxFaults
      <3>1. /\ faults \in 0..MaxFaults
            /\ faults' = faults \/ (faults < MaxFaults /\ faults' = faults + 1)
        BY <1>t, <1>2, Zenon DEF ReportIssue, RefuseSecret, TypeOK
      <3> QED BY <3>1
    <2>3. issue' \in BOOLEAN /\ queued' \in BOOLEAN
      BY <1>t, <1>2, Zenon DEF ReportIssue, RefuseSecret, Ends, TypeOK
    <2> QED BY <1>t, <2>1, <2>2, <2>3 DEF KeyInv, TypeOK, KeysAccounted, SessionKey
  <1>3. CASE ReadSecret
    <2> DEFINE config == [gen |-> worker.gen, key |-> SessionKey]
    <2>1. config \in Configs /\ config.key = SessionKey
      <3>1. worker.gen \in Gens
        BY <1>t DEF Workers
      <3> QED BY <3>1, SessionKeyType, ConfigFacts
    <2> HIDE DEF config
    <2>2. /\ worker' \in Workers /\ worker'.config = config
          /\ worker'.pc \in {"write", "deploy"}
      <3>1. worker' = [worker EXCEPT !.pc = IF secret.config = config /\ secret.key = config.key
                                             THEN "deploy" ELSE "write",
                                      !.found = secret.exists, !.fresh = TRUE, !.config = config]
        BY <1>3 DEF ReadSecret, config
      <3>2. secret.exists \in BOOLEAN
        BY <1>t
      <3> QED BY <1>t, <2>1, <3>1, <3>2 DEF Workers
    <2>3. UNCHANGED <<secret, keys, drops, tampers>> /\ SessionKey' = SessionKey
      BY <1>3 DEF ReadSecret, SessionKey
    <2>4. KeysAccounted'
      BY <1>t, <2>1, <2>2, <2>3 DEF KeysAccounted
    <2>5. TypeOK'
      BY <1>t, <1>3, <2>2 DEF ReadSecret, TypeOK
    <2> QED BY <2>4, <2>5 DEF KeyInv
  <1>4. CASE WriteSecret /\ worker.fresh
    <2>1. worker.config.key = SessionKey /\ SessionKey \in Keys
      BY <1>t, <1>4, SessionKeyType DEF WriteSecret, KeysAccounted
    <2>2. worker.config \in Configs
      <3>1. None.key = 0 /\ 0 \notin Keys
        BY DEF None, Keys
      <3> QED BY <1>t, <2>1, <3>1 DEF Workers
    <2>3. secret' \in Secrets /\ secret'.key = SessionKey /\ secret'.key # 0
      <3>1. secret' = [exists |-> TRUE, owned |-> TRUE, key |-> SessionKey,
                       config |-> worker.config]
        BY <1>4, <2>1 DEF WriteSecret
      <3>2. worker.config \in Contents /\ SessionKey \in {0} \cup Keys /\ SessionKey # 0
        BY <2>1, <2>2 DEF Contents, Keys
      <3> QED BY <3>1, <3>2 DEF Secrets
    <2>4. worker' \in Workers /\ worker'.pc = "deploy"
      BY <1>t, <1>4 DEF WriteSecret, Goto, Workers
    <2>5. /\ keys' = IF SessionKey > keys THEN SessionKey ELSE keys
          /\ UNCHANGED <<drops, tampers>>
      BY <1>4, <2>1 DEF WriteSecret
    <2>6. keys' \in Nat /\ keys' <= drops + 1 /\ SessionKey <= keys'
      BY <1>t, <2>1, <2>5 DEF TypeOK, KeysAccounted, SessionKey, Keys
    <2>7. KeysAccounted'
      BY <1>t, <2>3, <2>4, <2>5, <2>6 DEF KeysAccounted
    <2>8. keys' \in 0..MaxTampers + 1
      BY <1>t, <2>6 DEF TypeOK
    <2>9. TypeOK'
      BY <1>t, <1>4, <2>3, <2>4, <2>8 DEF WriteSecret, TypeOK
    <2> QED BY <2>7, <2>9 DEF KeyInv
  <1>5. CASE WriteSecret /\ ~worker.fresh
    BY <1>t, <1>5 DEF WriteSecret, Ends, KeyInv, TypeOK, KeysAccounted, SessionKey
  <1>6. CASE ReconcileDeployment
    <2>1. template' \in Configs \cup {None}
      BY <1>t, <1>6 DEF ReconcileDeployment, Workers
    <2> QED BY <1>t, <1>6, <2>1
            DEF ReconcileDeployment, Ends, KeyInv, TypeOK, KeysAccounted, SessionKey
  <1>7. CASE FailReconcile \/ RestartManager
    <2>1. faults' \in 0..MaxFaults
      <3>1. faults < MaxFaults /\ faults' = faults + 1 /\ faults \in 0..MaxFaults
        BY <1>t, <1>7, Zenon DEF FailReconcile, RestartManager, TypeOK
      <3> QED BY <3>1
    <2>2. queued' \in BOOLEAN
      <3>1. queued' = TRUE
        BY <1>7 DEF FailReconcile, RestartManager, Ends
      <3> QED BY <3>1
    <2>3. /\ cachedUsers' \in Gens /\ events' \subseteq {"users", "secret", "deployment"}
          /\ worker' = IdleWorker
          /\ UNCHANGED <<users, clientSecret, secret, template, issue, pod, keys, drops, tampers>>
      BY <1>t, <1>7 DEF FailReconcile, RestartManager, Ends, TypeOK
    <2> QED BY <1>t, <2>1, <2>2, <2>3 DEF KeyInv, TypeOK, KeysAccounted, SessionKey
  <1>8. ASSUME NEW kind \in {"users", "secret", "deployment"}, Deliver(kind) PROVE KeyInv'
    BY <1>t, <1>8 DEF Deliver, KeyInv, TypeOK, KeysAccounted, SessionKey
  <1>9. CASE StopPod
    BY <1>t, <1>9, KeyInvButPod DEF StopPod, TypeOK
  <1>10. CASE StartPod
    <2>1. template \in Configs \cup {None} /\ secret.config \in Contents
      BY <1>t DEF TypeOK
    <2>2. pod' \in Pods
      BY <1>10, <2>1 DEF StartPod, Pods, NoPod
    <2> QED BY <1>t, <1>10, <2>2, KeyInvButPod DEF StartPod, TypeOK
  <1>11. CASE SyncVolume
    <2>1. secret.config \in Contents
      BY <1>t
    <2>2. pod' \in Pods
      BY <1>t, <1>11, <2>1 DEF SyncVolume, Pods
    <2> QED BY <1>t, <1>11, <2>2, KeyInvButPod DEF SyncVolume, TypeOK
  <1>12. CASE Load
    <2>1. pod' \in Pods
      BY <1>t, <1>12 DEF Load, Pods
    <2> QED BY <1>t, <1>12, <2>1, KeyInvButPod DEF Load, TypeOK
  <1>13. CASE StartWatch
    <2>1. pod' \in Pods
      BY <1>t, <1>13 DEF StartWatch, Pods
    <2> QED BY <1>t, <1>13, <2>1, KeyInvButPod DEF StartWatch, TypeOK
  <1>w. CASE FailWatch
    <2>1. pod' \in Pods
      BY <1>t, <1>w DEF FailWatch, Pods
    <2>2. faults' \in 0..MaxFaults
      BY <1>t, <1>w DEF FailWatch, TypeOK
    <2> QED BY <1>w, <2>1, <2>2, KeyInvButPod DEF FailWatch
  <1>14. CASE Reload
    <2>1. pod' \in Pods
      BY <1>t, <1>14 DEF Reload, Pods
    <2> QED BY <1>t, <1>14, <2>1, KeyInvButPod DEF Reload, TypeOK
  <1>15. CASE CrashProcess
    <2>1. pod' \in Pods
      <3>1. None \in Contents
        BY DEF Contents
      <3> QED BY <1>t, <1>15, <3>1 DEF CrashProcess, Pods
    <2>2. faults' \in 0..MaxFaults
      BY <1>t, <1>15 DEF CrashProcess, TypeOK
    <2> QED BY <1>15, <2>1, <2>2, KeyInvButPod DEF CrashProcess
  <1>16. CASE EditUsers
    BY <1>t, <1>16 DEF EditUsers, KeyInv, TypeOK, KeysAccounted, SessionKey, Gens
  <1>17. CASE ProvideClientSecret
    BY <1>t, <1>17 DEF ProvideClientSecret, KeyInv, TypeOK, KeysAccounted, SessionKey
  <1>18. ASSUME NEW result \in Tampered, Tamper(result) PROVE KeyInv'
    <2>1. /\ secret' = result /\ secret' \in Secrets
          /\ secret'.key = 0 \/ secret'.key = secret.key
      BY <1>t, <1>18, TamperFacts DEF Tamper
    <2>2. worker' \in Workers /\ ~worker'.fresh
      BY <1>t, <1>18 DEF Tamper, Workers
    <2>3. /\ tampers' = tampers + 1 /\ tampers < MaxTampers /\ keys' = keys
          /\ drops' = IF secret.key # 0 /\ secret'.key = 0 THEN drops + 1 ELSE drops
      BY <1>18, <2>1 DEF Tamper
    <2>4. KeysAccounted'
      BY <1>t, <2>1, <2>2, <2>3 DEF KeysAccounted, TypeOK, Keys
    <2>5. tampers' \in 0..MaxTampers /\ drops' \in 0..MaxTampers
      BY <1>t, <2>3 DEF KeysAccounted, TypeOK
    <2>6. TypeOK'
      BY <1>t, <1>18, <2>1, <2>2, <2>5 DEF Tamper, TypeOK
    <2> QED BY <2>4, <2>6 DEF KeyInv
  <1>19. CASE UNCHANGED vars
    BY <1>t, <1>19 DEF vars, KeyInv, TypeOK, KeysAccounted, SessionKey
  <1> QED
    BY <1>1, <1>2, <1>3, <1>4, <1>5, <1>6, <1>7, <1>8, <1>9, <1>10, <1>11, <1>12, <1>13, <1>14,
       <1>15, <1>16, <1>17, <1>18, <1>19, <1>w DEF Next, Worker

\* Delivery.TypeOK: the session keys drawn by reconciles, in particular, stay
\* within their bound, however many are removed and drawn again.
THEOREM DeliveryTypes == Spec => []TypeOK
  <1>1. KeyInv => TypeOK
    BY DEF KeyInv
  <1> QED BY KeyInit, KeyNext, <1>1, PTL DEF Spec

\* Delivery.KeysOnlyHealed: a reconcile draws a session key only for one that
\* somebody removed, wherever its read and its write fall.
THEOREM SessionKeysAreKept == Spec => []KeysOnlyHealed
  <1>1. KeyInv => KeysOnlyHealed
    <2> SUFFICES ASSUME KeyInv PROVE KeysOnlyHealed
      OBVIOUS
    <2>1. keys \in Int /\ drops \in Int
      BY DEF KeyInv, TypeOK
    <2> QED BY <2>1 DEF KeyInv, KeysAccounted, KeysOnlyHealed
  <1> QED BY KeyInit, KeyNext, <1>1, PTL DEF Spec

-----------------------------------------------------------------------------
(***************************************************************************)
(* Revisions.                                                               *)
(***************************************************************************)

\* The version in whatever a Secret, a template or a volume holds.
LEMMA ContentGen ==
    /\ \A g \in Gens : g \in Int /\ 0 <= g
    /\ \A c \in Contents : c.gen \in Int
    /\ \A c \in Configs \cup {None} : c.gen \in Int /\ -1 <= c.gen
  <1>1. \A g \in Gens : g \in Int /\ 0 <= g
    BY DeliveryAssumption DEF Gens
  <1> QED BY <1>1, ConfigFacts DEF Contents

\* The versions in the variables are integers.
LEMMA GenFacts ==
    ASSUME TypeOK
    PROVE  /\ users \in Int /\ cachedUsers \in Int /\ template.gen \in Int
           /\ secret.config.gen \in Int /\ worker.gen \in Int
           /\ pod.template.gen \in Int /\ pod.volume.gen \in Int
           /\ -1 <= template.gen /\ 0 <= cachedUsers
  <1>1. users \in Gens /\ cachedUsers \in Gens /\ template \in Configs \cup {None}
    BY DEF TypeOK
  <1>2. secret.config \in Contents /\ worker.gen \in Gens
    BY RecordFacts DEF TypeOK, Workers
  <1>3. pod.template \in Configs \cup {None} /\ pod.volume \in Contents
    BY DEF TypeOK, Pods
  <1> QED BY <1>1, <1>2, <1>3, ContentGen

\* Before the first rendering there is no revision to be behind.
LEMMA RevisionInit == Init => RevisionInv
  <1> SUFFICES ASSUME Init PROVE RevisionInv
    OBVIOUS
  <1>1. RevisionOrder
    BY RecordFacts, ConfigFacts DEF Init, RevisionOrder, WorkerOrder, SecretLeads, PodOrder
  <1> QED BY <1>1, RecordFacts DEF Init, RevisionInv, PodServesItsRevision

\* The actions of the Pod leave the operator's side alone.
LEMMA PodStep ==
    ASSUME WorkerOrder, SecretLeads,
           UNCHANGED <<users, cachedUsers, secret, template, worker>>
    PROVE  WorkerOrder' /\ SecretLeads'
  BY DEF WorkerOrder, SecretLeads

\* The operator's actions leave the Pod alone; the template only advances.
LEMMA OperatorStep ==
    ASSUME TypeOK, TypeOK', PodOrder, PodServesItsRevision, pod' = pod,
           template.gen <= template'.gen
    PROVE  PodOrder' /\ PodServesItsRevision'
  <1>1. PodOrder'
    <2>1. template.gen \in Int /\ template'.gen \in Int /\ pod.template.gen \in Int
      BY GenFacts, ContentGen DEF TypeOK
    <2> QED BY <2>1 DEF PodOrder
  <1>2. PodServesItsRevision'
    BY DEF PodServesItsRevision
  <1> QED BY <1>1, <1>2

\* Every step keeps the order of the revisions.
LEMMA RevisionNext == TypeOK /\ TypeOK' /\ RevisionInv /\ [Next]_vars => RevisionInv'
  <1> SUFFICES ASSUME TypeOK, TypeOK', RevisionInv, [Next]_vars PROVE RevisionInv'
    OBVIOUS
  <1> USE GenFacts
  <1>t. /\ WorkerOrder /\ SecretLeads /\ PodOrder /\ PodServesItsRevision
        /\ worker \in Workers /\ secret \in Secrets /\ pod \in Pods
        /\ template \in Configs \cup {None}
    BY DEF RevisionInv, RevisionOrder, TypeOK
  <1>w. SUFFICES WorkerOrder' /\ SecretLeads' /\ PodOrder' /\ PodServesItsRevision'
    BY DEF RevisionInv, RevisionOrder
  <1>1. CASE Begin
    <2>1. worker'.pc = "secret" /\ worker'.gen = cachedUsers
      BY <1>1 DEF Begin, IdleWorker
    <2>2. WorkerOrder' /\ SecretLeads'
      BY <1>t, <1>1, <2>1 DEF Begin, WorkerOrder, SecretLeads
    <2> QED BY <1>t, <1>1, <2>2, OperatorStep DEF Begin
  <1>2. CASE ReportIssue \/ RefuseSecret \/ FailReconcile \/ RestartManager
             \/ (WriteSecret /\ ~worker.fresh)
    <2>1. /\ worker' = IdleWorker /\ UNCHANGED <<users, secret, template, pod>>
          /\ cachedUsers' \in {cachedUsers, users}
      BY <1>2 DEF ReportIssue, RefuseSecret, FailReconcile, RestartManager, WriteSecret, Ends
    <2>2. WorkerOrder' /\ SecretLeads'
      BY <1>t, <2>1, RecordFacts DEF WorkerOrder, SecretLeads
    <2> QED BY <1>t, <2>1, <2>2, OperatorStep
  <1>3. CASE ReadSecret
    <2> DEFINE config == [gen |-> worker.gen, key |-> SessionKey]
    <2>1. config.gen = worker.gen
      OBVIOUS
    <2> HIDE DEF config
    <2>2. /\ worker'.config = config /\ worker'.gen = worker.gen
          /\ worker'.pc = IF secret.config = config /\ secret.key = config.key
                           THEN "deploy" ELSE "write"
      BY <1>t, <1>3 DEF ReadSecret, Workers, config
    <2>3. UNCHANGED <<users, cachedUsers, secret, template, pod>> /\ worker.pc # "idle"
      BY <1>3 DEF ReadSecret
    <2>4. worker'.config \in Configs
      <3>1. worker' \in Workers /\ config # None
        BY <1>t, <2>1, ConfigFacts, ContentGen DEF TypeOK, Workers
      <3> QED BY <2>2, <3>1 DEF Workers
    <2>5. WorkerOrder' /\ SecretLeads'
      BY <1>t, <2>1, <2>2, <2>3, <2>4 DEF WorkerOrder, SecretLeads
    <2> QED BY <1>t, <2>3, <2>5, OperatorStep
  <1>4. CASE WriteSecret /\ worker.fresh
    <2>1. secret'.config = worker.config /\ worker.pc = "write"
      BY <1>4 DEF WriteSecret
    <2>2. worker'.pc = "deploy" /\ worker'.gen = worker.gen /\ worker'.config = worker.config
      BY <1>t, <1>4 DEF WriteSecret, Goto, Workers
    <2>3. UNCHANGED <<users, cachedUsers, template, pod>>
      BY <1>4 DEF WriteSecret
    <2>4. WorkerOrder' /\ SecretLeads'
      BY <1>t, <2>1, <2>2, <2>3 DEF WorkerOrder, SecretLeads
    <2> QED BY <1>t, <2>3, <2>4, OperatorStep
  <1>5. CASE ReconcileDeployment
    <2>1. /\ worker.pc = "deploy" /\ template' = worker.config /\ worker' = IdleWorker
          /\ UNCHANGED <<users, cachedUsers, secret, pod>>
      BY <1>5 DEF ReconcileDeployment, Ends
    <2>2. template.gen <= template'.gen /\ template'.gen <= cachedUsers
      BY <1>t, <2>1 DEF WorkerOrder
    <2>3. WorkerOrder' /\ SecretLeads'
      BY <1>t, <2>1, <2>2, RecordFacts DEF WorkerOrder, SecretLeads
    <2> QED BY <1>t, <2>1, <2>2, <2>3, OperatorStep
  <1>6. CASE EditUsers \/ ProvideClientSecret
             \/ \E kind \in {"users", "secret", "deployment"} : Deliver(kind)
    <2>1. /\ UNCHANGED <<secret, template, worker, pod>>
          /\ users' \in {users, users + 1} /\ cachedUsers' \in {cachedUsers, users}
      BY <1>6 DEF EditUsers, ProvideClientSecret, Deliver
    <2>2. WorkerOrder' /\ SecretLeads'
      BY <1>t, <2>1 DEF WorkerOrder, SecretLeads
    <2> QED BY <1>t, <2>1, <2>2, OperatorStep
  <1>7. ASSUME NEW result \in Tampered, Tamper(result)
        PROVE  WorkerOrder' /\ SecretLeads' /\ PodOrder' /\ PodServesItsRevision'
    <2>1. /\ UNCHANGED <<users, cachedUsers, template, pod>>
          /\ worker'.pc = worker.pc /\ worker'.gen = worker.gen
          /\ worker'.config = worker.config
      BY <1>t, <1>7 DEF Tamper, Workers
    <2>2. secret'.config = secret.config \/ secret'.config \in {None, Broken, Edited}
      BY <1>t, <1>7, TamperFacts DEF Tamper
    <2>3. WorkerOrder' /\ SecretLeads'
      <3>1. CASE secret'.config = secret.config
        BY <1>t, <2>1, <3>1 DEF WorkerOrder, SecretLeads
      <3>2. CASE secret'.config \in {None, Broken, Edited}
        <4>1. secret'.config \notin Configs /\ secret'.config.gen \in {-1, -2, -3}
          BY <3>2, ConfigFacts
        <4> QED BY <1>t, <2>1, <4>1, ContentGen DEF WorkerOrder, SecretLeads, TypeOK, Workers
      <3> QED BY <2>2, <3>1, <3>2
    <2> QED BY <1>t, <2>1, <2>3, OperatorStep
  <1>8. CASE StopPod \/ CrashProcess
    <2>1. /\ UNCHANGED <<users, cachedUsers, secret, template, worker>>
          /\ \/ pod' = NoPod
             \/ pod' = [pod EXCEPT !.process = "down", !.runtime = None, !.armed = FALSE]
      BY <1>8 DEF StopPod, CrashProcess
    <2>2. WorkerOrder' /\ SecretLeads'
      BY <1>t, <2>1, PodStep
    <2>3. CASE pod' = NoPod
      <3>1. PodOrder' /\ PodServesItsRevision'
        BY <2>1, <2>3, RecordFacts, ConfigFacts DEF PodOrder, PodServesItsRevision
      <3> QED BY <2>2, <3>1
    <2>4. CASE pod' # NoPod
      <3>1. /\ pod'.template = pod.template /\ pod'.volume = pod.volume
            /\ pod'.exists = pod.exists /\ pod'.process = "down" /\ ~pod'.armed
        BY <1>t, <2>1, <2>4 DEF Pods
      <3>2. PodOrder' /\ PodServesItsRevision'
        BY <1>t, <2>1, <3>1 DEF PodOrder, PodServesItsRevision
      <3> QED BY <2>2, <3>2
    <2> QED BY <2>3, <2>4
  <1>9. CASE StartPod
    <2>1. /\ UNCHANGED <<users, cachedUsers, secret, template, worker>>
          /\ secret.config # None
      BY <1>9 DEF StartPod
    <2>2. /\ pod'.template = template /\ pod'.volume = secret.config
          /\ pod'.exists /\ pod'.process = "down"
      BY <1>9 DEF StartPod, NoPod
    <2>3. PodOrder' /\ PodServesItsRevision'
      BY <1>t, <2>1, <2>2 DEF PodOrder, PodServesItsRevision, SecretLeads
    <2> QED BY <1>t, <2>1, <2>3, PodStep
  <1>10. CASE SyncVolume
    <2>1. /\ UNCHANGED <<users, cachedUsers, secret, template, worker>>
          /\ secret.config # None /\ pod.exists
      BY <1>10 DEF SyncVolume
    <2>2. /\ pod'.template = pod.template /\ pod'.volume = secret.config
          /\ pod'.exists = pod.exists /\ pod'.process = pod.process /\ pod'.runtime = pod.runtime
      BY <1>t, <1>10 DEF SyncVolume, Pods
    <2>3. PodOrder' /\ PodServesItsRevision'
      BY <1>t, <2>1, <2>2 DEF PodOrder, PodServesItsRevision, SecretLeads
    <2> QED BY <1>t, <2>1, <2>3, PodStep
  <1>11. CASE Load \/ Reload
    <2>1. /\ UNCHANGED <<users, cachedUsers, secret, template, worker>>
          /\ pod.exists
      BY <1>t, <1>11 DEF Load, Reload, PodOrder
    <2>2. /\ pod'.template = pod.template /\ pod'.volume = pod.volume /\ pod'.exists = pod.exists
          /\ \/ pod.volume # Broken /\ pod'.runtime = pod.volume
             \/ pod'.process = pod.process /\ pod'.runtime = pod.runtime
      BY <1>t, <1>11 DEF Load, Reload, Pods
    <2>3. PodOrder'
      BY <1>t, <2>1, <2>2 DEF PodOrder
    <2>4. PodServesItsRevision'
      <3>1. CASE pod.volume # Broken /\ pod'.runtime = pod.volume
        <4>1. pod.volume \in Configs \/ pod.volume = Edited
          BY <1>t, <2>1, <3>1 DEF PodOrder, Pods, Contents
        <4> QED BY <1>t, <2>2, <3>1, <4>1 DEF PodServesItsRevision, PodOrder
      <3>2. CASE pod'.process = pod.process /\ pod'.runtime = pod.runtime
        BY <1>t, <2>2, <3>2 DEF PodServesItsRevision
      <3> QED BY <2>2, <3>1, <3>2
    <2> QED BY <1>t, <2>1, <2>3, <2>4, PodStep
  <1>12. CASE StartWatch \/ FailWatch
    <2>1. /\ UNCHANGED <<users, cachedUsers, secret, template, worker>>
          /\ pod.process # "down"
      BY <1>12 DEF StartWatch, FailWatch
    <2>2. /\ pod'.template = pod.template /\ pod'.volume = pod.volume /\ pod'.exists = pod.exists
          /\ pod'.runtime = pod.runtime
      BY <1>t, <1>12 DEF StartWatch, FailWatch, Pods
    <2>3. PodOrder' /\ PodServesItsRevision'
      BY <1>t, <2>1, <2>2 DEF PodOrder, PodServesItsRevision
    <2> QED BY <1>t, <2>1, <2>3, PodStep
  <1>13. CASE UNCHANGED vars
    <2>1. UNCHANGED <<users, cachedUsers, secret, template, worker, pod>>
      BY <1>13 DEF vars
    <2>2. PodOrder' /\ PodServesItsRevision'
      BY <1>t, <2>1 DEF PodOrder, PodServesItsRevision
    <2> QED BY <1>t, <2>1, <2>2, PodStep
  <1>14. CASE WriteSecret
    BY <1>2, <1>4, <1>14
  <1> QED
    BY <1>1, <1>2, <1>3, <1>14, <1>5, <1>6, <1>7, <1>8, <1>9, <1>10, <1>11, <1>12, <1>13
    DEF Next, Worker

\* Delivery.PodServesItsRevision: a proxy never works with users older than
\* the revision its Pod announces, for any race of Secret, volume, template
\* and process.
THEOREM PodsServeTheirRevision == Spec => []PodServesItsRevision
  <1>1. RevisionInv => PodServesItsRevision
    BY DEF RevisionInv
  <1> QED BY DeliveryTypes, RevisionInit, RevisionNext, <1>1, PTL DEF Spec

-----------------------------------------------------------------------------
(***************************************************************************)
(* Old users do not come back.                                              *)
(***************************************************************************)

\* Of two configurations, the second was rendered from users at least as new.
Follows(c, d) == c \in Configs /\ d \in Configs => c.gen <= d.gen

\* The file the proxy works with, the volume and the Secret follow one
\* another where somebody else has not been at them; and where somebody has,
\* the cache and the reconcile in progress still hold users as new as the
\* Pod's, so that the Secret is healed with nothing older.
Trail ==
    /\ Follows(pod.runtime, pod.volume)
    /\ Follows(pod.runtime, secret.config)
    /\ Follows(pod.volume, secret.config)
    /\ pod.runtime.gen <= cachedUsers /\ pod.volume.gen <= cachedUsers
    /\ worker.pc # "idle" => pod.runtime.gen <= worker.gen /\ pod.volume.gen <= worker.gen

\* Wherever the console's users are held, they are not older than g.
HeldSince(g) ==
    /\ pod.runtime \in Configs => g <= pod.runtime.gen
    /\ pod.volume \in Configs => g <= pod.volume.gen
    /\ secret.config \in Configs => g <= secret.config.gen
    /\ g <= cachedUsers
    /\ worker.pc # "idle" => g <= worker.gen

\* The proxy works with version g of the users; it works with none older.
RunsWith(g) == pod.runtime \in Configs /\ pod.runtime.gen = g
NeverBefore(g) == pod.runtime \in Configs => g <= pod.runtime.gen

\* The contents of those places.
LEMMA TrailTypes ==
    ASSUME TypeOK
    PROVE  /\ pod.runtime \in Contents /\ pod.runtime.gen \in Int
           /\ pod.volume \in Contents /\ secret.config \in Contents
           /\ worker.gen \in Gens
  <1>1. pod.runtime \in Contents /\ pod.volume \in Contents
    BY DEF TypeOK, Pods
  <1>2. secret.config \in Contents /\ worker.gen \in Gens
    BY RecordFacts DEF TypeOK, Workers
  <1> QED BY <1>1, <1>2, ContentGen

\* Nor anything that could be older than something else.
LEMMA TrailInit == Init => Trail
  <1> SUFFICES ASSUME Init PROVE Trail
    OBVIOUS
  <1>1. pod.runtime = None /\ pod.volume = None /\ worker.pc = "idle" /\ cachedUsers = 0
    BY DEF Init, NoPod, IdleWorker
  <1> QED BY <1>1, ConfigFacts DEF Trail, Follows

\* A step of the operator, or of somebody else with the Secret: the Pod is
\* left alone; the Secret keeps its configuration, loses it, or gets the one
\* of the reconcile; a reconcile begins with the users in the cache, and the
\* cache only advances.
LEMMA OperatorTrail ==
    ASSUME TypeOK, TypeOK', WorkerOrder, pod' = pod, cachedUsers <= cachedUsers',
           \/ secret'.config = secret.config
           \/ secret'.config \notin Configs
           \/ worker.pc = "write" /\ secret'.config = worker.config,
           \/ worker'.pc = "idle"
           \/ worker.pc # "idle" /\ worker'.gen = worker.gen
           \/ worker'.gen = cachedUsers
    PROVE  /\ Trail => Trail'
           /\ \A g \in Gens : HeldSince(g) => HeldSince(g)'
  <1> USE GenFacts, TrailTypes, ContentGen
  <1>1. worker.pc = "write" => worker.config \in Configs /\ worker.config.gen = worker.gen
    BY DEF WorkerOrder
  <1>2. /\ cachedUsers' \in Int /\ worker'.gen \in Int /\ worker.gen \in Int
        /\ cachedUsers \in Int /\ secret.config.gen \in Int /\ secret'.config.gen \in Int
        /\ pod.runtime.gen \in Int /\ pod.volume.gen \in Int
    <2>1. TypeOK' => cachedUsers' \in Gens /\ worker' \in Workers /\ secret' \in Secrets
      BY DEF TypeOK
    <2>2. worker'.gen \in Gens
      BY <2>1 DEF Workers
    <2> QED BY <2>1, <2>2, RecordFacts
  <1>3. Trail => Trail'
    BY <1>1, <1>2 DEF Trail, Follows
  <1>4. ASSUME NEW g \in Gens, HeldSince(g) PROVE HeldSince(g)'
    BY <1>1, <1>2, <1>4 DEF HeldSince
  <1> QED BY <1>3, <1>4

\* A step of the Pod: the operator's side is left alone; the volume keeps its
\* file, loses it, or gets the Secret's; the process keeps its configuration,
\* loses it, or reads the volume.
LEMMA PodTrail ==
    ASSUME TypeOK, TypeOK', WorkerOrder, UNCHANGED <<cachedUsers, secret, worker>>,
           \/ pod'.volume \in {pod.volume, None} /\ pod'.runtime \in {pod.runtime, pod.volume, None}
           \/ pod'.volume = secret.config /\ pod'.runtime \in {pod.runtime, None}
    PROVE  /\ Trail => Trail'
           /\ \A g \in Gens : HeldSince(g) => HeldSince(g)'
  <1> USE GenFacts, TrailTypes, ContentGen, ConfigFacts
  <1>1. /\ cachedUsers \in Int /\ worker.gen \in Int /\ secret.config.gen \in Int
        /\ pod.runtime.gen \in Int /\ pod.volume.gen \in Int
        /\ 0 <= cachedUsers /\ 0 <= worker.gen
    OBVIOUS
  <1>2. /\ secret.config.gen <= cachedUsers
        /\ worker.pc # "idle" => secret.config.gen <= worker.gen
    BY DEF WorkerOrder
  <1>3. None.gen = -1 /\ None \notin Configs
    OBVIOUS
  <1>4. Trail => Trail'
    BY <1>1, <1>2, <1>3 DEF Trail, Follows
  <1>5. ASSUME NEW g \in Gens, HeldSince(g) PROVE HeldSince(g)'
    BY <1>1, <1>3, <1>5 DEF HeldSince
  <1> QED BY <1>4, <1>5

\* Every step keeps the trail, and what the places have reached.
LEMMA TrailNext ==
    ASSUME TypeOK, TypeOK', RevisionInv, [Next]_vars
    PROVE  /\ Trail => Trail'
           /\ \A g \in Gens : HeldSince(g) => HeldSince(g)'
  <1> USE GenFacts
  <1>t. /\ WorkerOrder /\ PodOrder
        /\ worker \in Workers /\ secret \in Secrets /\ pod \in Pods
    BY DEF RevisionInv, RevisionOrder, TypeOK
  <1>1. CASE Begin
    <2>1. worker'.gen = cachedUsers /\ UNCHANGED <<secret, pod, cachedUsers>>
      BY <1>1 DEF Begin, IdleWorker
    <2> QED BY <1>t, <2>1, OperatorTrail
  <1>2. CASE \/ ReportIssue \/ RefuseSecret \/ FailReconcile \/ RestartManager
             \/ ReconcileDeployment \/ (WriteSecret /\ ~worker.fresh)
    <2>1. /\ worker' = IdleWorker /\ UNCHANGED <<secret, pod>>
          /\ cachedUsers' \in {cachedUsers, users}
      BY <1>2 DEF ReportIssue, RefuseSecret, FailReconcile, RestartManager, ReconcileDeployment,
         WriteSecret, Ends
    <2>2. cachedUsers <= cachedUsers' /\ worker'.pc = "idle"
      BY <1>t, <2>1, RecordFacts DEF WorkerOrder
    <2> QED BY <1>t, <2>1, <2>2, OperatorTrail
  <1>3. CASE ReadSecret
    <2>1. /\ worker.pc # "idle" /\ worker'.gen = worker.gen
          /\ UNCHANGED <<secret, pod, cachedUsers>>
      BY <1>t, <1>3 DEF ReadSecret, Workers
    <2> QED BY <1>t, <2>1, OperatorTrail
  <1>4. CASE WriteSecret /\ worker.fresh
    <2>1. /\ worker.pc = "write" /\ secret'.config = worker.config
          /\ worker'.gen = worker.gen /\ UNCHANGED <<pod, cachedUsers>>
      BY <1>t, <1>4 DEF WriteSecret, Goto, Workers
    <2> QED BY <1>t, <2>1, OperatorTrail
  <1>5. CASE EditUsers \/ ProvideClientSecret
             \/ \E kind \in {"users", "secret", "deployment"} : Deliver(kind)
    <2>1. /\ UNCHANGED <<secret, worker, pod>> /\ cachedUsers' \in {cachedUsers, users}
      BY <1>5 DEF EditUsers, ProvideClientSecret, Deliver
    <2>2. cachedUsers <= cachedUsers'
      BY <1>t, <2>1 DEF WorkerOrder
    <2> QED BY <1>t, <2>1, <2>2, OperatorTrail
  <1>6. ASSUME NEW result \in Tampered, Tamper(result)
        PROVE  /\ Trail => Trail'
               /\ \A g \in Gens : HeldSince(g) => HeldSince(g)'
    <2>1. /\ UNCHANGED <<cachedUsers, pod>>
          /\ worker'.pc = worker.pc /\ worker'.gen = worker.gen
      BY <1>t, <1>6 DEF Tamper, Workers
    <2>2. secret'.config = secret.config \/ secret'.config \notin Configs
      <3>1. secret'.config = secret.config \/ secret'.config \in {None, Broken, Edited}
        BY <1>t, <1>6, TamperFacts DEF Tamper
      <3> QED BY <3>1, ConfigFacts
    <2> QED BY <1>t, <2>1, <2>2, OperatorTrail
  <1>7. CASE StopPod \/ CrashProcess
    <2>1. /\ UNCHANGED <<cachedUsers, secret, worker>>
          /\ \/ pod' = NoPod
             \/ pod' = [pod EXCEPT !.process = "down", !.runtime = None, !.armed = FALSE]
      BY <1>7 DEF StopPod, CrashProcess
    <2>2. NoPod.volume = None /\ NoPod.runtime = None
      BY DEF NoPod
    <2>3. pod'.volume \in {pod.volume, None} /\ pod'.runtime \in {pod.runtime, pod.volume, None}
      BY <1>t, <2>1, <2>2 DEF Pods
    <2> QED BY <1>t, <2>1, <2>3, PodTrail
  <1>8. CASE StartPod
    <2>1. /\ UNCHANGED <<cachedUsers, secret, worker>>
          /\ pod'.volume = secret.config /\ pod'.runtime = None
      BY <1>8 DEF StartPod, NoPod
    <2> QED BY <1>t, <2>1, PodTrail
  <1>9. CASE SyncVolume
    <2>1. /\ UNCHANGED <<cachedUsers, secret, worker>>
          /\ pod'.volume = secret.config /\ pod'.runtime = pod.runtime
      BY <1>t, <1>9 DEF SyncVolume, Pods
    <2> QED BY <1>t, <2>1, PodTrail
  <1>10. CASE Load \/ Reload \/ StartWatch \/ FailWatch
    <2>1. /\ UNCHANGED <<cachedUsers, secret, worker>>
          /\ pod'.volume = pod.volume /\ pod'.runtime \in {pod.runtime, pod.volume}
      BY <1>t, <1>10 DEF Load, Reload, StartWatch, FailWatch, Pods
    <2> QED BY <1>t, <2>1, PodTrail
  <1>11. CASE UNCHANGED vars
    <2>1. UNCHANGED <<cachedUsers, secret, worker, pod>>
      BY <1>11 DEF vars
    <2> QED BY <1>t, <2>1, PodTrail
  <1> QED
    BY <1>1, <1>2, <1>3, <1>4, <1>5, <1>6, <1>7, <1>8, <1>9, <1>10, <1>11 DEF Next, Worker

\* What the proxy works with is the oldest there is.
LEMMA RuntimeIsOldest ==
    ASSUME TypeOK, Trail, NEW g \in Gens, RunsWith(g)
    PROVE  HeldSince(g)
  BY GenFacts, TrailTypes, ContentGen DEF Trail, Follows, RunsWith, HeldSince

\* A user taken out of the console stays out: once a proxy of the console has
\* worked with some version of the users, no proxy of it ever works with an
\* older one again, through crashes, evictions and roll-outs, restarts of the
\* manager, refused writes, and a Secret deleted or edited by somebody else.
THEOREM OldUsersDoNotComeBack ==
    ASSUME NEW g \in Gens
    PROVE  Spec => [](RunsWith(g) => []NeverBefore(g))
  <1>1. TypeOK /\ TypeOK' /\ RevisionInv /\ Trail /\ [Next]_vars => Trail'
    BY TrailNext
  <1>2. TypeOK /\ TypeOK' /\ RevisionInv /\ HeldSince(g) /\ [Next]_vars => HeldSince(g)'
    BY TrailNext
  <1>3. TypeOK /\ Trail /\ RunsWith(g) => HeldSince(g)
    BY RuntimeIsOldest
  <1>4. HeldSince(g) => NeverBefore(g)
    BY DEF HeldSince, NeverBefore
  <1> QED
    BY DeliveryTypes, RevisionInit, RevisionNext, TrailInit, <1>1, <1>2, <1>3, <1>4, PTL DEF Spec

=============================================================================
