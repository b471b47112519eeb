---------------------------- MODULE ProxyProofs ----------------------------
(***************************************************************************)
(* The authentication proxy, for any identities, levels, providers and ages *)
(* and any number of tabs.                                                  *)
(*                                                                          *)
(* RevocationBound speaks of the session cookie alone, and a cookie is made *)
(* from what a handler looked up earlier, in a snapshot that may be gone.   *)
(* GrantInv adds what the handler knows: a level that was looked up was in  *)
(* force within the same tick, and a cookie never outlives it by more than  *)
(* its age.  FailuresBounded counts failures, and a handler counts its own  *)
(* after it was admitted: LimiterInv counts those handlers as well, as long *)
(* as the window is open.                                                   *)
(***************************************************************************)
EXTENDS Proxy, FiniteSetTheorems, TLAPS

\* Only a console with local sign-in compares passwords.  The types need it:
\* the handler that has compared one is recorded with a provider.
AdmittedIsLocal == \A t \in Tabs : tab[t].phase = "admitted" => "local" \in Modes

TypeInv == TypeOK /\ AdmittedIsLocal

\* Grants are stamped when they are in force, and what was derived from one
\* still refers to its stamp.
GrantInv ==
    /\ \A k \in Keys, l \in Granted : lastGranted[k][l] <= now
    /\ \A k \in Keys : runtime.users[k] # 0 => lastGranted[k][runtime.users[k]] = now
    /\ \A t \in Tabs : tab[t].phase = "lookedUp" /\ tab[t].level # 0
                           => lastGranted[Lower[tab[t].subject]][tab[t].level] = now
    /\ session # NoCookie /\ session.level # 0
           => session.expiry <= lastGranted[Lower[session.subject]][session.level] + MaxAge

\* Handlers that the limiter has let through and that have not told it yet.
Unsettled(t) ==
    \/ tab[t].phase = "admitted"
    \/ tab[t].phase = "lookedUp" /\ tab[t].mode = "local"

Pending == {t \in Tabs : Unsettled(t)}

LimiterInv ==
    /\ FailuresBounded
    /\ InWindow => failures.count + Cardinality(Pending) < MaxFailures + Cardinality(Tabs)
    /\ \A t \in Tabs : tab[t].phase = "lookedUp" /\ ~tab[t].right => tab[t].mode = "local"

\* A form carries the token of the identity it shows.
FormInv ==
    /\ \A t \in Tabs : tab[t].phase = "form" => tab[t].csrf.subject = tab[t].shown
    /\ FiledForShownIdentity

-----------------------------------------------------------------------------
(***************************************************************************)
(* The records of the model.                                                *)
(***************************************************************************)

\* strings.ToLower maps identities to user names, and user names to themselves.
LEMMA LowerFacts ==
    /\ \A s \in Subjects : Lower[s] \in Keys /\ Lower[Lower[s]] = Lower[s]
    /\ Keys \subseteq Subjects
  BY ProxyAssumption DEF Keys

\* What a tab may do next.
LEMMA TabForms ==
    /\ Idle \in Tab /\ Idle.phase = "idle"
    /\ \A k \in Keys : [phase |-> "admitted", subject |-> k] \in Tab
    /\ \A m \in External, n \in 1..MaxFlows :
           [phase |-> "away", mode |-> m, state |-> n] \in Tab
    /\ \A m \in External : [phase |-> "exchanging", mode |-> m] \in Tab
    /\ \A m \in Modes, s \in Subjects, l \in Levels, r \in BOOLEAN :
           [phase |-> "lookedUp", mode |-> m, subject |-> s, level |-> l, right |-> r] \in Tab
    /\ \A s \in Subjects, c \in Token :
           [phase |-> "form", shown |-> s, csrf |-> c] \in Tab
  <1>1. Idle \in Tab /\ Idle.phase = "idle"
    BY DEF Tab, Idle
  <1>2. \A k \in Keys : [phase |-> "admitted", subject |-> k] \in Tab
    BY DEF Tab
  <1>3. \A m \in External, n \in 1..MaxFlows :
           [phase |-> "away", mode |-> m, state |-> n] \in Tab
    BY DEF Tab
  <1>4. \A m \in External : [phase |-> "exchanging", mode |-> m] \in Tab
    BY DEF Tab
  <1>5. \A m \in Modes, s \in Subjects, l \in Levels, r \in BOOLEAN :
           [phase |-> "lookedUp", mode |-> m, subject |-> s, level |-> l, right |-> r] \in Tab
    BY DEF Tab
  <1>6. \A s \in Subjects, c \in Token :
           [phase |-> "form", shown |-> s, csrf |-> c] \in Tab
    BY DEF Tab
  <1> QED BY <1>1, <1>2, <1>3, <1>4, <1>5, <1>6

\* What is known of a tab in each phase.
LEMMA TabFields ==
    \A x \in Tab :
        /\ x.phase = "admitted" => x.subject \in Keys
        /\ x.phase \in {"away", "exchanging"} => x.mode \in External
        /\ x.phase = "away" => x.state \in 1..MaxFlows
        /\ x.phase = "lookedUp" => /\ x.mode \in Modes /\ x.subject \in Subjects
                                   /\ x.level \in Levels /\ x.right \in BOOLEAN
        /\ x.phase = "form" => x.shown \in Subjects /\ x.csrf \in Token
  <1> SUFFICES ASSUME NEW x \in Tab
               PROVE  /\ x.phase = "admitted" => x.subject \in Keys
                      /\ x.phase \in {"away", "exchanging"} => x.mode \in External
                      /\ x.phase = "away" => x.state \in 1..MaxFlows
                      /\ x.phase = "lookedUp" => /\ x.mode \in Modes /\ x.subject \in Subjects
                                                 /\ x.level \in Levels /\ x.right \in BOOLEAN
                      /\ x.phase = "form" => x.shown \in Subjects /\ x.csrf \in Token
    OBVIOUS
  <1>1. x.phase = "admitted" => x.subject \in Keys
    BY DEF Tab
  <1>2. x.phase \in {"away", "exchanging"} => x.mode \in External
    BY DEF Tab
  <1>3. x.phase = "away" => x.state \in 1..MaxFlows
    BY DEF Tab
  <1>4. x.phase = "lookedUp" => x.mode \in Modes /\ x.subject \in Subjects
    BY DEF Tab
  <1>5. x.phase = "lookedUp" => x.level \in Levels /\ x.right \in BOOLEAN
    BY DEF Tab
  <1>6. x.phase = "form" => x.shown \in Subjects /\ x.csrf \in Token
    BY DEF Tab
  <1> QED BY <1>1, <1>2, <1>3, <1>4, <1>5, <1>6

\* What Becomes does to the tabs.
LEMMA BecomesFacts ==
    ASSUME tab \in [Tabs -> Tab], NEW t \in Tabs, NEW x, Becomes(t, x)
    PROVE  /\ x \in Tab => tab' \in [Tabs -> Tab]
           /\ tab'[t] = x
           /\ \A u \in Tabs : u # t => tab'[u] = tab[u]
  BY DEF Becomes

\* A cookie that is there is a session.
LEMMA CookieFields ==
    /\ \A c \in Session \cup {NoCookie} : c # NoCookie => c \in Session
    /\ \A c \in Session : /\ c.key \in 1..MaxKeys /\ c.subject \in Subjects
                           /\ c.level \in Levels /\ c.expiry \in Expiry
    /\ \A k \in 1..MaxKeys, s \in Subjects, l \in Levels, e \in Expiry :
           /\ [key |-> k, subject |-> s, level |-> l, expiry |-> e] \in Session
           /\ [key |-> k, subject |-> s, expiry |-> e] \in Token
    /\ \A k \in 1..MaxKeys, n \in 1..MaxFlows, b \in BOOLEAN, e \in Expiry :
           [key |-> k, state |-> n, nonce |-> b, expiry |-> e] \in Transient
  BY DEF Session, Transient, Token

\* The grants of users u are stamped with time t, and no other.
LEMMA StampFacts ==
    ASSUME lastGranted \in [Keys -> [Granted -> Time \cup {-1}]],
           NEW u, NEW t \in Time, Stamp(u, t)
    PROVE  /\ lastGranted' \in [Keys -> [Granted -> Time \cup {-1}]]
           /\ \A k \in Keys, l \in Granted :
                  lastGranted'[k][l] = IF l = u[k] THEN t ELSE lastGranted[k][l]
  BY DEF Stamp

-----------------------------------------------------------------------------
(***************************************************************************)
(* Types.                                                                   *)
(***************************************************************************)
\* Init has the types.
LEMMA TypeInit == Init => TypeInv
  <1> SUFFICES ASSUME Init PROVE TypeInv
    OBVIOUS
  <1>1. now \in Time /\ flows \in 0..MaxFlows /\ swaps \in 0..MaxSwaps
        /\ keys \in 1..MaxKeys /\ restarts \in 0..MaxRestarts
    BY ProxyAssumption DEF Init, Time
  <1>2. runtime \in [key: 1..MaxKeys, users: [Keys -> Levels]]
    BY ProxyAssumption DEF Init, Keys, Levels
  <1>3. started \subseteq Modes
    BY DEF Init, Startable
  <1>4. failures \in [start: Time, count: Nat]
    BY <1>1 DEF Init, NoFailures
  <1>5. tab \in [Tabs -> Tab]
    BY TabForms DEF Init
  <1>6. lastGranted \in [Keys -> [Granted -> Time \cup {-1}]]
    BY <1>1 DEF Init
  <1>7. AdmittedIsLocal
    BY TabForms DEF Init, AdmittedIsLocal
  <1> QED BY <1>1, <1>2, <1>3, <1>4, <1>5, <1>6, <1>7 DEF Init, TypeOK, TypeInv

\* A step of one tab keeps the types, if what it leaves in the tab and in the
\* browser has them.
LEMMA TabStepType ==
    ASSUME TypeInv, NEW t \in Tabs, NEW x \in Tab, Becomes(t, x),
           x.phase = "admitted" => "local" \in Modes,
           UNCHANGED <<now, runtime, started, lastGranted, swaps, keys, restarts>>,
           failures' \in [start: Time, count: Nat],
           session' \in Session \cup {NoCookie},
           transient' \in Transient \cup {NoCookie},
           filed' \in [shown: Subjects, subject: Subjects] \cup {NoRequest},
           flows' \in 0..MaxFlows
    PROVE  TypeInv'
  <1>1. tab \in [Tabs -> Tab]
    BY DEF TypeInv, TypeOK
  <1>2. /\ tab' \in [Tabs -> Tab] /\ tab'[t] = x
        /\ \A u \in Tabs : u # t => tab'[u] = tab[u]
    BY <1>1, BecomesFacts
  <1>3. AdmittedIsLocal'
    BY <1>2 DEF TypeInv, AdmittedIsLocal
  <1>4. TypeOK'
    BY <1>2 DEF TypeInv, TypeOK
  <1> QED BY <1>3, <1>4 DEF TypeInv

\* Every step keeps the types.
LEMMA TypeNext == TypeInv /\ [Next]_vars => TypeInv'
  <1> SUFFICES ASSUME TypeInv, [Next]_vars PROVE TypeInv'
    OBVIOUS
  <1>t. /\ TypeOK
        /\ now \in Time /\ runtime.key \in 1..MaxKeys /\ runtime.users \in [Keys -> Levels]
        /\ tab \in [Tabs -> Tab] /\ session \in Session \cup {NoCookie}
        /\ transient \in Transient \cup {NoCookie}
        /\ filed \in [shown: Subjects, subject: Subjects] \cup {NoRequest}
        /\ failures \in [start: Time, count: Nat] /\ flows \in 0..MaxFlows
    BY DEF TypeInv, TypeOK
  <1>l. \A s \in Subjects : LookupUser(s) \in Levels
    BY <1>t, LowerFacts DEF LookupUser
  <1>0. /\ now + MaxAge \in Expiry /\ now + FlowAge \in Expiry
        /\ NoFailures \in [start: Time, count: Nat]
    BY <1>t, ProxyAssumption DEF Expiry, Time, NoFailures
  <1>1. ASSUME NEW t \in Tabs, NEW k \in Keys, SubmitPassword(t, k) PROVE TypeInv'
    <2> DEFINE x == [phase |-> "admitted", subject |-> k]
    <2>1. x \in Tab
      BY TabForms
    <2>2. "local" \in Modes
      BY <1>t, <1>1 DEF SubmitPassword, TypeOK
    <2>3. /\ Becomes(t, x)
          /\ UNCHANGED <<now, runtime, started, failures, session, transient, filed, lastGranted,
                         flows, swaps, keys, restarts>>
      BY <1>1 DEF SubmitPassword
    <2> HIDE DEF x
    <2> QED BY <1>t, <2>1, <2>2, <2>3, TabStepType
  <1>2. ASSUME NEW t \in Tabs, NEW right \in BOOLEAN, CheckPassword(t, right) PROVE TypeInv'
    <2> DEFINE k == tab[t].subject
               x == [phase |-> "lookedUp", mode |-> "local", subject |-> k,
                     level |-> LookupUser(k), right |-> right]
    <2>1. tab[t].phase = "admitted" /\ "local" \in Modes
      BY <1>2 DEF CheckPassword, TypeInv, AdmittedIsLocal
    <2>2. k \in Subjects
      BY <1>t, <2>1, TabFields, LowerFacts
    <2>3. /\ Becomes(t, x)
          /\ UNCHANGED <<now, runtime, started, failures, session, transient, filed, lastGranted,
                         flows, swaps, keys, restarts>>
      BY <1>2 DEF CheckPassword
    <2>4. x \in Tab
      BY <1>l, <2>1, <2>2, TabForms
    <2> HIDE DEF x
    <2> QED BY <1>t, <2>1, <2>3, <2>4, TabStepType
  <1>3. ASSUME NEW t \in Tabs, RefusePassword(t) PROVE TypeInv'
    <2>1. failures' \in [start: Time, count: Nat]
      BY <1>t, <1>3 DEF RefusePassword, Fail
    <2> QED BY <1>t, <1>3, <2>1, TabStepType, TabForms DEF RefusePassword
  <1>4. ASSUME NEW t \in Tabs, NEW mode \in External, StartLogin(t, mode) PROVE TypeInv'
    <2> DEFINE x == [phase |-> "away", mode |-> mode, state |-> flows + 1]
    <2>1. flows + 1 \in 1..MaxFlows
      BY <1>t, <1>4, ProxyAssumption DEF StartLogin
    <2>2. x \in Tab
      BY <2>1, TabForms
    <2>3. Becomes(t, x) /\ flows' = flows + 1
      BY <1>4 DEF StartLogin
    <2>4. transient' \in Transient
      BY <1>t, <1>0, <1>4, <2>1, CookieFields DEF StartLogin
    <2>5. UNCHANGED <<now, runtime, started, failures, session, filed, lastGranted,
                      swaps, keys, restarts>>
      BY <1>4 DEF StartLogin
    <2>6. x.phase # "admitted" /\ flows' \in 0..MaxFlows
      BY <2>1, <2>3, ProxyAssumption
    <2> HIDE DEF x
    <2> QED BY <1>t, <2>2, <2>3, <2>4, <2>5, <2>6, TabStepType
  <1>5. ASSUME NEW t \in Tabs, BeginExchange(t) PROVE TypeInv'
    <2> DEFINE x == [phase |-> "exchanging", mode |-> tab[t].mode]
    <2>1. tab[t].mode \in External
      BY <1>t, <1>5, TabFields DEF BeginExchange
    <2>2. x \in Tab /\ x.phase # "admitted"
      BY <2>1, TabForms
    <2>3. /\ Becomes(t, x)
          /\ UNCHANGED <<now, runtime, started, failures, session, transient, filed, lastGranted,
                         flows, swaps, keys, restarts>>
      BY <1>5 DEF BeginExchange
    <2> HIDE DEF x
    <2> QED BY <1>t, <2>2, <2>3, TabStepType
  <1>6. ASSUME NEW t \in Tabs, FailLogin(t) PROVE TypeInv'
    BY <1>t, <1>6, TabStepType, TabForms DEF FailLogin
  <1>7. ASSUME NEW t \in Tabs, NEW s \in Subjects, LookUpIdentity(t, s) PROVE TypeInv'
    <2> DEFINE x == [phase |-> "lookedUp", mode |-> tab[t].mode,
                     subject |-> SubjectOf(tab[t].mode, s),
                     level |-> LookupUser(s), right |-> TRUE]
    <2>1. tab[t].mode \in Modes
      BY <1>t, <1>7, TabFields DEF LookUpIdentity, External
    <2>2. SubjectOf(tab[t].mode, s) \in Subjects
      BY LowerFacts DEF SubjectOf
    <2>3. x \in Tab /\ x.phase # "admitted"
      BY <1>l, <2>1, <2>2, TabForms
    <2>4. /\ Becomes(t, x)
          /\ UNCHANGED <<now, runtime, started, failures, session, transient, filed, lastGranted,
                         flows, swaps, keys, restarts>>
      BY <1>7 DEF LookUpIdentity
    <2> HIDE DEF x
    <2> QED BY <1>t, <2>3, <2>4, TabStepType
  <1>8. ASSUME NEW t \in Tabs, IssueSession(t) PROVE TypeInv'
    <2>1. tab[t].subject \in Subjects /\ tab[t].level \in Levels
      BY <1>t, <1>8, TabFields DEF IssueSession
    <2>2. session' \in Session
      BY <1>t, <1>0, <1>8, <2>1, CookieFields DEF IssueSession
    <2>3. /\ failures' \in [start: Time, count: Nat]
          /\ transient' \in Transient \cup {NoCookie}
      BY <1>t, <1>0, <1>8 DEF IssueSession, Reset
    <2> QED BY <1>t, <1>8, <2>2, <2>3, TabStepType, TabForms DEF IssueSession
  <1>9. ASSUME NEW t \in Tabs, ShowForm(t) PROVE TypeInv'
    <2> DEFINE x == [phase |-> "form", shown |-> session.subject, csrf |-> CSRFToken(session)]
    <2>1. session \in Session
      BY <1>t, <1>9, CookieFields DEF ShowForm, ReadCookie
    <2>2. session.subject \in Subjects /\ CSRFToken(session) \in Token
      BY <1>t, <2>1, CookieFields DEF CSRFToken
    <2>3. x \in Tab /\ x.phase # "admitted"
      BY <2>2, TabForms
    <2>4. /\ Becomes(t, x)
          /\ UNCHANGED <<now, runtime, started, failures, session, transient, filed, lastGranted,
                         flows, swaps, keys, restarts>>
      BY <1>9 DEF ShowForm
    <2> HIDE DEF x
    <2> QED BY <1>t, <2>3, <2>4, TabStepType
  <1>10. ASSUME NEW t \in Tabs, FileRequest(t) PROVE TypeInv'
    <2>1. tab[t].shown \in Subjects
      BY <1>t, <1>10, TabFields DEF FileRequest
    <2>2. ReadCookie(session) => session.subject \in Subjects
      BY <1>t, CookieFields DEF ReadCookie
    <2>3. filed' \in [shown: Subjects, subject: Subjects] \cup {NoRequest}
      BY <1>t, <1>10, <2>1, <2>2 DEF FileRequest
    <2> QED BY <1>t, <1>10, <2>3, TabStepType, TabForms DEF FileRequest
  <1>11. CASE Logout
    BY <1>11 DEF Logout, TypeInv, TypeOK, AdmittedIsLocal
  <1>12. CASE Tick
    <2>1. now' \in Time
      BY <1>t, <1>12, ProxyAssumption DEF Tick, Time
    <2>2. lastGranted' \in [Keys -> [Granted -> Time \cup {-1}]]
      BY <1>12, <2>1, StampFacts DEF Tick, TypeInv, TypeOK
    <2> QED BY <1>12, <2>1, <2>2 DEF Tick, TypeInv, TypeOK, AdmittedIsLocal
  <1>13. ASSUME NEW users \in [Keys -> Levels], NEW key \in 1..MaxKeys, Swap(users, key)
         PROVE  TypeInv'
    <2>1. lastGranted' \in [Keys -> [Granted -> Time \cup {-1}]]
      BY <1>t, <1>13, StampFacts DEF Swap, TypeInv, TypeOK
    <2>2. runtime' \in [key: 1..MaxKeys, users: [Keys -> Levels]]
      BY <1>13 DEF Swap
    <2>3. keys' \in 1..MaxKeys /\ swaps' \in 0..MaxSwaps
      BY <1>t, <1>13, ProxyAssumption DEF Swap, TypeOK
    <2> QED BY <1>13, <2>1, <2>2, <2>3 DEF Swap, TypeInv, TypeOK, AdmittedIsLocal
  <1>14. ASSUME NEW modes \in Startable, Restart(modes) PROVE TypeInv'
    <2>1. tab' \in [Tabs -> Tab] /\ \A t \in Tabs : tab'[t].phase # "admitted"
      BY <1>t, <1>14, TabForms DEF Restart, Free
    <2>2. started' \subseteq Modes
      BY <1>14 DEF Restart, Startable
    <2>3. restarts' \in 0..MaxRestarts
      BY <1>t, <1>14, ProxyAssumption DEF Restart, TypeOK
    <2> QED BY <1>0, <1>14, <2>1, <2>2, <2>3 DEF Restart, TypeInv, TypeOK, AdmittedIsLocal
  <1>15. CASE UNCHANGED vars
    BY <1>15 DEF vars, TypeInv, TypeOK, AdmittedIsLocal
  <1> QED
    BY <1>1, <1>2, <1>3, <1>4, <1>5, <1>6, <1>7, <1>8, <1>9, <1>10, <1>11, <1>12, <1>13, <1>14,
       <1>15 DEF Next, LocalLogin, ExternalLogin

\* Proxy.TypeOK
THEOREM ProxyTypes == Spec => []TypeOK
  <1>1. TypeInv => TypeOK
    BY DEF TypeInv
  <1> QED BY TypeInit, TypeNext, <1>1, PTL DEF Spec

-----------------------------------------------------------------------------
(***************************************************************************)
(* Revocation.                                                              *)
(***************************************************************************)
LEMMA GrantInit == Init => GrantInv
  <1> SUFFICES ASSUME Init PROVE GrantInv
    OBVIOUS
  <1>1. \A k \in Keys : runtime.users[k] \in {0} \cup Granted
    BY ProxyAssumption DEF Init, Keys
  <1>2. \A k \in Keys, l \in Granted :
           lastGranted[k][l] = IF l = runtime.users[k] THEN 0 ELSE -1
    BY DEF Init
  <1>3. now = 0 /\ session = NoCookie /\ \A t \in Tabs : tab[t].phase = "idle"
    BY TabForms DEF Init
  <1> QED BY <1>1, <1>2, <1>3 DEF GrantInv

\* A tab that has looked nothing up, or a level that is in force, keeps what
\* is known of grants; so does a cookie as long as the level it seals.
LEMMA GrantTabStep ==
    ASSUME TypeOK, GrantInv, NEW t \in Tabs, NEW x, Becomes(t, x),
           UNCHANGED <<now, runtime, lastGranted>>,
           x.phase = "lookedUp" /\ x.level # 0 => lastGranted[Lower[x.subject]][x.level] = now,
           \/ session' = session
           \/ session'.level # 0 =>
                  session'.expiry <= lastGranted[Lower[session'.subject]][session'.level] + MaxAge
    PROVE  GrantInv'
  <1>1. tab'[t] = x /\ \A u \in Tabs : u # t => tab'[u] = tab[u]
    BY BecomesFacts DEF TypeOK
  <1>2. \A u \in Tabs : tab'[u].phase = "lookedUp" /\ tab'[u].level # 0
                            => lastGranted'[Lower[tab'[u].subject]][tab'[u].level] = now'
    BY <1>1 DEF GrantInv
  <1>3. session' # NoCookie /\ session'.level # 0 => session'.expiry
            <= lastGranted'[Lower[session'.subject]][session'.level] + MaxAge
    BY DEF GrantInv
  <1> QED BY <1>2, <1>3 DEF GrantInv

\* Time passes and configurations are swapped: stamps only grow, up to now.
LEMMA GrantStampStep ==
    ASSUME TypeOK, TypeOK', GrantInv, Stamp(runtime'.users, now'), now <= now',
           now' = now \/ \A t \in Tabs : tab[t].phase # "lookedUp",
           UNCHANGED <<tab, session>>
    PROVE  GrantInv'
  <1>0. /\ now \in Int /\ now' \in Int /\ now' \in Time /\ MaxAge \in Int
        /\ runtime'.users \in [Keys -> Levels]
        /\ lastGranted \in [Keys -> [Granted -> Time \cup {-1}]]
        /\ \A k \in Keys, l \in Granted : lastGranted[k][l] \in Int
    BY ProxyAssumption DEF TypeOK, Time
  <1>1. \A k \in Keys, l \in Granted :
           lastGranted'[k][l] = IF l = runtime'.users[k] THEN now' ELSE lastGranted[k][l]
    BY <1>0, StampFacts
  <1>2. \A k \in Keys, l \in Granted : /\ lastGranted'[k][l] \in Int
                                        /\ lastGranted'[k][l] <= now'
                                        /\ lastGranted[k][l] <= lastGranted'[k][l]
    BY <1>0, <1>1 DEF GrantInv
  <1>3. \A k \in Keys : runtime'.users[k] # 0 => lastGranted'[k][runtime'.users[k]] = now'
    <2>1. \A k \in Keys : runtime'.users[k] \in {0} \cup Granted
      BY <1>0 DEF Levels
    <2> QED BY <1>1, <2>1
  <1>4. ASSUME NEW t \in Tabs, tab'[t].phase = "lookedUp", tab'[t].level # 0
        PROVE  lastGranted'[Lower[tab'[t].subject]][tab'[t].level] = now'
    <2>1. Lower[tab[t].subject] \in Keys /\ tab[t].level \in Granted
      BY <1>4, TabFields, LowerFacts DEF TypeOK, Levels
    <2> QED BY <1>1, <1>4, <2>1 DEF GrantInv
  <1>5. ASSUME session' # NoCookie, session'.level # 0
        PROVE  session'.expiry <= lastGranted'[Lower[session'.subject]][session'.level] + MaxAge
    <2>1. session \in Session
      BY <1>5, CookieFields DEF TypeOK
    <2>2. /\ Lower[session.subject] \in Keys /\ session.level \in Granted
          /\ session.expiry \in Int
      BY <1>5, <2>1, CookieFields, LowerFacts DEF Levels, Expiry
    <2>3. session.expiry <= lastGranted[Lower[session.subject]][session.level] + MaxAge
      BY <1>5 DEF GrantInv
    <2> QED BY <1>0, <1>2, <2>2, <2>3
  <1> QED BY <1>2, <1>3, <1>4, <1>5 DEF GrantInv

\* Every step keeps what is known of grants.
LEMMA GrantNext == TypeInv /\ TypeInv' /\ GrantInv /\ [Next]_vars => GrantInv'
  <1> SUFFICES ASSUME TypeOK, TypeOK', GrantInv, [Next]_vars PROVE GrantInv'
    BY DEF TypeInv
  <1>l. \A s \in Subjects : LookupUser(s) # 0 => lastGranted[Lower[s]][LookupUser(s)] = now
    BY LowerFacts DEF LookupUser, GrantInv
  <1>1. ASSUME NEW t \in Tabs, NEW k \in Keys, SubmitPassword(t, k) PROVE GrantInv'
    BY <1>1, GrantTabStep DEF SubmitPassword
  <1>2. ASSUME NEW t \in Tabs, NEW right \in BOOLEAN, CheckPassword(t, right) PROVE GrantInv'
    <2> DEFINE k == tab[t].subject
               x == [phase |-> "lookedUp", mode |-> "local", subject |-> k,
                     level |-> LookupUser(k), right |-> right]
    <2>1. k \in Subjects
      BY <1>2, TabFields, LowerFacts DEF CheckPassword, TypeOK
    <2>2. Becomes(t, x) /\ UNCHANGED <<now, runtime, lastGranted, session>>
      BY <1>2 DEF CheckPassword
    <2>3. x.level # 0 => lastGranted[Lower[x.subject]][x.level] = now
      BY <1>l, <2>1
    <2> HIDE DEF x
    <2> QED BY <2>2, <2>3, GrantTabStep
  <1>3. ASSUME NEW t \in Tabs, RefusePassword(t) \/ FailLogin(t) \/ FileRequest(t) PROVE GrantInv'
    <2>1. Becomes(t, Idle) /\ UNCHANGED <<now, runtime, lastGranted, session>>
      BY <1>3 DEF RefusePassword, FailLogin, FileRequest
    <2> QED BY <2>1, GrantTabStep, TabForms
  <1>4. ASSUME NEW t \in Tabs, NEW mode \in External, StartLogin(t, mode) PROVE GrantInv'
    BY <1>4, GrantTabStep DEF StartLogin
  <1>5. ASSUME NEW t \in Tabs, BeginExchange(t) PROVE GrantInv'
    BY <1>5, GrantTabStep DEF BeginExchange
  <1>6. ASSUME NEW t \in Tabs, NEW s \in Subjects, LookUpIdentity(t, s) PROVE GrantInv'
    <2> DEFINE x == [phase |-> "lookedUp", mode |-> tab[t].mode,
                     subject |-> SubjectOf(tab[t].mode, s),
                     level |-> LookupUser(s), right |-> TRUE]
    <2>1. Lower[x.subject] = Lower[s]
      BY LowerFacts DEF SubjectOf
    <2>2. Becomes(t, x) /\ UNCHANGED <<now, runtime, lastGranted, session>>
      BY <1>6 DEF LookUpIdentity
    <2>3. x.level # 0 => lastGranted[Lower[x.subject]][x.level] = now
      BY <1>l, <2>1
    <2> HIDE DEF x
    <2> QED BY <2>2, <2>3, GrantTabStep
  <1>7. ASSUME NEW t \in Tabs, IssueSession(t) PROVE GrantInv'
    <2>1. /\ session'.subject = tab[t].subject /\ session'.level = tab[t].level
          /\ session'.expiry = now + MaxAge
      BY <1>7 DEF IssueSession
    <2>2. now + MaxAge \in Int /\ now + MaxAge <= now + MaxAge
      BY ProxyAssumption DEF TypeOK, Time
    <2>3. session'.level # 0 =>
            session'.expiry <= lastGranted[Lower[session'.subject]][session'.level] + MaxAge
      BY <1>7, <2>1, <2>2 DEF IssueSession, GrantInv
    <2>4. Becomes(t, Idle) /\ UNCHANGED <<now, runtime, lastGranted>>
      BY <1>7 DEF IssueSession
    <2> QED BY <2>3, <2>4, GrantTabStep, TabForms
  <1>8. ASSUME NEW t \in Tabs, ShowForm(t) PROVE GrantInv'
    BY <1>8, GrantTabStep DEF ShowForm
  <1>9. CASE Logout
    BY <1>9 DEF Logout, GrantInv
  <1>10. CASE Tick
    <2>1. now <= now'
      BY <1>10 DEF Tick, TypeOK, Time
    <2> QED BY <1>10, <2>1, GrantStampStep DEF Tick
  <1>11. ASSUME NEW users \in [Keys -> Levels], NEW key \in 1..MaxKeys, Swap(users, key)
         PROVE  GrantInv'
    <2>1. runtime'.users = users /\ now' = now /\ now <= now
      BY <1>11 DEF Swap, TypeOK, Time
    <2> QED BY <1>11, <2>1, GrantStampStep DEF Swap
  <1>12. ASSUME NEW modes \in Startable, Restart(modes) PROVE GrantInv'
    <2>1. \A t \in Tabs : tab'[t] \in {tab[t], Idle}
      BY <1>12 DEF Restart
    <2>2. \A t \in Tabs : tab'[t].phase = "lookedUp" => tab'[t] = tab[t]
      BY <2>1, TabForms
    <2> QED BY <1>12, <2>2 DEF Restart, GrantInv
  <1>13. CASE UNCHANGED vars
    BY <1>13 DEF vars, GrantInv
  <1> QED
    BY <1>1, <1>2, <1>3, <1>4, <1>5, <1>6, <1>7, <1>8, <1>9, <1>10, <1>11, <1>12, <1>13
    DEF Next, LocalLogin, ExternalLogin

\* Proxy.RevocationBound: a revocation takes effect within the age of a
\* session, for every interleaving of sign-ins, swaps and restarts.
THEOREM RevocationTakesEffect == Spec => []RevocationBound
  <1>1. TypeInv /\ GrantInv => RevocationBound
    <2> SUFFICES ASSUME TypeOK, GrantInv, NEW min \in MinLevels, Admits(min)
                 PROVE  now - lastGranted[Lower[session.subject]][session.level] < MaxAge
      BY DEF TypeInv, RevocationBound
    <2>1. session \in Session /\ session # NoCookie /\ session.level >= min
          /\ now < session.expiry
      BY CookieFields DEF Admits, ReadCookie, Valid, TypeOK
    <2>2. session.level \in {0} \cup Granted /\ Lower[session.subject] \in Keys
          /\ session.expiry \in Int
      BY <2>1, CookieFields, LowerFacts DEF Levels, Expiry
    <2>3. session.level # 0
      BY <2>1 DEF MinLevels
    <2>4. session.expiry <= lastGranted[Lower[session.subject]][session.level] + MaxAge
      BY <2>1, <2>3 DEF GrantInv
    <2>5. /\ lastGranted[Lower[session.subject]][session.level] \in Int
          /\ now \in Int /\ MaxAge \in Int
      <3>1. lastGranted \in [Keys -> [Granted -> Time \cup {-1}]] /\ now \in Time
        BY DEF TypeOK
      <3>2. MaxAge \in Int /\ \A t \in Time \cup {-1} : t \in Int
        BY ProxyAssumption DEF Time
      <3> QED BY <2>2, <2>3, <3>1, <3>2
    <2> QED BY <2>1, <2>2, <2>4, <2>5
  <1> QED BY TypeInit, TypeNext, GrantInit, GrantNext, <1>1, PTL DEF Spec

-----------------------------------------------------------------------------
(***************************************************************************)
(* The failure limiter.                                                     *)
(***************************************************************************)

\* Handlers are counted among the tabs.
LEMMA PendingBound ==
    /\ IsFiniteSet(Pending) /\ Cardinality(Pending) \in Nat
    /\ Cardinality(Pending) <= Cardinality(Tabs) /\ Cardinality(Tabs) \in Nat
  <1>1. Pending \subseteq Tabs /\ IsFiniteSet(Tabs)
    BY ProxyAssumption DEF Pending
  <1>2. IsFiniteSet(Pending) /\ Cardinality(Pending) <= Cardinality(Tabs)
    BY <1>1, FS_Subset
  <1> QED BY <1>1, <1>2, FS_CardinalityType

\* Before the first attempt there are no failures.
LEMMA LimiterInit == Init => LimiterInv
  <1> SUFFICES ASSUME Init PROVE LimiterInv
    OBVIOUS
  <1>1. failures.count = 0 /\ \A t \in Tabs : tab[t].phase = "idle"
    BY TabForms DEF Init, NoFailures
  <1>2. ~InWindow
    BY <1>1 DEF InWindow
  <1>3. FailuresBounded
    BY <1>1, PendingBound, ProxyAssumption DEF FailuresBounded
  <1> QED BY <1>1, <1>2, <1>3 DEF LimiterInv

\* A step after which no more handlers are unsettled, and that counts nothing,
\* keeps the limiter's bound.
LEMMA LimiterQuietStep ==
    ASSUME TypeOK, LimiterInv, InWindow' => InWindow, failures' = failures,
           Pending' \subseteq Pending,
           \A t \in Tabs : tab'[t].phase = "lookedUp" /\ ~tab'[t].right => tab'[t].mode = "local"
    PROVE  LimiterInv'
  <1>1. /\ Cardinality(Pending') <= Cardinality(Pending)
        /\ Cardinality(Pending') \in Nat /\ Cardinality(Pending) \in Nat
    BY PendingBound, FS_Subset, FS_CardinalityType
  <1>2. Cardinality(Pending)' = Cardinality(Pending')
    OBVIOUS
  <1>3. failures.count \in Nat /\ MaxFailures \in Nat /\ Cardinality(Tabs) \in Nat
    BY PendingBound, ProxyAssumption DEF TypeOK
  <1>4. InWindow' => failures'.count + Cardinality(Pending') < MaxFailures + Cardinality(Tabs)
    BY <1>1, <1>3 DEF LimiterInv
  <1>5. FailuresBounded'
    BY DEF LimiterInv, FailuresBounded
  <1> QED BY <1>2, <1>4, <1>5 DEF LimiterInv

\* A step of tab t to x, as far as the limiter is concerned.
LEMMA LimiterTabStep ==
    ASSUME TypeOK, LimiterInv, NEW t \in Tabs, NEW x, Becomes(t, x),
           UNCHANGED <<now, failures>>,
           \/ Unsettled(t)
           \/ x.phase \notin {"admitted", "lookedUp"}
           \/ x.phase = "lookedUp" /\ x.mode # "local",
           x.phase = "lookedUp" => x.right \/ x.mode = "local"
    PROVE  LimiterInv'
  <1>1. tab'[t] = x /\ \A u \in Tabs : u # t => tab'[u] = tab[u]
    BY BecomesFacts DEF TypeOK
  <1>2. Pending' \subseteq Pending
    BY <1>1 DEF Pending, Unsettled
  <1>3. \A u \in Tabs : tab'[u].phase = "lookedUp" /\ ~tab'[u].right => tab'[u].mode = "local"
    BY <1>1 DEF LimiterInv
  <1>4. InWindow' => InWindow
    BY DEF InWindow
  <1> QED BY <1>2, <1>3, <1>4, LimiterQuietStep

\* Every step keeps the limiter's bound.
LEMMA LimiterNext == TypeInv /\ LimiterInv /\ [Next]_vars => LimiterInv'
  <1> SUFFICES ASSUME TypeOK, LimiterInv, [Next]_vars PROVE LimiterInv'
    BY DEF TypeInv
  <1>t. /\ now \in Int /\ failures.start \in Int /\ failures.count \in Nat
        /\ MaxFailures \in Nat \ {0} /\ Window \in Nat \ {0} /\ Cardinality(Tabs) \in Nat
    BY PendingBound, ProxyAssumption DEF TypeOK, Time
  <1>1. ASSUME NEW t \in Tabs, NEW k \in Keys, SubmitPassword(t, k) PROVE LimiterInv'
    <2>1. /\ tab'[t] = [phase |-> "admitted", subject |-> k]
          /\ \A u \in Tabs : u # t => tab'[u] = tab[u]
      BY <1>1, BecomesFacts DEF SubmitPassword, TypeOK
    <2>2. \A u \in Tabs : tab'[u].phase = "lookedUp" /\ ~tab'[u].right => tab'[u].mode = "local"
      BY <2>1 DEF LimiterInv
    <2>3. UNCHANGED <<now, failures>> /\ (InWindow' => failures.count < MaxFailures)
      BY <1>1 DEF SubmitPassword, Allow, InWindow
    <2>4. /\ Cardinality(Pending') <= Cardinality(Tabs) /\ Cardinality(Pending') \in Nat
      <3>1. Pending' \subseteq Tabs /\ IsFiniteSet(Tabs)
        BY ProxyAssumption DEF Pending
      <3>2. IsFiniteSet(Pending') /\ Cardinality(Pending') <= Cardinality(Tabs)
        BY <3>1, FS_Subset
      <3> QED BY <3>2, FS_CardinalityType
    <2>5. InWindow' => failures'.count + Cardinality(Pending)' < MaxFailures + Cardinality(Tabs)
      BY <1>t, <2>3, <2>4
    <2>6. FailuresBounded'
      BY <2>3 DEF LimiterInv, FailuresBounded
    <2> QED BY <2>2, <2>5, <2>6 DEF LimiterInv
  <1>2. ASSUME NEW t \in Tabs, NEW right \in BOOLEAN, CheckPassword(t, right) PROVE LimiterInv'
    <2>1. Unsettled(t)
      BY <1>2 DEF CheckPassword, Unsettled
    <2> QED BY <1>2, <2>1, LimiterTabStep DEF CheckPassword
  <1>3. ASSUME NEW t \in Tabs, RefusePassword(t) PROVE LimiterInv'
    <2>1. t \in Pending
      BY <1>3 DEF RefusePassword, LimiterInv, Pending, Unsettled
    <2>2. tab'[t] = Idle /\ \A u \in Tabs : u # t => tab'[u] = tab[u]
      BY <1>3, BecomesFacts DEF RefusePassword, TypeOK
    <2>3. Pending' = Pending \ {t}
      BY <2>2, TabForms DEF Pending, Unsettled
    <2>4. /\ Cardinality(Pending') = Cardinality(Pending) - 1
          /\ Cardinality(Pending) \in Nat /\ Cardinality(Pending) <= Cardinality(Tabs)
      BY <2>1, <2>3, PendingBound, FS_RemoveElement
    <2>5. \A u \in Tabs : tab'[u].phase = "lookedUp" /\ ~tab'[u].right => tab'[u].mode = "local"
      BY <2>2, TabForms DEF LimiterInv
    <2>6. /\ failures'.count + Cardinality(Pending') < MaxFailures + Cardinality(Tabs)
          /\ failures'.count \in Nat
      <3>1. CASE InWindow
        <4>1. failures'.count = failures.count + 1
          BY <1>3, <3>1 DEF RefusePassword, Fail, TypeOK
        <4> QED BY <1>t, <2>4, <3>1, <4>1 DEF LimiterInv
      <3>2. CASE ~InWindow
        <4>1. failures'.count = 1
          BY <1>3, <3>2 DEF RefusePassword, Fail
        <4> QED BY <1>t, <2>4, <4>1
      <3> QED BY <3>1, <3>2
    <2>7. Cardinality(Pending') \in Nat
      BY <2>1, <2>3, PendingBound, FS_RemoveElement, FS_CardinalityType
    <2>8. FailuresBounded'
      BY <1>t, <2>6, <2>7 DEF FailuresBounded
    <2> QED BY <2>5, <2>6, <2>8 DEF LimiterInv
  <1>4. ASSUME NEW t \in Tabs, NEW mode \in External, StartLogin(t, mode) PROVE LimiterInv'
    BY <1>4, LimiterTabStep DEF StartLogin
  <1>5. ASSUME NEW t \in Tabs, BeginExchange(t) \/ FailLogin(t) \/ ShowForm(t) \/ FileRequest(t)
        PROVE  LimiterInv'
    <2>1. PICK x : Becomes(t, x) /\ x.phase \notin {"admitted", "lookedUp"}
      BY <1>5, TabForms DEF BeginExchange, FailLogin, ShowForm, FileRequest
    <2>2. UNCHANGED <<now, failures>>
      BY <1>5 DEF BeginExchange, FailLogin, ShowForm, FileRequest
    <2> QED BY <2>1, <2>2, LimiterTabStep
  <1>6. ASSUME NEW t \in Tabs, NEW s \in Subjects, LookUpIdentity(t, s) PROVE LimiterInv'
    <2>1. tab[t].mode # "local"
      BY <1>6, TabFields DEF LookUpIdentity, TypeOK, External
    <2> QED BY <1>6, <2>1, LimiterTabStep DEF LookUpIdentity
  <1>7. ASSUME NEW t \in Tabs, IssueSession(t) PROVE LimiterInv'
    <2>1. CASE tab[t].mode = "local"
      <3>1. failures'.count = 0 /\ Becomes(t, Idle)
        BY <1>7, <2>1 DEF IssueSession, Reset, NoFailures
      <3>2. tab'[t] = Idle /\ \A u \in Tabs : u # t => tab'[u] = tab[u]
        BY <3>1, BecomesFacts DEF TypeOK
      <3>3. \A u \in Tabs : tab'[u].phase = "lookedUp" /\ ~tab'[u].right => tab'[u].mode = "local"
        BY <3>2, TabForms DEF LimiterInv
      <3> QED BY <1>t, <3>1, <3>3 DEF LimiterInv, FailuresBounded, InWindow
    <2>2. CASE tab[t].mode # "local"
      BY <1>7, <2>2, LimiterTabStep, TabForms DEF IssueSession
    <2> QED BY <2>1, <2>2
  <1>8. CASE Tick
    <2>1. InWindow' => InWindow
      BY <1>t, <1>8 DEF Tick, InWindow
    <2>2. Pending' = Pending
      BY <1>8 DEF Tick, Pending, Unsettled
    <2> QED BY <1>8, <2>1, <2>2, LimiterQuietStep DEF Tick, LimiterInv
  <1>9. CASE Logout \/ (\E users \in [Keys -> Levels], key \in 1..MaxKeys : Swap(users, key))
             \/ UNCHANGED vars
    <2>1. UNCHANGED <<now, failures, tab>>
      BY <1>9 DEF Logout, Swap, vars
    <2>2. (InWindow' => InWindow) /\ Pending' = Pending
      BY <2>1 DEF InWindow, Pending, Unsettled
    <2> QED BY <2>1, <2>2, LimiterQuietStep DEF LimiterInv
  <1>10. ASSUME NEW modes \in Startable, Restart(modes) PROVE LimiterInv'
    <2>1. failures'.count = 0
      BY <1>10 DEF Restart, NoFailures
    <2>2. \A t \in Tabs : tab'[t].phase # "lookedUp"
      BY <1>10, TabForms DEF Restart, Free
    <2> QED BY <1>t, <2>1, <2>2 DEF LimiterInv, FailuresBounded, InWindow
  <1> QED
    BY <1>1, <1>2, <1>3, <1>4, <1>5, <1>6, <1>7, <1>8, <1>9, <1>10
    DEF Next, LocalLogin, ExternalLogin

\* Proxy.FailuresBounded: what rateLimiter counts exceeds its limit by less
\* than the number of handlers, for any number of them.
THEOREM FailuresAreBounded == Spec => []FailuresBounded
  <1>1. LimiterInv => FailuresBounded
    BY DEF LimiterInv
  <1> QED BY TypeInit, TypeNext, LimiterInit, LimiterNext, <1>1, PTL DEF Spec

-----------------------------------------------------------------------------
(***************************************************************************)
(* The access-request form.                                                 *)
(***************************************************************************)
\* Init and every step keep the form's token bound to the identity shown.
LEMMA FormInvariance == (Init => FormInv) /\ (TypeInv /\ FormInv /\ [Next]_vars => FormInv')
  <1>1. Init => FormInv
    BY TabForms DEF Init, FormInv, FiledForShownIdentity
  <1>2. ASSUME TypeOK, FormInv, [Next]_vars PROVE FormInv'
    <2>1. ASSUME NEW t \in Tabs, NEW x, Becomes(t, x), filed' = filed,
                 x.phase = "form" => x.csrf.subject = x.shown
          PROVE  FormInv'
      <3>1. tab'[t] = x /\ \A u \in Tabs : u # t => tab'[u] = tab[u]
        BY <1>2, <2>1, BecomesFacts DEF TypeOK
      <3> QED BY <1>2, <2>1, <3>1 DEF FormInv, FiledForShownIdentity
    <2>2. ASSUME NEW t \in Tabs, LocalLogin(t) \/ ExternalLogin(t) \/ IssueSession(t)
          PROVE  FormInv'
      <3>1. ASSUME NEW k \in Keys, SubmitPassword(t, k) PROVE FormInv'
        BY <2>1, <3>1 DEF SubmitPassword
      <3>2. ASSUME NEW right \in BOOLEAN, CheckPassword(t, right) PROVE FormInv'
        BY <2>1, <3>2 DEF CheckPassword
      <3>3. ASSUME NEW mode \in External, StartLogin(t, mode) PROVE FormInv'
        BY <2>1, <3>3 DEF StartLogin
      <3>4. CASE BeginExchange(t)
        BY <2>1, <3>4 DEF BeginExchange
      <3>5. ASSUME NEW s \in Subjects, LookUpIdentity(t, s) PROVE FormInv'
        BY <2>1, <3>5 DEF LookUpIdentity
      <3>6. CASE RefusePassword(t) \/ FailLogin(t) \/ IssueSession(t)
        <4>1. Becomes(t, Idle) /\ filed' = filed
          BY <3>6 DEF RefusePassword, FailLogin, IssueSession
        <4> QED BY <2>1, <4>1, TabForms
      <3> QED BY <2>2, <3>1, <3>2, <3>3, <3>4, <3>5, <3>6 DEF LocalLogin, ExternalLogin
    <2>3. ASSUME NEW t \in Tabs, ShowForm(t) PROVE FormInv'
      BY <2>1, <2>3 DEF ShowForm, CSRFToken
    <2>4. ASSUME NEW t \in Tabs, FileRequest(t) PROVE FormInv'
      <3>1. tab'[t] = Idle /\ \A u \in Tabs : u # t => tab'[u] = tab[u]
        BY <1>2, <2>4, BecomesFacts DEF FileRequest, TypeOK
      <3>2. FiledForShownIdentity'
        <4>1. CASE filed' = filed
          BY <1>2, <4>1 DEF FormInv, FiledForShownIdentity
        <4>2. CASE filed' # filed
          <5>1. /\ tab[t].phase = "form" /\ tab[t].csrf = CSRFToken(session)
                /\ filed' = [shown |-> tab[t].shown, subject |-> session.subject]
            BY <2>4, <4>2 DEF FileRequest
          <5>2. session.subject = tab[t].shown
            BY <1>2, <5>1 DEF FormInv, CSRFToken
          <5> QED BY <5>1, <5>2 DEF FiledForShownIdentity
        <4> QED BY <4>1, <4>2
      <3> QED BY <1>2, <3>1, <3>2, TabForms DEF FormInv
    <2>5. CASE Logout \/ Tick \/ UNCHANGED vars
               \/ (\E users \in [Keys -> Levels], key \in 1..MaxKeys : Swap(users, key))
      BY <1>2, <2>5 DEF Logout, Tick, Swap, vars, FormInv, FiledForShownIdentity
    <2>6. ASSUME NEW modes \in Startable, Restart(modes) PROVE FormInv'
      <3>1. filed' = filed /\ \A t \in Tabs : tab'[t] \in {tab[t], Idle}
        BY <2>6 DEF Restart
      <3> QED BY <1>2, <3>1, TabForms DEF FormInv, FiledForShownIdentity
    <2> QED BY <1>2, <2>2, <2>3, <2>4, <2>5, <2>6 DEF Next
  <1> QED BY <1>1, <1>2 DEF TypeInv

\* Proxy.FiledForShownIdentity: handleAccessRequest never files a request for
\* another identity than its form showed, whatever the other tabs do.
THEOREM RequestsNameTheShownIdentity == Spec => []FiledForShownIdentity
  <1>1. FormInv => FiledForShownIdentity
    BY DEF FormInv
  <1> QED BY TypeInit, TypeNext, FormInvariance, <1>1, PTL DEF Spec

=============================================================================
