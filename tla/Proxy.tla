------------------------------- MODULE Proxy -------------------------------
(***************************************************************************)
(* The authentication proxy of one console (internal/proxy) and the tabs    *)
(* of one browser in front of it: local sign-in with its failure counter,   *)
(* sign-in through an external provider, the session cookie and the         *)
(* decision it leads to, the access-request form, and the swap of the       *)
(* configuration snapshot underneath all of them.                           *)
(*                                                                          *)
(* Requests are handled concurrently and each handler loads the snapshot    *)
(* anew wherever the code does.  The tabs share one cookie jar and one      *)
(* address.  Time is counted in ticks, long against a handler and short     *)
(* against a session.                                                       *)
(***************************************************************************)
EXTENDS Integers, FiniteSets

CONSTANTS
    Subjects,     \* identities as a provider spells them
    Lower,        \* strings.ToLower
    WithPassword, \* lower-case identities with a local password
    Granted,      \* ranks of the levels a user may have
    FirstUsers,   \* level of each user in the configuration first loaded
    Modes,        \* providers the configuration enables
    Tabs,         \* tabs of the browser
    MaxAge,       \* ticks a session lasts
    FlowAge,      \* ticks the transient cookie lasts
    Window,       \* ticks of the failure window
    MaxFailures,  \* failures allowed in a window
    MaxTime, MaxFlows, MaxKeys, MaxSwaps, MaxRestarts, \* bounds
    MaxEvents     \* external sign-ins, swaps and restarts together

ASSUME ProxyAssumption ==
    /\ Lower \in [Subjects -> Subjects]
    /\ \A s \in Subjects : Lower[Lower[s]] = Lower[s]
    /\ WithPassword \subseteq Subjects
    /\ Granted \subseteq 1..3
    /\ FirstUsers \in [{Lower[s] : s \in Subjects} -> {0} \cup Granted]
    /\ Modes \subseteq {"local", "oidc", "openshift"} /\ Modes # {}
    /\ IsFiniteSet(Tabs)
    /\ MaxAge \in Nat \ {0} /\ FlowAge \in Nat \ {0} /\ Window \in Nat \ {0}
    /\ MaxFailures \in Nat \ {0}
    /\ MaxTime \in Nat /\ MaxFlows \in Nat /\ MaxSwaps \in Nat
    /\ MaxKeys \in Nat \ {0} /\ MaxRestarts \in Nat /\ MaxEvents \in Nat

VARIABLES
    now,         \* the clock
    runtime,     \* the snapshot in force: session key, level of each user
    started,     \* providers that could be set up when the process started
    failures,    \* the limiter's entry for the browser's address
    session,     \* the browser's session cookie
    transient,   \* the browser's login-flow cookie
    tab,         \* what each tab is doing
    filed,       \* the last access request: identity the form showed, and named
    lastGranted, \* history: when each level was last in force for an identity
    flows, swaps, keys, restarts \* history

vars == <<now, runtime, started, failures, session, transient, tab, filed, lastGranted,
          flows, swaps, keys, restarts>>

Keys == {Lower[s] : s \in Subjects}
External == Modes \ {"local"}
Levels == {0} \cup Granted \* Rank; 0 is LevelNone, an identity without a user
Time == 0..MaxTime
Expiry == 0..MaxTime + MaxAge + FlowAge

NoCookie == [key |-> 0]
NoRequest == [shown |-> "nobody"]
Session == [key: 1..MaxKeys, subject: Subjects, level: Levels, expiry: Expiry]
Transient == [key: 1..MaxKeys, state: 1..MaxFlows, nonce: BOOLEAN, expiry: Expiry]
Token == [key: 1..MaxKeys, subject: Subjects, expiry: Expiry]

Idle == [phase |-> "idle"]
Tab == [phase: {"idle"}]
    \cup [phase: {"admitted"}, subject: Keys]
    \cup [phase: {"away"}, mode: External, state: 1..MaxFlows]
    \cup [phase: {"exchanging"}, mode: External]
    \cup [phase: {"lookedUp"}, mode: Modes, subject: Subjects, level: Levels, right: BOOLEAN]
    \cup [phase: {"form"}, shown: Subjects, csrf: Token]

TypeOK ==
    /\ now \in Time
    /\ runtime \in [key: 1..MaxKeys, users: [Keys -> Levels]]
    /\ started \subseteq Modes
    /\ failures \in [start: Time, count: Nat]
    /\ session \in Session \cup {NoCookie}
    /\ transient \in Transient \cup {NoCookie}
    /\ tab \in [Tabs -> Tab]
    /\ filed \in [shown: Subjects, subject: Subjects] \cup {NoRequest}
    /\ lastGranted \in [Keys -> [Granted -> Time \cup {-1}]]
    /\ flows \in 0..MaxFlows /\ swaps \in 0..MaxSwaps
    /\ keys \in 1..MaxKeys /\ restarts \in 0..MaxRestarts

\* The grants of users u are in force at time t.
Stamp(u, t) ==
    lastGranted' = [k \in Keys |-> [l \in Granted |-> IF l = u[k] THEN t ELSE lastGranted[k][l]]]

\* setupProviders: an external provider that cannot be reached is left out; a
\* process with no provider does not start.
Startable == {s \in SUBSET Modes : s # {} /\ Modes \ External \subseteq s}

Events == flows + swaps + restarts

NoFailures == [start |-> 0, count |-> 0]

Init ==
    /\ now = 0
    /\ runtime = [key |-> 1, users |-> FirstUsers]
    /\ started \in Startable
    /\ failures = NoFailures
    /\ session = NoCookie /\ transient = NoCookie
    /\ tab = [t \in Tabs |-> Idle]
    /\ filed = NoRequest
    /\ lastGranted = [k \in Keys |-> [l \in Granted |-> IF l = runtime.users[k] THEN 0 ELSE -1]]
    /\ flows = 0 /\ swaps = 0 /\ keys = 1 /\ restarts = 0

-----------------------------------------------------------------------------
(***************************************************************************)
(* The session codec and the decision on a proxied request.                 *)
(***************************************************************************)

\* Mutant: an identity without a user gets the rank of an unknown level.
LookupInvalid(s) ==
    IF runtime.users[Lower[s]] = 0 THEN -1 ELSE runtime.users[Lower[s]]

\* LookupUser: the level of an identity in the snapshot in force.
LookupUser(s) == runtime.users[Lower[s]]

\* Mutant: an expiry that is reached still counts.
ValidUntilIncluded(c) == now <= c.expiry

\* Codec.Valid
Valid(c) == now < c.expiry

\* ReadCookie: there is a cookie, the key in force opens it, it has not expired.
ReadCookie(c) == c # NoCookie /\ c.key = runtime.key /\ Valid(c)

\* The two routes the operator renders: the console, and pgAdmin.
MinLevels == {1, 3}

\* handleProxied, the request is passed on.
Admits(min) == ReadCookie(session) /\ session.level >= min

\* Mutant: the token is not bound to the identity.
UnboundCSRFToken(d) ==
    [key |-> runtime.key, subject |-> CHOOSE s \in Subjects : TRUE, expiry |-> d.expiry]

\* CSRFToken: an HMAC of the session's identity under the key in force.
CSRFToken(d) == [key |-> runtime.key, subject |-> d.subject, expiry |-> d.expiry]

Free(t) == tab[t].phase \in {"idle", "away", "form"}
Becomes(t, x) == tab' = [tab EXCEPT ![t] = x]

-----------------------------------------------------------------------------
(***************************************************************************)
(* Local sign-in.                                                           *)
(***************************************************************************)
InWindow == failures.count > 0 /\ now - failures.start < Window

\* Mutant: one failure too many.
AllowsOneMore == ~InWindow \/ failures.count <= MaxFailures

\* rateLimiter.allow, fail and reset
Allow == ~InWindow \/ failures.count < MaxFailures
Fail == failures' = IF InWindow THEN [failures EXCEPT !.count = @ + 1]
                    ELSE [start |-> now, count |-> 1]
Reset == failures' = NoFailures

\* handleSubmit: the address may try, the form is read, the name lowered.
SubmitPassword(t, k) ==
    /\ "local" \in started
    /\ Free(t)
    /\ Allow
    /\ Becomes(t, [phase |-> "admitted", subject |-> k])
    /\ UNCHANGED <<now, runtime, started, failures, session, transient, filed, lastGranted,
                   flows, swaps, keys, restarts>>

\* LookupUser, and one bcrypt comparison: with the user's hash or, where there
\* is none, with the dummy.  The outcome counts for every identity that has a
\* user, whichever of the two hashes it was compared with.
CheckPassword(t, right) ==
    LET k == tab[t].subject
    IN  /\ tab[t].phase = "admitted"
        /\ right => LookupUser(k) # 0
        /\ Becomes(t, [phase |-> "lookedUp", mode |-> "local", subject |-> k,
                       level |-> LookupUser(k), right |-> right])
        /\ UNCHANGED <<now, runtime, started, failures, session, transient, filed, lastGranted,
                       flows, swaps, keys, restarts>>

RefusePassword(t) ==
    /\ tab[t].phase = "lookedUp"
    /\ ~tab[t].right
    /\ Fail
    /\ Becomes(t, Idle)
    /\ UNCHANGED <<now, runtime, started, session, transient, filed, lastGranted,
                   flows, swaps, keys, restarts>>

-----------------------------------------------------------------------------
(***************************************************************************)
(* Sign-in through an external provider.  The cookie that carries the       *)
(* state, the PKCE verifier and, for OIDC, the nonce has one name for both  *)
(* providers and all tabs.                                                  *)
(***************************************************************************)
\* handleLogin
StartLogin(t, mode) ==
    /\ mode \in started \cap External
    /\ Free(t)
    /\ flows < MaxFlows /\ Events < MaxEvents
    /\ flows' = flows + 1
    /\ transient' = [key |-> runtime.key, state |-> flows', nonce |-> mode = "oidc",
                     expiry |-> now + FlowAge]
    /\ Becomes(t, [phase |-> "away", mode |-> mode, state |-> flows'])
    /\ UNCHANGED <<now, runtime, started, failures, session, filed, lastGranted,
                   swaps, keys, restarts>>

\* readTransient, and the comparison of the states
FlowMatches(t) ==
    /\ ReadCookie(transient)
    /\ tab[t].mode = "oidc" => transient.nonce
    /\ transient.state = tab[t].state

\* handleCallback, up to the exchange of the code.
BeginExchange(t) ==
    /\ tab[t].phase = "away"
    /\ tab[t].mode \in started
    /\ FlowMatches(t)
    /\ Becomes(t, [phase |-> "exchanging", mode |-> tab[t].mode])
    /\ UNCHANGED <<now, runtime, started, failures, session, transient, filed, lastGranted,
                   flows, swaps, keys, restarts>>

\* Every failure clears the cookie, whichever flow it belongs to: an error of
\* the provider, a cookie that is gone, expired, sealed under another key or
\* of another flow, a failed exchange, token or user lookup.
FailLogin(t) ==
    /\ tab[t].phase \in {"away", "exchanging"}
    /\ tab[t].mode \in started
    /\ transient' = NoCookie
    /\ Becomes(t, Idle)
    /\ UNCHANGED <<now, runtime, started, failures, session, filed, lastGranted,
                   flows, swaps, keys, restarts>>

\* The identity the provider vouches for: OIDC lowers it, OpenShift does not.
SubjectOf(mode, s) == IF mode = "oidc" THEN Lower[s] ELSE s

\* The exchange has succeeded; LookupUser in the snapshot of this moment.
LookUpIdentity(t, s) ==
    /\ tab[t].phase = "exchanging"
    /\ Becomes(t, [phase |-> "lookedUp", mode |-> tab[t].mode,
                   subject |-> SubjectOf(tab[t].mode, s),
                   level |-> LookupUser(s), right |-> TRUE])
    /\ UNCHANGED <<now, runtime, started, failures, session, transient, filed, lastGranted,
                   flows, swaps, keys, restarts>>

\* IssueSession, sealed with the key of the snapshot then in force, and what
\* the provider does with it: a local sign-in resets the failures, an
\* external one clears the flow's cookie.
IssueSession(t) ==
    /\ tab[t].phase = "lookedUp"
    /\ tab[t].right
    /\ session' = [key |-> runtime.key, subject |-> tab[t].subject, level |-> tab[t].level,
                   expiry |-> now + MaxAge]
    /\ IF tab[t].mode = "local" THEN Reset /\ UNCHANGED transient
       ELSE transient' = NoCookie /\ UNCHANGED failures
    /\ Becomes(t, Idle)
    /\ UNCHANGED <<now, runtime, started, filed, lastGranted, flows, swaps, keys, restarts>>

\* handleLogout
Logout ==
    /\ session # NoCookie
    /\ session' = NoCookie
    /\ UNCHANGED <<now, runtime, started, failures, transient, tab, filed, lastGranted,
                   flows, swaps, keys, restarts>>

-----------------------------------------------------------------------------
(***************************************************************************)
(* The access-request form.                                                 *)
(***************************************************************************)
\* renderDeniedUnknown: a session without a level is shown the form.
ShowForm(t) ==
    /\ Free(t)
    /\ ReadCookie(session)
    /\ session.level = 0
    /\ Becomes(t, [phase |-> "form", shown |-> session.subject, csrf |-> CSRFToken(session)])
    /\ UNCHANGED <<now, runtime, started, failures, session, transient, filed, lastGranted,
                   flows, swaps, keys, restarts>>

\* handleAccessRequest: the request names the identity of the session that
\* posts the form, if the form's token is that session's.
FileRequest(t) ==
    /\ tab[t].phase = "form"
    /\ filed' = IF ReadCookie(session) /\ tab[t].csrf = CSRFToken(session)
                THEN [shown |-> tab[t].shown, subject |-> session.subject]
                ELSE filed
    /\ Becomes(t, Idle)
    /\ UNCHANGED <<now, runtime, started, failures, session, transient, lastGranted,
                   flows, swaps, keys, restarts>>

-----------------------------------------------------------------------------
(***************************************************************************)
(* The clock, the configuration and the process.                            *)
(***************************************************************************)
\* A handler that has looked an identity up finishes within the tick.
Tick ==
    /\ now < MaxTime
    /\ \A t \in Tabs : tab[t].phase # "lookedUp"
    /\ now' = now + 1
    /\ Stamp(runtime.users, now')
    /\ UNCHANGED <<runtime, started, failures, session, transient, tab, filed,
                   flows, swaps, keys, restarts>>

\* Env.Swap: the watcher has loaded a configuration with other users, or, if
\* the operator had to heal the Secret, with another key.
Swap(users, key) ==
    /\ swaps < MaxSwaps /\ Events < MaxEvents
    /\ runtime # [key |-> key, users |-> users]
    /\ key \in {runtime.key, keys + 1} \cap 1..MaxKeys
    /\ swaps' = swaps + 1
    /\ keys' = IF key > keys THEN key ELSE keys
    /\ runtime' = [key |-> key, users |-> users]
    /\ Stamp(users, now)
    /\ UNCHANGED <<now, started, failures, session, transient, tab, filed, flows, restarts>>

\* The process starts again, with the providers that can then be set up: the
\* requests under way and the limiter's entries are gone, the cookies are not.
Restart(modes) ==
    /\ restarts < MaxRestarts /\ Events < MaxEvents
    /\ restarts' = restarts + 1
    /\ started' = modes
    /\ failures' = NoFailures
    /\ tab' = [t \in Tabs |-> IF Free(t) THEN tab[t] ELSE Idle]
    /\ UNCHANGED <<now, runtime, session, transient, filed, lastGranted, flows, swaps, keys>>

-----------------------------------------------------------------------------
LocalLogin(t) ==
    \/ \E k \in Keys : SubmitPassword(t, k)
    \/ \E right \in BOOLEAN : CheckPassword(t, right)
    \/ RefusePassword(t)

ExternalLogin(t) ==
    \/ \E mode \in External : StartLogin(t, mode)
    \/ BeginExchange(t)
    \/ FailLogin(t)
    \/ \E s \in Subjects : LookUpIdentity(t, s)

Next ==
    \/ \E t \in Tabs : LocalLogin(t) \/ ExternalLogin(t) \/ IssueSession(t)
                       \/ ShowForm(t) \/ FileRequest(t)
    \/ Logout
    \/ Tick
    \/ \E users \in [Keys -> Levels], key \in 1..MaxKeys : Swap(users, key)
    \/ \E modes \in Startable : Restart(modes)

Spec == Init /\ [][Next]_vars

-----------------------------------------------------------------------------
(***************************************************************************)
(* Properties.                                                              *)
(***************************************************************************)

\* The level is sealed into the session, and looked up in one snapshot and
\* sealed under another.  Still, whoever gets through to an upstream had the
\* level of the session in force less than MaxAge ago: a revocation or a
\* demotion takes effect within the age of a session, whatever sign-ins,
\* swaps and restarts it met.
RevocationBound ==
    \A min \in MinLevels :
        Admits(min) => now - lastGranted[Lower[session.subject]][session.level] < MaxAge

\* The limiter checks before the comparison and counts after it.  Requests
\* that passed the check together may each fail, and no more: what is counted
\* in a window exceeds the limit by less than the handlers there are.
FailuresBounded == failures.count < MaxFailures + Cardinality(Tabs)

\* An access request names the identity that its form showed, also when
\* another tab has signed in as somebody else in between.
FiledForShownIdentity == filed # NoRequest => filed.subject = filed.shown

\* What the operator's configuration guide says of local accounts: a user
\* without a password Secret does not take part in local sign-in.  TLC refutes
\* it: the handler compares such a user as well (README, section 6).
OnlyAccountsSignIn ==
    \A t \in Tabs :
        tab[t].phase = "lookedUp" /\ tab[t].mode = "local" /\ tab[t].right
            => tab[t].subject \in WithPassword

=============================================================================
