----------------------------- MODULE AdminSync -----------------------------
(***************************************************************************)
(* The pgAdmin synchronisation of one PgConsole: the operator's step that   *)
(* reads the credentials the cluster publishes and posts them to the        *)
(* admin-sync sidecar (pgadmin_sync.go, clustercredentials.go,              *)
(* sidecar_client.go), and the sidecar's handler that writes them, account  *)
(* by account, into pgAdmin's storage (sidecar_server.go).                  *)
(*                                                                          *)
(* A list of connections with its passwords is a number, in the order in    *)
(* which the cluster first published it; 0 is the empty list, or a file     *)
(* that does not exist.  serversRevision hashes a list and is taken to be   *)
(* injective.                                                               *)
(*                                                                          *)
(* The handler takes no lock, so several calls may be under way at once:    *)
(* the one the operator waits for, and those of operators that timed out    *)
(* or died.                                                                 *)
(***************************************************************************)
EXTENDS Integers, FiniteSets

CONSTANTS
    Accounts,        \* readers who may sign in to pgAdmin
    Directories,     \* directories under pgAdmin's storage root
    StorageOf,       \* userStorageDirectory: the directory of an account
    NoAccount,       \* a handler between two accounts
    Calls,           \* sync requests the sidecar may serve at once
    MaxLists,        \* lists the cluster publishes
    MaxRevivals,     \* times it publishes an earlier list again
    MaxOrphans,      \* calls whose operator stopped waiting
    MaxDisturbances  \* both of these, failed files and commands, Pod restarts

ASSUME SyncAssumption ==
    /\ StorageOf \in [Accounts -> Directories]
    /\ NoAccount \notin Accounts
    /\ Calls \subseteq Nat
    /\ MaxLists \in Nat /\ MaxRevivals \in Nat
    /\ MaxOrphans \in Nat /\ MaxDisturbances \in Nat

VARIABLES
    published,  \* list that clusterCredentials builds from the live Secrets
    latest,     \* newest list there has been
    accounts,   \* webserver accounts in pgAdmin's settings database
    passfile,   \* list in the credential file of each storage directory
    revision,   \* list named by the revision file of each directory
    loaded,     \* list in the settings database, for each account
    legacy,     \* list in the combined credential file
    ready,      \* the Pod is ready, at the current configuration
    calls,      \* the sidecar's handlers
    waiting,    \* handlers whose answer the operator waits for, at most one
    synced,     \* the PgAdminSynced condition
    revivals, orphans, faults \* history

clusterVars == <<published, latest, accounts, ready>>
storageVars == <<passfile, revision, loaded, legacy>>
operatorVars == <<waiting, synced>>
countVars == <<revivals, orphans, faults>>
vars == <<clusterVars, storageVars, calls, operatorVars, countVars>>

List == 0..MaxLists
Steps == {"none", "accounts", "next", "write", "load", "record", "done", "failed"}
Call == [step: Steps, list: List, listed: SUBSET Accounts, todo: SUBSET Accounts,
         account: Accounts \cup {NoAccount},
         cancelled: BOOLEAN] \* r.Context(): the client closed the connection

NoCall == [step |-> "none", list |-> 0, listed |-> {}, todo |-> {},
           account |-> NoAccount, cancelled |-> FALSE]

TypeOK ==
    /\ published \in List
    /\ latest \in List
    /\ accounts \subseteq Accounts
    /\ passfile \in [Directories -> List]
    /\ revision \in [Directories -> List]
    /\ loaded \in [Accounts -> List]
    /\ legacy \in List
    /\ ready \in BOOLEAN
    /\ calls \in [Calls -> Call]
    /\ waiting \subseteq Calls /\ Cardinality(waiting) <= 1
    /\ synced \in {"Unknown", "True", "False"}
    /\ revivals \in 0..MaxRevivals
    /\ orphans \in 0..MaxOrphans
    /\ faults \in 0..MaxDisturbances

Disturbances == revivals + orphans + faults

\* A console whose Pod has just become ready, before anyone signed in.
Init ==
    /\ published = 0 /\ latest = 0 /\ accounts = {}
    /\ passfile = [d \in Directories |-> 0]
    /\ revision = [d \in Directories |-> 0]
    /\ loaded = [a \in Accounts |-> 0]
    /\ legacy = 0
    /\ ready = TRUE
    /\ calls = [c \in Calls |-> NoCall]
    /\ waiting = {} /\ synced = "Unknown"
    /\ revivals = 0 /\ orphans = 0 /\ faults = 0

-----------------------------------------------------------------------------
(***************************************************************************)
(* The cluster, and the readers.                                            *)
(***************************************************************************)

\* A Secret, a DatabaseRole or the write Service changes.
PublishList ==
    /\ latest < MaxLists
    /\ latest' = latest + 1
    /\ published' = latest + 1
    /\ UNCHANGED <<accounts, ready, storageVars, calls, operatorVars, countVars>>

\* What was changed is changed back: a DatabaseRole that was added is removed.
ReviveList ==
    /\ revivals < MaxRevivals /\ Disturbances < MaxDisturbances
    /\ \E l \in 0..latest : l # published /\ published' = l
    /\ revivals' = revivals + 1
    /\ UNCHANGED <<latest, accounts, ready, storageVars, calls, operatorVars, orphans, faults>>

\* pgAdmin creates an account the first time the proxy forwards its identity.
SignIn ==
    /\ ready
    /\ \E a \in Accounts \ accounts : accounts' = accounts \cup {a}
    /\ UNCHANGED <<published, latest, ready, storageVars, calls, operatorVars, countVars>>

-----------------------------------------------------------------------------
(***************************************************************************)
(* The operator: reconcilePgAdminSync, on the two-minute resync or on any   *)
(* reconcile.  It is a step of the one worker, which waits for the answer.  *)
(***************************************************************************)

\* No complete rollout at the current checksum, no ready Pod, or no
\* credential: the condition says so and nothing is sent.
SyncNotPossible ==
    /\ waiting = {}
    /\ ~ready \/ published = 0
    /\ synced' = "False"
    /\ UNCHANGED <<clusterVars, storageVars, calls, waiting, countVars>>

\* Mutant: an operator-side revision, which skips a list it already synced.
SendNewList(c) ==
    /\ synced # "True"
    /\ waiting' = {c}
    /\ calls' = [calls EXCEPT ![c] = [NoCall EXCEPT !.step = "accounts", !.list = published]]

SendList(c) ==
    /\ waiting' = {c}
    /\ calls' = [calls EXCEPT ![c] = [NoCall EXCEPT !.step = "accounts", !.list = published]]

\* The sidecar starts a handler; which one it is does not matter.
Free == {c \in Calls : calls[c].step = "none"}

\* Sync: POST the list read from the live Secrets.
Sync ==
    /\ waiting = {}
    /\ ready /\ published # 0
    /\ Free # {}
    /\ SendList(CHOOSE c \in Free : \A d \in Free : c <= d)
    /\ UNCHANGED <<clusterVars, storageVars, synced, countVars>>

\* The answer, 204 or 500, becomes the condition.
ReceiveAnswer ==
    /\ \E c \in waiting :
         /\ calls[c].step \in {"done", "failed"}
         /\ synced' = IF calls[c].step = "done" THEN "True" ELSE "False"
         /\ calls' = [calls EXCEPT ![c] = NoCall]
    /\ waiting' = {}
    /\ UNCHANGED <<clusterVars, storageVars, countVars>>

\* The five-minute timeout, reported as a failed sync.  The handler goes on.
TimeOut ==
    /\ waiting # {}
    /\ orphans < MaxOrphans /\ Disturbances < MaxDisturbances
    /\ waiting' = {}
    /\ synced' = "False"
    /\ orphans' = orphans + 1
    /\ UNCHANGED <<clusterVars, storageVars, calls, revivals, faults>>

\* The manager dies, or loses its lease, while it waits.
ManagerRestarts ==
    /\ waiting # {}
    /\ orphans < MaxOrphans /\ Disturbances < MaxDisturbances
    /\ waiting' = {}
    /\ orphans' = orphans + 1
    /\ UNCHANGED <<clusterVars, storageVars, calls, synced, revivals, faults>>

-----------------------------------------------------------------------------
(***************************************************************************)
(* The sidecar: apply, one step for each file or command.                   *)
(***************************************************************************)
Goto(c, step) == calls' = [calls EXCEPT ![c].step = step]

\* A command of a cancelled call is killed; without a fault it runs.
CommandRuns(c) == ~calls[c].cancelled

\* accounts: the settings database may not exist yet, which is no account.
ListAccounts(c) ==
    /\ calls[c].step = "accounts"
    /\ CommandRuns(c)
    /\ calls' = [calls EXCEPT ![c].step = "next",
                              ![c].listed = accounts, ![c].todo = accounts]
    /\ UNCHANGED <<clusterVars, storageVars, operatorVars, countVars>>

\* Mutant: any recorded revision will do.
AnyRevisionApplied(c, a) == revision[StorageOf[a]] # 0

RevisionApplied(c, a) == revision[StorageOf[a]] = calls[c].list

\* The loop: skip an account that already has the desired revision.
NextAccount(c) ==
    /\ calls[c].step = "next"
    /\ \E a \in calls[c].todo :
         calls' = [calls EXCEPT
                     ![c].todo = calls[c].todo \ {a},
                     ![c].step = IF RevisionApplied(c, a) THEN "next" ELSE "write",
                     ![c].account = IF RevisionApplied(c, a) THEN NoAccount ELSE a]
    /\ UNCHANGED <<clusterVars, storageVars, operatorVars, countVars>>

\* Mutant: the revision is recorded together with the credential file.
RecordEarly(c) ==
    /\ calls[c].step = "write"
    /\ passfile' = [passfile EXCEPT ![StorageOf[calls[c].account]] = calls[c].list]
    /\ revision' = [revision EXCEPT ![StorageOf[calls[c].account]] = calls[c].list]
    /\ Goto(c, "load")
    /\ UNCHANGED <<clusterVars, loaded, legacy, operatorVars, countVars>>

\* writePassfile: written beside the target and renamed over it.
WritePassfile(c) ==
    /\ calls[c].step = "write"
    /\ passfile' = [passfile EXCEPT ![StorageOf[calls[c].account]] = calls[c].list]
    /\ Goto(c, "load")
    /\ UNCHANGED <<clusterVars, revision, loaded, legacy, operatorVars, countVars>>

\* loadServers: setup.py load-servers --replace.
LoadServers(c) ==
    /\ calls[c].step = "load"
    /\ CommandRuns(c)
    /\ loaded' = [loaded EXCEPT ![calls[c].account] = calls[c].list]
    /\ Goto(c, "record")
    /\ UNCHANGED <<clusterVars, passfile, revision, legacy, operatorVars, countVars>>

\* Mutant: a count of the syncs in place of the fingerprint.
RecordCount(c) ==
    /\ calls[c].step = "record"
    /\ revision' = [revision EXCEPT ![StorageOf[calls[c].account]] = @ + 1]
    /\ calls' = [calls EXCEPT ![c].step = "next", ![c].account = NoAccount]
    /\ UNCHANGED <<clusterVars, passfile, loaded, legacy, operatorVars, countVars>>

RecordRevision(c) ==
    /\ calls[c].step = "record"
    /\ revision' = [revision EXCEPT ![StorageOf[calls[c].account]] = calls[c].list]
    /\ calls' = [calls EXCEPT ![c].step = "next", ![c].account = NoAccount]
    /\ UNCHANGED <<clusterVars, passfile, loaded, legacy, operatorVars, countVars>>

\* writeLegacyPassfile: the combined file, after the last account.
WriteLegacyPassfile(c) ==
    /\ calls[c].step = "next"
    /\ calls[c].todo = {}
    /\ legacy' = calls[c].list
    /\ Goto(c, "done")
    /\ UNCHANGED <<clusterVars, passfile, revision, loaded, operatorVars, countVars>>

\* The steps in which a handler may fail, and what a failure leaves behind:
\* load-servers may have replaced the rows or removed them, and the revision
\* file, which is truncated before it is written, may be empty.
FailureLeaves(c) ==
    /\ \/ calls[c].step # "load" /\ loaded' = loaded
       \/ /\ calls[c].step = "load"
          /\ \E l \in {loaded[calls[c].account], 0, calls[c].list} :
               loaded' = [loaded EXCEPT ![calls[c].account] = l]
    /\ \/ revision' = revision
       \/ /\ calls[c].step = "record"
          /\ revision' = [revision EXCEPT ![StorageOf[calls[c].account]] = 0]
    /\ Goto(c, "failed")
    /\ UNCHANGED <<passfile, legacy>>

HandlerFails(c) ==
    /\ \/ calls[c].step \in {"accounts", "write", "load", "record"}
       \/ calls[c].step = "next" /\ calls[c].todo = {}
    /\ Disturbances < MaxDisturbances
    /\ FailureLeaves(c)
    /\ faults' = faults + 1
    /\ UNCHANGED <<clusterVars, operatorVars, revivals, orphans>>

\* net/http cancels the context of a call whose client went away, once it
\* notices, which kills the command that runs then or is started next.
Cancel(c) ==
    /\ c \notin waiting
    /\ calls[c].step \notin {"none", "done", "failed"}
    /\ ~calls[c].cancelled
    /\ calls' = [calls EXCEPT ![c].cancelled = TRUE]
    /\ UNCHANGED <<clusterVars, storageVars, operatorVars, countVars>>

CommandKilled(c) ==
    /\ calls[c].step \in {"accounts", "load"}
    /\ calls[c].cancelled
    /\ FailureLeaves(c)
    /\ UNCHANGED <<clusterVars, operatorVars, countVars>>

\* Nobody reads the answer of an orphaned call.
DropAnswer(c) ==
    /\ c \notin waiting
    /\ calls[c].step \in {"done", "failed"}
    /\ calls' = [calls EXCEPT ![c] = NoCall]
    /\ UNCHANGED <<clusterVars, storageVars, operatorVars, countVars>>

-----------------------------------------------------------------------------
(***************************************************************************)
(* The Pod is replaced: its handlers are gone, and the operator's call with *)
(* them.  The settings volume outlives it, the volume of the combined file  *)
(* does not.                                                                *)
(***************************************************************************)
PodStops ==
    /\ ready
    /\ Disturbances < MaxDisturbances
    /\ ready' = FALSE
    /\ calls' = [c \in Calls |-> NoCall]
    /\ waiting' = {}
    /\ synced' = IF waiting = {} THEN synced ELSE "False"
    /\ legacy' = 0
    /\ faults' = faults + 1
    /\ UNCHANGED <<published, latest, accounts, passfile, revision, loaded, revivals, orphans>>

PodStarts ==
    /\ ~ready
    /\ ready' = TRUE
    /\ UNCHANGED <<published, latest, accounts, storageVars, calls, operatorVars, countVars>>

-----------------------------------------------------------------------------
Operator == SyncNotPossible \/ Sync \/ ReceiveAnswer

Handler(c) ==
    \/ ListAccounts(c) \/ NextAccount(c)
    \/ WritePassfile(c) \/ LoadServers(c) \/ RecordRevision(c)
    \/ WriteLegacyPassfile(c)
    \/ CommandKilled(c) \/ DropAnswer(c)

Next ==
    \/ PublishList \/ ReviveList \/ SignIn
    \/ Operator \/ TimeOut \/ ManagerRestarts
    \/ \E c \in Calls : Handler(c) \/ HandlerFails(c) \/ Cancel(c)
    \/ PodStops \/ PodStarts

Spec == Init /\ [][Next]_vars

(***************************************************************************)
(* The two-minute resync keeps the operator syncing, the sidecar serves     *)
(* every call to its end, and the Pod comes back.                           *)
(***************************************************************************)
Fairness ==
    /\ WF_vars(Operator)
    /\ \A c \in Calls : WF_vars(Handler(c))
    /\ WF_vars(PodStarts)

FairSpec == Spec /\ Fairness

-----------------------------------------------------------------------------
(***************************************************************************)
(* Properties.                                                              *)
(***************************************************************************)
Holds(a, l) == passfile[StorageOf[a]] = l /\ loaded[a] = l

\* recordRevision: the revision is "written last so a failure part-way
\* through leaves the account looking unprovisioned rather than current".
\* Between two calls, an account whose revision is the published list has
\* that list in its credential file and in the settings database.
CurrentMeansProvisioned ==
    \A a \in accounts :
        (/\ published # 0
         /\ revision[StorageOf[a]] = published
         /\ \A c \in Calls : calls[c].step = "none")
        => Holds(a, published)

\* The same, as long as no list comes back and no call was orphaned.
Orderly == revivals = 0 /\ orphans = 0
CurrentUnlessDisordered == Orderly => CurrentMeansProvisioned

\* The operator reports PgAdminSynced only once every account the sidecar
\* listed, and the combined file, hold the list that was sent.
SuccessMeansProvisioned ==
    \A c \in waiting :
        (Orderly /\ calls[c].step = "done")
        => legacy = calls[c].list /\ \A a \in calls[c].listed : Holds(a, calls[c].list)

\* An account that signs in, at whatever moment, eventually gets the
\* published connections and keeps them, and so does the combined file; and
\* the condition comes to say so, also when calls were orphaned on the way.
Provisioned ==
    published # 0 => legacy = published /\ \A a \in accounts : Holds(a, published)
Reported == synced = IF published = 0 THEN "False" ELSE "True"
EventuallyProvisioned == <>[](Reported /\ (Orderly => Provisioned))

=============================================================================
