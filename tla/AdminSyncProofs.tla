-------------------------- MODULE AdminSyncProofs --------------------------
(***************************************************************************)
(* The pgAdmin synchronisation, for any accounts, any number of lists,      *)
(* failed files and commands, and Pod restarts; and, in the second half,    *)
(* the list that is synchronised (ClusterInputs), for any roles, archives   *)
(* and number of changes.                                                   *)
(***************************************************************************)
EXTENDS AdminSync, FiniteSetTheorems, WellFoundedInduction, TLAPS

USE SyncAssumption DEF SyncAssumption

-----------------------------------------------------------------------------
(***************************************************************************)
(* Types.                                                                   *)
(***************************************************************************)
Busy(c) == calls[c].step # "none"
AtAccount(c) == calls[c].step \in {"write", "load", "record"}

\* One call at most is waited for, and the steps for an account have one.
CallTypes ==
    /\ TypeOK
    /\ waiting = {} \/ \E c \in Calls : waiting = {c}
    /\ \A c \in Calls : AtAccount(c) => calls[c].account \in Accounts

\* The fields of a handler.
LEMMA CallFields ==
    ASSUME NEW h \in Call
    PROVE  /\ h.step \in Steps /\ h.list \in List /\ h.listed \subseteq Accounts
           /\ h.todo \subseteq Accounts /\ h.account \in Accounts \cup {NoAccount}
  BY DEF Call

\* A handler that moves on, and what that leaves alone.
LEMMA CallMoves ==
    ASSUME NEW h \in Call, NEW s \in Steps
    PROVE  /\ [h EXCEPT !.step = s] \in Call
           /\ [h EXCEPT !.step = s].step = s
           /\ [h EXCEPT !.step = s].list = h.list
           /\ [h EXCEPT !.step = s].listed = h.listed
           /\ [h EXCEPT !.step = s].todo = h.todo
           /\ [h EXCEPT !.step = s].account = h.account
  BY DEF Call

\* A handler that has not been started, and one that has.
LEMMA NewCalls ==
    /\ NoCall \in Call /\ NoCall.step = "none"
    /\ \A l \in List :
         LET h == [NoCall EXCEPT !.step = "accounts", !.list = l]
         IN  h \in Call /\ h.step = "accounts" /\ h.list = l
  <1>1. NoCall \in Call /\ NoCall.step = "none"
    <2>1. 0 \in List /\ FALSE \in BOOLEAN
      BY DEF List
    <2> QED BY <2>1 DEF NoCall, Call, Steps
  <1>2. ASSUME NEW l \in List
        PROVE  LET h == [NoCall EXCEPT !.step = "accounts", !.list = l]
               IN  h \in Call /\ h.step = "accounts" /\ h.list = l
    BY <1>1 DEF Call, Steps
  <1> QED BY <1>1, <1>2

\* The sidecar starts a handler that was free.
LEMMA FreeCall ==
    ASSUME Free # {}
    PROVE  (CHOOSE c \in Free : \A d \in Free : c <= d) \in Free
  <1>0. Free \in SUBSET Nat
    BY DEF Free
  <1>1. \E x \in Free : \A y \in Free : ~(<<y, x>> \in OpToRel(<, Nat))
    BY <1>0, NatLessThanWellFounded, WFMin, Zenon
  <1>2. PICK x \in Free : \A y \in Free : ~(<<y, x>> \in OpToRel(<, Nat))
    BY <1>1, Zenon
  <1>3. \A y \in Free : ~(y < x)
    BY <1>0, <1>2 DEF OpToRel
  <1>4. \A y \in Free : x <= y
    BY <1>0, <1>3
  <1> QED BY <1>4

\* What becomes of one handler.
Becomes(c, h) == calls' = [calls EXCEPT ![c] = h]

\* The steps of a handler that has been sent a list change that handler only.
LEMMA HandlerBecomes ==
    ASSUME CallTypes, NEW c \in Calls
    PROVE  /\ ListAccounts(c) =>
                Becomes(c, [calls[c] EXCEPT !.step = "next", !.listed = accounts,
                                            !.todo = accounts])
           /\ WritePassfile(c) => Becomes(c, [calls[c] EXCEPT !.step = "load"])
           /\ LoadServers(c) => Becomes(c, [calls[c] EXCEPT !.step = "record"])
           /\ RecordRevision(c) =>
                Becomes(c, [calls[c] EXCEPT !.step = "next", !.account = NoAccount])
           /\ WriteLegacyPassfile(c) => Becomes(c, [calls[c] EXCEPT !.step = "done"])
           /\ FailureLeaves(c) => Becomes(c, [calls[c] EXCEPT !.step = "failed"])
           /\ Cancel(c) => Becomes(c, [calls[c] EXCEPT !.cancelled = TRUE])
           /\ DropAnswer(c) => Becomes(c, NoCall)
  BY DEF ListAccounts, WritePassfile, LoadServers, RecordRevision, WriteLegacyPassfile,
     FailureLeaves, Cancel, DropAnswer, Goto, Becomes

\* The handler that NextAccount leaves behind.
LEMMA NextAccountBecomes ==
    ASSUME CallTypes, NEW c \in Calls, NextAccount(c)
    PROVE  \E a \in calls[c].todo :
             Becomes(c, [calls[c] EXCEPT
                !.todo = calls[c].todo \ {a},
                !.step = IF RevisionApplied(c, a) THEN "next" ELSE "write",
                !.account = IF RevisionApplied(c, a) THEN NoAccount ELSE a])
  BY DEF NextAccount, Becomes

\* Types are kept when a handler becomes another well-formed one.
LEMMA TypesAfterCall ==
    ASSUME CallTypes, NEW c \in Calls, NEW h \in Call, Becomes(c, h),
           h.step \in {"write", "load", "record"} => h.account \in Accounts
    PROVE  /\ calls' \in [Calls -> Call]
           /\ \A d \in Calls : AtAccount(d)' => calls'[d].account \in Accounts
  BY DEF CallTypes, TypeOK, Becomes, AtAccount

\* A waiting operator waits for one call.
LEMMA WaitingIsOne ==
    ASSUME NEW w, w = {} \/ \E c \in Calls : w = {c}
    PROVE  w \subseteq Calls /\ Cardinality(w) <= 1
  <1>1. CASE w = {}
    <2>1. Cardinality({}) = 0
      BY FS_EmptySet
    <2> QED BY <1>1, <2>1
  <1>2. CASE \E c \in Calls : w = {c}
    <2>1. PICK c \in Calls : w = {c}
      BY <1>2
    <2>2. Cardinality({c}) = 1
      BY FS_Singleton
    <2> QED BY <2>1, <2>2
  <1> QED BY <1>1, <1>2

\* Before the first sync.
LEMMA CallTypesInit == Init => CallTypes
  <1> SUFFICES ASSUME Init PROVE CallTypes
    OBVIOUS
  <1>1. waiting \subseteq Calls /\ Cardinality(waiting) <= 1
    BY WaitingIsOne DEF Init
  <1>2. calls \in [Calls -> Call] /\ \A c \in Calls : ~AtAccount(c)
    BY NewCalls DEF Init, AtAccount
  <1> QED
    BY <1>1, <1>2 DEF Init, CallTypes, TypeOK, List

\* A failed handler leaves lists in the settings database and the revisions.
LEMMA FailureTypes ==
    ASSUME CallTypes, NEW c \in Calls, FailureLeaves(c)
    PROVE  /\ loaded' \in [Accounts -> List] /\ revision' \in [Directories -> List]
           /\ calls' \in [Calls -> Call]
           /\ \A d \in Calls : AtAccount(d)' => calls'[d].account \in Accounts
  <1>1. calls[c] \in Call /\ calls[c].list \in List /\ 0 \in List /\ "failed" \in Steps
    BY CallFields DEF CallTypes, TypeOK, List, Steps
  <1>2. loaded' \in [Accounts -> List]
    <2>1. CASE calls[c].step = "load"
      <3>1. calls[c].account \in Accounts
        BY <2>1 DEF CallTypes, AtAccount
      <3> QED
        BY <1>1, <2>1, <3>1 DEF FailureLeaves, CallTypes, TypeOK
    <2>2. CASE calls[c].step # "load"
      BY <2>2 DEF FailureLeaves, CallTypes, TypeOK
    <2> QED BY <2>1, <2>2
  <1>3. revision' \in [Directories -> List]
    BY <1>1 DEF FailureLeaves, CallTypes, TypeOK
  <1>4. [calls[c] EXCEPT !.step = "failed"].step = "failed"
    BY <1>1, CallMoves
  <1>5. Becomes(c, [calls[c] EXCEPT !.step = "failed"])
    BY HandlerBecomes
  <1>6. [calls[c] EXCEPT !.step = "failed"] \in Call
    BY <1>1, CallMoves
  <1> QED
    BY <1>2, <1>3, <1>4, <1>5, <1>6, TypesAfterCall

\* Types are kept by every step.
LEMMA CallTypesNext == CallTypes /\ [Next]_vars => CallTypes'
  <1> SUFFICES ASSUME CallTypes, [Next]_vars PROVE CallTypes'
    OBVIOUS
  <1>0. /\ TypeOK /\ calls \in [Calls -> Call]
        /\ revivals \in 0..MaxRevivals /\ orphans \in 0..MaxOrphans
        /\ faults \in 0..MaxDisturbances
        /\ Disturbances < MaxDisturbances => faults + 1 \in 0..MaxDisturbances
    BY DEF CallTypes, TypeOK, Disturbances
  <1>1. CASE PublishList \/ ReviveList \/ SignIn
    <2>1. /\ published' \in List /\ latest' \in List /\ accounts' \subseteq Accounts
          /\ revivals' \in 0..MaxRevivals
      BY <1>0, <1>1 DEF PublishList, ReviveList, SignIn, TypeOK, List, countVars
    <2>2. UNCHANGED <<ready, storageVars, calls, operatorVars, orphans, faults>>
      BY <1>1 DEF PublishList, ReviveList, SignIn, countVars
    <2> QED
      BY <2>1, <2>2 DEF CallTypes, TypeOK, AtAccount, storageVars, operatorVars
  <1>2. CASE SyncNotPossible
    BY <1>2 DEF SyncNotPossible, CallTypes, TypeOK, AtAccount, clusterVars, storageVars,
       countVars
  <1>3. CASE Sync
    <2>1. PICK c \in Free : SendList(c)
      BY <1>3, FreeCall DEF Sync
    <2> DEFINE h == [NoCall EXCEPT !.step = "accounts", !.list = published]
    <2>2. c \in Calls /\ h \in Call /\ h.step = "accounts" /\ waiting' = {c} /\ Becomes(c, h)
      BY <1>0, <2>1, NewCalls DEF Free, SendList, Becomes, TypeOK
    <2> HIDE DEF h
    <2>3. waiting' \subseteq Calls /\ Cardinality(waiting') <= 1
      BY <2>2, WaitingIsOne
    <2>4. /\ calls' \in [Calls -> Call]
          /\ \A d \in Calls : AtAccount(d)' => calls'[d].account \in Accounts
      BY <2>2, TypesAfterCall
    <2> QED
      BY <1>3, <2>2, <2>3, <2>4 DEF Sync, CallTypes, TypeOK, clusterVars, storageVars,
         countVars
  <1>4. CASE ReceiveAnswer
    <2>1. PICK c \in waiting : calls' = [calls EXCEPT ![c] = NoCall]
      BY <1>4 DEF ReceiveAnswer
    <2>2. c \in Calls /\ Becomes(c, NoCall)
      BY <1>0, <2>1 DEF TypeOK, Becomes
    <2>3. /\ calls' \in [Calls -> Call]
          /\ \A d \in Calls : AtAccount(d)' => calls'[d].account \in Accounts
      BY <2>2, NewCalls, TypesAfterCall
    <2>4. waiting' = {} /\ synced' \in {"True", "False"}
      BY <1>4 DEF ReceiveAnswer
    <2>5. waiting' \subseteq Calls /\ Cardinality(waiting') <= 1
      BY <2>4, WaitingIsOne
    <2> QED
      BY <1>4, <2>3, <2>4, <2>5 DEF ReceiveAnswer, CallTypes, TypeOK, clusterVars,
         storageVars, countVars
  <1>5. CASE TimeOut \/ ManagerRestarts
    <2>1. /\ waiting' = {} /\ synced' \in {synced, "False"} /\ orphans' \in 0..MaxOrphans
          /\ UNCHANGED <<clusterVars, storageVars, calls, revivals, faults>>
      BY <1>0, <1>5 DEF TimeOut, ManagerRestarts
    <2>2. waiting' \subseteq Calls /\ Cardinality(waiting') <= 1
      BY <2>1, WaitingIsOne
    <2> QED
      BY <2>1, <2>2 DEF CallTypes, TypeOK, AtAccount, clusterVars, storageVars
  <1>6. ASSUME NEW c \in Calls, Handler(c) \/ HandlerFails(c) \/ Cancel(c)
        PROVE  CallTypes'
    <2>0. /\ calls[c] \in Call /\ calls[c].list \in List
          /\ calls[c].account \in Accounts \cup {NoAccount}
          /\ calls[c].todo \subseteq Accounts /\ accounts \subseteq Accounts
      BY <1>0, CallFields DEF TypeOK
    <2>1. CASE HandlerFails(c) \/ CommandKilled(c)
      <3>1. /\ FailureLeaves(c) /\ faults' \in 0..MaxDisturbances
            /\ UNCHANGED <<clusterVars, operatorVars, revivals, orphans>>
        BY <1>0, <2>1 DEF HandlerFails, CommandKilled, countVars
      <3>2. UNCHANGED <<passfile, legacy>>
        BY <3>1 DEF FailureLeaves
      <3> QED
        BY <3>1, <3>2, FailureTypes DEF CallTypes, TypeOK, clusterVars, operatorVars
    <2>2. CASE ListAccounts(c) \/ NextAccount(c) \/ Cancel(c) \/ DropAnswer(c)
      <3>1. UNCHANGED <<clusterVars, storageVars, operatorVars, countVars>>
        BY <2>2 DEF ListAccounts, NextAccount, Cancel, DropAnswer
      <3>2. PICK h \in Call :
               /\ Becomes(c, h)
               /\ h.step \in {"write", "load", "record"} => h.account \in Accounts
        <4>1. CASE ListAccounts(c)
          <5> DEFINE h == [calls[c] EXCEPT !.step = "next", !.listed = accounts,
                                           !.todo = accounts]
          <5>1. h \in Call /\ h.step = "next"
            BY <2>0 DEF Call, Steps
          <5> QED BY <4>1, <5>1, HandlerBecomes
        <4>2. CASE NextAccount(c)
          <5>1. PICK a \in calls[c].todo :
             Becomes(c, [calls[c] EXCEPT
                !.todo = calls[c].todo \ {a},
                !.step = IF RevisionApplied(c, a) THEN "next" ELSE "write",
                !.account = IF RevisionApplied(c, a) THEN NoAccount ELSE a])
            BY <4>2, NextAccountBecomes
          <5> DEFINE h == [calls[c] EXCEPT
                !.todo = calls[c].todo \ {a},
                !.step = IF RevisionApplied(c, a) THEN "next" ELSE "write",
                !.account = IF RevisionApplied(c, a) THEN NoAccount ELSE a]
          <5>2. /\ h \in Call /\ h.step \in {"next", "write"}
                /\ h.step = "write" => h.account = a
            BY <2>0 DEF Call, Steps
          <5> QED BY <2>0, <5>1, <5>2
        <4>3. CASE Cancel(c)
          <5> DEFINE h == [calls[c] EXCEPT !.cancelled = TRUE]
          <5>1. h \in Call /\ h.step = calls[c].step /\ h.account = calls[c].account
            BY <2>0 DEF Call
          <5>2. Becomes(c, h)
            BY <4>3, HandlerBecomes
          <5> HIDE DEF h
          <5> QED BY <5>1, <5>2 DEF CallTypes, AtAccount
        <4>4. CASE DropAnswer(c)
          BY <4>4, NewCalls, HandlerBecomes
        <4> QED BY <2>2, <4>1, <4>2, <4>3, <4>4
      <3>3. /\ calls' \in [Calls -> Call]
            /\ \A d \in Calls : AtAccount(d)' => calls'[d].account \in Accounts
        BY <3>2, TypesAfterCall
      <3> QED
        BY <3>1, <3>3 DEF CallTypes, TypeOK, clusterVars, storageVars, operatorVars, countVars
    <2>3. CASE \/ WritePassfile(c) \/ LoadServers(c) \/ RecordRevision(c)
               \/ WriteLegacyPassfile(c)
      <3>1. /\ UNCHANGED <<clusterVars, operatorVars, countVars>>
            /\ passfile' \in [Directories -> List] /\ revision' \in [Directories -> List]
            /\ loaded' \in [Accounts -> List] /\ legacy' \in List
        BY <1>0, <2>0, <2>3 DEF WritePassfile, LoadServers, RecordRevision,
           WriteLegacyPassfile, TypeOK
      <3>2. PICK h \in Call :
               /\ Becomes(c, h)
               /\ h.step \in {"write", "load", "record"} => h.account \in Accounts
        <4>1. CASE WritePassfile(c) \/ LoadServers(c)
          <5>1. calls[c].account \in Accounts
            BY <4>1 DEF WritePassfile, LoadServers, CallTypes, AtAccount
          <5>2. PICK s \in {"load", "record"} : Becomes(c, [calls[c] EXCEPT !.step = s])
            BY <4>1, HandlerBecomes
          <5>3. s \in Steps
            BY DEF Steps
          <5>4. /\ [calls[c] EXCEPT !.step = s] \in Call
                /\ [calls[c] EXCEPT !.step = s].account = calls[c].account
            BY <2>0, <5>3, CallMoves
          <5> QED BY <5>1, <5>2, <5>4
        <4>2. CASE RecordRevision(c)
          <5> DEFINE h == [calls[c] EXCEPT !.step = "next", !.account = NoAccount]
          <5>1. h \in Call /\ h.step = "next"
            BY <2>0 DEF Call, Steps
          <5> QED BY <4>2, <5>1, HandlerBecomes
        <4>3. CASE WriteLegacyPassfile(c)
          <5>1. "done" \in Steps
            BY DEF Steps
          <5> QED BY <2>0, <4>3, <5>1, CallMoves, HandlerBecomes
        <4> QED BY <2>3, <4>1, <4>2, <4>3
      <3>3. /\ calls' \in [Calls -> Call]
            /\ \A d \in Calls : AtAccount(d)' => calls'[d].account \in Accounts
        BY <3>2, TypesAfterCall
      <3> QED
        BY <3>1, <3>3 DEF CallTypes, TypeOK, clusterVars, operatorVars, countVars
    <2> QED
      BY <1>6, <2>1, <2>2, <2>3 DEF Handler
  <1>7. CASE PodStops
    <2>1. /\ calls' = [c \in Calls |-> NoCall] /\ waiting' = {} /\ ready' = FALSE
          /\ synced' \in {synced, "False"} /\ legacy' = 0 /\ faults' \in 0..MaxDisturbances
          /\ UNCHANGED <<published, latest, accounts, passfile, revision, loaded, revivals,
                         orphans>>
      BY <1>0, <1>7 DEF PodStops
    <2>2. calls' \in [Calls -> Call] /\ \A c \in Calls : ~AtAccount(c)'
      BY <2>1, NewCalls DEF AtAccount
    <2>3. waiting' \subseteq Calls /\ Cardinality(waiting') <= 1
      BY <2>1, WaitingIsOne
    <2>4. synced' \in {"Unknown", "True", "False"} /\ legacy' \in List
      BY <1>0, <2>1 DEF TypeOK, List
    <2>5. ready' \in BOOLEAN
      BY <2>1
    <2>6. /\ published' \in List /\ latest' \in List /\ accounts' \subseteq Accounts
          /\ passfile' \in [Directories -> List] /\ revision' \in [Directories -> List]
          /\ loaded' \in [Accounts -> List]
          /\ revivals' \in 0..MaxRevivals /\ orphans' \in 0..MaxOrphans
      BY <1>0, <2>1 DEF TypeOK
    <2>7. TypeOK'
      BY <2>1, <2>2, <2>3, <2>4, <2>5, <2>6 DEF TypeOK
    <2> QED
      BY <2>1, <2>2, <2>7 DEF CallTypes
  <1>8. CASE PodStarts \/ UNCHANGED vars
    <2>1. /\ ready' \in BOOLEAN
          /\ UNCHANGED <<published, latest, accounts, storageVars, calls, operatorVars,
                         countVars>>
      BY <1>0, <1>8 DEF PodStarts, vars, clusterVars, TypeOK
    <2> QED
      BY <2>1 DEF CallTypes, TypeOK, AtAccount, storageVars, operatorVars, countVars
  <1> QED
    BY <1>1, <1>2, <1>3, <1>4, <1>5, <1>6, <1>7, <1>8 DEF Next, Operator

\* Every variable of the synchronisation stays within its type.
THEOREM SyncTypes == Spec => []TypeOK
  <1>1. CallTypes => TypeOK
    BY DEF CallTypes
  <1> QED
    BY <1>1, CallTypesInit, CallTypesNext, PTL DEF Spec

-----------------------------------------------------------------------------
(***************************************************************************)
(* Order.  As long as no list comes back and no call is orphaned, one       *)
(* handler works at a time and the lists of the calls rise, so that a       *)
(* revision that is not the list of the handler at work is older than it,   *)
(* and will never again be mistaken for current.  That is the invariant:    *)
(*   - only the call that is waited for is being served;                    *)
(*   - no revision is ahead of its list, and one that equals it is true     *)
(*     (with no call under way: the same of the latest list);               *)
(*   - the handler has provided for every account that it has done with.    *)
(*                                                                          *)
(* userStorageDirectory replaces '@' by '_' and may send two accounts to    *)
(* one directory, where one account's revision would hide that the other    *)
(* one's connections are old: the accounts are taken to have directories of *)
(* their own.                                                               *)
(***************************************************************************)
OwnDirectories == \A a, b \in Accounts : StorageOf[a] = StorageOf[b] => a = b

Kept(a, l) == l # 0 /\ revision[StorageOf[a]] = l => Holds(a, l)

OnlyTheAwaited ==
    \A c \in Calls : Busy(c) =>
        c \in waiting /\ calls[c].list # 0 /\ calls[c].list <= latest
RevisionsAreKept ==
    /\ \A a \in Accounts : revision[StorageOf[a]] <= latest
    /\ \A c \in Calls, a \in Accounts : Busy(c) =>
          revision[StorageOf[a]] <= calls[c].list /\ Kept(a, calls[c].list)
    /\ (\A c \in Calls : ~Busy(c)) => \A a \in Accounts : Kept(a, latest)
Serves(c) ==
    /\ calls[c].todo \subseteq calls[c].listed
    /\ AtAccount(c) =>
          /\ calls[c].account \in calls[c].listed \ calls[c].todo
          /\ revision[StorageOf[calls[c].account]] # calls[c].list
    /\ calls[c].step = "load" => passfile[StorageOf[calls[c].account]] = calls[c].list
    /\ calls[c].step = "record" => Holds(calls[c].account, calls[c].list)
    /\ calls[c].step \in {"next", "write", "load", "record", "done"} =>
          \A a \in calls[c].listed \ calls[c].todo :
              (AtAccount(c) /\ a = calls[c].account) \/ Holds(a, calls[c].list)
    /\ calls[c].step = "done" => calls[c].todo = {} /\ legacy = calls[c].list

InOrder ==
    /\ published = latest
    /\ OnlyTheAwaited
    /\ RevisionsAreKept
    /\ \A c \in Calls : Serves(c)
OrderInv == Orderly => InOrder

\* The types of the numbers and places that the argument compares.
LEMMA ListTypes ==
    ASSUME CallTypes
    PROVE  /\ latest \in Nat
           /\ \A c \in Calls : calls[c] \in Call /\ calls[c].list \in Nat
           /\ \A a \in Accounts : /\ StorageOf[a] \in Directories
                                  /\ revision[StorageOf[a]] \in Nat
  BY CallFields DEF CallTypes, TypeOK, List

\* The handler that is busy is the only one.
LEMMA OneHandler ==
    ASSUME CallTypes, OnlyTheAwaited, NEW c \in Calls, Busy(c)
    PROVE  \A d \in Calls : Busy(d) => d = c
  BY DEF CallTypes, OnlyTheAwaited

\* Once no call is under way, what the revisions name as latest is there.
LEMMA LatestIsKept ==
    ASSUME CallTypes, OnlyTheAwaited, RevisionsAreKept, NEW a \in Accounts
    PROVE  Kept(a, latest)
  <1>1. CASE \A c \in Calls : ~Busy(c)
    BY <1>1 DEF RevisionsAreKept
  <1>2. CASE \E c \in Calls : Busy(c)
    <2>1. PICK c \in Calls : Busy(c)
      BY <1>2
    <2>2. CASE calls[c].list = latest
      BY <2>1, <2>2 DEF RevisionsAreKept
    <2>3. CASE calls[c].list # latest
      BY <2>1, <2>3, ListTypes DEF RevisionsAreKept, OnlyTheAwaited, Kept
    <2> QED BY <2>2, <2>3
  <1> QED BY <1>1, <1>2

\* Order is kept when the calls end.
LEMMA OrderAfterTheEnd ==
    ASSUME CallTypes, InOrder, \A c \in Calls : calls'[c] = NoCall,
           UNCHANGED <<published, latest, passfile, revision, loaded>>
    PROVE  InOrder'
  <1>1. \A c \in Calls : ~Busy(c)'
    BY NewCalls DEF Busy
  <1>2. \A c \in Calls : Serves(c)'
    BY DEF Serves, AtAccount, NoCall
  <1>3. \A a \in Accounts : Kept(a, latest)
    BY LatestIsKept DEF InOrder
  <1>4. \A a \in Accounts : Kept(a, latest)' /\ (revision[StorageOf[a]] <= latest)'
    BY <1>3 DEF InOrder, RevisionsAreKept, Kept, Holds
  <1> QED
    BY <1>1, <1>2, <1>4 DEF InOrder, OnlyTheAwaited, RevisionsAreKept

\* Order is kept when the one busy handler does its work.
LEMMA OrderAfterWork ==
    ASSUME CallTypes, CallTypes', InOrder, NEW c \in Calls, Busy(c),
           NEW h \in Call, Becomes(c, h),
           h.list = calls[c].list, h.step # "none", UNCHANGED <<published, latest, waiting>>,
           \A a \in Accounts : revision'[StorageOf[a]] <= h.list /\ Kept(a, h.list)',
           Serves(c)'
    PROVE  InOrder'
  <1>1. calls'[c] = h /\ \A d \in Calls : d # c => calls'[d] = calls[d]
    BY DEF Becomes, CallTypes, TypeOK
  <1>2. \A d \in Calls : d # c => ~Busy(d)
    BY OneHandler DEF InOrder
  <1>3. \A d \in Calls : d # c => ~Busy(d)'
    BY <1>1, <1>2 DEF Busy
  <1>4. Busy(c)'
    BY <1>1 DEF Busy
  <1>5. OnlyTheAwaited'
    BY <1>1, <1>3 DEF InOrder, OnlyTheAwaited
  <1>6. RevisionsAreKept'
    <2>1. h.list <= latest /\ h.list \in Nat /\ latest \in Nat
      BY ListTypes DEF InOrder, OnlyTheAwaited
    <2>2. \A a \in Accounts : revision'[StorageOf[a]] \in Nat
      BY DEF CallTypes, TypeOK, List
    <2>3. \A a \in Accounts : revision'[StorageOf[a]] <= latest'
      BY <2>1, <2>2
    <2>4. \A d \in Calls : Busy(d)' => d = c
      BY <1>3
    <2>5. \A d \in Calls : Busy(d)' => calls'[d].list = h.list
      BY <1>1, <2>4
    <2> QED
      BY <1>4, <2>3, <2>5 DEF RevisionsAreKept, Kept, Holds
  <1>7. \A d \in Calls : Serves(d)'
    <2> SUFFICES ASSUME NEW d \in Calls, d # c PROVE Serves(d)'
      OBVIOUS
    <2>1. calls'[d] = calls[d] /\ calls[d].step = "none"
      BY <1>1, <1>2 DEF Busy
    <2> QED
      BY <2>1 DEF InOrder, Serves, AtAccount
  <1> QED
    BY <1>5, <1>6, <1>7 DEF InOrder

\* What a handler at an account, or past one, has of its own.
LEMMA BusyFacts ==
    ASSUME CallTypes, InOrder, NEW c \in Calls, Busy(c)
    PROVE  /\ calls[c] \in Call /\ Serves(c) /\ calls[c].list \in Nat /\ calls[c].list # 0
           /\ calls[c].listed \subseteq Accounts /\ calls[c].todo \subseteq calls[c].listed
           /\ \A a \in Accounts : /\ StorageOf[a] \in Directories
                                  /\ revision[StorageOf[a]] \in Nat
                                  /\ revision[StorageOf[a]] <= calls[c].list
                                  /\ Kept(a, calls[c].list)
  BY ListTypes, CallFields DEF InOrder, OnlyTheAwaited, RevisionsAreKept, Serves

\* The steps of a handler that touch no storage.
LEMMA ReadsInOrder ==
    ASSUME CallTypes, CallTypes', InOrder, NEW c \in Calls,
           ListAccounts(c) \/ NextAccount(c)
    PROVE  InOrder'
  <1>0. /\ UNCHANGED <<published, latest, waiting, passfile, revision, loaded, legacy>>
        /\ Busy(c)
    BY DEF ListAccounts, NextAccount, Busy, clusterVars, storageVars, operatorVars
  <1>1. /\ calls[c] \in Call /\ Serves(c) /\ calls[c].list # 0
        /\ calls[c].listed \subseteq Accounts /\ calls[c].todo \subseteq calls[c].listed
        /\ \A a \in Accounts : /\ revision[StorageOf[a]] <= calls[c].list
                               /\ Kept(a, calls[c].list)
    BY <1>0, BusyFacts
  <1>2. ASSUME NEW h \in Call, Becomes(c, h), h.list = calls[c].list
        PROVE  /\ calls'[c] = h
               /\ \A a \in Accounts : revision'[StorageOf[a]] <= h.list /\ Kept(a, h.list)'
    BY <1>0, <1>1, <1>2 DEF Becomes, CallTypes, TypeOK, Kept, Holds
  <1>3. CASE ListAccounts(c)
    <2>1. PICK h : h = [calls[c] EXCEPT !.step = "next", !.listed = accounts,
                                        !.todo = accounts]
      OBVIOUS
    <2>2. /\ h \in Call /\ h.step = "next" /\ h.listed = accounts /\ h.todo = accounts
          /\ h.list = calls[c].list
      BY <1>1, <2>1 DEF Call, Steps, CallTypes, TypeOK
    <2>3. Becomes(c, h)
      BY <1>3, <2>1, HandlerBecomes
    <2>4. Serves(c)'
      BY <1>2, <2>2, <2>3 DEF Serves, AtAccount
    <2> QED
      BY <1>0, <1>2, <2>2, <2>3, <2>4, OrderAfterWork
  <1>4. CASE NextAccount(c)
    <2>1. PICK a \in calls[c].todo :
             Becomes(c, [calls[c] EXCEPT
                !.todo = calls[c].todo \ {a},
                !.step = IF RevisionApplied(c, a) THEN "next" ELSE "write",
                !.account = IF RevisionApplied(c, a) THEN NoAccount ELSE a])
      BY <1>4, NextAccountBecomes
    <2>2. PICK h : h = [calls[c] EXCEPT
                !.todo = calls[c].todo \ {a},
                !.step = IF RevisionApplied(c, a) THEN "next" ELSE "write",
                !.account = IF RevisionApplied(c, a) THEN NoAccount ELSE a]
      OBVIOUS
    <2>3. /\ h \in Call /\ h.listed = calls[c].listed /\ h.todo = calls[c].todo \ {a}
          /\ h.list = calls[c].list
          /\ h.step = IF RevisionApplied(c, a) THEN "next" ELSE "write"
          /\ h.account = IF RevisionApplied(c, a) THEN NoAccount ELSE a
      BY <1>1, <2>2 DEF Call, Steps
    <2>4. Becomes(c, h)
      BY <2>1, <2>2
    <2>5. calls[c].step = "next" /\ a \in Accounts
      BY <1>1, <1>4 DEF NextAccount
    <2>6. \A b \in calls[c].listed \ calls[c].todo : Holds(b, h.list)
      BY <1>1, <2>3, <2>5 DEF Serves, AtAccount
    <2>7. \A b : Holds(b, h.list)' <=> Holds(b, h.list)
      BY <1>0 DEF Holds
    <2>8. Serves(c)'
      <3>1. CASE RevisionApplied(c, a)
        <4>1. Holds(a, h.list)
          BY <1>1, <2>3, <2>5, <3>1 DEF RevisionApplied, Kept
        <4>2. \A b \in h.listed \ h.todo : Holds(b, h.list)'
          BY <2>3, <2>6, <2>7, <4>1
        <4>3. h.step = "next" /\ h.todo \subseteq h.listed
          BY <1>1, <2>3, <3>1
        <4> QED
          BY <1>2, <2>3, <2>4, <4>2, <4>3 DEF Serves, AtAccount
      <3>2. CASE ~RevisionApplied(c, a)
        <4>1. /\ h.step = "write" /\ h.account = a /\ h.todo \subseteq h.listed
              /\ a \in h.listed \ h.todo /\ revision'[StorageOf[a]] # h.list
          BY <1>0, <1>1, <2>1, <2>3, <3>2 DEF RevisionApplied
        <4>2. \A b \in h.listed \ h.todo : b = a \/ Holds(b, h.list)'
          BY <2>3, <2>6, <2>7
        <4> QED
          BY <1>2, <2>3, <2>4, <4>1, <4>2 DEF Serves, AtAccount
      <3> QED BY <3>1, <3>2
    <2>9. h.step # "none"
      BY <2>3
    <2> QED
      BY <1>0, <1>2, <2>3, <2>4, <2>8, <2>9, OrderAfterWork
  <1> QED BY <1>3, <1>4

\* The steps of a handler that write for one account.
LEMMA WritesInOrder ==
    ASSUME OwnDirectories, CallTypes, CallTypes', InOrder, NEW c \in Calls,
           WritePassfile(c) \/ LoadServers(c) \/ RecordRevision(c)
    PROVE  InOrder'
  <1> DEFINE x == calls[c].account
  <1>0. UNCHANGED <<published, latest, waiting, legacy>> /\ Busy(c) /\ AtAccount(c)
    BY DEF WritePassfile, LoadServers, RecordRevision, Busy, AtAccount, clusterVars,
       operatorVars
  <1>1. /\ calls[c] \in Call /\ Serves(c) /\ calls[c].list # 0 /\ calls[c].list \in Nat
        /\ calls[c].listed \subseteq Accounts /\ calls[c].todo \subseteq calls[c].listed
        /\ \A a \in Accounts : /\ StorageOf[a] \in Directories
                               /\ revision[StorageOf[a]] <= calls[c].list
                               /\ Kept(a, calls[c].list)
    BY <1>0, BusyFacts
  <1>2. /\ x \in Accounts /\ x \in calls[c].listed \ calls[c].todo
        /\ revision[StorageOf[x]] # calls[c].list
        /\ \A a \in calls[c].listed \ calls[c].todo : a = x \/ Holds(a, calls[c].list)
    BY <1>0, <1>1 DEF Serves, AtAccount, CallTypes
  <1>3. \A a \in Accounts : a # x => StorageOf[a] # StorageOf[x]
    BY <1>2 DEF OwnDirectories
  <1>4. /\ passfile \in [Directories -> List] /\ revision \in [Directories -> List]
        /\ loaded \in [Accounts -> List]
    BY DEF CallTypes, TypeOK
  <1>5. \A a \in Accounts : a # x =>
          /\ passfile'[StorageOf[a]] = passfile[StorageOf[a]]
          /\ revision'[StorageOf[a]] = revision[StorageOf[a]]
          /\ loaded'[a] = loaded[a]
    BY <1>1, <1>3, <1>4 DEF WritePassfile, LoadServers, RecordRevision
  <1>6. ASSUME NEW h \in Call, Becomes(c, h), h.list = calls[c].list,
               h.listed = calls[c].listed, h.todo = calls[c].todo
        PROVE  /\ calls'[c] = h
               /\ \A a \in Accounts : a # x =>
                     revision'[StorageOf[a]] <= h.list /\ Kept(a, h.list)'
               /\ \A a \in h.listed \ h.todo : a = x \/ Holds(a, h.list)'
    <2>1. calls'[c] = h
      BY <1>6 DEF Becomes, CallTypes, TypeOK
    <2>2. \A a \in Accounts : a # x => (Holds(a, h.list)' <=> Holds(a, h.list))
      BY <1>5 DEF Holds
    <2>3. \A a \in Accounts : a # x =>
             revision'[StorageOf[a]] <= h.list /\ Kept(a, h.list)'
      BY <1>1, <1>5, <1>6, <2>2 DEF Kept
    <2>4. \A a \in h.listed \ h.todo : a = x \/ Holds(a, h.list)'
      BY <1>1, <1>2, <1>6, <2>2
    <2> QED BY <2>1, <2>3, <2>4
  <1>7. CASE WritePassfile(c) \/ LoadServers(c)
    <2>1. PICK s \in {"load", "record"} :
             /\ Becomes(c, [calls[c] EXCEPT !.step = s])
             /\ s = "load" <=> WritePassfile(c)
      BY <1>7, HandlerBecomes DEF WritePassfile, LoadServers
    <2>2. PICK h : h = [calls[c] EXCEPT !.step = s]
      OBVIOUS
    <2>3. /\ h \in Call /\ h.step = s /\ h.list = calls[c].list /\ h.account = x
          /\ h.listed = calls[c].listed /\ h.todo = calls[c].todo
      <3>1. s \in Steps
        BY DEF Steps
      <3> QED BY <1>1, <2>2, <3>1, CallMoves
    <2>4. Becomes(c, h)
      BY <2>1, <2>2
    <2>5. revision' = revision
      BY <1>7 DEF WritePassfile, LoadServers
    <2>6. /\ revision'[StorageOf[x]] <= h.list /\ revision'[StorageOf[x]] # h.list
      BY <1>1, <1>2, <2>3, <2>5
    <2>7. \A a \in Accounts : revision'[StorageOf[a]] <= h.list /\ Kept(a, h.list)'
      BY <1>6, <2>3, <2>4, <2>6 DEF Kept
    <2>8. passfile'[StorageOf[x]] = h.list /\ (s = "record" => loaded'[x] = h.list)
      <3>1. CASE WritePassfile(c)
        BY <1>1, <1>2, <1>4, <2>1, <2>3, <3>1 DEF WritePassfile
      <3>2. CASE LoadServers(c)
        BY <1>1, <1>2, <1>4, <2>3, <3>2 DEF LoadServers, Serves
      <3> QED BY <1>7, <3>1, <3>2
    <2>9. Serves(c)'
      <3>1. /\ calls'[c] = h /\ h.step \in {"load", "record"} /\ h.todo \subseteq h.listed
            /\ h.account \in h.listed \ h.todo /\ h.account = x
        BY <1>1, <1>2, <1>6, <2>3, <2>4
      <3>2. \A a \in h.listed \ h.todo : a = h.account \/ Holds(a, h.list)'
        BY <1>6, <2>3, <2>4
      <3> HIDE DEF x
      <3>3. h.step = "record" => Holds(h.account, h.list)'
        BY <2>3, <2>8, <3>1 DEF Holds
      <3> QED
        BY <2>6, <2>8, <3>1, <3>2, <3>3 DEF Serves, AtAccount
    <2> QED
      BY <1>0, <2>3, <2>4, <2>7, <2>9, OrderAfterWork
  <1>8. CASE RecordRevision(c)
    <2>2. PICK h : h = [calls[c] EXCEPT !.step = "next", !.account = NoAccount]
      OBVIOUS
    <2>3. /\ h \in Call /\ h.step = "next" /\ h.list = calls[c].list
          /\ h.listed = calls[c].listed /\ h.todo = calls[c].todo
      BY <1>1, <2>2 DEF Call, Steps
    <2>4. Becomes(c, h)
      BY <1>8, <2>2, HandlerBecomes
    <2>5. /\ Holds(x, h.list) /\ UNCHANGED <<passfile, loaded>>
          /\ revision'[StorageOf[x]] = h.list
      BY <1>1, <1>2, <1>4, <1>8, <2>3 DEF RecordRevision, Serves
    <2>6. passfile'[StorageOf[x]] = h.list /\ loaded'[x] = h.list
      BY <2>5 DEF Holds
    <2>7. \A a \in Accounts : a = x => Holds(a, h.list)'
      BY <2>6 DEF Holds
    <2>8. \A a \in Accounts : revision'[StorageOf[a]] <= h.list /\ Kept(a, h.list)'
      BY <1>1, <1>6, <2>3, <2>4, <2>5, <2>7 DEF Kept
    <2>9. Serves(c)'
      <3>1. calls'[c] = h /\ h.step = "next" /\ h.todo \subseteq h.listed
        BY <1>1, <1>6, <2>3, <2>4
      <3>2. \A a \in h.listed \ h.todo : Holds(a, h.list)'
        BY <1>1, <1>6, <2>3, <2>4, <2>7
      <3> QED
        BY <3>1, <3>2 DEF Serves, AtAccount
    <2> QED
      BY <1>0, <2>3, <2>4, <2>8, <2>9, OrderAfterWork
  <1> QED BY <1>7, <1>8

\* The end of a handler, well or badly.
LEMMA EndsInOrder ==
    ASSUME OwnDirectories, CallTypes, CallTypes', InOrder, NEW c \in Calls, Busy(c),
           UNCHANGED <<published, latest, waiting>>,
           WriteLegacyPassfile(c) \/ FailureLeaves(c)
    PROVE  InOrder'
  <1> DEFINE x == calls[c].account
  <1>1. /\ calls[c] \in Call /\ Serves(c) /\ calls[c].list # 0 /\ calls[c].list \in Nat
        /\ calls[c].listed \subseteq Accounts /\ calls[c].todo \subseteq calls[c].listed
        /\ \A a \in Accounts : /\ StorageOf[a] \in Directories
                               /\ revision[StorageOf[a]] <= calls[c].list
                               /\ Kept(a, calls[c].list)
    BY BusyFacts
  <1>2. PICK s \in {"done", "failed"} :
           /\ Becomes(c, [calls[c] EXCEPT !.step = s])
           /\ s = "done" => WriteLegacyPassfile(c)
           /\ s = "failed" => FailureLeaves(c)
    BY HandlerBecomes
  <1>3. PICK h : h = [calls[c] EXCEPT !.step = s]
    OBVIOUS
  <1>4. /\ h \in Call /\ h.step = s /\ h.list = calls[c].list
        /\ h.listed = calls[c].listed /\ h.todo = calls[c].todo
    <2>1. s \in Steps
      BY DEF Steps
    <2> QED BY <1>1, <1>3, <2>1, CallMoves
  <1>5. Becomes(c, h) /\ calls'[c] = h
    BY <1>2, <1>3 DEF Becomes, CallTypes, TypeOK
  <1>6. CASE s = "done"
    <2>1. /\ UNCHANGED <<passfile, revision, loaded>> /\ legacy' = h.list
          /\ calls[c].step = "next" /\ h.todo = {}
      BY <1>2, <1>4, <1>6 DEF WriteLegacyPassfile
    <2>2. \A a : Holds(a, h.list)' <=> Holds(a, h.list)
      BY <2>1 DEF Holds
    <2>3. \A a \in Accounts : revision'[StorageOf[a]] <= h.list /\ Kept(a, h.list)'
      BY <1>1, <1>4, <2>1, <2>2 DEF Kept
    <2>4. \A a \in h.listed \ h.todo : Holds(a, h.list)'
      BY <1>1, <1>4, <2>1, <2>2 DEF Serves, AtAccount
    <2>5. Serves(c)'
      BY <1>4, <1>5, <1>6, <2>1, <2>4 DEF Serves, AtAccount
    <2> QED
      BY <1>4, <1>5, <1>6, <2>3, <2>5, OrderAfterWork
  <1>7. CASE s = "failed"
    <2>1. Serves(c)'
      BY <1>1, <1>4, <1>5, <1>7 DEF Serves, AtAccount
    <2>2. passfile' = passfile
      BY <1>2, <1>7 DEF FailureLeaves
    <2>3. CASE AtAccount(c)
      <3>1. x \in Accounts /\ revision[StorageOf[x]] # h.list
        BY <1>1, <1>4, <2>3 DEF Serves, CallTypes
      <3>2. /\ revision \in [Directories -> List] /\ loaded \in [Accounts -> List]
        BY DEF CallTypes, TypeOK
      <3>3. revision'[StorageOf[x]] \in {0, revision[StorageOf[x]]}
        BY <1>1, <1>2, <1>7, <3>1, <3>2 DEF FailureLeaves
      <3>4. \A a \in Accounts : a # x =>
               revision'[StorageOf[a]] = revision[StorageOf[a]] /\ loaded'[a] = loaded[a]
        BY <1>1, <1>2, <1>7, <3>1, <3>2 DEF FailureLeaves, OwnDirectories
      <3>5. \A a \in Accounts : revision'[StorageOf[a]] <= h.list
        BY <1>1, <1>4, <3>3, <3>4
      <3>6. revision'[StorageOf[x]] # h.list
        BY <1>1, <1>4, <3>1, <3>3
      <3>7. \A a \in Accounts : a # x => (Holds(a, h.list)' <=> Holds(a, h.list))
        BY <2>2, <3>4 DEF Holds
      <3>8. \A a \in Accounts : Kept(a, h.list)'
        BY <1>1, <1>4, <3>4, <3>6, <3>7 DEF Kept
      <3> QED
        BY <1>4, <1>5, <1>7, <2>1, <3>5, <3>8, OrderAfterWork
    <2>4. CASE ~AtAccount(c)
      <3>1. loaded' = loaded /\ revision' = revision
        BY <1>2, <1>7, <2>4 DEF FailureLeaves, AtAccount
      <3>2. \A a \in Accounts : revision'[StorageOf[a]] <= h.list /\ Kept(a, h.list)'
        BY <1>1, <1>4, <2>2, <3>1 DEF Kept, Holds
      <3> QED
        BY <1>4, <1>5, <1>7, <2>1, <3>2, OrderAfterWork
    <2> QED BY <2>3, <2>4
  <1> QED BY <1>6, <1>7

\* Before the first sync there is nothing that could be out of order.
LEMMA OrderInit == Init => OrderInv
  <1> SUFFICES ASSUME Init PROVE InOrder
    BY DEF OrderInv
  <1>1. \A c \in Calls : calls[c] = NoCall /\ ~Busy(c)
    BY NewCalls DEF Init, Busy
  <1>2. \A c \in Calls : Serves(c)
    BY <1>1 DEF Serves, AtAccount, NoCall
  <1>3. \A a \in Accounts : revision[StorageOf[a]] <= latest /\ Kept(a, latest)
    BY DEF Init, Kept
  <1> QED
    BY <1>1, <1>2, <1>3 DEF Init, InOrder, OnlyTheAwaited, RevisionsAreKept

\* Every step keeps the order, or brings a list back or orphans a call.
LEMMA OrderNext ==
    ASSUME OwnDirectories, CallTypes, CallTypes', OrderInv, [Next]_vars
    PROVE  OrderInv'
  <1> SUFFICES ASSUME Orderly' PROVE InOrder'
    BY DEF OrderInv
  <1>0. revivals \in Nat /\ orphans \in Nat
    BY DEF CallTypes, TypeOK
  <1>a. Orderly
    <2>1. CASE ReviveList \/ TimeOut \/ ManagerRestarts
      BY <1>0, <2>1 DEF ReviveList, TimeOut, ManagerRestarts, Orderly
    <2>2. CASE UNCHANGED <<revivals, orphans>>
      BY <2>2 DEF Orderly
    <2> QED
      BY <2>1, <2>2 DEF Next, Operator, Handler, PublishList, SignIn, SyncNotPossible, Sync,
         ReceiveAnswer, ListAccounts, NextAccount, WritePassfile, LoadServers,
         RecordRevision, WriteLegacyPassfile, CommandKilled, DropAnswer, HandlerFails,
         Cancel, PodStops, PodStarts, vars, countVars
  <1>b. InOrder
    BY <1>a DEF OrderInv
  <1>c. /\ published = latest /\ OnlyTheAwaited /\ RevisionsAreKept /\ latest \in Nat
        /\ \A a \in Accounts : revision[StorageOf[a]] \in Nat
    BY <1>b, ListTypes DEF InOrder
  <1>1. CASE PublishList
    <2>1. /\ published' = latest + 1 /\ latest' = latest + 1
          /\ UNCHANGED <<passfile, revision, loaded, legacy, calls, waiting>>
      BY <1>1 DEF PublishList, storageVars, operatorVars
    <2>2. \A a \in Accounts : (revision[StorageOf[a]] < latest)'
      BY <1>c, <2>1 DEF RevisionsAreKept
    <2>3. \A a \in Accounts : Kept(a, latest)'
      BY <1>c, <2>1, <2>2 DEF Kept
    <2>4. \A c \in Calls : (Busy(c)' <=> Busy(c)) /\ (Serves(c)' <=> Serves(c))
      BY <2>1 DEF Busy, Serves, AtAccount, Holds
    <2>5. OnlyTheAwaited'
      BY <1>c, <2>1, <2>4, ListTypes DEF OnlyTheAwaited
    <2>6. RevisionsAreKept'
      BY <1>c, <2>1, <2>2, <2>3, <2>4 DEF RevisionsAreKept, Kept, Holds
    <2> QED
      BY <1>b, <2>1, <2>4, <2>5, <2>6 DEF InOrder
  <1>2. CASE Sync
    <2>1. PICK c \in Free : SendList(c)
      BY <1>2, FreeCall DEF Sync
    <2>2. PICK h : h = [NoCall EXCEPT !.step = "accounts", !.list = published]
      OBVIOUS
    <2>3. /\ c \in Calls /\ h.step = "accounts" /\ h.list = latest
          /\ h.todo = {} /\ h.listed = {}
      BY <1>c, <2>1, <2>2 DEF Free, NoCall
    <2>4. /\ waiting' = {c} /\ waiting = {} /\ latest # 0
          /\ calls' = [calls EXCEPT ![c] = h]
          /\ UNCHANGED <<published, latest, passfile, revision, loaded, legacy>>
      BY <1>2, <1>c, <2>1, <2>2 DEF Sync, SendList, clusterVars, storageVars
    <2>5. calls'[c] = h /\ \A d \in Calls : d # c => calls'[d] = calls[d]
      BY <2>3, <2>4 DEF CallTypes, TypeOK
    <2>6. \A d \in Calls : ~Busy(d)
      BY <1>c, <2>4 DEF OnlyTheAwaited
    <2>7. \A d \in Calls : Busy(d)' => d = c
      BY <2>5, <2>6 DEF Busy
    <2>8. \A a \in Accounts : /\ (revision[StorageOf[a]] <= latest)'
                              /\ Kept(a, latest)'
      BY <1>c, <2>4, <2>6 DEF RevisionsAreKept, Kept, Holds
    <2>9. OnlyTheAwaited' /\ RevisionsAreKept'
      BY <1>c, <2>3, <2>4, <2>5, <2>7, <2>8
      DEF OnlyTheAwaited, RevisionsAreKept, Kept, Holds
    <2>10. \A d \in Calls : Serves(d)'
      <3>1. Serves(c)'
        BY <2>3, <2>5 DEF Serves, AtAccount
      <3>2. ASSUME NEW d \in Calls, d # c PROVE Serves(d)'
        BY <1>b, <2>5, <2>6, <3>2 DEF InOrder, Serves, AtAccount, Busy
      <3> QED BY <3>1, <3>2
    <2> QED
      BY <1>c, <2>4, <2>9, <2>10 DEF InOrder
  <1>3. CASE ReceiveAnswer
    <2>1. PICK c \in waiting : /\ calls[c].step \in {"done", "failed"}
                               /\ calls' = [calls EXCEPT ![c] = NoCall]
      BY <1>3 DEF ReceiveAnswer
    <2>2. c \in Calls /\ Busy(c)
      BY <2>1 DEF CallTypes, TypeOK, Busy
    <2>3. \A d \in Calls : d # c => calls'[d] = calls[d] /\ ~Busy(d)
      BY <1>c, <2>1, <2>2, OneHandler DEF CallTypes, TypeOK
    <2>4. calls'[c] = NoCall
      BY <2>1, <2>2 DEF CallTypes, TypeOK
    <2>5. UNCHANGED <<published, latest, passfile, revision, loaded>>
      BY <1>3 DEF ReceiveAnswer, clusterVars, storageVars
    <2>6. \A d \in Calls : ~Busy(d)' /\ Serves(d)'
      <3>1. ~Busy(c)' /\ Serves(c)'
        BY <2>4 DEF Busy, Serves, AtAccount, NoCall
      <3>2. ASSUME NEW d \in Calls, d # c PROVE ~Busy(d)' /\ Serves(d)'
        BY <1>b, <2>3, <3>2 DEF InOrder, Serves, AtAccount, Busy
      <3> QED BY <3>1, <3>2
    <2>7. \A a \in Accounts : Kept(a, latest)
      BY <1>c, LatestIsKept
    <2>8. \A a \in Accounts : Kept(a, latest)' /\ (revision[StorageOf[a]] <= latest)'
      BY <1>c, <2>5, <2>7 DEF RevisionsAreKept, Kept, Holds
    <2> QED
      BY <1>c, <2>5, <2>6, <2>8 DEF InOrder, OnlyTheAwaited, RevisionsAreKept
  <1>4. CASE PodStops
    <2>1. /\ \A c \in Calls : calls'[c] = NoCall
          /\ UNCHANGED <<published, latest, passfile, revision, loaded>>
      BY <1>4 DEF PodStops
    <2> QED
      BY <1>b, <2>1, OrderAfterTheEnd
  <1>5. CASE ReviveList \/ TimeOut \/ ManagerRestarts
    BY <1>0, <1>5 DEF ReviveList, TimeOut, ManagerRestarts, Orderly
  <1>6. ASSUME NEW c \in Calls, Handler(c) \/ HandlerFails(c) \/ Cancel(c)
        PROVE  InOrder'
    <2>1. CASE ListAccounts(c) \/ NextAccount(c)
      BY <1>b, <2>1, ReadsInOrder
    <2>2. CASE WritePassfile(c) \/ LoadServers(c) \/ RecordRevision(c)
      BY <1>b, <2>2, WritesInOrder
    <2>3. CASE WriteLegacyPassfile(c)
      <3>1. Busy(c) /\ UNCHANGED <<published, latest, waiting>>
        BY <2>3 DEF WriteLegacyPassfile, Busy, clusterVars, operatorVars
      <3> QED BY <1>b, <2>3, <3>1, EndsInOrder
    <2>4. CASE HandlerFails(c) \/ CommandKilled(c)
      <3>1. /\ Busy(c) /\ UNCHANGED <<published, latest, waiting>> /\ FailureLeaves(c)
        BY <2>4 DEF HandlerFails, CommandKilled, Busy, clusterVars, operatorVars
      <3> QED BY <1>b, <3>1, EndsInOrder
    <2>5. CASE Cancel(c) \/ DropAnswer(c)
      BY <1>c, <2>5 DEF Cancel, DropAnswer, OnlyTheAwaited, Busy
    <2> QED BY <1>6, <2>1, <2>2, <2>3, <2>4, <2>5 DEF Handler
  <1>7. CASE SignIn \/ SyncNotPossible \/ PodStarts \/ UNCHANGED vars
    <2>1. UNCHANGED <<published, latest, passfile, revision, loaded, legacy, calls, waiting>>
      BY <1>7 DEF SignIn, SyncNotPossible, PodStarts, vars, clusterVars, storageVars,
         operatorVars
    <2> QED
      BY <1>b, <2>1 DEF InOrder, OnlyTheAwaited, RevisionsAreKept, Kept, Holds, Serves,
         Busy, AtAccount
  <1> QED
    BY <1>1, <1>2, <1>3, <1>4, <1>5, <1>6, <1>7 DEF Next, Operator

\* recordRevision: the revision is "written last so a failure part-way through
\* leaves the account looking unprovisioned rather than current".  For any
\* accounts with directories of their own, and any failures of files, commands
\* and Pods, an account that looks current holds the published list, as long as
\* no list comes back and no call is orphaned.
THEOREM CurrentAccountsAreProvisioned ==
    ASSUME OwnDirectories
    PROVE  Spec => []CurrentUnlessDisordered
  <1>1. CallTypes /\ OrderInv => CurrentUnlessDisordered
    BY DEF CallTypes, TypeOK, OrderInv, InOrder, RevisionsAreKept, Busy, Kept,
       CurrentUnlessDisordered, CurrentMeansProvisioned
  <1>2. CallTypes /\ CallTypes' /\ OrderInv /\ [Next]_vars => OrderInv'
    BY OrderNext
  <1> QED
    BY <1>1, <1>2, CallTypesInit, CallTypesNext, OrderInit, PTL DEF Spec

\* The 204 that becomes PgAdminSynced: under the same conditions every account
\* the sidecar listed, and the combined file, hold the list that was sent.
THEOREM SuccessIsProvisioned ==
    ASSUME OwnDirectories
    PROVE  Spec => []SuccessMeansProvisioned
  <1>1. CallTypes /\ OrderInv => SuccessMeansProvisioned
    <2> SUFFICES ASSUME CallTypes, InOrder, NEW c \in waiting, calls[c].step = "done"
                 PROVE  /\ legacy = calls[c].list
                        /\ \A a \in calls[c].listed : Holds(a, calls[c].list)
      BY DEF OrderInv, SuccessMeansProvisioned
    <2>1. Serves(c)
      BY DEF InOrder, CallTypes, TypeOK
    <2> QED
      BY <2>1 DEF Serves, AtAccount
  <1>2. CallTypes /\ CallTypes' /\ OrderInv /\ [Next]_vars => OrderInv'
    BY OrderNext
  <1> QED
    BY <1>1, <1>2, CallTypesInit, CallTypesNext, OrderInit, PTL DEF Spec

-----------------------------------------------------------------------------
(***************************************************************************)
(* The list itself: ClusterInputs puts it together, in a reconcile that     *)
(* reads Secret after Secret while they change.  Its constants and          *)
(* variables are independent of those above.                                *)
(***************************************************************************)
CONSTANTS Roles, Stores, Hosts, Configurations, Platforms, MaxChanges, MaxFaults
VARIABLES platform, cluster, stores, secrets, roles, known, template, rolled, reason,
          offered, condition, copy, worker, queued, changes, failures

Inputs == INSTANCE ClusterInputs WITH synced <- condition, faults <- failures

WorkerType ==
    [pc: {"idle", "evidence", "store", "deploy", "sync", "application", "superuser",
          "list", "role", "send", "publish"},
     outcome: [reason: Inputs!Reasons, viewer: {Inputs!NoViewer} \cup Inputs!Viewers],
     store: Stores \cup {"none"}, host: Hosts, list: SUBSET Inputs!Connection,
     todo: SUBSET Roles,
     synced: Inputs!SyncReasons, read: Inputs!Conditions,
     since: [Inputs!Sources -> SUBSET Inputs!Password]]

ClusterTypes ==
    /\ platform \in Platforms
    /\ cluster \in [exists: BOOLEAN, host: Hosts, plugin: Stores \cup {"none"}]
    /\ stores \in [Stores -> Inputs!StoreValues]
    /\ roles \subseteq Roles /\ known \subseteq Roles
    /\ copy \in Inputs!Conditions

ConsoleTypes ==
    /\ template \in {Inputs!NoTemplate, Inputs!NoViewer} \cup Inputs!Viewers
    /\ rolled \in BOOLEAN /\ queued \in BOOLEAN
    /\ reason \in Inputs!Reasons
    /\ offered \subseteq Inputs!Connection
    /\ condition \in Inputs!SyncReasons
    /\ failures \in 0..MaxFaults

\* A password is new: none in use is above the number of changes by more than
\* the one that there was at first.
SecretTypes ==
    /\ changes \in 0..MaxChanges
    /\ secrets \in [Inputs!Sources -> 0..changes + 1]

WorkerTypes(w) == w \in WorkerType /\ (w.pc = "store" => w.store \in Stores)

InputTypes == ClusterTypes /\ ConsoleTypes /\ SecretTypes /\ WorkerTypes(worker)

\* What the list was put together from, in the reconcile so far.
Current(w, s) ==
    /\ w.pc # "idle" => \A x \in Inputs!Sources : s[x] \in w.since[x]
    /\ w.pc = "idle" => w.list = {}
    /\ \A c \in w.list : c.password \in w.since[c.source]

\* Secrets that are still to be read; a DatabaseRole that is not in the
\* manager's copy never is.
Unread(w) ==
    CASE w.pc = "application" -> Inputs!Sources
      [] w.pc = "superuser" -> Inputs!Sources \ {"application"}
      [] w.pc = "list" -> Roles
      [] w.pc = "role" -> w.todo
      [] OTHER -> {}

OneEach(list) == \A c, d \in list : c.host = d.host /\ (c.source = d.source => c = d)

\* One host, one password from each Secret, and nothing of what is unread.
Untorn(w) ==
    /\ \A c \in w.list : c.host = w.host /\ c.source \notin Unread(w)
    /\ OneEach(w.list)

\* A user the operator has asked for is in the list, unless the Secret was
\* missing at some time of the reconcile.
Complete(w) ==
    w.pc \in {"application", "superuser", "list", "role", "send"} =>
        \A x \in {"application", "superuser"} \ Unread(w) :
            0 \in w.since[x] \/ \E c \in w.list : c.source = x

InputsInv ==
    /\ InputTypes
    /\ Current(worker, secrets)
    /\ Untorn(worker) /\ OneEach(offered)
    /\ Complete(worker)

\* Between two reconciles the worker holds a host, no list and no verdicts.
LEMMA IdleWorkerIsTyped ==
    ASSUME Inputs!InputsAssumption
    PROVE  /\ WorkerTypes(Inputs!IdleWorker)
           /\ Inputs!IdleWorker.pc = "idle" /\ Inputs!IdleWorker.list = {}
  <1>1. (CHOOSE h \in Hosts : TRUE) \in Hosts
    BY DEF Inputs!InputsAssumption
  <1>2. Inputs!Unavailable("Unknown")
            \in [reason: Inputs!Reasons, viewer: {Inputs!NoViewer} \cup Inputs!Viewers]
    BY DEF Inputs!Unavailable, Inputs!Outcome, Inputs!Reasons
  <1>3. [s \in Inputs!Sources |-> {}] \in [Inputs!Sources -> SUBSET Inputs!Password]
    OBVIOUS
  <1>4. "Unknown" \in Inputs!SyncReasons
        /\ Inputs!Condition("Unknown", "Unknown") \in Inputs!Conditions
    BY DEF Inputs!Condition, Inputs!Conditions, Inputs!Reasons, Inputs!SyncReasons
  <1> QED BY <1>1, <1>2, <1>3, <1>4 DEF WorkerTypes, WorkerType, Inputs!IdleWorker

\* The reasons and viewers that the walk over the archive can come to.
LEMMA OutcomesAreTyped ==
    /\ \A r \in Inputs!Reasons :
         Inputs!Unavailable(r) \in
            [reason: Inputs!Reasons, viewer: {Inputs!NoViewer} \cup Inputs!Viewers]
    /\ \A s \in Stores, c \in Configurations :
         Inputs!Compose(s, c) \in
            [reason: Inputs!Reasons, viewer: {Inputs!NoViewer} \cup Inputs!Viewers]
  <1>1. \A s \in Stores, c \in Configurations : Inputs!Viewer(s, c) \in Inputs!Viewers
    BY DEF Inputs!Viewers
  <1>2. {"UnsupportedCredentialMode", "ImageRequired", "AsExpected"} \subseteq Inputs!Reasons
    BY DEF Inputs!Reasons
  <1>3. \A r \in Inputs!Reasons :
         Inputs!Unavailable(r) \in
            [reason: Inputs!Reasons, viewer: {Inputs!NoViewer} \cup Inputs!Viewers]
    BY DEF Inputs!Unavailable, Inputs!Outcome
  <1>4. ASSUME NEW s \in Stores, NEW c \in Configurations
        PROVE  Inputs!Compose(s, c) \in
            [reason: Inputs!Reasons, viewer: {Inputs!NoViewer} \cup Inputs!Viewers]
    <2>1. Inputs!Outcome("AsExpected", Inputs!Viewer(s, c)) \in
            [reason: Inputs!Reasons, viewer: {Inputs!NoViewer} \cup Inputs!Viewers]
      BY <1>1, <1>2 DEF Inputs!Outcome
    <2> QED BY <2>1, <1>2, <1>3 DEF Inputs!Compose
  <1> QED BY <1>3, <1>4

\* Before the first reconcile nothing has been read, and no list offered.
LEMMA InputsStart ==
    ASSUME Inputs!InputsAssumption, Inputs!Init
    PROVE  InputsInv
  <1>1. ClusterTypes
    <2>1. (CHOOSE h \in Hosts : TRUE) \in Hosts /\ (CHOOSE s \in Stores : TRUE) \in Stores
      BY DEF Inputs!InputsAssumption
    <2>2. cluster \in [exists: BOOLEAN, host: Hosts, plugin: Stores \cup {"none"}]
      BY <2>1 DEF Inputs!Init
    <2>3. stores \in [Stores -> Inputs!StoreValues]
      <3>1. (CHOOSE c \in Configurations : Inputs!Supported(c)) \in Configurations
        BY DEF Inputs!InputsAssumption
      <3> QED BY <3>1 DEF Inputs!Init, Inputs!StoreValues
    <2>4. copy \in Inputs!Conditions
      BY DEF Inputs!Init, Inputs!Condition, Inputs!Conditions, Inputs!Reasons,
         Inputs!SyncReasons
    <2> QED BY <2>2, <2>3, <2>4 DEF ClusterTypes, Inputs!Init
  <1>2. ConsoleTypes
    <2>1. /\ MaxFaults \in Nat
          /\ "Unknown" \in Inputs!Reasons /\ "Unknown" \in Inputs!SyncReasons
      BY DEF Inputs!InputsAssumption, Inputs!Reasons, Inputs!SyncReasons
    <2>2. rolled = FALSE /\ queued = TRUE /\ failures = 0 /\ reason = "Unknown"
      BY DEF Inputs!Init
    <2>3. template = Inputs!NoTemplate /\ offered = {} /\ condition = "Unknown"
      BY DEF Inputs!Init
    <2>4. failures \in 0..MaxFaults
      BY <2>1, <2>2
    <2> QED BY <2>1, <2>2, <2>3, <2>4 DEF ConsoleTypes
  <1>3. SecretTypes
    BY DEF SecretTypes, Inputs!Init, Inputs!InputsAssumption
  <1>4. WorkerTypes(worker) /\ worker.pc = "idle" /\ worker.list = {}
    BY IdleWorkerIsTyped DEF Inputs!Init
  <1>5. OneEach(offered)
    BY DEF OneEach, Inputs!Init
  <1> QED BY <1>1, <1>2, <1>3, <1>4, <1>5
          DEF InputsInv, InputTypes, Current, Untorn, OneEach, Complete

-----------------------------------------------------------------------------
(***************************************************************************)
(* One step.                                                                *)
(***************************************************************************)
\* A worker that goes on, with the list and what it was put together from.
LEMMA WorkerGoesOn ==
    ASSUME NEW w, WorkerTypes(w), NEW s, Current(w, s), Untorn(w), w.pc # "idle",
           NEW v, WorkerTypes(v),
           v.pc \notin {"idle", "application", "superuser", "list", "role", "send"},
           v.list = w.list, v.since = w.since, v.host = w.host
    PROVE  Current(v, s) /\ Untorn(v) /\ Complete(v)
  BY DEF Current, Untorn, Complete, Unread

\* A worker that is idle has no list.
LEMMA WorkerIsIdle ==
    ASSUME Inputs!InputsAssumption, NEW s
    PROVE  /\ Current(Inputs!IdleWorker, s)
           /\ Untorn(Inputs!IdleWorker) /\ Complete(Inputs!IdleWorker)
           /\ WorkerTypes(Inputs!IdleWorker)
  BY IdleWorkerIsTyped DEF Current, Untorn, Complete, Unread, OneEach

\* What the worker knows of a Secret that it reads now.
LEMMA WorkerReads ==
    ASSUME Inputs!InputsAssumption, InputsInv, NEW x \in Inputs!Sources, x \in Unread(worker),
           worker.pc \in {"application", "superuser", "role"},
           NEW v, WorkerTypes(v), v.pc \notin {"idle", "application"},
           v.list = worker.list \cup Inputs!CredentialServer(x),
           v.since = worker.since, v.host = worker.host,
           Unread(v) \subseteq Unread(worker) \ {x}
    PROVE  Current(v, secrets) /\ Untorn(v)
  <1>1. ASSUME NEW c \in Inputs!CredentialServer(x)
        PROVE  /\ c.source = x /\ c.host = worker.host /\ c.password = secrets[x]
               /\ c = [source |-> x, host |-> worker.host, password |-> secrets[x]]
    BY <1>1 DEF Inputs!CredentialServer
  <1>2. Current(v, secrets)
    BY <1>1 DEF InputsInv, Current
  <1>3. \A c \in v.list : c.host = v.host /\ c.source \notin Unread(v)
    BY <1>1 DEF InputsInv, Untorn
  <1>4. OneEach(v.list)
    <2>1. ASSUME NEW c \in worker.list PROVE c.source # x /\ c.host = worker.host
      BY DEF InputsInv, Untorn
    <2>2. OneEach(worker.list)
      BY DEF InputsInv, Untorn
    <2>3. SUFFICES ASSUME NEW c \in v.list, NEW d \in v.list
                   PROVE  c.host = d.host /\ (c.source = d.source => c = d)
      BY DEF OneEach
    <2>4. CASE c \in worker.list /\ d \in worker.list
      BY <2>2, <2>4 DEF OneEach
    <2>5. CASE c \in Inputs!CredentialServer(x) /\ d \in Inputs!CredentialServer(x)
      BY <1>1, <2>5
    <2>6. CASE c \in worker.list /\ d \in Inputs!CredentialServer(x)
      BY <1>1, <2>1, <2>6
    <2>7. CASE d \in worker.list /\ c \in Inputs!CredentialServer(x)
      BY <1>1, <2>1, <2>7
    <2> QED BY <2>4, <2>5, <2>6, <2>7
  <1> QED BY <1>2, <1>3, <1>4 DEF Untorn

\* What a Secret with a password is turned into, and one without is not.
LEMMA CredentialServerIsTyped ==
    ASSUME Inputs!InputsAssumption, InputTypes, NEW x \in Inputs!Sources
    PROVE  /\ Inputs!CredentialServer(x) \subseteq Inputs!Connection
           /\ secrets[x] = 0 \/ \E c \in Inputs!CredentialServer(x) : c.source = x
  <1>1. MaxChanges \in Nat
    BY DEF Inputs!InputsAssumption
  <1>2. secrets[x] \in Inputs!Password /\ worker.host \in Hosts
    BY <1>1 DEF InputTypes, SecretTypes, WorkerTypes, WorkerType, Inputs!Password
  <1>3. CASE secrets[x] = 0
    BY <1>3 DEF Inputs!CredentialServer
  <1>4. CASE secrets[x] # 0
    <2> DEFINE c == [source |-> x, host |-> worker.host, password |-> secrets[x]]
    <2>1. c \in Inputs!Connection /\ c.source = x
      BY <1>2, <1>4 DEF Inputs!Connection
    <2>2. Inputs!CredentialServer(x) = {c}
      BY <1>4 DEF Inputs!CredentialServer
    <2> QED BY <2>1, <2>2
  <1> QED BY <1>3, <1>4

\* A step of the worker leaves the cluster alone.
LEMMA WorkerMoves ==
    ASSUME InputsInv, UNCHANGED <<Inputs!clusterVars, changes>>,
           ConsoleTypes', OneEach(offered'),
           WorkerTypes(worker'), Current(worker', secrets), Untorn(worker'),
           Complete(worker')
    PROVE  InputsInv'
  <1>1. ClusterTypes'
    BY DEF InputsInv, InputTypes, ClusterTypes, Inputs!clusterVars
  <1>2. SecretTypes' /\ secrets' = secrets
    BY DEF InputsInv, InputTypes, SecretTypes, Inputs!clusterVars
  <1> QED BY <1>1, <1>2 DEF InputsInv, InputTypes

\* Mostly it leaves the console alone as well.
LEMMA OnlyTheWorkerMoves ==
    ASSUME InputsInv, UNCHANGED <<Inputs!clusterVars, Inputs!consoleVars, changes>>,
           queued' \in BOOLEAN, failures' \in 0..MaxFaults,
           WorkerTypes(worker'), Current(worker', secrets), Untorn(worker'),
           Complete(worker')
    PROVE  InputsInv'
  <1>1. ConsoleTypes' /\ OneEach(offered')
    BY DEF InputsInv, InputTypes, ConsoleTypes, Inputs!consoleVars
  <1> QED BY <1>1, WorkerMoves

\* A reconcile begins with an empty list and remembers the passwords there were.
LEMMA BeginKeeps ==
    ASSUME Inputs!InputsAssumption, InputsInv, Inputs!Begin
    PROVE  InputsInv'
  <1>t. MaxChanges \in Nat
    BY DEF Inputs!InputsAssumption
  <1>w. worker \in WorkerType /\ worker.list = {} /\ worker.pc = "idle"
    BY DEF InputsInv, InputTypes, WorkerTypes, Inputs!Begin, Current
  <1>s. secrets \in [Inputs!Sources -> Inputs!Password]
    BY <1>t DEF InputsInv, InputTypes, SecretTypes, Inputs!Password
  <1>1. /\ UNCHANGED <<Inputs!clusterVars, Inputs!consoleVars, changes>>
        /\ queued' \in BOOLEAN /\ failures' \in 0..MaxFaults
    BY DEF Inputs!Begin, InputsInv, InputTypes, ConsoleTypes
  <1>2. CASE ~cluster.exists
    <2>1. worker' = worker
      BY <1>2 DEF Inputs!Begin
    <2> QED BY <1>1, <2>1, OnlyTheWorkerMoves DEF InputsInv, InputTypes
  <1>3. CASE cluster.exists
    <2>1. worker' = [worker EXCEPT !.pc = "evidence", !.read = copy,
                                   !.since = [s \in Inputs!Sources |-> {secrets[s]}]]
      BY <1>3 DEF Inputs!Begin
    <2>2. /\ [s \in Inputs!Sources |-> {secrets[s]}]
                \in [Inputs!Sources -> SUBSET Inputs!Password]
          /\ copy \in Inputs!Conditions
      BY <1>s DEF InputsInv, InputTypes, ClusterTypes
    <2>3. /\ worker' \in WorkerType /\ worker'.pc = "evidence" /\ worker'.list = {}
          /\ worker'.since = [s \in Inputs!Sources |-> {secrets[s]}]
      BY <1>w, <2>1, <2>2 DEF WorkerType
    <2>4. Current(worker', secrets)
      BY <2>3 DEF Current
    <2>5. WorkerTypes(worker') /\ Untorn(worker') /\ Complete(worker')
      BY <2>3 DEF WorkerTypes, Untorn, OneEach, Complete
    <2> QED BY <1>1, <2>4, <2>5, OnlyTheWorkerMoves
  <1> QED BY <1>2, <1>3

\* The walk over the archive concerns the outcome only.
LEMMA ArchiveKeeps ==
    ASSUME Inputs!InputsAssumption, InputsInv, Inputs!ResolveEvidence \/ Inputs!ReadObjectStore
    PROVE  InputsInv'
  <1> DEFINE Outcomes == [reason: Inputs!Reasons, viewer: {Inputs!NoViewer} \cup Inputs!Viewers]
  <1>w. worker \in WorkerType /\ worker.pc \in {"evidence", "store"}
    BY DEF InputsInv, InputTypes, WorkerTypes, Inputs!ResolveEvidence, Inputs!ReadObjectStore
  <1>1. /\ UNCHANGED <<Inputs!clusterVars, Inputs!consoleVars, changes>>
        /\ queued' \in BOOLEAN /\ failures' \in 0..MaxFaults
    BY DEF Inputs!ResolveEvidence, Inputs!ReadObjectStore, Inputs!Fails, InputsInv, InputTypes,
       ConsoleTypes
  <1>2. \/ worker' = Inputs!IdleWorker
        \/ \E o \in Outcomes : Inputs!Resolves(o)
        \/ \E s \in Stores : worker' = [worker EXCEPT !.pc = "store", !.store = s]
    <2>1. "EvidenceDisabled" \in Inputs!Reasons /\ "ObjectStoreNotFound" \in Inputs!Reasons
      BY DEF Inputs!Reasons
    <2>2. Inputs!Unavailable("EvidenceDisabled") \in Outcomes
          /\ Inputs!Unavailable("ObjectStoreNotFound") \in Outcomes
      BY <2>1, OutcomesAreTyped
    <2>3. CASE Inputs!ResolveEvidence
      <3>1. cluster.plugin \in Stores \cup {"none"}
        BY DEF InputsInv, InputTypes, ClusterTypes
      <3> QED BY <2>2, <2>3, <3>1 DEF Inputs!ResolveEvidence
    <2>4. CASE Inputs!ReadObjectStore
      <3>1. worker.store \in Stores
        BY <2>4 DEF InputsInv, InputTypes, WorkerTypes, Inputs!ReadObjectStore
      <3>2. stores[worker.store] \in Inputs!StoreValues
        BY <3>1 DEF InputsInv, InputTypes, ClusterTypes
      <3>3. ASSUME stores[worker.store].spec = "configured"
            PROVE  stores[worker.store].configuration \in Configurations
        <4>1. Inputs!AbsentStore.spec = "absent" /\ Inputs!BrokenStore.spec = "broken"
          BY DEF Inputs!AbsentStore, Inputs!BrokenStore
        <4>2. PICK c \in Configurations : stores[worker.store] = Inputs!ConfiguredStore(c)
          BY <3>2, <3>3, <4>1 DEF Inputs!StoreValues
        <4> QED BY <4>2 DEF Inputs!ConfiguredStore
      <3>4. ASSUME stores[worker.store].spec = "configured"
            PROVE  Inputs!Compose(worker.store, stores[worker.store].configuration) \in Outcomes
        BY <3>1, <3>3, <3>4, OutcomesAreTyped
      <3> QED BY <2>2, <2>4, <3>4 DEF Inputs!ReadObjectStore, Inputs!Fails
    <2> QED BY <2>3, <2>4
  <1>3. CASE worker' = Inputs!IdleWorker
    BY <1>1, <1>3, WorkerIsIdle, OnlyTheWorkerMoves
  <1>4. ASSUME NEW o \in Outcomes, Inputs!Resolves(o)
        PROVE  InputsInv'
    <2>1. worker' = [worker EXCEPT !.pc = "deploy", !.outcome = o]
      BY <1>4 DEF Inputs!Resolves
    <2>2. /\ WorkerTypes(worker') /\ worker'.pc = "deploy" /\ worker'.list = worker.list
          /\ worker'.since = worker.since /\ worker'.host = worker.host
      BY <1>w, <2>1 DEF WorkerType, WorkerTypes
    <2> QED BY <1>1, <1>w, <2>2, WorkerGoesOn, OnlyTheWorkerMoves DEF InputsInv, InputTypes
  <1>5. ASSUME NEW s \in Stores, worker' = [worker EXCEPT !.pc = "store", !.store = s]
        PROVE  InputsInv'
    <2>2. /\ WorkerTypes(worker') /\ worker'.pc = "store" /\ worker'.list = worker.list
          /\ worker'.since = worker.since /\ worker'.host = worker.host
      BY <1>w, <1>5 DEF WorkerType, WorkerTypes
    <2> QED BY <1>1, <1>w, <2>2, WorkerGoesOn, OnlyTheWorkerMoves DEF InputsInv, InputTypes
  <1> QED BY <1>2, <1>3, <1>4, <1>5

\* reconcileDeployment decides whether this reconcile synchronises at all.
LEMMA DeploymentKeeps ==
    ASSUME Inputs!InputsAssumption, InputsInv, Inputs!ReconcileDeployment
    PROVE  InputsInv'
  <1>w. worker \in WorkerType /\ worker.pc = "deploy"
    BY DEF InputsInv, InputTypes, WorkerTypes, Inputs!ReconcileDeployment
  <1>1. \/ worker' = [worker EXCEPT !.pc = "sync"]
        \/ worker' = [worker EXCEPT !.pc = "publish", !.synced = "PendingRollout"]
    BY DEF Inputs!ReconcileDeployment, Inputs!Goto, Inputs!Concludes
  <1>2. /\ WorkerTypes(worker') /\ worker'.pc \in {"sync", "publish"}
        /\ worker'.list = worker.list
        /\ worker'.since = worker.since /\ worker'.host = worker.host
    BY <1>w, <1>1 DEF Inputs!SyncReasons, WorkerType, WorkerTypes
  <1>3. ConsoleTypes' /\ OneEach(offered')
    <2>1. worker.outcome.viewer \in {Inputs!NoViewer} \cup Inputs!Viewers
      BY <1>w DEF WorkerType
    <2>2. template' \in {Inputs!NoTemplate, Inputs!NoViewer} \cup Inputs!Viewers
      BY <2>1 DEF Inputs!ReconcileDeployment
    <2>3. rolled' \in BOOLEAN /\ queued' \in BOOLEAN
      BY DEF Inputs!ReconcileDeployment
    <2> QED BY <2>2, <2>3 DEF Inputs!ReconcileDeployment, InputsInv, InputTypes, ConsoleTypes
  <1>4. UNCHANGED <<Inputs!clusterVars, changes>>
    BY DEF Inputs!ReconcileDeployment
  <1>5. Current(worker', secrets) /\ Untorn(worker') /\ Complete(worker')
    BY <1>w, <1>2, WorkerGoesOn DEF InputsInv, InputTypes
  <1> QED BY <1>2, <1>3, <1>4, <1>5, WorkerMoves

\* The list starts anew, for the host that the Cluster names now.
LEMMA ReadHostKeeps ==
    ASSUME Inputs!InputsAssumption, InputsInv, Inputs!ReadHost
    PROVE  InputsInv'
  <1>w. worker \in WorkerType /\ worker.pc = "sync"
    BY DEF InputsInv, InputTypes, WorkerTypes, Inputs!ReadHost
  <1>1. /\ UNCHANGED <<Inputs!clusterVars, Inputs!consoleVars, changes>>
        /\ queued' \in BOOLEAN /\ failures' \in 0..MaxFaults
    BY DEF Inputs!ReadHost, InputsInv, InputTypes, ConsoleTypes
  <1>2. CASE cluster.exists
    <2>1. worker' = [worker EXCEPT !.pc = "application", !.host = cluster.host, !.list = {}]
      BY <1>2 DEF Inputs!ReadHost
    <2>2. cluster.host \in Hosts
      BY DEF InputsInv, InputTypes, ClusterTypes
    <2>3. /\ WorkerTypes(worker') /\ worker'.pc = "application" /\ worker'.list = {}
          /\ worker'.since = worker.since
      BY <1>w, <2>1, <2>2 DEF WorkerType, WorkerTypes
    <2>4. Current(worker', secrets) /\ Untorn(worker')
      BY <1>w, <2>3 DEF InputsInv, Current, Untorn, OneEach
    <2>5. Complete(worker')
      <3>1. Unread(worker') = Inputs!Sources
        BY <2>3 DEF Unread
      <3> QED BY <3>1 DEF Complete, Inputs!Sources
    <2> QED BY <1>1, <2>3, <2>4, <2>5, OnlyTheWorkerMoves
  <1>3. CASE ~cluster.exists
    <2>1. worker' = [worker EXCEPT !.pc = "publish", !.synced = "ClusterNotFound"]
      BY <1>3 DEF Inputs!ReadHost, Inputs!Concludes
    <2>2. /\ WorkerTypes(worker') /\ worker'.pc = "publish" /\ worker'.list = worker.list
          /\ worker'.since = worker.since /\ worker'.host = worker.host
      BY <1>w, <2>1 DEF Inputs!SyncReasons, WorkerType, WorkerTypes
    <2> QED BY <1>1, <1>w, <2>2, WorkerGoesOn, OnlyTheWorkerMoves DEF InputsInv, InputTypes
  <1> QED BY <1>2, <1>3

\* The application user and the superuser: either is in the list after it was
\* read, unless its Secret was missing.
LEMMA ReadCredentialKeeps ==
    ASSUME Inputs!InputsAssumption, InputsInv, Inputs!ReadApplication \/ Inputs!ReadSuperuser
    PROVE  InputsInv'
  <1>w. worker \in WorkerType /\ worker.pc \in {"application", "superuser"}
    BY DEF InputsInv, InputTypes, WorkerTypes, Inputs!ReadApplication, Inputs!ReadSuperuser,
           Inputs!ReadCredential
  <1>r. {"application", "superuser"} \cap Roles = {}
    BY DEF Inputs!InputsAssumption
  <1>1. /\ UNCHANGED <<Inputs!clusterVars, Inputs!consoleVars, changes>>
        /\ queued' \in BOOLEAN /\ failures' \in 0..MaxFaults
    BY DEF Inputs!ReadApplication, Inputs!ReadSuperuser, Inputs!ReadCredential, InputsInv,
           InputTypes, ConsoleTypes
  <1>2. PICK x \in {"application", "superuser"}, next \in {"superuser", "list"} :
            /\ worker.pc = x /\ next = (IF x = "application" THEN "superuser" ELSE "list")
            /\ worker' = [worker EXCEPT !.pc = next, !.list = @ \cup Inputs!CredentialServer(x)]
    BY DEF Inputs!ReadApplication, Inputs!ReadSuperuser, Inputs!ReadCredential
  <1>3. x \in Inputs!Sources
    BY DEF Inputs!Sources
  <1>4. /\ Inputs!CredentialServer(x) \subseteq Inputs!Connection
        /\ secrets[x] = 0 \/ \E c \in Inputs!CredentialServer(x) : c.source = x
    BY <1>3, CredentialServerIsTyped DEF InputsInv
  <1>5. /\ WorkerTypes(worker') /\ worker'.pc = next
        /\ worker'.list = worker.list \cup Inputs!CredentialServer(x)
        /\ worker'.since = worker.since /\ worker'.host = worker.host
    BY <1>w, <1>2, <1>4 DEF WorkerType, WorkerTypes
  <1>6. Unread(worker') = Unread(worker) \ {x} /\ x \in Unread(worker)
    BY <1>2, <1>5, <1>r DEF Unread, Inputs!Sources
  <1>7. Current(worker', secrets) /\ Untorn(worker')
    BY <1>w, <1>2, <1>3, <1>5, <1>6, WorkerReads
  <1>8. Complete(worker')
    <2>1. \A y \in {"application", "superuser"} \ Unread(worker) :
             0 \in worker.since[y] \/ \E c \in worker.list : c.source = y
      BY <1>w DEF InputsInv, Complete
    <2>2. secrets[x] \in worker.since[x]
      BY <1>w, <1>3 DEF InputsInv, Current
    <2> QED BY <1>4, <1>5, <1>6, <2>1, <2>2 DEF Complete
  <1> QED BY <1>1, <1>5, <1>7, <1>8, OnlyTheWorkerMoves

\* The DatabaseRoles, whose Secrets all are unread, and one after the other.
LEMMA RolesKeep ==
    ASSUME Inputs!InputsAssumption, InputsInv, Inputs!ListRoles \/ Inputs!ReadRole
    PROVE  InputsInv'
  <1>w. worker \in WorkerType /\ worker.pc \in {"list", "role"} /\ worker.todo \subseteq Roles
    BY DEF InputsInv, InputTypes, WorkerTypes, WorkerType, Inputs!ListRoles, Inputs!ReadRole
  <1>r. {"application", "superuser"} \cap Roles = {}
    BY DEF Inputs!InputsAssumption
  <1>1. /\ UNCHANGED <<Inputs!clusterVars, Inputs!consoleVars, changes>>
        /\ queued' \in BOOLEAN /\ failures' \in 0..MaxFaults
    BY DEF Inputs!ListRoles, Inputs!ReadRole, InputsInv, InputTypes, ConsoleTypes
  <1>u. Unread(worker) \subseteq Roles
    BY <1>w DEF Unread
  <1>c. \A y \in {"application", "superuser"} :
            0 \in worker.since[y] \/ \E c \in worker.list : c.source = y
    BY <1>w, <1>r, <1>u DEF InputsInv, Complete
  <1>2. CASE Inputs!ListRoles
    <2>1. worker' = [worker EXCEPT !.pc = "role", !.todo = known] /\ worker.pc = "list"
      BY <1>2 DEF Inputs!ListRoles
    <2>2. known \subseteq Roles
      BY DEF InputsInv, InputTypes, ClusterTypes
    <2>3. /\ WorkerTypes(worker') /\ worker'.pc = "role" /\ worker'.list = worker.list
          /\ worker'.since = worker.since /\ worker'.host = worker.host
          /\ worker'.todo = known
      BY <1>w, <2>1, <2>2 DEF WorkerType, WorkerTypes
    <2>4. Unread(worker') \subseteq Unread(worker)
      BY <2>1, <2>2, <2>3 DEF Unread
    <2>5. Current(worker', secrets) /\ Untorn(worker') /\ Complete(worker')
      BY <1>w, <1>c, <2>3, <2>4 DEF InputsInv, Current, Untorn, Complete
    <2> QED BY <1>1, <2>3, <2>5, OnlyTheWorkerMoves
  <1>3. CASE /\ worker.pc = "role" /\ worker.todo = {} /\ Inputs!Goto("send")
    <2>1. worker' = [worker EXCEPT !.pc = "send"]
      BY <1>3 DEF Inputs!Goto
    <2>2. /\ WorkerTypes(worker') /\ worker'.pc = "send" /\ worker'.list = worker.list
          /\ worker'.since = worker.since /\ worker'.host = worker.host
      BY <1>w, <2>1 DEF WorkerType, WorkerTypes
    <2>3. Unread(worker') = {}
      BY <2>2 DEF Unread
    <2>4. Current(worker', secrets) /\ Untorn(worker') /\ Complete(worker')
      BY <1>w, <1>c, <2>2, <2>3 DEF InputsInv, Current, Untorn, Complete
    <2> QED BY <1>1, <2>2, <2>4, OnlyTheWorkerMoves
  <1>4. ASSUME NEW x \in worker.todo, worker.pc = "role",
               worker' = [worker EXCEPT !.todo = @ \ {x},
                                        !.list = @ \cup Inputs!CredentialServer(x)]
        PROVE  InputsInv'
    <2>1. x \in Inputs!Sources /\ x \in Unread(worker)
      BY <1>w, <1>4 DEF Inputs!Sources, Unread
    <2>2. Inputs!CredentialServer(x) \subseteq Inputs!Connection
      BY <2>1, CredentialServerIsTyped DEF InputsInv
    <2>3. /\ WorkerTypes(worker') /\ worker'.pc = "role"
          /\ worker'.list = worker.list \cup Inputs!CredentialServer(x)
          /\ worker'.since = worker.since /\ worker'.host = worker.host
          /\ worker'.todo = worker.todo \ {x}
      BY <1>w, <1>4, <2>2 DEF WorkerType, WorkerTypes
    <2>4. Unread(worker') \subseteq Unread(worker) \ {x}
      BY <1>4, <2>3 DEF Unread
    <2>5. Current(worker', secrets) /\ Untorn(worker')
      BY <1>4, <2>1, <2>3, <2>4, WorkerReads
    <2>6. Complete(worker')
      BY <1>c, <2>3 DEF Complete
    <2> QED BY <1>1, <2>3, <2>5, <2>6, OnlyTheWorkerMoves
  <1> QED BY <1>2, <1>3, <1>4 DEF Inputs!ReadRole

\* The call, and what pgAdmin has after it.
LEMMA SendKeeps ==
    ASSUME Inputs!InputsAssumption, InputsInv, Inputs!Send \/ Inputs!SendFails
    PROVE  InputsInv'
  <1>w. worker \in WorkerType /\ worker.pc = "send"
    BY DEF InputsInv, InputTypes, WorkerTypes, Inputs!Send, Inputs!SendFails
  <1>1. PICK s \in {"SomeDegraded", "AsExpected", "SyncFailed"} : Inputs!Concludes(s)
    BY DEF Inputs!Send, Inputs!SendFails
  <1>2. worker' = [worker EXCEPT !.pc = "publish", !.synced = s]
    BY <1>1 DEF Inputs!Concludes
  <1>3. /\ WorkerTypes(worker') /\ worker'.pc = "publish" /\ worker'.list = worker.list
        /\ worker'.since = worker.since /\ worker'.host = worker.host
    BY <1>w, <1>2 DEF Inputs!SyncReasons, WorkerType, WorkerTypes
  <1>4. UNCHANGED <<Inputs!clusterVars, template, rolled, reason, condition, queued, changes>>
    BY DEF Inputs!Send, Inputs!SendFails
  <1>5. offered' \in {offered, worker.list}
    BY DEF Inputs!Send, Inputs!SendFails
  <1>6. failures' \in 0..MaxFaults
    <2>1. MaxFaults \in Nat
      BY DEF Inputs!InputsAssumption
    <2>2. failures \in 0..MaxFaults
      BY DEF InputsInv, InputTypes, ConsoleTypes
    <2> QED BY <2>1, <2>2 DEF Inputs!Send, Inputs!SendFails
  <1>7. ConsoleTypes' /\ OneEach(offered')
    <2>1. offered' \subseteq Inputs!Connection /\ OneEach(offered')
      BY <1>w, <1>5 DEF InputsInv, InputTypes, ConsoleTypes, WorkerType, Untorn
    <2> QED BY <1>4, <1>6, <2>1 DEF InputsInv, InputTypes, ConsoleTypes
  <1>8. Current(worker', secrets) /\ Untorn(worker') /\ Complete(worker')
    BY <1>w, <1>3, WorkerGoesOn DEF InputsInv, InputTypes
  <1> QED BY <1>3, <1>4, <1>7, <1>8, WorkerMoves

\* Either way the reconcile is over.
LEMMA EndKeeps ==
    ASSUME Inputs!InputsAssumption, InputsInv, Inputs!Publish \/ Inputs!AbortReconcile
    PROVE  InputsInv'
  <1>w. worker \in WorkerType
    BY DEF InputsInv, InputTypes, WorkerTypes
  <1>1. worker' = Inputs!IdleWorker
    BY DEF Inputs!Publish, Inputs!AbortReconcile, Inputs!Fails
  <1>2. /\ WorkerTypes(worker') /\ Current(worker', secrets) /\ Untorn(worker')
        /\ Complete(worker')
    BY <1>1, WorkerIsIdle
  <1>3. CASE Inputs!Publish
    <2>1. UNCHANGED <<Inputs!clusterVars, template, rolled, offered, queued, changes, failures>>
      BY <1>3 DEF Inputs!Publish
    <2>2. /\ reason' \in Inputs!Reasons
          /\ condition' \in Inputs!SyncReasons
      <3>1. worker.outcome.reason \in Inputs!Reasons /\ worker.synced \in Inputs!SyncReasons
        BY <1>w DEF WorkerType
      <3>2. reason \in Inputs!Reasons /\ condition \in Inputs!SyncReasons
        BY DEF InputsInv, InputTypes, ConsoleTypes
      <3> QED BY <1>3, <3>1, <3>2 DEF Inputs!Publish, Inputs!Condition
    <2>3. ConsoleTypes' /\ OneEach(offered')
      BY <2>1, <2>2 DEF InputsInv, InputTypes, ConsoleTypes
    <2> QED BY <1>2, <2>1, <2>3, WorkerMoves
  <1>4. CASE Inputs!AbortReconcile
    <2>1. UNCHANGED <<Inputs!clusterVars, Inputs!consoleVars, changes>> /\ queued' = TRUE
      BY <1>4 DEF Inputs!AbortReconcile, Inputs!Fails
    <2>2. MaxFaults \in Nat
      BY DEF Inputs!InputsAssumption
    <2>3. failures' \in 0..MaxFaults
      BY <1>4, <2>2 DEF Inputs!AbortReconcile, InputsInv, InputTypes, ConsoleTypes
    <2> QED BY <1>2, <2>1, <2>3, OnlyTheWorkerMoves
  <1> QED BY <1>3, <1>4

\* Most of what happens around the reconcile does not touch a Secret.
LEMMA SecretsStand ==
    ASSUME InputsInv, worker' = worker, secrets' = secrets, offered' = offered,
           ClusterTypes', ConsoleTypes', MaxChanges \in Nat,
           changes' \in {changes, changes + 1}, changes' \in 0..MaxChanges
    PROVE  InputsInv'
  <1>1. SecretTypes'
    BY DEF InputsInv, InputTypes, SecretTypes
  <1> QED BY <1>1 DEF InputsInv, InputTypes

\* A password that is replaced is one more that the reconcile has seen.
LEMMA ChangeSecretKeeps ==
    ASSUME Inputs!InputsAssumption, InputsInv, Inputs!ChangeSecret
    PROVE  InputsInv'
  <1>t. MaxChanges \in Nat
    BY DEF Inputs!InputsAssumption
  <1>w. worker \in WorkerType /\ (worker.pc = "store" => worker.store \in Stores)
    BY DEF InputsInv, InputTypes, WorkerTypes
  <1>1. PICK s \in Inputs!Sources : \E p \in {0, changes + 2} \ {secrets[s]} :
            /\ secrets' = [secrets EXCEPT ![s] = p]
            /\ worker' = IF worker.pc = "idle" THEN worker
                         ELSE [worker EXCEPT !.since[s] = @ \cup {p}]
    BY DEF Inputs!ChangeSecret
  <1>2. PICK p \in {0, changes + 2} :
            /\ secrets' = [secrets EXCEPT ![s] = p]
            /\ worker' = IF worker.pc = "idle" THEN worker
                         ELSE [worker EXCEPT !.since[s] = @ \cup {p}]
    BY <1>1
  <1>3. ClusterTypes' /\ ConsoleTypes' /\ OneEach(offered')
    BY DEF Inputs!ChangeSecret, InputsInv, InputTypes, ClusterTypes, ConsoleTypes,
           Inputs!consoleVars
  <1>4. changes \in 0..MaxChanges /\ changes < MaxChanges /\ changes' = changes + 1
    BY DEF Inputs!ChangeSecret, Inputs!Changes, InputsInv, InputTypes, SecretTypes
  <1>5. p \in Inputs!Password /\ p \in 0..changes' + 1
    BY <1>t, <1>4 DEF Inputs!Password
  <1>6. SecretTypes'
    BY <1>t, <1>2, <1>4, <1>5 DEF SecretTypes, InputsInv, InputTypes
  <1>7. CASE worker.pc = "idle"
    <2>1. worker' = worker
      BY <1>2, <1>7
    <2>2. Current(worker', secrets')
      BY <1>7, <2>1 DEF InputsInv, Current
    <2> QED BY <1>3, <1>6, <2>1, <2>2 DEF InputsInv, InputTypes
  <1>8. CASE worker.pc # "idle"
    <2>1. worker' = [worker EXCEPT !.since = [worker.since EXCEPT ![s] = @ \cup {p}]]
      BY <1>2, <1>8
    <2>2. [worker.since EXCEPT ![s] = @ \cup {p}] \in [Inputs!Sources -> SUBSET Inputs!Password]
      BY <1>w, <1>5 DEF WorkerType
    <2>3. /\ worker' \in WorkerType
          /\ worker'.since = [worker.since EXCEPT ![s] = @ \cup {p}]
          /\ worker'.list = worker.list /\ worker'.pc = worker.pc
          /\ worker'.host = worker.host /\ worker'.todo = worker.todo
          /\ worker'.store = worker.store
      BY <1>w, <2>1, <2>2 DEF WorkerType
    <2>4. /\ \A x \in Inputs!Sources : worker.since[x] \subseteq worker'.since[x]
          /\ p \in worker'.since[s]
      BY <1>w, <2>3 DEF WorkerType
    <2>5. \A x \in Inputs!Sources : secrets'[x] \in worker'.since[x]
      <3>1. secrets \in [Inputs!Sources -> 0..changes + 1]
        BY DEF InputsInv, InputTypes, SecretTypes
      <3>2. \A x \in Inputs!Sources : secrets[x] \in worker.since[x]
        BY <1>8 DEF InputsInv, Current
      <3> QED BY <1>2, <2>4, <3>1, <3>2
    <2>6. \A c \in worker.list : c.source \in Inputs!Sources
      BY <1>w DEF WorkerType, Inputs!Connection
    <2>7. Current(worker', secrets')
      BY <1>8, <2>3, <2>4, <2>5, <2>6 DEF InputsInv, Current
    <2>8. Unread(worker') = Unread(worker)
      BY <2>3 DEF Unread
    <2>9. Untorn(worker') /\ Complete(worker') /\ WorkerTypes(worker')
      <3>1. Untorn(worker') /\ WorkerTypes(worker')
        BY <1>w, <2>3, <2>8 DEF InputsInv, Untorn, WorkerTypes
      <3>2. Complete(worker')
        BY <2>3, <2>4, <2>8 DEF InputsInv, Complete, Inputs!Sources
      <3> QED BY <3>1, <3>2
    <2> QED BY <1>3, <1>6, <2>7, <2>9 DEF InputsInv, InputTypes
  <1> QED BY <1>7, <1>8

\* Every step keeps the invariant: one lemma above for each kind of them.
LEMMA InputsStep ==
    ASSUME Inputs!InputsAssumption, InputsInv, [Inputs!Next]_(Inputs!vars)
    PROVE  InputsInv'
  <1>t. MaxChanges \in Nat
    BY DEF Inputs!InputsAssumption
  <1>c. changes \in 0..MaxChanges
    BY DEF InputsInv, InputTypes, SecretTypes
  <1>1. CASE Inputs!Worker
    BY <1>1, BeginKeeps, ArchiveKeeps, DeploymentKeeps, ReadHostKeeps, ReadCredentialKeeps,
       RolesKeep, SendKeeps, EndKeeps DEF Inputs!Worker
  <1>2. CASE Inputs!SendFails \/ Inputs!AbortReconcile
    BY <1>2, SendKeeps, EndKeeps
  <1>3. CASE Inputs!ChangeSecret
    BY <1>3, ChangeSecretKeeps
  <1>4. CASE Inputs!Resync \/ Inputs!RollOut
    <2>1. /\ UNCHANGED <<Inputs!clusterVars, template, reason, offered, condition, worker,
                         changes, failures>>
          /\ queued' = TRUE /\ rolled' \in {rolled, TRUE}
      BY <1>4 DEF Inputs!Resync, Inputs!RollOut, Inputs!consoleVars
    <2>2. ClusterTypes' /\ secrets' = secrets
      BY <2>1 DEF InputsInv, InputTypes, ClusterTypes, Inputs!clusterVars
    <2>3. ConsoleTypes'
      BY <2>1 DEF InputsInv, InputTypes, ConsoleTypes
    <2> QED BY <1>t, <1>c, <2>1, <2>2, <2>3, SecretsStand
  <1>5. CASE Inputs!ChangeCluster \/ Inputs!ChangeStore \/ Inputs!ChangeRole
    <2>1. UNCHANGED <<platform, secrets, known, copy, Inputs!consoleVars, worker, queued,
                      failures>>
      BY <1>5 DEF Inputs!ChangeCluster, Inputs!ChangeStore, Inputs!ChangeRole
    <2>2. changes' \in 0..MaxChanges /\ changes' = changes + 1
      BY <1>5, <1>t, <1>c DEF Inputs!ChangeCluster, Inputs!ChangeStore, Inputs!ChangeRole,
         Inputs!Changes
    <2>3. ConsoleTypes' /\ offered' = offered
      BY <2>1 DEF InputsInv, InputTypes, ConsoleTypes, Inputs!consoleVars
    <2>4. cluster' \in [exists: BOOLEAN, host: Hosts, plugin: Stores \cup {"none"}]
      BY <1>5 DEF Inputs!ChangeCluster, Inputs!ChangeStore, Inputs!ChangeRole, InputsInv,
         InputTypes, ClusterTypes
    <2>5. stores' \in [Stores -> Inputs!StoreValues] /\ roles' \subseteq Roles
      BY <1>5 DEF Inputs!ChangeCluster, Inputs!ChangeStore, Inputs!ChangeRole, InputsInv,
         InputTypes, ClusterTypes
    <2>6. ClusterTypes'
      BY <2>1, <2>4, <2>5 DEF InputsInv, InputTypes, ClusterTypes
    <2> QED BY <1>t, <2>1, <2>2, <2>3, <2>6, SecretsStand
  <1>6. CASE Inputs!DeliverRoles
    <2>1. /\ UNCHANGED <<platform, cluster, stores, secrets, roles, copy,
                         Inputs!consoleVars, worker, queued, changes, failures>>
          /\ known' = roles
      BY <1>6 DEF Inputs!DeliverRoles
    <2>2. ClusterTypes'
      BY <2>1 DEF InputsInv, InputTypes, ClusterTypes
    <2>3. ConsoleTypes' /\ offered' = offered
      BY <2>1 DEF InputsInv, InputTypes, ConsoleTypes, Inputs!consoleVars
    <2> QED BY <1>t, <1>c, <2>1, <2>2, <2>3, SecretsStand
  <1>7. CASE Inputs!DeliverStatus
    <2>1. /\ UNCHANGED <<platform, cluster, stores, secrets, roles, known,
                         Inputs!consoleVars, worker, changes, failures>>
          /\ copy' = Inputs!Condition(reason, condition) /\ queued' = TRUE
      BY <1>7 DEF Inputs!DeliverStatus
    <2>2. reason \in Inputs!Reasons /\ condition \in Inputs!SyncReasons
      BY DEF InputsInv, InputTypes, ConsoleTypes
    <2>3. Inputs!Condition(reason, condition) \in Inputs!Conditions
      BY <2>2 DEF Inputs!Condition, Inputs!Conditions
    <2>4. ClusterTypes'
      BY <2>1, <2>3 DEF InputsInv, InputTypes, ClusterTypes
    <2>5. ConsoleTypes' /\ offered' = offered
      BY <2>1 DEF InputsInv, InputTypes, ConsoleTypes, Inputs!consoleVars
    <2> QED BY <1>t, <1>c, <2>1, <2>4, <2>5, SecretsStand
  <1>8. CASE UNCHANGED Inputs!vars
    <2>1. UNCHANGED <<Inputs!clusterVars, Inputs!consoleVars, worker, queued, changes, failures>>
      BY <1>8 DEF Inputs!vars
    <2>2. ClusterTypes' /\ secrets' = secrets
      BY <2>1 DEF InputsInv, InputTypes, ClusterTypes, Inputs!clusterVars
    <2>3. ConsoleTypes' /\ offered' = offered
      BY <2>1 DEF InputsInv, InputTypes, ConsoleTypes, Inputs!consoleVars
    <2> QED BY <1>t, <1>c, <2>1, <2>2, <2>3, SecretsStand
  <1> QED BY <1>1, <1>2, <1>3, <1>4, <1>5, <1>6, <1>7, <1>8 DEF Inputs!Next

\* What reaches pgAdmin is the list of the reconcile.
LEMMA OnlySendOffers ==
    ASSUME Inputs!InputsAssumption, InputsInv, [Inputs!Next]_(Inputs!vars), offered' # offered
    PROVE  /\ worker.pc = "send" /\ offered' = worker.list
           /\ Inputs!Send \/ Inputs!SendFails
  <1>1. ASSUME UNCHANGED Inputs!consoleVars PROVE FALSE
    BY <1>1 DEF Inputs!consoleVars
  <1>2. Inputs!Send \/ Inputs!SendFails
    BY <1>1 DEF Inputs!Next, Inputs!vars, Inputs!Worker, Inputs!Begin, Inputs!ResolveEvidence,
       Inputs!ReadObjectStore, Inputs!ReconcileDeployment, Inputs!ReadHost,
       Inputs!ReadApplication, Inputs!ReadSuperuser, Inputs!ReadCredential, Inputs!ListRoles,
       Inputs!ReadRole, Inputs!Publish, Inputs!AbortReconcile, Inputs!Resync, Inputs!RollOut,
       Inputs!ChangeCluster, Inputs!ChangeStore, Inputs!ChangeSecret, Inputs!ChangeRole,
       Inputs!DeliverRoles, Inputs!DeliverStatus
  <1> QED BY <1>2 DEF Inputs!Send, Inputs!SendFails

-----------------------------------------------------------------------------
(***************************************************************************)
(* Theorems about the list.                                                 *)
(***************************************************************************)
\* The objects that clusterCredentials and resolveEvidence read, the worker
\* that reads them and what it leaves behind keep their types.
THEOREM InputsTypeCorrect ==
    ASSUME Inputs!InputsAssumption
    PROVE  Inputs!Spec => []Inputs!TypeOK
  <1>1. InputsInv => Inputs!TypeOK
    <2> SUFFICES ASSUME InputsInv PROVE Inputs!TypeOK
      OBVIOUS
    <2>1. MaxChanges \in Nat
      BY DEF Inputs!InputsAssumption
    <2>2. secrets \in [Inputs!Sources -> Inputs!Password] /\ changes \in 0..MaxChanges
      BY <2>1 DEF InputsInv, InputTypes, SecretTypes, Inputs!Password
    <2>3. /\ worker.outcome.reason \in Inputs!Reasons
          /\ worker.outcome.viewer \in {Inputs!NoViewer} \cup Inputs!Viewers
          /\ worker.list \subseteq Inputs!Connection /\ worker.todo \subseteq Roles
          /\ worker.since \in [Inputs!Sources -> SUBSET Inputs!Password]
          /\ worker.pc \in {"idle", "evidence", "store", "deploy", "sync", "application",
                            "superuser", "list", "role", "send", "publish"}
          /\ worker.synced \in Inputs!SyncReasons /\ worker.read \in Inputs!Conditions
      BY DEF InputsInv, InputTypes, WorkerTypes, WorkerType
    <2>4. ClusterTypes /\ ConsoleTypes
      BY DEF InputsInv, InputTypes
    <2> QED BY <2>2, <2>3, <2>4 DEF Inputs!TypeOK, ClusterTypes, ConsoleTypes
  <1>2. Inputs!Init => InputsInv
    BY InputsStart
  <1>3. InputsInv /\ [Inputs!Next]_(Inputs!vars) => InputsInv'
    BY InputsStep
  <1> QED BY <1>1, <1>2, <1>3, PTL DEF Inputs!Spec

\* credentialServer reads every Secret live: however many Secrets change while
\* the list is put together, and however many calls fail, no list that reaches
\* pgAdmin has a password that was replaced before its reconcile began.
THEOREM ListHasNoOldPassword ==
    ASSUME Inputs!InputsAssumption
    PROVE  Inputs!Spec => Inputs!OffersNoOldPassword
  <1>1. Inputs!Init => InputsInv
    BY InputsStart
  <1>2. InputsInv /\ [Inputs!Next]_(Inputs!vars) => InputsInv'
    BY InputsStep
  <1>3. InputsInv /\ [Inputs!Next]_(Inputs!vars)
        => [offered' # offered
              => \A c \in offered' : c.password \in worker.since[c.source]]_(Inputs!vars)
    BY OnlySendOffers DEF InputsInv, Current
  <1> QED BY <1>1, <1>2, <1>3, PTL DEF Inputs!Spec, Inputs!OffersNoOldPassword

\* A list has one host, although the Cluster may name another meanwhile, and
\* at most one password from each Secret.
OffersAreUntorn == \A c, d \in offered : c.host = d.host /\ (c.source = d.source => c = d)

\* clusterCredentials takes the host once and reads each Secret once, and an
\* empty or failed sync leaves the earlier list whole: pgAdmin never has parts
\* of two lists.
THEOREM ListIsUntorn ==
    ASSUME Inputs!InputsAssumption
    PROVE  Inputs!Spec => []OffersAreUntorn
  <1>1. Inputs!Init => InputsInv
    BY InputsStart
  <1>2. InputsInv /\ [Inputs!Next]_(Inputs!vars) => InputsInv'
    BY InputsStep
  <1>3. InputsInv => OffersAreUntorn
    BY DEF InputsInv, OneEach, OffersAreUntorn
  <1> QED BY <1>1, <1>2, <1>3, PTL DEF Inputs!Spec

\* A list leaves the application user or the superuser out only when the
\* Secret was missing at some time of that reconcile.
OffersEveryUser ==
    [][offered' # offered =>
         \A x \in {"application", "superuser"} :
            0 \in worker.since[x] \/ \E c \in offered' : c.source = x]_(Inputs!vars)

\* clusterCredentials leaves a user out for a Secret that is missing, never
\* because of what else changed or failed: a sync takes no connection away
\* that the cluster has published all the time.
THEOREM ListHasEveryUser ==
    ASSUME Inputs!InputsAssumption
    PROVE  Inputs!Spec => OffersEveryUser
  <1>1. Inputs!Init => InputsInv
    BY InputsStart
  <1>2. InputsInv /\ [Inputs!Next]_(Inputs!vars) => InputsInv'
    BY InputsStep
  <1>3. InputsInv /\ [Inputs!Next]_(Inputs!vars)
        => [offered' # offered =>
              \A x \in {"application", "superuser"} :
                 0 \in worker.since[x] \/ \E c \in offered' : c.source = x]_(Inputs!vars)
    <2> SUFFICES ASSUME InputsInv, [Inputs!Next]_(Inputs!vars), offered' # offered,
                        NEW x \in {"application", "superuser"}
                 PROVE  0 \in worker.since[x] \/ \E c \in offered' : c.source = x
      OBVIOUS
    <2>1. worker.pc = "send" /\ offered' = worker.list
      BY OnlySendOffers
    <2>2. Unread(worker) = {}
      BY <2>1 DEF Unread
    <2> QED BY <2>1, <2>2 DEF InputsInv, Complete
  <1> QED BY <1>1, <1>2, <1>3, PTL DEF Inputs!Spec, OffersEveryUser
=============================================================================
