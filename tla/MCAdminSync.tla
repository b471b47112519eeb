---------------------------- MODULE MCAdminSync ----------------------------
(***************************************************************************)
(* Small instances of AdminSync: two readers, each with a storage           *)
(* directory of its own, and a sidecar that may serve two calls at once.    *)
(***************************************************************************)
EXTENDS AdminSync

MCAccounts == 1..2
MCDirectories == 1..2
MCStorageOf == [a \in MCAccounts |-> a]
MCNoAccount == 0
MCCalls == 1..2
=============================================================================
