---------------------------- MODULE MCConsole ----------------------------
(***************************************************************************)
(* A small instance of Console: every switch in both positions, and one     *)
(* exposure whose API is not served.                                        *)
(***************************************************************************)
EXTENDS Console

S(held, catalogs, policy, exposure) ==
    [held |-> held, catalogs |-> catalogs, policy |-> policy, exposure |-> exposure]

MCSpecs == {S(FALSE, TRUE, TRUE, "ingress"),
            S(FALSE, FALSE, FALSE, "route"),
            S(FALSE, TRUE, FALSE, "httproute"),
            S(TRUE, TRUE, TRUE, "clusterIP")}
=============================================================================
