------------------------------ MODULE MCProxy ------------------------------
(***************************************************************************)
(* A small instance of Proxy: two identities, of which OpenShift spells one *)
(* with a capital, and two tabs.                                            *)
(***************************************************************************)
EXTENDS Proxy, TLC

MCSubjects == {"Ann", "ann", "bob"}
MCLower == [s \in MCSubjects |-> IF s = "Ann" THEN "ann" ELSE s]
MCWithPassword == {"ann"}
MCGranted == {1, 3}
MCFirstUsers == [k \in {"ann", "bob"} |-> IF k = "ann" THEN 3 ELSE 0]
MCModes == {"local", "oidc", "openshift"}
TabSymmetry == Permutations(Tabs)
=============================================================================
