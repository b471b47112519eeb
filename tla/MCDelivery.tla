---------------------------- MODULE MCDelivery ----------------------------
(***************************************************************************)
(* A small instance of Delivery.                                            *)
(***************************************************************************)
EXTENDS Delivery
=============================================================================
