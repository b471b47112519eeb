-------------------------- MODULE MCSidecarSecrets --------------------------
(***************************************************************************)
(* Model of SidecarSecrets for TLC.                                         *)
(***************************************************************************)
EXTENDS SidecarSecrets
=============================================================================
