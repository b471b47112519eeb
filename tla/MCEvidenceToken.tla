-------------------------- MODULE MCEvidenceToken --------------------------
(***************************************************************************)
(* Model of EvidenceToken for TLC.                                          *)
(***************************************************************************)
EXTENDS EvidenceToken
=============================================================================
