-------------------------- MODULE MCSessionAdvanced --------------------------
(***************************************************************************)
(* Instances of SessionAdvanced for TLC.                                   *)
(***************************************************************************)
EXTENDS SessionAdvanced, TLC
=============================================================================
