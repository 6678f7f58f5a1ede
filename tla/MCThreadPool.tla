---------------------------- MODULE MCThreadPool ----------------------------
(***************************************************************************)
(* Instances of ThreadPool for TLC.                                        *)
(***************************************************************************)
EXTENDS ThreadPool, TLC
=============================================================================
