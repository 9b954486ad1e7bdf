-------------------------- MODULE MCActivityStats ---------------------------
(***************************************************************************)
(* Instances of ActivityStats for TLC.                                     *)
(***************************************************************************)
EXTENDS ActivityStats, TLC

CONSTANTS n1, n2, o1
=============================================================================
