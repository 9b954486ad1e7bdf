---------------------------- MODULE MCDismissals ----------------------------
(***************************************************************************)
(* Instances of Dismissals for TLC: a file whose second body has one more  *)
(* value flagged, and classes of one finder.                               *)
(***************************************************************************)
EXTENDS Dismissals, TLC

CONSTANT b1

MCFlags    == [b \in Body |-> IF b = b1 THEN Value ELSE {}]
MCFinderOf == [c \in Class |-> "finder"]
Requests   == Permutations(Server)
=============================================================================
