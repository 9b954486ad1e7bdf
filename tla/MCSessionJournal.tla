-------------------------- MODULE MCSessionJournal --------------------------
(***************************************************************************)
(* Instances of SessionJournal for TLC: a conversation, its agent, and an  *)
(* agent of that agent.                                                    *)
(***************************************************************************)
EXTENDS SessionJournal, TLC

CONSTANTS main, kid, grandkid

MCParent == [a \in Agent |-> IF a = kid THEN main ELSE kid]
=============================================================================
