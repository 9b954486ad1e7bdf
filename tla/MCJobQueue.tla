----------------------------- MODULE MCJobQueue -----------------------------
(***************************************************************************)
(* Instances of JobQueue for TLC.                                          *)
(***************************************************************************)
EXTENDS JobQueue, TLC

CONSTANTS j1, j2,       \* job ids
          p1, p2,       \* processes
          i1            \* an input

Symmetry == Permutations({j1, j2}) \cup Permutations({p1, p2})

\* No input renders findings.
MCNoSection == [i \in Input |-> {}]

\* judge is repaired by tidy.
MCFixersOf == [e \in Finder |-> Fixer]

MCFilter == SUBSET Ext

\* A hook that chains the fixers of every finder, flagged or not.
MCHookQueued == Fixer \X Node

MCRenames == {<<"a", "b">>}

\* The answers that a property is about; no step reads any.
Followed ==
    <<storeVars, op, crashes, [p \in Proc |->
        IF answer[p].kind \in {"claimed", "recorded", "corrupt"}
        THEN answer[p] ELSE NoReply]>>

\* A claim that waits takes the steps of one that does not, over and over.
NobodyWaits == \A p \in Proc : op[p].step \in {"reap", "claim"} => ~op[p].wait
=============================================================================
