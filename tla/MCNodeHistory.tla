---------------------------- MODULE MCNodeHistory ----------------------------
(***************************************************************************)
(* Instances of NodeHistory for TLC: three paths in order.                 *)
(***************************************************************************)
EXTENDS NodeHistory, TLC

CONSTANTS a, b, c

MCPathOrder == <<a, b, c>>

\* Two files of one frontmatter, whose bodies may be the same.
MCFirstDisks ==
    {[p \in {a, b} |-> IF p = a THEN [body |-> 1, front |-> 1, id |-> 1]
                       ELSE [body |-> x, front |-> 1, id |-> 2]] : x \in BodyHash}
=============================================================================
