--------------------------- MODULE MCJobFindings ---------------------------
(***************************************************************************)
(* Instances of JobFindings for TLC.                                       *)
(***************************************************************************)
EXTENDS JobFindings, TLC

CONSTANTS j1, j2,       \* job ids
          a, b,         \* node paths
          b1, b2        \* bodies

\* No definition tells the jobs, the paths or the bodies apart.
JudgmentSymmetry ==
    Permutations({j1, j2}) \cup Permutations({a, b}) \cup Permutations({b1, b2})

MCInput == [body : Body, shown : SUBSET (FindingId \X Message \X BOOLEAN)]
MCSection == [i \in Input |-> {x[1] : x \in i.shown}]

\* tidy repairs what judge finds.
MCServes == [e \in Fixer |-> Finder]

\* A report finds one thing or nothing.
MCFound == {<<>>} \cup {<<m>> : m \in Message}

MCRenames == {<<a, b>>, <<b, a>>}

\* Both properties set aside the paths a scan removed or renamed along, so
\* there is nothing left to see once those are all the paths.
SomePathInPlace == displaced # Node
=============================================================================
