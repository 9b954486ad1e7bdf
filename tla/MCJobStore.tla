----------------------------- MODULE MCJobStore -----------------------------
(***************************************************************************)
(* Instances of JobStore for TLC.                                          *)
(***************************************************************************)
EXTENDS JobStore, FiniteSets, TLC

CONSTANTS j1, j2, j3,   \* job ids
          i1, i2,       \* inputs
          f1, f2        \* finding ids

\* Input i1 renders finding f1, and i2 finding f2.
MCSection == [i \in Input |-> IF i = i1 THEN {f1} ELSE {f2}]

\* MCSection is unchanged when the inputs and their findings swap together.
Swap == [x \in {i1, i2, f1, f2} |->
            CASE x = i1 -> i2 [] x = i2 -> i1 [] x = f1 -> f2 [] OTHER -> f1]
FixerSymmetry == Permutations({j1, j2, j3}) \cup {Swap}

\* The bound on the clock: it moves while there is one job at most, and while
\* there are two that no record has closed, which may then have been submitted
\* at different instants.
ClockOrThirdJob ==
    \/ now = 0
    \/ Cardinality(issued) <= 1
    \/ Cardinality(issued) = 2 /\ executions = <<>>
=============================================================================
