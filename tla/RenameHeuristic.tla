-------------------------- MODULE RenameHeuristic --------------------------
(***************************************************************************)
(* detectRenamesAndOrphans, src/src/kernel/orchestrator/renames.ts: which  *)
(* path that vanished between two scans became which new one.  prior and   *)
(* now map the paths of the two scans to the hashes of their nodes,        *)
(* records [body, front].  The operators are pure; messages, severities    *)
(* and the confidence numbers are left out.                                *)
(***************************************************************************)
EXTENDS Naturals, FiniteSets, Sequences

CONSTANT PathOrder    \* every path, in the order of Array.sort

Path == {PathOrder[i] : i \in DOMAIN PathOrder}

ASSUME PathOrderAssumption ==
    /\ PathOrder \in Seq(Path)
    /\ \A i, j \in DOMAIN PathOrder : PathOrder[i] = PathOrder[j] => i = j

Before(p, q) ==
    \E i, j \in DOMAIN PathOrder : i < j /\ PathOrder[i] = p /\ PathOrder[j] = q
Foremost(S) == {p \in S : ~\E q \in S : Before(q, p)}

Deleted(prior, now) == DOMAIN prior \ DOMAIN now
Appeared(prior, now) == DOMAIN now \ DOMAIN prior

Froms(ops) == {op.from : op \in ops}
Tos(ops)   == {op.to : op \in ops}

\* Mutant: the inner loop does not look at what is claimed already.
BodyMatchesUnclaimed(prior, now, from, ops) ==
    {to \in Appeared(prior, now) : now[to].body = prior[from].body}

\* The new paths a deletion may take for their body.
BodyMatches(prior, now, from, ops) ==
    {to \in Appeared(prior, now) \ Tos(ops) : now[to].body = prior[from].body}

\* The unclaimed deletions that share a new path's frontmatter.
FrontMatches(prior, now, to, ops) ==
    {from \in Deleted(prior, now) \ Froms(ops) :
        prior[from].front = now[to].front}

\* Step 1: a deletion claims the first free new path of its body.
ByBody(prior, now, ops, from) ==
    IF from \notin Deleted(prior, now) \ Froms(ops) THEN ops
    ELSE ops \cup {[from |-> from, to |-> to, tier |-> "high"] :
                      to \in Foremost(BodyMatches(prior, now, from, ops))}

\* Steps 2 and 3a: a free new path takes its only candidate.
ByFront(prior, now, ops, to) ==
    LET left == FrontMatches(prior, now, to, ops)
    IN IF to \notin Appeared(prior, now) \ Tos(ops) THEN ops
       ELSE ops \cup {[from |-> from, to |-> to, tier |-> "medium"] :
                         from \in {f \in left : left = {f}}}

\* Mutant: the frontmatter goes before the body.
TurnFrontFirst(prior, now, ops, i) ==
    IF i <= Len(PathOrder) THEN ByFront(prior, now, ops, PathOrder[i])
    ELSE ByBody(prior, now, ops, PathOrder[i - Len(PathOrder)])

\* One loop over the deletions, then one over the new paths, both in order.
Turn(prior, now, ops, i) ==
    IF i <= Len(PathOrder) THEN ByBody(prior, now, ops, PathOrder[i])
    ELSE ByFront(prior, now, ops, PathOrder[i - Len(PathOrder)])

\* What is claimed after each turn of the loops.
Claims(prior, now) ==
    LET ops[i \in 0..2 * Len(PathOrder)] ==
            IF i = 0 THEN {} ELSE Turn(prior, now, ops[i - 1], i)
    IN ops

RenameOps(prior, now) == Claims(prior, now)[2 * Len(PathOrder)]

\* Step 3b: new paths left with several candidates, which nobody claims.
Ambiguous(prior, now) ==
    LET ops == RenameOps(prior, now)
    IN {to \in Appeared(prior, now) \ Tos(ops) :
           Cardinality(FrontMatches(prior, now, to, ops)) > 1}

\* Step 4: what is left is an orphan.
Orphans(prior, now) == Deleted(prior, now) \ Froms(RenameOps(prior, now))
=============================================================================
