-------------------------- MODULE NodeHistoryProofs --------------------------
(***************************************************************************)
(* Three theorems, for every set of paths, hashes and keys.  No history is *)
(* out of reach, whatever pairs the rename heuristic makes: that proof     *)
(* never looks into RenameOps.  The tables keep their shape, because the   *)
(* heuristic pairs a path once (Paired).  And history follows a file that  *)
(* was only moved: ToldApart says when a body tells a file apart, and      *)
(* LoneBodyIsPaired that the heuristic then finds it, by an induction over *)
(* the turns of its loops.                                                 *)
(***************************************************************************)
EXTENDS NodeHistory, TLAPS, NaturalsInduction, WellFoundedInduction

\* Rows and results are the records they are made as, and the stored result
\* names the nodes of scan_nodes: a scan that writes nothing leaves rows and
\* flags of the same nodes.
Shaped ==
    /\ \A r \in rows : r = [node |-> r.node, key |-> r.key, of |-> r.of]
    /\ \A s \in stored : DOMAIN s.nodes = DOMAIN nodes

Reachable == Shaped /\ StrandedIsFlagged

\* Migration changes the node of a row and nothing else, and leaves no row
\* where it migrates from.
LEMMA MigratedRows ==
    ASSUME NEW from, NEW to, NEW rs,
           \A r \in rs : r = [node |-> r.node, key |-> r.key, of |-> r.of]
    PROVE  \A r \in Migrated(rs, from, to) :
              /\ r = [node |-> r.node, key |-> r.key, of |-> r.of]
              /\ r.node = to \/ (r.node # from /\ r \in rs)
  <1> SUFFICES ASSUME NEW r \in Migrated(rs, from, to)
               PROVE  /\ r = [node |-> r.node, key |-> r.key, of |-> r.of]
                      /\ r.node = to \/ (r.node # from /\ r \in rs)
    OBVIOUS
  <1>1. CASE r \in rs /\ r.node # from
    BY <1>1
  <1>2. CASE \E x \in rs : r = [x EXCEPT !.node = to]
    <2>1. PICK x \in rs : r = [x EXCEPT !.node = to]
      BY <1>2
    <2>2. r = [node |-> to, key |-> x.key, of |-> x.of]
      BY <2>1
    <2> QED BY <2>2
  <1> QED BY <1>1, <1>2 DEF Migrated

\* The same of the renames of a scan.
LEMMA RenamedRows ==
    ASSUME NEW ops, NEW rs,
           \A r \in rs : r = [node |-> r.node, key |-> r.key, of |-> r.of]
    PROVE  \A r \in Renamed(rs, ops) :
              r = [node |-> r.node, key |-> r.key, of |-> r.of]
  BY MigratedRows DEF Renamed

\* Everything the sweep finds is flagged, by itself or by the heuristic.
LEMMA SweepFlags ==
    ASSUME NEW rs, NEW found, NEW r \in rs, r.node \notin DOMAIN Visible
    PROVE  \E i \in found \cup Stranded(rs, found) :
              i.kind = "orphan" /\ i.node = r.node
  <1>1. CASE Orphan(r.node, "deleted") \in found
    BY <1>1 DEF Orphan
  <1>2. CASE Orphan(r.node, "deleted") \notin found
    <2>1. Orphan(r.node, "stranded") \in Stranded(rs, found)
      BY <1>2 DEF Stranded
    <2> QED BY <2>1 DEF Orphan
  <1> QED BY <1>1, <1>2

LEMMA ScanReachable ==
    ASSUME Reachable, Scan
    PROVE  Reachable'
  <1> DEFINE ops    == RenameOps(nodes, Visible)
             found  == Flagged(ops)
             moved  == Renamed(rows, ops)
             result == [nodes |-> Hashes(Visible), issues |-> found \cup Stranded(moved, found)]
  <1>1. rows' = moved /\ nodes' = Visible
    BY DEF Scan
  <1>2. \A r \in rows' : r = [node |-> r.node, key |-> r.key, of |-> r.of]
    BY <1>1, RenamedRows DEF Reachable, Shaped
  <1>3. DOMAIN result.nodes = DOMAIN Visible
    BY DEF Hashes
  <1>4. CASE result \in stored /\ ops = {}
    <2>1. issues' = issues /\ stored' = stored
      BY <1>4 DEF Scan
    <2>2. rows' = rows
      BY <1>1, <1>4 DEF Renamed, Froms
    <2>3. DOMAIN nodes' = DOMAIN nodes
      BY <1>1, <1>3, <1>4 DEF Reachable, Shaped
    <2> QED BY <1>2, <2>1, <2>2, <2>3 DEF Reachable, Shaped, StrandedIsFlagged
  <1>5. CASE ~(result \in stored /\ ops = {})
    <2>1. issues' = found \cup Stranded(moved, found) /\ stored' = {result}
      BY <1>5 DEF Scan
    <2>2. \A s \in stored' : DOMAIN s.nodes = DOMAIN nodes'
      BY <1>1, <1>3, <2>1
    <2>3. ASSUME NEW r \in rows', r.node \notin DOMAIN nodes'
          PROVE  \E o \in issues' : o.kind = "orphan" /\ o.node = r.node
      BY <1>1, <2>1, <2>3, SweepFlags
    <2> QED BY <1>2, <2>2, <2>3 DEF Reachable, Shaped, StrandedIsFlagged
  <1> QED BY <1>4, <1>5

LEMMA RecordReachable ==
    ASSUME Reachable, NEW p \in Path, NEW k, Record(p, k)
    PROVE  Reachable'
  <1> DEFINE new == [node |-> p, key |-> k, of |-> nodes[p].id]
  <1>1. rows' \subseteq rows \cup {new} /\ p \in DOMAIN nodes
    BY DEF Record
  <1>2. UNCHANGED <<nodes, issues, stored>>
    BY DEF Record
  <1>3. new = [node |-> new.node, key |-> new.key, of |-> new.of] /\ new.node = p
    OBVIOUS
  <1> QED
    BY <1>1, <1>2, <1>3 DEF Reachable, Shaped, StrandedIsFlagged

\* The flag that goes is the one of the path the rows have left.
LEMMA ReconcileReachable ==
    ASSUME Reachable, NEW p \in Path, NEW q \in Path, Reconcile(p, q)
    PROVE  Reachable'
  <1>1. /\ q \in DOMAIN nodes /\ issues' = issues \ OrphansOf(p)
        /\ UNCHANGED <<nodes, stored>>
    BY DEF Reconcile
  <1>2. \A r \in rows' : /\ r = [node |-> r.node, key |-> r.key, of |-> r.of]
                         /\ r.node = q \/ (r.node # p /\ r \in rows)
    <2>1. CASE p = q
      BY <2>1 DEF Reconcile, Reachable, Shaped
    <2>2. CASE p # q
      BY <2>2, MigratedRows DEF Reconcile, Reachable, Shaped
    <2> QED BY <2>1, <2>2
  <1>3. ASSUME NEW r \in rows', r.node \notin DOMAIN nodes'
        PROVE  \E o \in issues' : o.kind = "orphan" /\ o.node = r.node
    <2>1. r \in rows /\ r.node # p /\ r.node \notin DOMAIN nodes
      BY <1>1, <1>2, <1>3
    <2>2. PICK i \in issues : i.kind = "orphan" /\ i.node = r.node
      BY <2>1 DEF Reachable, StrandedIsFlagged
    <2>3. i \in issues'
      BY <1>1, <2>1, <2>2 DEF OrphansOf
    <2> QED BY <2>2, <2>3
  <1> QED BY <1>1, <1>2, <1>3 DEF Reachable, Shaped, StrandedIsFlagged

\* The flag that goes is no orphan's, and the path the rows go to is flagged.
LEMMA UndoRenameReachable ==
    ASSUME Reachable, NEW p \in Path, NEW q \in Path, UndoRename(q, p)
    PROVE  Reachable'
  <1>1. PICK i \in issues :
            /\ i.kind # "orphan"
            /\ rows' = Migrated(rows, q, p)
            /\ issues' = (issues \ {i}) \cup {Orphan(p, "undone")}
    BY DEF UndoRename
  <1>2. UNCHANGED <<nodes, stored>>
    BY DEF UndoRename
  <1>3. \A r \in rows' : /\ r = [node |-> r.node, key |-> r.key, of |-> r.of]
                         /\ r.node = p \/ r \in rows
    BY <1>1, MigratedRows DEF Reachable, Shaped
  <1>4. ASSUME NEW r \in rows', r.node \notin DOMAIN nodes'
        PROVE  \E o \in issues' : o.kind = "orphan" /\ o.node = r.node
    <2>1. CASE r.node = p
      <3>1. Orphan(p, "undone") \in issues'
        BY <1>1
      <3> QED BY <2>1, <3>1 DEF Orphan
    <2>2. CASE r \in rows
      <3>1. PICK o \in issues : o.kind = "orphan" /\ o.node = r.node
        BY <1>2, <1>4, <2>2 DEF Reachable, StrandedIsFlagged
      <3>2. o \in issues'
        BY <1>1, <3>1
      <3> QED BY <3>1, <3>2
    <2> QED BY <1>3, <2>1, <2>2
  <1> QED BY <1>2, <1>3, <1>4 DEF Reachable, Shaped, StrandedIsFlagged

\* Rows about a path that is no node are flagged, always: whatever the scans,
\* the repairs by hand and the skipped writes.
THEOREM HistoryIsReachable == Spec => []StrandedIsFlagged
  <1>1. Init => Reachable
    BY DEF Init, Reachable, Shaped, StrandedIsFlagged
  <1>2. Reachable /\ [Next]_vars => Reachable'
    <2> SUFFICES ASSUME Reachable, [Next]_vars
                 PROVE  Reachable'
      OBVIOUS
    <2>1. CASE Scan
      BY <2>1, ScanReachable
    <2>2. CASE \E p \in Path, k \in Key \cup {NoKey} : Record(p, k)
      BY <2>2, RecordReachable
    <2>3. CASE \E p, q \in Path : Reconcile(p, q)
      BY <2>3, ReconcileReachable
    <2>4. CASE \E p, q \in Path : UndoRename(q, p)
      BY <2>4, UndoRenameReachable
    <2>5. CASE UNCHANGED <<nodes, issues, stored, rows>>
      BY <2>5 DEF Reachable, Shaped, StrandedIsFlagged
    <2>6. CASE Touch
      BY <2>5, <2>6 DEF Touch
    <2>7. CASE UNCHANGED vars
      BY <2>5, <2>7 DEF vars
    <2>8. CASE \/ \E p \in Path, b \in BodyHash, f \in FrontHash : Make(p, b, f)
               \/ \E p \in Path, b \in BodyHash : Edit(p, b)
               \/ \E p, q \in Path : Move(p, q)
               \/ \E p \in Path : Delete(p) \/ Ignore(p)
      BY <2>6, <2>8 DEF Make, Edit, Move, Delete, Ignore
    <2> QED
      BY <2>1, <2>2, <2>3, <2>4, <2>7, <2>8 DEF Next
  <1>3. Reachable => StrandedIsFlagged
    BY DEF Reachable
  <1> QED BY <1>1, <1>2, <1>3, PTL DEF Spec

-----------------------------------------------------------------------------
(***************************************************************************)
(* The claims of the rename heuristic, turn by turn.                       *)
(***************************************************************************)

\* Induction over the naturals, said of a set.
LEMMA SetInduction ==
    ASSUME NEW S, 0 \in S, \A n \in Nat : n \in S => n + 1 \in S
    PROVE  Nat \subseteq S
  <1> DEFINE R == OpToRel(<, Nat)
             T == Nat \ S
  <1>1. IsWellFoundedOn(R, Nat)
    BY NatLessThanWellFounded
  <1>2. \A x, y \in Nat : <<y, x>> \in R <=> y < x
    BY DEF OpToRel
  <1> HIDE DEF R
  <1> SUFFICES ASSUME T # {} PROVE FALSE
    OBVIOUS
  <1>3. PICK x \in T : \A y \in T : ~(<<y, x>> \in R)
    BY <1>1, WFMin
  <1>4. x # 0 /\ x - 1 \in Nat
    OBVIOUS
  <1>5. x - 1 \in S
    <2>1. x \in Nat /\ x - 1 < x
      OBVIOUS
    <2>2. <<x - 1, x>> \in R
      BY <1>2, <1>4, <2>1
    <2>3. x - 1 \notin T
      BY <1>3, <2>2
    <2> QED BY <1>4, <2>3
  <1> QED BY <1>4, <1>5

\* Claims is the recursive function it is defined as.
LEMMA ClaimsStep ==
    ASSUME NEW prior, NEW now, NEW c, c = Claims(prior, now)
    PROVE  /\ c[0] = {}
           /\ \A i \in 1..2 * Len(PathOrder) : c[i] = Turn(prior, now, c[i - 1], i)
  <1> DEFINE M == 2 * Len(PathOrder)
             Upto(h, m) == h = [i \in 0..m |->
                                 IF i = 0 THEN {} ELSE Turn(prior, now, h[i - 1], i)]
             S == {m \in Nat : \E h : Upto(h, m)}
  <1>0. ASSUME NEW h, NEW m, Upto(h, m), NEW i \in 0..m
        PROVE  h[i] = IF i = 0 THEN {} ELSE Turn(prior, now, h[i - 1], i)
    <2> DEFINE F(k) == IF k = 0 THEN {} ELSE Turn(prior, now, h[k - 1], k)
    <2>1. h = [k \in 0..m |-> F(k)]
      BY <1>0
    <2> HIDE DEF F
    <2>2. h[i] = F(i)
      BY <2>1
    <2> QED BY <2>2 DEF F
  <1>1. M \in Nat
    BY PathOrderAssumption
  <1>2. 0 \in S
    <2> DEFINE h == [i \in 0..0 |-> {}]
    <2>1. Upto(h, 0)
      OBVIOUS
    <2> QED BY <2>1
  <1>3. ASSUME NEW m \in Nat, m \in S
        PROVE  m + 1 \in S
    <2>1. PICK h : Upto(h, m)
      BY <1>3
    <2> DEFINE g == [i \in 0..(m + 1) |->
                        IF i <= m THEN h[i] ELSE Turn(prior, now, h[m], m + 1)]
    <2>2. \A i \in 0..m : g[i] = h[i]
      OBVIOUS
    <2>3. \A i \in 0..(m + 1) :
              g[i] = IF i = 0 THEN {} ELSE Turn(prior, now, g[i - 1], i)
      <3> TAKE i \in 0..(m + 1)
      <3>1. CASE i <= m
        <4>0. i \in 0..m
          BY <3>1
        <4>1. h[i] = IF i = 0 THEN {} ELSE Turn(prior, now, h[i - 1], i)
          BY <2>1, <4>0, <1>0
        <4>2. g[i] = h[i]
          BY <3>1
        <4>3. i # 0 => g[i - 1] = h[i - 1]
          BY <3>1
        <4> QED BY <4>1, <4>2, <4>3
      <3>2. CASE i = m + 1
        <4>1. g[i] = Turn(prior, now, h[m], m + 1)
          BY <3>2
        <4>2. g[i - 1] = h[m]
          BY <3>2
        <4> QED BY <3>2, <4>1, <4>2
      <3> QED BY <3>1, <3>2
    <2>4. g = [i \in 0..(m + 1) |-> g[i]]
      OBVIOUS
    <2> HIDE DEF g
    <2>5. Upto(g, m + 1)
      BY <2>3, <2>4
    <2> QED BY <2>5
  <1>4. Nat \subseteq S
    <2> HIDE DEF S
    <2> QED BY <1>2, <1>3, SetInduction
  <1>5. \E h : Upto(h, M)
    BY <1>1, <1>4
  <1>6. c = CHOOSE h : Upto(h, M)
    BY DEF Claims
  <1>7. Upto(c, M)
    <2> HIDE DEF Upto
    <2> QED BY <1>5, <1>6, Zenon
  <1>8. \A i \in 0..M : c[i] = IF i = 0 THEN {} ELSE Turn(prior, now, c[i - 1], i)
    BY <1>0, <1>7
  <1>9. 0 \in 0..M /\ \A i \in 1..M : i \in 0..M /\ i # 0
    BY <1>1
  <1> QED BY <1>8, <1>9

\* What the two loops keep: a deletion is claimed once, by one new path, and
\* a new path claims one deletion.
Paired(prior, now, ops) ==
    /\ \A op \in ops : /\ op.from \in Deleted(prior, now)
                       /\ op.to \in Appeared(prior, now)
                       /\ op = [from |-> op.from, to |-> op.to, tier |-> op.tier]
    /\ \A a, b \in ops : a.from = b.from \/ a.to = b.to => a = b

\* In the first loop a claim is one of bodies, by a path the loop has passed.
Early(prior, now, ops, n) ==
    \A op \in ops : /\ prior[op.from].body = now[op.to].body
                    /\ \E j \in 1..n : op.from = PathOrder[j]

\* The order of Array.sort has one first path in a set, at most.
LEMMA ForemostIsOne ==
    ASSUME NEW T \in SUBSET Path
    PROVE  /\ \A p, q \in Foremost(T) : p = q
           /\ \A q : T = {q} => q \in Foremost(T)
  <1>1. ASSUME NEW p \in Foremost(T), NEW q \in Foremost(T)
        PROVE  p = q
    <2>1. PICK i \in DOMAIN PathOrder : PathOrder[i] = p
      BY DEF Foremost, Path
    <2>2. PICK j \in DOMAIN PathOrder : PathOrder[j] = q
      BY DEF Foremost, Path
    <2>3. DOMAIN PathOrder = 1..Len(PathOrder) /\ Len(PathOrder) \in Nat
      BY PathOrderAssumption
    <2>4. ~(i < j) /\ ~(j < i)
      BY <2>1, <2>2 DEF Foremost, Before
    <2>5. i = j
      BY <2>3, <2>4
    <2> QED BY <2>1, <2>2, <2>5
  <1>2. ASSUME NEW q, T = {q}
        PROVE  q \in Foremost(T)
    <2>1. DOMAIN PathOrder = 1..Len(PathOrder) /\ Len(PathOrder) \in Nat
      BY PathOrderAssumption
    <2>2. ASSUME Before(q, q)
          PROVE  FALSE
      <3>1. PICK i \in DOMAIN PathOrder, j \in DOMAIN PathOrder :
                    i < j /\ PathOrder[i] = q /\ PathOrder[j] = q
        BY <2>2 DEF Before
      <3>2. i = j
        BY <3>1, PathOrderAssumption
      <3> QED BY <2>1, <3>1, <3>2
    <2> QED BY <1>2, <2>2 DEF Foremost
  <1> QED BY <1>1, <1>2

\* A new claim may join when neither of its ends is claimed.
LEMMA PairedJoins ==
    ASSUME NEW prior, NEW now, NEW ops, Paired(prior, now, ops), NEW more,
           \A op \in more :
              /\ op.from \in Deleted(prior, now) \ Froms(ops)
              /\ op.to \in Appeared(prior, now) \ Tos(ops)
              /\ op = [from |-> op.from, to |-> op.to, tier |-> op.tier],
           \A a, b \in more : a = b
    PROVE  Paired(prior, now, ops \cup more)
  <1>1. \A a \in ops : a.from \in Froms(ops) /\ a.to \in Tos(ops)
    BY DEF Froms, Tos
  <1>2. \A a \in ops, b \in more : a.from # b.from /\ a.to # b.to
    BY <1>1
  <1> QED BY <1>2 DEF Paired

\* A turn of either loop keeps the pairs apart.
LEMMA TurnPairs ==
    ASSUME NEW prior, NEW now, NEW ops, NEW i, DOMAIN now \subseteq Path,
           Paired(prior, now, ops)
    PROVE  Paired(prior, now, Turn(prior, now, ops, i))
  <1>1. ASSUME NEW from
        PROVE  Paired(prior, now, ByBody(prior, now, ops, from))
    <2> DEFINE first == Foremost(BodyMatches(prior, now, from, ops))
               more  == {[from |-> from, to |-> to, tier |-> "high"] : to \in first}
    <2>1. CASE from \notin Deleted(prior, now) \ Froms(ops)
      BY <2>1 DEF ByBody
    <2>2. CASE from \in Deleted(prior, now) \ Froms(ops)
      <3>1. BodyMatches(prior, now, from, ops) \in SUBSET Path
        BY DEF BodyMatches, Appeared
      <3>2. \A p, q \in first : p = q
        BY <3>1, ForemostIsOne
      <3>3. \A q \in first : q \in Appeared(prior, now) \ Tos(ops)
        BY DEF Foremost, BodyMatches
      <3> HIDE DEF first
      <3>4. \A op \in more :
               /\ op.from = from /\ op.to \in first
               /\ op = [from |-> op.from, to |-> op.to, tier |-> op.tier]
        OBVIOUS
      <3>5. \A a, b \in more : a = b
        BY <3>2
      <3>6. ByBody(prior, now, ops, from) = ops \cup more
        BY <2>2 DEF ByBody, first
      <3> HIDE DEF more
      <3> QED BY <2>2, <3>3, <3>4, <3>5, <3>6, PairedJoins
    <2> QED BY <2>1, <2>2
  <1>2. ASSUME NEW to
        PROVE  Paired(prior, now, ByFront(prior, now, ops, to))
    <2> DEFINE left == FrontMatches(prior, now, to, ops)
               only == {f \in left : left = {f}}
               more == {[from |-> from, to |-> to, tier |-> "medium"] : from \in only}
    <2>1. CASE to \notin Appeared(prior, now) \ Tos(ops)
      BY <2>1 DEF ByFront
    <2>2. CASE to \in Appeared(prior, now) \ Tos(ops)
      <3>1. \A p, q \in only : p = q
        OBVIOUS
      <3>2. \A p \in only : p \in Deleted(prior, now) \ Froms(ops)
        BY DEF FrontMatches
      <3>3. ByFront(prior, now, ops, to) = ops \cup more
        BY <2>2 DEF ByFront
      <3> HIDE DEF only
      <3>4. \A op \in more :
               /\ op.to = to /\ op.from \in only
               /\ op = [from |-> op.from, to |-> op.to, tier |-> op.tier]
        OBVIOUS
      <3>5. \A a, b \in more : a = b
        BY <3>1
      <3> HIDE DEF more
      <3> QED BY <2>2, <3>2, <3>3, <3>4, <3>5, PairedJoins
    <2> QED BY <2>1, <2>2
  <1> QED BY <1>1, <1>2 DEF Turn

\* No turn gives a claim up.
LEMMA TurnGrows ==
    ASSUME NEW prior, NEW now, NEW ops, NEW i
    PROVE  ops \subseteq Turn(prior, now, ops, i)
  BY DEF Turn, ByBody, ByFront

\* The heuristic pairs each path at most once.
LEMMA OpsArePaired ==
    ASSUME NEW prior, NEW now, DOMAIN now \subseteq Path
    PROVE  Paired(prior, now, RenameOps(prior, now))
  <1> DEFINE c == Claims(prior, now)
             M == 2 * Len(PathOrder)
             S == {n \in Nat : n <= M => Paired(prior, now, c[n])}
  <1>1. /\ c[0] = {}
        /\ \A i \in 1..M : c[i] = Turn(prior, now, c[i - 1], i)
    BY ClaimsStep
  <1>2. M \in Nat
    BY PathOrderAssumption
  <1> HIDE DEF c, M
  <1>3. 0 \in S
    BY <1>1 DEF Paired
  <1>4. ASSUME NEW n \in Nat, n \in S
        PROVE  n + 1 \in S
    <2> SUFFICES ASSUME n + 1 <= M
                 PROVE  Paired(prior, now, c[n + 1])
      OBVIOUS
    <2>1. Paired(prior, now, c[n])
      BY <1>2, <1>4
    <2>2. c[n + 1] = Turn(prior, now, c[n], n + 1)
      <3>1. n + 1 \in 1..M /\ (n + 1) - 1 = n
        BY <1>2
      <3> QED BY <1>1, <3>1
    <2> QED BY <2>1, <2>2, TurnPairs
  <1> HIDE DEF S
  <1>5. M \in S
    BY <1>2, <1>3, <1>4, SetInduction
  <1> QED BY <1>2, <1>5 DEF S, c, M, RenameOps

\* A turn of the first loop claims by the body, for the path whose turn it is.
LEMMA ByBodyIsEarly ==
    ASSUME NEW prior, NEW now, NEW ops, NEW n \in Nat,
           Early(prior, now, ops, n)
    PROVE  Early(prior, now, ByBody(prior, now, ops, PathOrder[n + 1]), n + 1)
  <1> DEFINE from == PathOrder[n + 1]
             first == Foremost(BodyMatches(prior, now, from, ops))
             more == {[from |-> from, to |-> to, tier |-> "high"] : to \in first}
  <1>1. \A op \in ByBody(prior, now, ops, from) : op \in ops \/ op \in more
    BY DEF ByBody
  <1>2. \A q \in first : now[q].body = prior[from].body
    BY DEF Foremost, BodyMatches
  <1>3. n + 1 \in 1..(n + 1) /\ 1..n \subseteq 1..(n + 1)
    OBVIOUS
  <1> HIDE DEF first
  <1>4. \A op \in more : op.from = from /\ op.to \in first
    OBVIOUS
  <1>5. ASSUME NEW op \in more
        PROVE  /\ prior[op.from].body = now[op.to].body
               /\ \E j \in 1..(n + 1) : op.from = PathOrder[j]
    BY <1>2, <1>3, <1>4
  <1>6. ASSUME NEW op \in ops
        PROVE  /\ prior[op.from].body = now[op.to].body
               /\ \E j \in 1..(n + 1) : op.from = PathOrder[j]
    BY <1>3 DEF Early
  <1> HIDE DEF more
  <1> QED BY <1>1, <1>5, <1>6 DEF Early

\* The heuristic pairs a vanished path and a new one that share a body nobody
\* else among the vanished and the new has, whatever there is besides: no
\* earlier turn can have taken either, and no later one gives them up.
LEMMA LoneBodyIsPaired ==
    ASSUME NEW prior, NEW now, DOMAIN prior \subseteq Path, DOMAIN now \subseteq Path,
           NEW p \in Deleted(prior, now), NEW q \in Appeared(prior, now),
           prior[p].body = now[q].body,
           \A x \in Deleted(prior, now) : prior[x].body = prior[p].body => x = p,
           \A x \in Appeared(prior, now) : now[x].body = prior[p].body => x = q
    PROVE  [from |-> p, to |-> q, tier |-> "high"] \in RenameOps(prior, now)
  <1> DEFINE c == Claims(prior, now)
             N == Len(PathOrder)
             op == [from |-> p, to |-> q, tier |-> "high"]
             S == {n \in Nat : n <= N => Early(prior, now, c[n], n)
                                         /\ Paired(prior, now, c[n])}
  <1>1. /\ c[0] = {}
        /\ \A i \in 1..2 * N : c[i] = Turn(prior, now, c[i - 1], i)
    BY ClaimsStep
  <1>2. N \in Nat
    BY PathOrderAssumption
  <1>3. \A i \in 1..N : c[i] = ByBody(prior, now, c[i - 1], PathOrder[i])
    BY <1>1, <1>2 DEF Turn
  <1> HIDE DEF c
  <1>4. Nat \subseteq S
    <2>1. 0 \in S
      BY <1>1 DEF Early, Paired
    <2>2. ASSUME NEW n \in Nat, n \in S
          PROVE  n + 1 \in S
      <3> SUFFICES ASSUME n + 1 <= N
                   PROVE  /\ Early(prior, now, c[n + 1], n + 1)
                          /\ Paired(prior, now, c[n + 1])
        OBVIOUS
      <3> HIDE DEF N
      <3>1. Early(prior, now, c[n], n) /\ Paired(prior, now, c[n])
        BY <1>2, <2>2
      <3>2. n + 1 \in 1..N /\ n + 1 \in 1..2 * N /\ (n + 1) - 1 = n
        BY <1>2
      <3>3. /\ c[n + 1] = ByBody(prior, now, c[n], PathOrder[n + 1])
            /\ c[n + 1] = Turn(prior, now, c[n], n + 1)
        BY <1>1, <1>3, <3>2
      <3>4. Paired(prior, now, c[n + 1])
        BY <3>1, <3>3, TurnPairs
      <3> QED BY <3>1, <3>3, <3>4, ByBodyIsEarly
    <2> HIDE DEF S
    <2> QED BY <2>1, <2>2, SetInduction
  <1>5. PICK k \in 1..N : PathOrder[k] = p
    BY PathOrderAssumption DEF Deleted, Path
  <1>6. op \in c[k]
    <2> DEFINE ops == c[k - 1]
    <2>1. Early(prior, now, ops, k - 1) /\ Paired(prior, now, ops)
      <3>1. k - 1 \in Nat /\ k - 1 <= N
        BY <1>2
      <3> QED BY <1>4, <3>1
    <2>2. c[k] = ByBody(prior, now, ops, p)
      BY <1>3, <1>5
    <2>3. p \notin Froms(ops)
      <3> SUFFICES ASSUME NEW a \in ops, a.from = p
                   PROVE  FALSE
        BY DEF Froms
      <3>1. PICK j \in 1..(k - 1) : p = PathOrder[j]
        BY <2>1 DEF Early
      <3>2. j \in DOMAIN PathOrder /\ k \in DOMAIN PathOrder /\ j # k
        BY <1>2, PathOrderAssumption
      <3> QED BY <1>5, <3>1, <3>2, PathOrderAssumption
    <2>4. q \notin Tos(ops)
      <3> SUFFICES ASSUME NEW a \in ops, a.to = q
                   PROVE  FALSE
        BY DEF Tos
      <3>1. a.from \in Deleted(prior, now) /\ prior[a.from].body = now[q].body
        BY <2>1 DEF Early, Paired
      <3>2. a.from = p
        BY <3>1
      <3> QED BY <2>3, <3>2 DEF Froms
    <2>5. BodyMatches(prior, now, p, ops) = {q}
      BY <2>4 DEF BodyMatches
    <2>6. q \in Foremost(BodyMatches(prior, now, p, ops))
      <3>1. {q} \in SUBSET Path
        BY DEF Appeared
      <3> QED BY <2>5, <3>1, ForemostIsOne
    <2> HIDE DEF ops
    <2> QED BY <2>2, <2>3, <2>6 DEF ByBody
  <1> DEFINE R == {n \in Nat : k + n <= 2 * N => op \in c[k + n]}
  <1> HIDE DEF op
  <1>7. Nat \subseteq R
    <2> HIDE DEF N
    <2>1. 0 \in R
      BY <1>6, <1>2
    <2>2. ASSUME NEW n \in Nat, n \in R
          PROVE  n + 1 \in R
      <3> SUFFICES ASSUME k + (n + 1) <= 2 * N
                   PROVE  op \in c[k + (n + 1)]
        OBVIOUS
      <3>1. op \in c[k + n]
        BY <1>2, <2>2
      <3>2. k + (n + 1) \in 1..2 * N /\ (k + (n + 1)) - 1 = k + n
        BY <1>2
      <3>3. c[k + (n + 1)] = Turn(prior, now, c[k + n], k + (n + 1))
        BY <1>1, <3>2
      <3> QED BY <3>1, <3>3, TurnGrows
    <2> HIDE DEF R
    <2> QED BY <2>1, <2>2, SetInduction
  <1>8. 2 * N - k \in Nat /\ k + (2 * N - k) = 2 * N
    <2> HIDE DEF N
    <2> QED BY <1>2
  <1>9. op \in c[2 * N]
    <2> HIDE DEF N, R
    <2>1. 2 * N - k \in R
      BY <1>7, <1>8
    <2>2. k + (2 * N - k) <= 2 * N => op \in c[k + (2 * N - k)]
      BY <2>1 DEF R
    <2> QED BY <1>2, <1>8, <2>2
  <1> QED BY <1>9 DEF c, op, RenameOps

-----------------------------------------------------------------------------
(***************************************************************************)
(* The shape of the state.                                                 *)
(***************************************************************************)
OneRowPerKey(rs) ==
    \A r, x \in rs : r.node = x.node /\ r.key = x.key /\ r.key # NoKey => r = x

\* Rows keep their primary key through a migration.
LEMMA MigratedKeys ==
    ASSUME NEW rs \in SUBSET Row, NEW from \in Path, NEW to \in Path, OneRowPerKey(rs)
    PROVE  Migrated(rs, from, to) \in SUBSET Row /\ OneRowPerKey(Migrated(rs, from, to))
  <1> DEFINE stay == {r \in rs : r.node # from}
             go   == {x \in rs : /\ x.node = from
                                 /\ \/ x.key = NoKey
                                    \/ ~\E y \in rs : y.node = to /\ y.key = x.key}
  <1>1. \A r \in Migrated(rs, from, to) :
            r \in stay \/ \E x \in go : r = [x EXCEPT !.node = to]
    BY DEF Migrated
  <1>2. \A x \in go : /\ [x EXCEPT !.node = to] \in Row
                      /\ [x EXCEPT !.node = to].node = to
                      /\ [x EXCEPT !.node = to].key = x.key
                      /\ [x EXCEPT !.node = to].of = x.of
    BY DEF Row
  <1>3. Migrated(rs, from, to) \in SUBSET Row
    BY <1>1, <1>2
  <1>4. ASSUME NEW r \in Migrated(rs, from, to), NEW x \in Migrated(rs, from, to),
               r.node = x.node, r.key = x.key, r.key # NoKey
        PROVE  r = x
    <2>1. CASE r \in stay /\ x \in stay
      BY <1>4, <2>1 DEF OneRowPerKey
    <2>2. ASSUME NEW a \in stay, NEW b \in go, a.node = to, a.key = b.key, a.key # NoKey
          PROVE  FALSE
      BY <2>2
    <2>3. CASE /\ \E a \in go : r = [a EXCEPT !.node = to]
               /\ \E b \in go : x = [b EXCEPT !.node = to]
      <3>1. PICK a \in go : r = [a EXCEPT !.node = to]
        BY <2>3
      <3>2. PICK b \in go : x = [b EXCEPT !.node = to]
        BY <2>3
      <3>3. a.key = b.key /\ a.key # NoKey /\ a.node = b.node
        BY <1>2, <1>4, <3>1, <3>2
      <3>4. a = b
        BY <3>3 DEF OneRowPerKey
      <3> QED BY <3>1, <3>2, <3>4
    <2>4. CASE r \in stay /\ \E b \in go : x = [b EXCEPT !.node = to]
      BY <1>2, <1>4, <2>2, <2>4
    <2>5. CASE x \in stay /\ \E b \in go : r = [b EXCEPT !.node = to]
      BY <1>2, <1>4, <2>2, <2>5
    <2> HIDE DEF stay, go
    <2> QED BY <1>1, <2>1, <2>3, <2>4, <2>5
  <1> QED BY <1>3, <1>4 DEF OneRowPerKey

\* The renames of a scan are one migration to each new path.
LEMMA RenamedKeys ==
    ASSUME NEW rs \in SUBSET Row, NEW ops, OneRowPerKey(rs),
           \A op \in ops : op.from \in Path /\ op.to \in Path,
           \A a, b \in ops : a.to = b.to => a = b
    PROVE  Renamed(rs, ops) \in SUBSET Row /\ OneRowPerKey(Renamed(rs, ops))
  <1>1. \A op \in ops : /\ Migrated(rs, op.from, op.to) \in SUBSET Row
                        /\ OneRowPerKey(Migrated(rs, op.from, op.to))
    BY MigratedKeys
  <1>2. \A r \in Renamed(rs, ops) :
            \/ r \in rs /\ r.node \notin Froms(ops)
            \/ \E op \in ops : r \in Migrated(rs, op.from, op.to) /\ r.node = op.to
    BY DEF Renamed
  <1>3. \A op \in ops, r \in rs : r.node \notin Froms(ops) => r \in Migrated(rs, op.from, op.to)
    BY DEF Migrated, Froms
  <1>4. ASSUME NEW r \in Renamed(rs, ops), NEW x \in Renamed(rs, ops),
               r.node = x.node, r.key = x.key, r.key # NoKey
        PROVE  r = x
    <2>1. CASE \E op \in ops : r \in Migrated(rs, op.from, op.to) /\ r.node = op.to
      <3>1. PICK op \in ops : r \in Migrated(rs, op.from, op.to) /\ r.node = op.to
        BY <2>1
      <3>2. x \in Migrated(rs, op.from, op.to)
        BY <1>2, <1>3, <1>4, <3>1
      <3> QED BY <1>1, <1>4, <3>1, <3>2 DEF OneRowPerKey
    <2>2. CASE \E op \in ops : x \in Migrated(rs, op.from, op.to) /\ x.node = op.to
      <3>1. PICK op \in ops : x \in Migrated(rs, op.from, op.to) /\ x.node = op.to
        BY <2>2
      <3>2. r \in Migrated(rs, op.from, op.to)
        BY <1>2, <1>3, <1>4, <3>1
      <3> QED BY <1>1, <1>4, <3>1, <3>2 DEF OneRowPerKey
    <2>3. CASE r \in rs /\ x \in rs
      BY <1>4, <2>3 DEF OneRowPerKey
    <2> QED BY <1>2, <2>1, <2>2, <2>3
  <1>5. Renamed(rs, ops) \in SUBSET Row
    BY <1>1, <1>2
  <1> QED BY <1>4, <1>5 DEF OneRowPerKey

Typed(f) == DOMAIN f \subseteq Path /\ \A p \in DOMAIN f : f[p] \in File

\* The files a scan sees.
LEMMA VisibleFiles ==
    /\ \A p : p \in DOMAIN Visible <=> p \in DOMAIN disk /\ p \notin ignored
    /\ \A p \in DOMAIN Visible : Visible[p] = disk[p]
  BY DEF Visible

\* What a scan flags is about paths.
LEMMA FlagsAreIssues ==
    ASSUME NEW ops, NEW rs \in SUBSET Row, Typed(nodes), Typed(disk),
           Paired(nodes, Visible, ops)
    PROVE  Flagged(ops) \cup Stranded(rs, Flagged(ops)) \in SUBSET Issue
  <1> DEFINE Why == Path \cup {"deleted", "stranded", "undone"}
  <1>1. DOMAIN Visible \subseteq Path /\ DOMAIN nodes \subseteq Path
    BY VisibleFiles DEF Typed
  <1>2. \A op \in ops : Medium(op.from, op.to) \in Issue
    <2> TAKE op \in ops
    <2>1. op.from \in Path /\ op.to \in Path
      BY <1>1 DEF Paired, Deleted, Appeared
    <2>2. {op.from} \in SUBSET Why
      BY <2>1
    <2> QED BY <2>1, <2>2 DEF Medium, Issue
  <1>3. \A to \in Ambiguous(nodes, Visible) :
            Doubtful(to, FrontMatches(nodes, Visible, to, ops)) \in Issue
    <2> TAKE to \in Ambiguous(nodes, Visible)
    <2>1. to \in Path
      BY <1>1 DEF Ambiguous, Appeared
    <2>2. FrontMatches(nodes, Visible, to, ops) \in SUBSET Why
      BY <1>1 DEF FrontMatches, Deleted
    <2> QED BY <2>1, <2>2 DEF Doubtful, Issue
  <1>4. \A p \in Path : Orphan(p, "deleted") \in Issue /\ Orphan(p, "stranded") \in Issue
    <2>1. {"deleted"} \in SUBSET Why /\ {"stranded"} \in SUBSET Why
      OBVIOUS
    <2> QED BY <2>1 DEF Orphan, Issue
  <1>5. Orphans(nodes, Visible) \subseteq Path
    BY <1>1 DEF Orphans, Deleted
  <1>6. Flagged(ops) \in SUBSET Issue
    BY <1>2, <1>3, <1>4, <1>5 DEF Flagged
  <1>7. \A r \in rs : r.node \in Path
    BY DEF Row
  <1>8. Stranded(rs, Flagged(ops)) \in SUBSET Issue
    BY <1>4, <1>7 DEF Stranded
  <1> QED BY <1>6, <1>8

\* A file is put at a path, or taken from it.
LEMMA WithFile ==
    ASSUME NEW f, NEW p, NEW x
    PROVE  /\ \A r : r \in DOMAIN With(f, p, x) <=> r \in DOMAIN f \/ r = p
           /\ \A r \in DOMAIN With(f, p, x) : With(f, p, x)[r] = IF r = p THEN x ELSE f[r]
  BY DEF With

LEMMA WithoutFile ==
    ASSUME NEW f, NEW p
    PROVE  /\ \A r : r \in DOMAIN Without(f, p) <=> r \in DOMAIN f /\ r # p
           /\ \A r \in DOMAIN Without(f, p) : Without(f, p)[r] = f[r]
  BY DEF Without

\* A body and an id tell the same files apart, but for the files in shared:
\* an unshared file has one body wherever it is, and nobody else has it.
Files == {disk[p] : p \in DOMAIN disk} \cup {nodes[p] : p \in DOMAIN nodes}

OnePlace(f) == \A p, q \in DOMAIN f : f[p].id = f[q].id => p = q

ToldApart ==
    /\ OnePlace(disk) /\ OnePlace(nodes)
    /\ \A x \in Files : x.id <= made
    /\ \A x, y \in Files : x.id = y.id /\ x.id \notin shared => x.body = y.body
    /\ \A x, y \in Files : x.body = y.body /\ x.id # y.id => x.id \in shared

HistoryInv == HistoryTypeOK /\ ToldApart

\* The ids of files are numbers.
LEMMA FilesAreTyped ==
    ASSUME HistoryTypeOK
    PROVE  \A x \in Files : x \in File /\ x.id \in Nat /\ x.id \in 1..MaxFiles
  BY NodeHistoryAssumption DEF HistoryTypeOK, Files, File

\* Files that are only moved, seen or lost are told apart as before.
LEMMA FilesStay ==
    ASSUME HistoryInv, OnePlace(disk'), OnePlace(nodes'),
           Files' \subseteq Files, made' = made, shared' = shared
    PROVE  ToldApart'
  BY DEF HistoryInv, ToldApart, OnePlace

\* A scan only sees files, and its migrations keep the primary keys.
LEMMA ScanHistory ==
    ASSUME HistoryInv, Scan
    PROVE  HistoryInv'
  <1> DEFINE ops == RenameOps(nodes, Visible)
             flags == Flagged(ops) \cup Stranded(Renamed(rows, ops), Flagged(ops))
  <1>1. /\ rows' = Renamed(rows, ops) /\ nodes' = Visible
        /\ disk' = disk /\ ignored' = ignored /\ made' = made /\ moves' = moves
        /\ recorded' = recorded /\ shared' = shared
        /\ issues' = issues \/ issues' = flags
    BY DEF Scan
  <1>2. Typed(disk) /\ Typed(nodes) /\ rows \in SUBSET Row /\ OneRowPerKey(rows)
    BY DEF HistoryInv, HistoryTypeOK, Typed, OneRowPerKey
  <1>3. Typed(nodes')
    BY <1>1, <1>2, VisibleFiles DEF Typed
  <1>4. DOMAIN Visible \subseteq Path
    BY <1>1, <1>3 DEF Typed
  <1>5. Paired(nodes, Visible, ops)
    BY <1>4, OpsArePaired
  <1>6. /\ \A op \in ops : op.from \in Path /\ op.to \in Path
        /\ \A a, b \in ops : a.to = b.to => a = b
    BY <1>2, <1>4, <1>5 DEF Paired, Deleted, Appeared, Typed
  <1>7. Renamed(rows, ops) \in SUBSET Row /\ OneRowPerKey(Renamed(rows, ops))
    <2> HIDE DEF ops
    <2> QED BY <1>2, <1>6, RenamedKeys
  <1>8. flags \in SUBSET Issue
    BY <1>2, <1>5, <1>7, FlagsAreIssues
  <1> HIDE DEF ops, flags
  <1>9. HistoryTypeOK'
    <2>1. issues' \subseteq Issue
      BY <1>1, <1>8 DEF HistoryInv, HistoryTypeOK
    <2>2. rows' \subseteq Row /\ OneRowPerKey(rows')
      BY <1>1, <1>7
    <2> QED BY <1>1, <1>3, <2>1, <2>2 DEF HistoryInv, HistoryTypeOK, Typed, OneRowPerKey
  <1>10. ToldApart'
    <2>1. OnePlace(disk') /\ OnePlace(nodes')
      BY <1>1, VisibleFiles DEF HistoryInv, ToldApart, OnePlace
    <2>2. Files' \subseteq Files
      <3>1. \A x \in Files' : \/ \E p \in DOMAIN disk' : x = disk'[p]
                              \/ \E p \in DOMAIN nodes' : x = nodes'[p]
        BY DEF Files
      <3> QED BY <1>1, <3>1, VisibleFiles DEF Files
    <2> QED BY <1>1, <2>1, <2>2, FilesStay
  <1> QED BY <1>9, <1>10 DEF HistoryInv

\* An upsert puts one row in the place of another.
LEMMA RecordHistory ==
    ASSUME HistoryInv, NEW p \in Path, NEW k \in Key \cup {NoKey}, Record(p, k)
    PROVE  HistoryInv'
  <1> DEFINE new == [node |-> p, key |-> k, of |-> nodes[p].id]
             kept == {r \in rows : k = NoKey \/ r.node # p \/ r.key # k}
  <1>1. /\ rows' = kept \cup {new} /\ p \in DOMAIN nodes
        /\ disk' = disk /\ ignored' = ignored /\ nodes' = nodes /\ issues' = issues
        /\ made' = made /\ moves' = moves /\ shared' = shared
        /\ recorded < MaxRows /\ recorded' = recorded + 1
    BY DEF Record
  <1>2. new \in Row
    <2>1. nodes[p].id \in 1..MaxFiles
      BY <1>1 DEF HistoryInv, HistoryTypeOK, File
    <2> QED BY <2>1 DEF Row
  <1>3. \A r, x \in rows' : r.node = x.node /\ r.key = x.key /\ r.key # NoKey => r = x
    BY <1>1 DEF HistoryInv, HistoryTypeOK
  <1>4. recorded' \in 0..MaxRows
    BY <1>1, NodeHistoryAssumption DEF HistoryInv, HistoryTypeOK
  <1>5. rows' \subseteq Row
    BY <1>1, <1>2 DEF HistoryInv, HistoryTypeOK
  <1>6. HistoryTypeOK'
    BY <1>1, <1>3, <1>4, <1>5 DEF HistoryInv, HistoryTypeOK
  <1> QED BY <1>1, <1>6 DEF HistoryInv, ToldApart, Files, OnePlace

\* Both repairs migrate rows and take or leave a flag of a path.
LEMMA RepairHistory ==
    ASSUME HistoryInv, NEW from \in Path, NEW to \in Path,
           rows' = rows \/ rows' = Migrated(rows, from, to),
           issues' \subseteq Issue,
           UNCHANGED <<disk, ignored, nodes, made, moves, recorded, shared>>
    PROVE  HistoryInv'
  <1>1. /\ disk' = disk /\ ignored' = ignored /\ nodes' = nodes /\ made' = made
        /\ moves' = moves /\ recorded' = recorded /\ shared' = shared
    OBVIOUS
  <1>2. rows \in SUBSET Row /\ OneRowPerKey(rows)
    BY DEF HistoryInv, HistoryTypeOK, OneRowPerKey
  <1>3. rows' \in SUBSET Row /\ OneRowPerKey(rows')
    BY <1>2, MigratedKeys
  <1>4. HistoryTypeOK'
    BY <1>1, <1>3 DEF HistoryInv, HistoryTypeOK, OneRowPerKey
  <1> QED BY <1>1, <1>4 DEF HistoryInv, ToldApart, Files, OnePlace

LEMMA ReconcileHistory ==
    ASSUME HistoryInv, NEW p \in Path, NEW q \in Path, Reconcile(p, q)
    PROVE  HistoryInv'
  <1>1. /\ rows' = rows \/ rows' = Migrated(rows, p, q)
        /\ issues' \subseteq issues
        /\ UNCHANGED <<disk, ignored, nodes, made, moves, recorded, shared>>
    BY DEF Reconcile
  <1>2. issues' \subseteq Issue
    BY <1>1 DEF HistoryInv, HistoryTypeOK
  <1> QED BY <1>1, <1>2, RepairHistory

LEMMA UndoRenameHistory ==
    ASSUME HistoryInv, NEW p \in Path, NEW q \in Path, UndoRename(q, p)
    PROVE  HistoryInv'
  <1>1. /\ rows' = Migrated(rows, q, p)
        /\ issues' \subseteq issues \cup {Orphan(p, "undone")}
        /\ UNCHANGED <<disk, ignored, nodes, made, moves, recorded, shared>>
    BY DEF UndoRename
  <1>2. Orphan(p, "undone") \in Issue
    <2>1. {"undone"} \in SUBSET (Path \cup {"deleted", "stranded", "undone"})
      OBVIOUS
    <2> QED BY <2>1 DEF Orphan, Issue
  <1>3. issues' \subseteq Issue
    BY <1>1, <1>2 DEF HistoryInv, HistoryTypeOK
  <1> QED BY <1>1, <1>3, RepairHistory

\* What happens to a file leaves rows, nodes and flags alone.
LEMMA TouchTypes ==
    ASSUME HistoryTypeOK, Touch, Typed(disk'), ignored' \subseteq Path,
           made' \in 0..MaxFiles, shared' \subseteq 1..MaxFiles
    PROVE  HistoryTypeOK'
  <1>1. /\ nodes' = nodes /\ issues' = issues /\ rows' = rows /\ recorded' = recorded
        /\ moves' \in 0..MaxMoves
    BY NodeHistoryAssumption DEF Touch, HistoryTypeOK
  <1> QED BY <1>1 DEF HistoryTypeOK, Typed

\* A new file has a new id, and shares its body with those in shared only.
LEMMA MakeHistory ==
    ASSUME HistoryInv, NEW p \in Path, NEW b \in BodyHash, NEW f \in FrontHash, Make(p, b, f)
    PROVE  HistoryInv'
  <1> DEFINE n == made + 1
             new == [body |-> b, front |-> f, id |-> n]
  <1>1. /\ p \notin DOMAIN disk /\ made < MaxFiles /\ made' = n
        /\ disk' = With(disk, p, new) /\ nodes' = nodes /\ ignored' = ignored /\ Touch
        /\ shared' = IF Twins(b) = {} THEN shared ELSE shared \cup Twins(b) \cup {n}
    BY DEF Make, Touch
  <1>2. n \in 1..MaxFiles /\ made \in Nat /\ MaxFiles \in Nat
    BY <1>1, NodeHistoryAssumption DEF HistoryInv, HistoryTypeOK
  <1>3. new \in File
    BY <1>2 DEF File
  <1>4. \A x \in Files : x.id \in 1..MaxFiles /\ x.id <= made
    BY FilesAreTyped DEF HistoryInv, ToldApart
  <1>5. \A i : i \in Twins(b) <=> \E x \in Files : x.body = b /\ x.id = i
    BY DEF Twins, Files
  <1>6. shared \subseteq shared' /\ shared' \subseteq 1..MaxFiles
    BY <1>1, <1>2, <1>4, <1>5 DEF HistoryInv, HistoryTypeOK
  <1>7. \A x \in Files' : x \in Files \/ x = new
    <2>1. \A x \in Files' : \/ \E r \in DOMAIN disk' : x = disk'[r]
                            \/ \E r \in DOMAIN nodes' : x = nodes'[r]
      BY DEF Files
    <2> HIDE DEF new
    <2> QED BY <1>1, <2>1, WithFile DEF Files
  <1>8. HistoryTypeOK'
    <2>1. Typed(disk')
      <3> HIDE DEF new
      <3> QED BY <1>1, <1>3, WithFile DEF HistoryInv, HistoryTypeOK, Typed
    <2>2. ignored' \subseteq Path /\ made' \in 0..MaxFiles
      BY <1>1, <1>2 DEF HistoryInv, HistoryTypeOK
    <2> QED BY <1>1, <1>6, <2>1, <2>2, TouchTypes DEF HistoryInv
  <1>9. new.id = n /\ new.body = b
    OBVIOUS
  <1>10. \A x \in Files : x.id # n /\ x.id <= n
    BY <1>2, <1>4
  <1> HIDE DEF new, n
  <1>11. OnePlace(disk') /\ OnePlace(nodes')
    <2>1. \A r \in DOMAIN disk : disk[r].id # n
      BY <1>10 DEF Files
    <2>2. \A r \in DOMAIN disk' : \/ r = p /\ disk'[r] = new
                                  \/ r \in DOMAIN disk /\ r # p /\ disk'[r] = disk[r]
      BY <1>1, WithFile
    <2> QED BY <1>1, <1>9, <2>1, <2>2 DEF HistoryInv, ToldApart, OnePlace
  <1>12. \A x \in Files' : x.id <= made'
    BY <1>1, <1>2, <1>7, <1>9, <1>10
  <1>13. \A x, y \in Files' : x.id = y.id /\ x.id \notin shared' => x.body = y.body
    BY <1>6, <1>7, <1>9, <1>10 DEF HistoryInv, ToldApart
  <1>14. \A x, y \in Files' : x.body = y.body /\ x.id # y.id => x.id \in shared'
    <2> SUFFICES ASSUME NEW x \in Files', NEW y \in Files', x.body = y.body, x.id # y.id
                 PROVE  x.id \in shared'
      OBVIOUS
    <2>1. CASE x \in Files /\ y \in Files
      BY <1>6, <2>1 DEF HistoryInv, ToldApart
    <2>2. CASE x = new /\ y \in Files
      BY <1>1, <1>5, <1>9, <2>2
    <2>3. CASE x \in Files /\ y = new
      BY <1>1, <1>5, <1>9, <2>3
    <2> QED BY <1>7, <2>1, <2>2, <2>3
  <1> QED BY <1>8, <1>11, <1>12, <1>13, <1>14 DEF HistoryInv, ToldApart

\* An edited file is shared from then on, as those are that had the body.
LEMMA EditHistory ==
    ASSUME HistoryInv, NEW p \in Path, NEW b \in BodyHash, Edit(p, b)
    PROVE  HistoryInv'
  <1> DEFINE new == [disk[p] EXCEPT !.body = b]
  <1>1. /\ p \in DOMAIN disk /\ made' = made /\ ignored' = ignored /\ nodes' = nodes /\ Touch
        /\ disk' = [disk EXCEPT ![p].body = b]
        /\ shared' = shared \cup Twins(b) \cup {disk[p].id}
    BY DEF Edit, Touch
  <1>2. \A x \in Files : x.id \in 1..MaxFiles
    BY FilesAreTyped DEF HistoryInv
  <1>3. disk[p] \in Files /\ disk[p] \in File
    BY <1>1 DEF Files, HistoryInv, HistoryTypeOK
  <1>4. new \in File /\ new.id = disk[p].id /\ new.body = b
    BY <1>3 DEF File
  <1>5. /\ DOMAIN disk' = DOMAIN disk
        /\ \A r \in DOMAIN disk : disk'[r] = IF r = p THEN new ELSE disk[r]
    BY <1>1
  <1> HIDE DEF new
  <1>6. \A i : i \in Twins(b) <=> \E x \in Files : x.body = b /\ x.id = i
    BY DEF Twins, Files
  <1>7. shared \subseteq shared' /\ shared' \subseteq 1..MaxFiles /\ new.id \in shared'
    BY <1>1, <1>2, <1>3, <1>4, <1>6 DEF HistoryInv, HistoryTypeOK
  <1>8. \A x \in Files' : x \in Files \/ x = new
    <2>1. \A x \in Files' : \/ \E r \in DOMAIN disk' : x = disk'[r]
                            \/ \E r \in DOMAIN nodes' : x = nodes'[r]
      BY DEF Files
    <2> QED BY <1>1, <1>5, <2>1 DEF Files
  <1>9. HistoryTypeOK'
    <2>1. Typed(disk')
      BY <1>4, <1>5 DEF HistoryInv, HistoryTypeOK, Typed
    <2>2. ignored' \subseteq Path /\ made' \in 0..MaxFiles
      BY <1>1 DEF HistoryInv, HistoryTypeOK
    <2> QED BY <1>1, <1>7, <2>1, <2>2, TouchTypes DEF HistoryInv
  <1>10. OnePlace(disk') /\ OnePlace(nodes')
    <2>1. \A r \in DOMAIN disk' : r \in DOMAIN disk /\ disk'[r].id = disk[r].id
      BY <1>4, <1>5
    <2> QED BY <1>1, <2>1 DEF HistoryInv, ToldApart, OnePlace
  <1>11. \A x \in Files' : x.id <= made'
    BY <1>1, <1>3, <1>4, <1>8 DEF HistoryInv, ToldApart
  <1>12. \A x, y \in Files' : x.id = y.id /\ x.id \notin shared' => x.body = y.body
    BY <1>7, <1>8 DEF HistoryInv, ToldApart
  <1>13. \A x, y \in Files' : x.body = y.body /\ x.id # y.id => x.id \in shared'
    <2> SUFFICES ASSUME NEW x \in Files', NEW y \in Files', x.body = y.body, x.id # y.id
                 PROVE  x.id \in shared'
      OBVIOUS
    <2>1. CASE x \in Files /\ y \in Files
      BY <1>7, <2>1 DEF HistoryInv, ToldApart
    <2>2. CASE x = new
      BY <1>7, <2>2
    <2>3. CASE x \in Files /\ y = new
      BY <1>1, <1>4, <1>6, <2>3
    <2> QED BY <1>8, <2>1, <2>2, <2>3
  <1> QED BY <1>9, <1>10, <1>11, <1>12, <1>13 DEF HistoryInv, ToldApart

\* A file that is moved or goes stays the file it was.
LEMMA CarryHistory ==
    ASSUME HistoryInv, Touch, made' = made, shared' = shared,
           ignored' \subseteq Path, DOMAIN disk' \subseteq Path,
           \A r \in DOMAIN disk' : \E x \in DOMAIN disk : disk'[r] = disk[x],
           \A r, s \in DOMAIN disk' : disk'[r].id = disk'[s].id => r = s
    PROVE  HistoryInv'
  <1>1. nodes' = nodes
    BY DEF Touch
  <1>2. Typed(disk') /\ made' \in 0..MaxFiles /\ shared' \subseteq 1..MaxFiles
    BY DEF HistoryInv, HistoryTypeOK, Typed
  <1>3. HistoryTypeOK'
    BY <1>2, TouchTypes DEF HistoryInv
  <1>4. Files' \subseteq Files
    <2>1. \A x \in Files' : \/ \E r \in DOMAIN disk' : x = disk'[r]
                            \/ \E r \in DOMAIN nodes' : x = nodes'[r]
      BY DEF Files
    <2> QED BY <1>1, <2>1 DEF Files
  <1>5. OnePlace(disk') /\ OnePlace(nodes')
    BY <1>1 DEF OnePlace, HistoryInv, ToldApart
  <1> QED BY <1>3, <1>4, <1>5, FilesStay DEF HistoryInv

LEMMA MoveHistory ==
    ASSUME HistoryInv, NEW p \in Path, NEW q \in Path, Move(p, q)
    PROVE  HistoryInv'
  <1>1. /\ Touch /\ made' = made /\ ignored' = ignored /\ shared' = shared
        /\ p \in DOMAIN disk /\ q \notin DOMAIN disk
        /\ disk' = With(Without(disk, p), q, disk[p])
    BY DEF Move
  <1>2. \A r \in DOMAIN disk' :
            \/ r = q /\ disk'[r] = disk[p]
            \/ r \in DOMAIN disk /\ r # p /\ disk'[r] = disk[r]
    BY <1>1, WithFile, WithoutFile
  <1>3. DOMAIN disk \subseteq Path /\ ignored \subseteq Path /\ OnePlace(disk)
    BY DEF HistoryInv, HistoryTypeOK, ToldApart
  <1>4. \A r, s \in DOMAIN disk' : disk'[r].id = disk'[s].id => r = s
    BY <1>1, <1>2, <1>3 DEF OnePlace
  <1>5. \A r \in DOMAIN disk' : \E x \in DOMAIN disk : disk'[r] = disk[x]
    BY <1>1, <1>2
  <1>6. DOMAIN disk' \subseteq Path
    BY <1>2, <1>3
  <1> QED BY <1>1, <1>3, <1>4, <1>5, <1>6, CarryHistory

LEMMA DeleteHistory ==
    ASSUME HistoryInv, NEW p \in Path, Delete(p)
    PROVE  HistoryInv'
  <1>1. /\ Touch /\ made' = made /\ ignored' = ignored /\ shared' = shared
        /\ disk' = Without(disk, p)
    BY DEF Delete
  <1>2. \A r \in DOMAIN disk' : r \in DOMAIN disk /\ disk'[r] = disk[r]
    BY <1>1, WithoutFile
  <1>3. DOMAIN disk \subseteq Path /\ ignored \subseteq Path /\ OnePlace(disk)
    BY DEF HistoryInv, HistoryTypeOK, ToldApart
  <1>4. \A r, s \in DOMAIN disk' : disk'[r].id = disk'[s].id => r = s
    BY <1>2, <1>3 DEF OnePlace
  <1>5. DOMAIN disk' \subseteq Path
    BY <1>2, <1>3
  <1> QED BY <1>1, <1>2, <1>3, <1>4, <1>5, CarryHistory

LEMMA IgnoreHistory ==
    ASSUME HistoryInv, NEW p \in Path, Ignore(p)
    PROVE  HistoryInv'
  <1>1. Touch /\ made' = made /\ shared' = shared /\ disk' = disk
    BY DEF Ignore
  <1>2. ignored' \subseteq Path /\ DOMAIN disk \subseteq Path /\ OnePlace(disk)
    BY DEF Ignore, HistoryInv, HistoryTypeOK, ToldApart
  <1> QED BY <1>1, <1>2, CarryHistory DEF OnePlace

\* The projects found at first.
LEMMA InitHistory ==
    ASSUME Init
    PROVE  HistoryInv
  <1>1. /\ disk \in FirstDisks /\ ignored = {} /\ nodes = <<>>
        /\ issues = {} /\ rows = {} /\ made = Cardinality(DOMAIN disk)
        /\ moves = 0 /\ recorded = 0
        /\ shared = {disk[p].id : p \in {q \in DOMAIN disk :
                         \E r \in DOMAIN disk \ {q} : disk[r].body = disk[q].body}}
    BY DEF Init
  <1>2. DOMAIN nodes = {}
    BY <1>1
  <1>3. /\ made \in 0..MaxFiles /\ DOMAIN disk \subseteq Path
        /\ \A p \in DOMAIN disk : disk[p] \in [body : BodyHash, front : FrontHash, id : 1..made]
        /\ OnePlace(disk)
    BY <1>1, NodeHistoryAssumption DEF OnePlace
  <1>4. \A p \in DOMAIN disk : disk[p] \in File /\ disk[p].id \in 1..made
    BY <1>3, NodeHistoryAssumption DEF File
  <1>5. shared \subseteq 1..MaxFiles
    BY <1>1, <1>4 DEF File
  <1>6. HistoryTypeOK
    <2>1. moves \in 0..MaxMoves /\ recorded \in 0..MaxRows
      BY <1>1, NodeHistoryAssumption
    <2>2. /\ ignored \subseteq Path /\ issues \subseteq Issue /\ rows \subseteq Row
          /\ \A r, x \in rows : r.node = x.node /\ r.key = x.key /\ r.key # NoKey => r = x
      BY <1>1
    <2> QED BY <1>2, <1>3, <1>4, <1>5, <2>1, <2>2 DEF HistoryTypeOK
  <1>7. \A x \in Files : \E p \in DOMAIN disk : x = disk[p]
    BY <1>2 DEF Files
  <1>8. ToldApart
    <2>1. OnePlace(nodes)
      BY <1>2 DEF OnePlace
    <2>2. \A x \in Files : x.id <= made
      BY <1>4, <1>7
    <2>3. \A x, y \in Files : x.id = y.id => x = y
      BY <1>3, <1>7 DEF OnePlace
    <2>4. ASSUME NEW x \in Files, NEW y \in Files, x.body = y.body, x.id # y.id
          PROVE  x.id \in shared
      <3>1. PICK p \in DOMAIN disk, q \in DOMAIN disk : x = disk[p] /\ y = disk[q]
        BY <1>7
      <3>2. q \in DOMAIN disk \ {p}
        BY <2>4, <3>1
      <3> QED BY <1>1, <2>4, <3>1, <3>2
    <2> QED BY <1>3, <2>1, <2>2, <2>3, <2>4 DEF ToldApart
  <1> QED BY <1>6, <1>8 DEF HistoryInv

\* Every step keeps the inductive invariant.
LEMMA HistoryInductive == HistoryInv /\ [Next]_vars => HistoryInv'
  <1> SUFFICES ASSUME HistoryInv, [Next]_vars
               PROVE  HistoryInv'
    OBVIOUS
  <1>1. CASE Scan
    BY <1>1, ScanHistory
  <1>2. CASE \E p \in Path, k \in Key \cup {NoKey} : Record(p, k)
    BY <1>2, RecordHistory
  <1>3. CASE \E p, q \in Path : Reconcile(p, q)
    BY <1>3, ReconcileHistory
  <1>4. CASE \E p, q \in Path : UndoRename(q, p)
    BY <1>4, UndoRenameHistory
  <1>5. CASE \E p \in Path, b \in BodyHash, f \in FrontHash : Make(p, b, f)
    BY <1>5, MakeHistory
  <1>6. CASE \E p \in Path, b \in BodyHash : Edit(p, b)
    BY <1>6, EditHistory
  <1>7. CASE \E p, q \in Path : Move(p, q)
    BY <1>7, MoveHistory
  <1>8. CASE \E p \in Path : Delete(p) \/ Ignore(p)
    BY <1>8, DeleteHistory, IgnoreHistory
  <1>9. CASE UNCHANGED vars
    <2>1. /\ disk' = disk /\ ignored' = ignored /\ nodes' = nodes /\ issues' = issues
          /\ rows' = rows /\ made' = made /\ moves' = moves /\ recorded' = recorded
          /\ shared' = shared
      BY <1>9 DEF vars
    <2> QED BY <2>1 DEF HistoryInv, HistoryTypeOK, ToldApart, Files, OnePlace
  <1> QED
    BY <1>1, <1>2, <1>3, <1>4, <1>5, <1>6, <1>7, <1>8, <1>9 DEF Next

\* The rows a rename has at its source are at its destination afterwards.
LEMMA RowIsTaken ==
    ASSUME NEW rs \in SUBSET Row, NEW ops, NEW op \in ops, NEW r \in rs,
           r.node = op.from, op.to \in Path,
           r.key = NoKey \/ ~\E y \in rs : y.node = op.to /\ y.key = r.key
    PROVE  [r EXCEPT !.node = op.to] \in Renamed(rs, ops)
  <1>1. [r EXCEPT !.node = op.to] \in Migrated(rs, op.from, op.to)
    BY DEF Migrated
  <1>2. [r EXCEPT !.node = op.to].node = op.to
    BY DEF Row
  <1> DEFINE new == [r EXCEPT !.node = op.to]
  <1> HIDE DEF new
  <1>3. new \in {x \in Migrated(rs, op.from, op.to) : x.node = op.to}
    BY <1>1, <1>2 DEF new
  <1>4. new \in Renamed(rs, ops)
    BY <1>3 DEF Renamed
  <1> QED BY <1>4 DEF new

\* A file that was only moved takes its history along.
LEMMA MovedFileKeepsHistory ==
    ASSUME HistoryInv, Scan,
           NEW p \in DOMAIN nodes \ DOMAIN Visible, NEW q \in DOMAIN Visible \ DOMAIN nodes,
           nodes[p].id = Visible[q].id, nodes[p].id \notin shared,
           NEW r \in rows, r.node = p
    PROVE  \/ [r EXCEPT !.node = q] \in rows'
           \/ r.key # NoKey /\ \E x \in rows : x.node = q /\ x.key = r.key
  <1> DEFINE op == [from |-> p, to |-> q, tier |-> "high"]
             body == nodes[p].body
  <1>1. DOMAIN nodes \subseteq Path /\ DOMAIN Visible \subseteq Path /\ rows \in SUBSET Row
    BY VisibleFiles DEF HistoryInv, HistoryTypeOK
  <1>2. /\ \A x \in DOMAIN nodes : nodes[x] \in Files
        /\ \A x \in DOMAIN Visible : Visible[x] \in Files
    BY VisibleFiles DEF Files
  <1>3. Visible[q].body = body
    BY <1>2 DEF HistoryInv, ToldApart
  <1>4. ASSUME NEW x \in Deleted(nodes, Visible), nodes[x].body = body
        PROVE  x = p
    <2>1. nodes[x].id = nodes[p].id
      BY <1>2, <1>4 DEF Deleted, HistoryInv, ToldApart
    <2> QED BY <2>1 DEF Deleted, HistoryInv, ToldApart, OnePlace
  <1>5. ASSUME NEW x \in Appeared(nodes, Visible), Visible[x].body = body
        PROVE  x = q
    <2>1. Visible[x].id = nodes[p].id
      BY <1>2, <1>5 DEF Appeared, HistoryInv, ToldApart
    <2>2. disk[x].id = disk[q].id /\ x \in DOMAIN disk /\ q \in DOMAIN disk
      BY <2>1, VisibleFiles DEF Appeared
    <2> QED BY <2>2 DEF HistoryInv, ToldApart, OnePlace
  <1>6. p \in Deleted(nodes, Visible) /\ q \in Appeared(nodes, Visible)
    BY DEF Deleted, Appeared
  <1>7. op \in RenameOps(nodes, Visible)
    BY <1>1, <1>3, <1>4, <1>5, <1>6, LoneBodyIsPaired
  <1>8. rows' = Renamed(rows, RenameOps(nodes, Visible))
    BY DEF Scan
  <1>9. op.from = p /\ op.to = q /\ q \in Path
    BY <1>1
  <1> HIDE DEF op
  <1> QED BY <1>1, <1>7, <1>8, <1>9, RowIsTaken

\* The tables hold what their columns may hold, and a renaming scan or a
\* repair never gives a node two rows of one key.
THEOREM HistoryIsTyped == Spec => []HistoryTypeOK
  <1>1. HistoryInv => HistoryTypeOK
    BY DEF HistoryInv
  <1> QED BY <1>1, InitHistory, HistoryInductive, PTL DEF Spec

\* History follows a file that was moved as it was through every scan,
\* whatever else happened to the project in between.
THEOREM HistoryFollows == Spec => HistoryFollowsTheFile
  <1>1. HistoryInv /\ [Next]_vars =>
            [Scan => \A p \in DOMAIN nodes \ DOMAIN Visible,
                        q \in DOMAIN Visible \ DOMAIN nodes :
                nodes[p].id = Visible[q].id /\ nodes[p].id \notin shared =>
                    \A r \in rows : r.node = p =>
                        \/ [r EXCEPT !.node = q] \in rows'
                        \/ r.key # NoKey /\ \E x \in rows : x.node = q /\ x.key = r.key]_vars
    BY MovedFileKeepsHistory
  <1> QED BY <1>1, InitHistory, HistoryInductive, PTL DEF Spec, HistoryFollowsTheFile
=============================================================================
