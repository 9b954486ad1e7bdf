------------------------ MODULE SessionJournalProofs ------------------------
(***************************************************************************)
(* Proofs about SessionJournal, for any tree of owners, any number of      *)
(* frames and any bound on the files.                                      *)
(*                                                                         *)
(* A handler makes several changes to the journal before it is done: a     *)
(* session is opened or reopened, named, claimed, adopted, and only then   *)
(* holds the frame that made it.  So each of the steps has its lemma, and  *)
(* what they keep is stated with that frame still on its way: Holds is     *)
(* what a session will hold once frame t has landed in the one of root r   *)
(* (r is Nobody when none is on its way).                                  *)
(*                                                                         *)
(* The invariant has four parts.  Shaped: two maps with no root in both.   *)
(* Ordered: no frame is in two sessions, in two files, or in a file and in *)
(* another's session, and a clean session is on disk.  Ending: a file that *)
(* still owes its end has an open session.  Grouping: the sessions and the *)
(* owners' roots are where the whole tape says, Homes(claimed, strayed),   *)
(* which is a fact about trees: it is proved from parent to child.         *)
(***************************************************************************)
EXTENDS SessionJournal, TLAPS, SequenceTheorems, FiniteSetTheorems,
        NaturalsInduction, WellFoundedInduction

\* Induction over the naturals, said of a set.
LEMMA SetInduction ==
    ASSUME NEW S, 0 \in S, \A n \in Nat : n \in S => n + 1 \in S
    PROVE  Nat \subseteq S
  <1> DEFINE R == OpToRel(<, Nat)
             T == Nat \ S
  <1>1. IsWellFoundedOn(R, Nat)
    BY NatLessThanWellFounded
  <1>2. \A x, y \in Nat : <<y, x>> \in R <=> y < x
    BY DEF OpToRel
  <1> HIDE DEF R
  <1> SUFFICES ASSUME T # {} PROVE FALSE
    OBVIOUS
  <1>3. PICK x \in T : \A y \in T : ~(<<y, x>> \in R)
    BY <1>1, WFMin
  <1>4. x # 0 /\ x - 1 \in Nat
    OBVIOUS
  <1>5. x - 1 \in S
    <2>1. x \in Nat /\ x - 1 < x
      OBVIOUS
    <2>2. <<x - 1, x>> \in R
      BY <1>2, <1>4, <2>1
    <2>3. x - 1 \notin T
      BY <1>3, <2>2
    <2> QED BY <1>4, <2>3
  <1> QED BY <1>4, <1>5

\* A session, one that waits for its first frame included.
Thing == [root : Owner \cup {Bucket}, sid : Main \cup {NoSession},
          start : 1..MaxFrames, last : 1..MaxFrames, frames : SUBSET (1..MaxFrames),
          name : {NoName} \cup (1..MaxFrames) \X (Owner \cup {Bucket}),
          dirty : BOOLEAN]

\* The sessions of a map, and that no two of them have a root in common.
Ones(q) == {q[i] : i \in DOMAIN q}
OneRoot(q) == \A i, k \in DOMAIN q : q[i].root = q[k].root => i = k

-----------------------------------------------------------------------------
(***************************************************************************)
(* Maps in insertion order.                                                *)
(***************************************************************************)

\* The session of a root.
LEMMA OfRoot ==
    ASSUME NEW q, NEW r, Has(q, r)
    PROVE  /\ At(q, r) \in DOMAIN q /\ q[At(q, r)].root = r
           /\ Of(q, r) \in Ones(q) /\ Of(q, r).root = r
  <1>1. At(q, r) \in DOMAIN q /\ q[At(q, r)].root = r
    BY DEF At, Has
  <1> QED BY <1>1 DEF Of, Ones

LEMMA HasOnes ==
    \A q, r : Has(q, r) <=> \E s \in Ones(q) : s.root = r
  BY DEF Has, Ones

LEMMA OnlyOne ==
    ASSUME NEW q, OneRoot(q), NEW s \in Ones(q), NEW u \in Ones(q), s.root = u.root
    PROVE  s = u
  BY DEF OneRoot, Ones

\* What a map holds after a delete, a set, an append and a shift.
LEMMA WithoutOnes ==
    ASSUME NEW q \in Seq(Thing), NEW r, OneRoot(q)
    PROVE  /\ Without(q, r) \in Seq(Thing) /\ OneRoot(Without(q, r))
           /\ Len(Without(q, r)) \in Nat /\ Len(Without(q, r)) <= Len(q)
           /\ \A s : s \in Ones(Without(q, r)) <=> s \in Ones(q) /\ s.root # r
  <1>1. CASE ~Has(q, r)
    BY <1>1 DEF Without, Has, Ones
  <1>2. CASE Has(q, r)
    <2> DEFINE a == At(q, r)
               n == Len(q)
               w == [i \in 1..n - 1 |-> IF i < a THEN q[i] ELSE q[i + 1]]
    <2>1. /\ DOMAIN q = 1..n /\ n \in Nat /\ a \in 1..n /\ q[a].root = r
          /\ \A i \in 1..n : q[i] \in Thing
      BY <1>2, OfRoot
    <2>2. Without(q, r) = w
      BY <1>2 DEF Without
    <2> HIDE DEF a, n
    <2>3. n - 1 \in Nat /\ w \in [1..n - 1 -> Thing]
      BY <2>1
    <2>4. w \in Seq(Thing) /\ DOMAIN w = 1..n - 1 /\ Len(w) = n - 1
      BY <2>3
    <2>5. \A i \in 1..n - 1 : w[i] = IF i < a THEN q[i] ELSE q[i + 1]
      OBVIOUS
    <2> HIDE DEF w
    <2>6. OneRoot(w)
      <3> SUFFICES ASSUME NEW i \in 1..n - 1, NEW k \in 1..n - 1, w[i].root = w[k].root
                   PROVE  i = k
        BY <2>4 DEF OneRoot
      <3> DEFINE f(m) == IF m < a THEN m ELSE m + 1
      <3>1. w[i] = q[f(i)] /\ w[k] = q[f(k)]
        BY <2>5
      <3>2. f(i) \in 1..n /\ f(k) \in 1..n
        BY <2>1
      <3>3. f(i) = f(k)
        <4> HIDE DEF f
        <4> QED BY <2>1, <3>1, <3>2 DEF OneRoot
      <3> QED BY <2>1, <3>3
    <2>7. ASSUME NEW s
          PROVE  s \in Ones(w) <=> s \in Ones(q) /\ s.root # r
      <3>1. ASSUME s \in Ones(w)
            PROVE  s \in Ones(q) /\ s.root # r
        <4>1. PICK i \in 1..n - 1 : s = w[i]
          BY <2>4, <3>1 DEF Ones
        <4>2. PICK k \in 1..n : s = q[k] /\ k # a
          BY <2>1, <2>5, <4>1
        <4> QED BY <2>1, <4>2 DEF Ones, OneRoot
      <3>2. ASSUME s \in Ones(q), s.root # r
            PROVE  s \in Ones(w)
        <4>1. PICK k \in 1..n : s = q[k]
          BY <2>1, <3>2 DEF Ones
        <4>2. k # a
          BY <2>1, <3>2, <4>1
        <4>3. \E i \in 1..n - 1 : w[i] = q[k]
          <5>1. CASE k < a
            <6>1. k \in 1..n - 1
              BY <2>1, <5>1
            <6> QED BY <2>5, <5>1, <6>1
          <5>2. CASE k > a
            <6>1. k - 1 \in 1..n - 1 /\ ~(k - 1 < a) /\ (k - 1) + 1 = k
              BY <2>1, <5>2
            <6> QED BY <2>5, <6>1
          <5> QED BY <2>1, <4>2, <5>1, <5>2
        <4> QED BY <2>4, <4>1, <4>3 DEF Ones
      <3> QED BY <3>1, <3>2
    <2>8. Len(w) \in Nat /\ Len(w) <= Len(q)
      BY <2>1, <2>4 DEF n
    <2> QED BY <2>2, <2>4, <2>6, <2>7, <2>8
  <1> QED BY <1>1, <1>2

LEMMA PutOnes ==
    ASSUME NEW q \in Seq(Thing), NEW s \in Thing, OneRoot(q), Has(q, s.root)
    PROVE  /\ Put(q, s) \in Seq(Thing) /\ OneRoot(Put(q, s))
           /\ \A u : u \in Ones(Put(q, s)) <=> u = s \/ (u \in Ones(q) /\ u.root # s.root)
  <1> DEFINE n == Len(q)
             w == Put(q, s)
  <1>1. DOMAIN q = 1..n /\ n \in Nat /\ \A i \in 1..n : q[i] \in Thing
    OBVIOUS
  <1>2. w = [i \in 1..n |-> IF q[i].root = s.root THEN s ELSE q[i]]
    BY DEF Put
  <1> HIDE DEF n
  <1>3. w \in [1..n -> Thing]
    BY <1>1, <1>2
  <1>4. w \in Seq(Thing) /\ DOMAIN w = 1..n
    BY <1>1, <1>3
  <1>5. \A i \in 1..n : w[i] = IF q[i].root = s.root THEN s ELSE q[i]
    BY <1>2
  <1>6. \A i \in 1..n : w[i].root = q[i].root
    BY <1>5
  <1> HIDE DEF w
  <1>7. OneRoot(w)
    BY <1>1, <1>4, <1>6 DEF OneRoot
  <1>8. \E i \in 1..n : q[i].root = s.root
    BY <1>1 DEF Has
  <1>9. s \in Ones(w)
    BY <1>4, <1>5, <1>8 DEF Ones
  <1>10. \A u : u \in Ones(w) <=> u = s \/ (u \in Ones(q) /\ u.root # s.root)
    BY <1>1, <1>4, <1>5, <1>9 DEF Ones
  <1> QED BY <1>4, <1>7, <1>10 DEF w

LEMMA AppendOnes ==
    ASSUME NEW q \in Seq(Thing), NEW s \in Thing, OneRoot(q), ~Has(q, s.root)
    PROVE  /\ Append(q, s) \in Seq(Thing) /\ OneRoot(Append(q, s))
           /\ \A u : u \in Ones(Append(q, s)) <=> u = s \/ u \in Ones(q)
  <1> DEFINE n == Len(q)
             w == Append(q, s)
  <1>1. DOMAIN q = 1..n /\ n \in Nat
    OBVIOUS
  <1>2. /\ w \in Seq(Thing) /\ DOMAIN w = 1..n + 1
        /\ \A i \in 1..n : w[i] = q[i]
        /\ w[n + 1] = s
    OBVIOUS
  <1> HIDE DEF n, w
  <1>3. \A i \in 1..n + 1 : i \in 1..n \/ i = n + 1
    BY <1>1
  <1>4. \A i \in 1..n : q[i].root # s.root
    BY <1>1 DEF Has
  <1>5. OneRoot(w)
    BY <1>1, <1>2, <1>3, <1>4 DEF OneRoot
  <1>6. n + 1 \in 1..n + 1 /\ 1..n \subseteq 1..n + 1
    BY <1>1
  <1>7. \A u : u \in Ones(w) <=> u = s \/ u \in Ones(q)
    BY <1>1, <1>2, <1>3, <1>6 DEF Ones
  <1> QED BY <1>2, <1>5, <1>7 DEF w

LEMMA TailOnes ==
    ASSUME NEW q \in Seq(Thing), OneRoot(q), q # <<>>
    PROVE  /\ Tail(q) \in Seq(Thing) /\ OneRoot(Tail(q)) /\ Head(q) \in Ones(q)
           /\ \A u : u \in Ones(Tail(q)) <=> u \in Ones(q) /\ u.root # Head(q).root
  <1> DEFINE n == Len(q)
             w == Tail(q)
  <1>1. DOMAIN q = 1..n /\ n \in Nat /\ n # 0 /\ Head(q) = q[1]
    OBVIOUS
  <1>2. w \in Seq(Thing) /\ DOMAIN w = 1..n - 1 /\ \A i \in 1..n - 1 : w[i] = q[i + 1]
    OBVIOUS
  <1> HIDE DEF n, w
  <1>3. OneRoot(w)
    <2> SUFFICES ASSUME NEW i \in 1..n - 1, NEW k \in 1..n - 1, w[i].root = w[k].root
                 PROVE  i = k
      BY <1>2 DEF OneRoot
    <2>1. i + 1 \in 1..n /\ k + 1 \in 1..n /\ q[i + 1].root = q[k + 1].root
      BY <1>1, <1>2
    <2>2. i + 1 = k + 1
      BY <1>1, <2>1 DEF OneRoot
    <2> QED BY <1>1, <2>2
  <1>4. q[1] \in Ones(q) /\ 1 \in 1..n
    BY <1>1 DEF Ones
  <1>5. ASSUME NEW u
        PROVE  u \in Ones(w) <=> u \in Ones(q) /\ u.root # q[1].root
    <2>1. ASSUME u \in Ones(w)
          PROVE  u \in Ones(q) /\ u.root # q[1].root
      <3>1. PICK i \in 1..n - 1 : u = w[i]
        BY <1>2, <2>1 DEF Ones
      <3>2. i + 1 \in 1..n /\ i + 1 # 1 /\ u = q[i + 1]
        BY <1>1, <1>2, <3>1
      <3> QED BY <1>1, <1>4, <3>2 DEF Ones, OneRoot
    <2>2. ASSUME u \in Ones(q), u.root # q[1].root
          PROVE  u \in Ones(w)
      <3>1. PICK k \in 1..n : u = q[k]
        BY <1>1, <2>2 DEF Ones
      <3>2. k - 1 \in 1..n - 1 /\ (k - 1) + 1 = k
        BY <1>1, <2>2, <3>1
      <3>3. w[k - 1] = q[k]
        BY <1>2, <3>2
      <3> QED BY <1>2, <3>1, <3>2, <3>3 DEF Ones
    <2> QED BY <2>1, <2>2
  <1> QED BY <1>1, <1>2, <1>3, <1>4, <1>5 DEF w

-----------------------------------------------------------------------------
(***************************************************************************)
(* The journal.                                                            *)
(***************************************************************************)

\* Two maps, and no session in both.
Sound(j) ==
    /\ j = [open |-> j.open, parked |-> j.parked, owners |-> j.owners]
    /\ j.open \in Seq(Thing) /\ OneRoot(j.open)
    /\ j.parked \in Seq(Thing) /\ OneRoot(j.parked) /\ Len(j.parked) <= MaxFiles
    /\ \A s \in Ones(j.open), u \in Ones(j.parked) : s.root # u.root

\* The sessions of other roots than o and r stay where they are.
Elsewhere(j, k, o, r) ==
    \A s : s.root # o /\ s.root # r =>
        /\ s \in Ones(k.open) <=> s \in Ones(j.open)
        /\ s \in Ones(k.parked) <=> s \in Ones(j.parked)

Reopened(s) == [s EXCEPT !.dirty = TRUE]

Root == Owner \cup {Bucket}

LEMMA SessionsOnes ==
    \A j : \A s : s \in Sessions(j) <=> s \in Ones(j.open) \/ s \in Ones(j.parked)
  BY DEF Sessions, Ones

LEMMA OneOfRoot ==
    ASSUME NEW j, Sound(j), NEW s \in Sessions(j), NEW u \in Sessions(j), s.root = u.root
    PROVE  s = u
  BY SessionsOnes, OnlyOne DEF Sound

LEMMA ThingOf ==
    ASSUME NEW q \in Seq(Thing)
    PROVE  \A s \in Ones(q) : s \in Thing
  BY DEF Ones

\* An open session is put in the place of the one of its root.
PutIn(j, s) == [j EXCEPT !.open = Put(@, s)]

LEMMA PutOpen ==
    ASSUME NEW j, Sound(j), NEW s \in Thing, Has(j.open, s.root), NEW k,
           k = PutIn(j, s)
    PROVE  /\ Sound(k) /\ k.owners = j.owners /\ k.parked = j.parked
           /\ Has(k.open, s.root) /\ Of(k.open, s.root) = s
           /\ Elsewhere(j, k, s.root, s.root)
  <1>1. /\ Put(j.open, s) \in Seq(Thing) /\ OneRoot(Put(j.open, s))
        /\ \A u : u \in Ones(Put(j.open, s))
                    <=> u = s \/ (u \in Ones(j.open) /\ u.root # s.root)
    BY PutOnes DEF Sound
  <1>2. /\ k = [open |-> k.open, parked |-> k.parked, owners |-> k.owners]
        /\ k.open = Put(j.open, s) /\ k.parked = j.parked /\ k.owners = j.owners
    BY DEF PutIn, Sound
  <1>3. s \in Ones(k.open) /\ OneRoot(k.open)
    BY <1>1, <1>2
  <1>4. Has(k.open, s.root)
    BY <1>3, HasOnes
  <1>5. Of(k.open, s.root) = s
    BY <1>3, <1>4, OfRoot, OnlyOne
  <1>6. PICK o \in Ones(j.open) : o.root = s.root
    BY HasOnes
  <1>7. \A u \in Ones(k.open), p \in Ones(k.parked) : u.root # p.root
    BY <1>1, <1>2, <1>6 DEF Sound
  <1>8. Sound(k)
    BY <1>1, <1>2, <1>7 DEF Sound
  <1>9. Elsewhere(j, k, s.root, s.root)
    BY <1>1, <1>2 DEF Elsewhere
  <1> QED BY <1>2, <1>4, <1>5, <1>8, <1>9

\* sessionFor: afterwards the root has an open session.
LEMMA Opens ==
    ASSUME NEW j, Sound(j), NEW r \in Root, NEW t \in 1..MaxFrames, NEW k,
           k = SessionFor(j, r, t)
    PROVE  /\ Sound(k) /\ k.owners = j.owners /\ Has(k.open, r)
           /\ Elsewhere(j, k, r, r)
           /\ \/ \E s \in Sessions(j) : s.root = r /\ Of(k.open, r) \in {s, Reopened(s)}
              \/ /\ \A s \in Sessions(j) : s.root # r
                 /\ Of(k.open, r) = NewSession(r, t)
  <1>0. /\ j.open \in Seq(Thing) /\ j.parked \in Seq(Thing)
        /\ OneRoot(j.open) /\ OneRoot(j.parked)
        /\ \A s \in Ones(j.open), u \in Ones(j.parked) : s.root # u.root
        /\ Len(j.parked) \in Nat /\ Len(j.parked) <= MaxFiles /\ MaxFiles \in Nat
    BY JournalAssumption DEF Sound
  <1>1. CASE Has(j.open, r)
    <2>1. k = j
      BY <1>1 DEF SessionFor
    <2>2. Of(j.open, r) \in Sessions(j) /\ Of(j.open, r).root = r
      BY <1>1, OfRoot, SessionsOnes
    <2> QED BY <1>1, <2>1, <2>2 DEF Elsewhere
  <1>2. CASE ~Has(j.open, r) /\ Has(j.parked, r)
    <2> DEFINE s == Of(j.parked, r)
               d == [s EXCEPT !.dirty = TRUE]
    <2>1. s \in Ones(j.parked) /\ s.root = r /\ s \in Thing
      BY <1>0, <1>2, OfRoot, ThingOf
    <2>2. d \in Thing /\ d.root = r
      BY <2>1 DEF Thing
    <2>3. /\ k.open = Append(j.open, d) /\ k.parked = Without(j.parked, r)
          /\ k.owners = j.owners
          /\ k = [open |-> k.open, parked |-> k.parked, owners |-> k.owners]
      BY <1>2 DEF SessionFor, Sound
    <2> HIDE DEF d, s
    <2>4. /\ k.open \in Seq(Thing) /\ OneRoot(k.open)
          /\ \A u : u \in Ones(k.open) <=> u = d \/ u \in Ones(j.open)
      BY <1>0, <1>2, <2>2, <2>3, AppendOnes
    <2>5. /\ k.parked \in Seq(Thing) /\ OneRoot(k.parked)
          /\ Len(k.parked) \in Nat /\ Len(k.parked) <= Len(j.parked)
          /\ \A u : u \in Ones(k.parked) <=> u \in Ones(j.parked) /\ u.root # r
      BY <1>0, <2>3, WithoutOnes
    <2>6. Sound(k)
      BY <1>0, <2>2, <2>3, <2>4, <2>5 DEF Sound
    <2>7. Has(k.open, r) /\ Of(k.open, r) = d
      BY <2>2, <2>4, HasOnes, OfRoot, OnlyOne
    <2>8. ~\E u \in Ones(j.open) : u.root = r
      BY <1>2, HasOnes
    <2>9. Elsewhere(j, k, r, r)
      BY <2>2, <2>4, <2>5 DEF Elsewhere
    <2>10. s \in Sessions(j)
      BY <2>1, SessionsOnes
    <2> QED BY <2>1, <2>3, <2>6, <2>7, <2>9, <2>10 DEF d, Reopened
  <1>3. CASE ~Has(j.open, r) /\ ~Has(j.parked, r)
    <2> DEFINE d == NewSession(r, t)
    <2>1. d \in Thing /\ d.root = r
      BY JournalAssumption DEF NewSession, Thing, Root, Owner
    <2>2. /\ k.open = Append(j.open, d) /\ k.parked = j.parked /\ k.owners = j.owners
          /\ k = [open |-> k.open, parked |-> k.parked, owners |-> k.owners]
      BY <1>3 DEF SessionFor, Sound
    <2> HIDE DEF d
    <2>3. /\ k.open \in Seq(Thing) /\ OneRoot(k.open)
          /\ \A u : u \in Ones(k.open) <=> u = d \/ u \in Ones(j.open)
      BY <1>0, <1>3, <2>1, <2>2, AppendOnes
    <2>4. \A u \in Sessions(j) : u.root # r
      BY <1>3, HasOnes, SessionsOnes
    <2>5. Sound(k)
      <3>1. \A u \in Ones(j.parked) : u.root # d.root
        BY <2>1, <2>4, SessionsOnes
      <3> QED BY <1>0, <2>2, <2>3, <3>1 DEF Sound
    <2>6. Has(k.open, r) /\ Of(k.open, r) = d
      BY <2>1, <2>3, HasOnes, OfRoot, OnlyOne
    <2>7. Elsewhere(j, k, r, r)
      BY <2>1, <2>2, <2>3 DEF Elsewhere
    <2> QED BY <2>2, <2>4, <2>5, <2>6, <2>7 DEF d
  <1> QED BY <1>1, <1>2, <1>3

\* append and the learning of an id: the open session of the root changes.
LEMMA LandsIn ==
    ASSUME NEW j, Sound(j), NEW r, Has(j.open, r), NEW t \in 1..MaxFrames, NEW k,
           k = Land(j, r, t)
    PROVE  /\ Sound(k) /\ k.owners = j.owners /\ Has(k.open, r) /\ Elsewhere(j, k, r, r)
           /\ Of(k.open, r).start = Of(j.open, r).start /\ Of(k.open, r).last = t
           /\ Of(k.open, r).name = Of(j.open, r).name /\ Of(k.open, r).dirty
           /\ Of(k.open, r).frames = Of(j.open, r).frames \cup {t}
           /\ Of(j.open, r) \in Thing /\ Of(k.open, r) \in Thing
  <1> DEFINE s == Of(j.open, r)
             d == [s EXCEPT !.last = t, !.dirty = TRUE, !.frames = @ \cup {t}]
  <1>1. s \in Thing /\ s.root = r
    BY OfRoot, ThingOf DEF Sound
  <1>2. d \in Thing /\ d.root = r
    BY <1>1 DEF Thing
  <1>3. k = PutIn(j, d)
    BY DEF Land, PutIn
  <1> HIDE DEF d
  <1>4. Has(j.open, d.root)
    BY <1>2
  <1>5. /\ Sound(k) /\ k.owners = j.owners /\ Has(k.open, d.root)
        /\ Of(k.open, d.root) = d /\ Elsewhere(j, k, d.root, d.root)
    BY <1>2, <1>3, <1>4, PutOpen
  <1>6. /\ d.start = s.start /\ d.last = t /\ d.name = s.name /\ d.dirty
        /\ d.frames = s.frames \cup {t}
    BY <1>1 DEF d, Thing
  <1> QED BY <1>1, <1>2, <1>5, <1>6

LEMMA Names ==
    ASSUME NEW j, Sound(j), NEW r, Has(j.open, r), NEW sid \in Main, NEW k,
           k = Named(j, r, sid)
    PROVE  /\ Sound(k) /\ k.owners = j.owners /\ Has(k.open, r) /\ Elsewhere(j, k, r, r)
           /\ Of(k.open, r).start = Of(j.open, r).start
           /\ Of(k.open, r).last = Of(j.open, r).last
           /\ Of(k.open, r).name = Of(j.open, r).name
           /\ Of(k.open, r).frames = Of(j.open, r).frames
           /\ Of(j.open, r) \in Thing
  <1> DEFINE s == Of(j.open, r)
             d == [s EXCEPT !.sid = sid]
  <1>1. s \in Thing /\ s.root = r
    BY OfRoot, ThingOf DEF Sound
  <1>2. d \in Thing /\ d.root = r
    BY <1>1 DEF Thing
  <1>3. CASE s.sid # NoSession
    <2>1. k = j
      BY <1>3 DEF Named
    <2> QED BY <1>1, <2>1 DEF Elsewhere
  <1>4. CASE s.sid = NoSession
    <2>1. k = PutIn(j, d)
      BY <1>4 DEF Named, PutIn
    <2> HIDE DEF d
    <2>2. Has(j.open, d.root)
      BY <1>2
    <2>3. /\ Sound(k) /\ k.owners = j.owners /\ Has(k.open, d.root)
          /\ Of(k.open, d.root) = d /\ Elsewhere(j, k, d.root, d.root)
      BY <1>2, <2>1, <2>2, PutOpen
    <2>4. d.start = s.start /\ d.last = s.last /\ d.name = s.name /\ d.frames = s.frames
      BY <1>1 DEF d, Thing
    <2> QED BY <1>1, <1>2, <2>3, <2>4
  <1> QED BY <1>3, <1>4

\* A session goes to the parked ones, and the oldest of those may go for good,
\* with what is known of its owners.
ParkedAs(j, r, d) == Retain([j EXCEPT !.open = Without(@, r)], d)

\* Beyond maxFiles the oldest of the queue goes, with its owners.
LEMMA Evicts ==
    ASSUME NEW m, m = [open |-> m.open, parked |-> m.parked, owners |-> m.owners],
           NEW d, ~(Len(Append(m.parked, d)) <= MaxFiles), NEW k, k = Retain(m, d)
    PROVE  /\ k = [open |-> k.open, parked |-> k.parked, owners |-> k.owners]
           /\ k.open = m.open /\ k.parked = Tail(Append(m.parked, d))
           /\ \A o \in DOMAIN k.owners : o \in DOMAIN m.owners /\ k.owners[o] = m.owners[o]
  <1> DEFINE old == Head(Append(m.parked, d)).root
             own == [o \in {p \in DOMAIN m.owners : m.owners[p] # old} |-> m.owners[o]]
  <1>1. k = [m EXCEPT !.parked = Tail(Append(m.parked, d)), !.owners = own]
    BY Zenon DEF Retain
  <1>2. \A o \in DOMAIN own : o \in DOMAIN m.owners /\ own[o] = m.owners[o]
    OBVIOUS
  <1> HIDE DEF own
  <1> QED BY <1>1, <1>2

\* retainForReopen keeps the two maps apart.
LEMMA Parks ==
    ASSUME NEW j, Sound(j), NEW r, Has(j.open, r), NEW d \in Thing, d.root = r, NEW k,
           k = ParkedAs(j, r, d)
    PROVE  /\ Sound(k)
           /\ \A s : s \in Ones(k.open) <=> s \in Ones(j.open) /\ s.root # r
           /\ \A s \in Ones(k.parked) : s = d \/ s \in Ones(j.parked)
           /\ \A o \in DOMAIN k.owners : o \in DOMAIN j.owners /\ k.owners[o] = j.owners[o]
           /\ Len(j.parked) # MaxFiles =>
                 /\ k.owners = j.owners /\ d \in Ones(k.parked)
                 /\ \A s \in Ones(j.parked) : s \in Ones(k.parked)
  <1> DEFINE queue == Append(j.parked, d)
             oldest == Head(queue).root
  <1>0. /\ j.open \in Seq(Thing) /\ j.parked \in Seq(Thing)
        /\ OneRoot(j.open) /\ OneRoot(j.parked)
        /\ \A s \in Ones(j.open), u \in Ones(j.parked) : s.root # u.root
        /\ Len(j.parked) \in Nat /\ Len(j.parked) <= MaxFiles /\ MaxFiles \in Nat
    BY JournalAssumption DEF Sound
  <1>1. PICK s0 \in Ones(j.open) : s0.root = r
    BY HasOnes
  <1>2. ~Has(j.parked, d.root)
    BY <1>0, <1>1, HasOnes
  <1>3. /\ queue \in Seq(Thing) /\ OneRoot(queue) /\ Len(queue) = Len(j.parked) + 1
        /\ \A s : s \in Ones(queue) <=> s = d \/ s \in Ones(j.parked)
    BY <1>0, <1>2, AppendOnes
  <1>4. /\ Without(j.open, r) \in Seq(Thing) /\ OneRoot(Without(j.open, r))
        /\ \A s : s \in Ones(Without(j.open, r)) <=> s \in Ones(j.open) /\ s.root # r
    BY <1>0, WithoutOnes
  <1>5. \A s \in Ones(Without(j.open, r)), u \in Ones(queue) : s.root # u.root
    BY <1>0, <1>3, <1>4
  <1> DEFINE m == [open |-> Without(j.open, r), parked |-> j.parked, owners |-> j.owners]
  <1>6. [j EXCEPT !.open = Without(@, r)] = m
    BY DEF Sound
  <1>9. k = Retain(m, d) /\ m.parked = j.parked /\ m.owners = j.owners
    BY <1>6 DEF ParkedAs
  <1>7. CASE Len(queue) <= MaxFiles
    <2>1. /\ k.open = Without(j.open, r) /\ k.parked = queue /\ k.owners = j.owners
          /\ k = [open |-> k.open, parked |-> k.parked, owners |-> k.owners]
      BY <1>6, <1>7 DEF ParkedAs, Retain
    <2> HIDE DEF queue
    <2>2. Sound(k)
      BY <1>3, <1>4, <1>5, <1>7, <2>1 DEF Sound
    <2> QED BY <1>3, <1>4, <2>1, <2>2
  <1>8. CASE ~(Len(queue) <= MaxFiles)
    <2>1. /\ k.open = Without(j.open, r) /\ k.parked = Tail(queue)
          /\ k = [open |-> k.open, parked |-> k.parked, owners |-> k.owners]
          /\ \A o \in DOMAIN k.owners : o \in DOMAIN j.owners /\ k.owners[o] = j.owners[o]
      <3>1. m = [open |-> m.open, parked |-> m.parked, owners |-> m.owners]
        OBVIOUS
      <3>2. m.open = Without(j.open, r)
        OBVIOUS
      <3> HIDE DEF m
      <3>3. ~(Len(Append(m.parked, d)) <= MaxFiles)
        BY <1>8, <1>9
      <3> QED BY <1>9, <3>1, <3>2, <3>3, Evicts
    <2>2. Len(j.parked) = MaxFiles /\ queue # <<>>
      <3> HIDE DEF queue
      <3>1. Len(queue) # 0 /\ Len(j.parked) = MaxFiles
        BY <1>0, <1>3, <1>8
      <3>2. Len(<<>>) = 0
        OBVIOUS
      <3> QED BY <3>1, <3>2
    <2>3. Len(k.parked) = MaxFiles
      <3> HIDE DEF queue
      <3>1. Len(Tail(queue)) = Len(queue) - 1
        BY <1>3, <2>2
      <3> QED BY <1>0, <1>3, <2>1, <2>2, <3>1
    <2> HIDE DEF queue
    <2>4. /\ k.parked \in Seq(Thing) /\ OneRoot(k.parked)
          /\ \A s : s \in Ones(k.parked) <=> s \in Ones(queue) /\ s.root # oldest
      BY <1>3, <2>1, <2>2, TailOnes
    <2>5. Sound(k)
      <3>1. \A s \in Ones(k.open), u \in Ones(k.parked) : s.root # u.root
        BY <1>5, <2>1, <2>4
      <3>2. Len(k.parked) <= MaxFiles
        BY <1>0, <2>3
      <3> QED BY <1>4, <2>1, <2>4, <3>1, <3>2 DEF Sound
    <2> HIDE DEF oldest
    <2> QED BY <1>3, <1>4, <2>1, <2>2, <2>4, <2>5
  <1> QED BY <1>7, <1>8

\* writeSession leaves a session its root and its frames.
LEMMA Saves ==
    ASSUME NEW s \in Thing
    PROVE  /\ Saved(s) \in Thing
           /\ Saved(s).root = s.root /\ Saved(s).frames = s.frames
           /\ Saved(s).start = s.start /\ Saved(s).last = s.last
           /\ scope => Saved(s).name = NameOf(s)
           /\ ~scope => Saved(s) = s
           /\ NameOf(s) # NoName /\ NameOf(s) \in (1..MaxFrames) \X Root
  <1>1. NameOf(s) \in (1..MaxFrames) \X Root
    BY DEF NameOf, Thing, Owner, Root
  <1>2. NameOf(s) # NoName
    BY DEF NameOf, NoName
  <1> QED BY <1>1, <1>2 DEF Saved, Thing, Root

\* The orphan's session is merged into that of the root, wherever it was.
LEMMA Adopts ==
    ASSUME NEW j, Sound(j), NEW r, Has(j.open, r), NEW o, Misrooted(j, o, r), NEW k,
           k = Adopt(j, o, r)
    PROVE  /\ Sound(k) /\ Has(k.open, r) /\ Elsewhere(j, k, o, r)
           /\ \A s \in Sessions(k) : s.root # o
           /\ Of(k.open, r) = Merge(Of(j.open, r), Orphan(j, o))
           /\ Orphan(j, o) \in Sessions(j) /\ Orphan(j, o).root = o
           /\ DOMAIN k.owners = DOMAIN j.owners
           /\ \A p \in DOMAIN j.owners :
                 k.owners[p] = IF j.owners[p] = o THEN r ELSE j.owners[p]
  <1> DEFINE s == Of(j.open, r)
             x == Orphan(j, o)
             d == Merge(s, x)
  <1>0. /\ j.open \in Seq(Thing) /\ j.parked \in Seq(Thing)
        /\ OneRoot(j.open) /\ OneRoot(j.parked)
        /\ \A a \in Ones(j.open), u \in Ones(j.parked) : a.root # u.root
        /\ Len(j.parked) \in Nat /\ Len(j.parked) <= MaxFiles /\ MaxFiles \in Nat
    BY JournalAssumption DEF Sound
  <1>1. s \in Thing /\ s.root = r /\ s \in Ones(j.open)
    BY <1>0, OfRoot, ThingOf
  <1>2. x \in Thing /\ x.root = o /\ x \in Sessions(j)
    BY <1>0, OfRoot, ThingOf, SessionsOnes DEF Orphan, Misrooted
  <1>3. d \in Thing /\ d.root = r
    <2>1. Min2(s.start, x.start) \in 1..MaxFrames /\ Max2(s.last, x.last) \in 1..MaxFrames
      BY <1>1, <1>2 DEF Min2, Max2, Thing
    <2>2. (IF s.sid = NoSession THEN x.sid ELSE s.sid) \in Main \cup {NoSession}
      BY <1>1, <1>2 DEF Thing
    <2>3. s.frames \cup x.frames \in SUBSET (1..MaxFrames)
      BY <1>1, <1>2 DEF Thing
    <2> QED BY <1>1, <2>1, <2>2, <2>3 DEF Merge, Thing
  <1>4. o # r
    BY DEF Misrooted
  <1> DEFINE w == Without(j.open, o)
  <1>5. /\ w \in Seq(Thing) /\ OneRoot(w)
        /\ \A u : u \in Ones(w) <=> u \in Ones(j.open) /\ u.root # o
    BY <1>0, WithoutOnes
  <1>6. Has(w, d.root)
    BY <1>1, <1>3, <1>4, <1>5, HasOnes
  <1>7. /\ k.open = Put(w, d) /\ k.parked = Without(j.parked, o)
        /\ k.owners = [p \in DOMAIN j.owners |->
                          IF j.owners[p] = o THEN r ELSE j.owners[p]]
        /\ k = [open |-> k.open, parked |-> k.parked, owners |-> k.owners]
    BY DEF Adopt
  <1> HIDE DEF s, x, d, w
  <1>8. /\ k.open \in Seq(Thing) /\ OneRoot(k.open)
        /\ \A u : u \in Ones(k.open) <=> u = d \/ (u \in Ones(w) /\ u.root # r)
    BY <1>3, <1>5, <1>6, <1>7, PutOnes
  <1>9. /\ k.parked \in Seq(Thing) /\ OneRoot(k.parked)
        /\ Len(k.parked) \in Nat /\ Len(k.parked) <= Len(j.parked)
        /\ \A u : u \in Ones(k.parked) <=> u \in Ones(j.parked) /\ u.root # o
    BY <1>0, <1>7, WithoutOnes
  <1>10. \A a \in Ones(k.open), u \in Ones(k.parked) : a.root # u.root
    BY <1>0, <1>1, <1>3, <1>5, <1>8, <1>9
  <1>11. Sound(k)
    BY <1>0, <1>7, <1>8, <1>9, <1>10 DEF Sound
  <1>12. Has(k.open, r) /\ Of(k.open, r) = d
    BY <1>3, <1>8, HasOnes, OfRoot, OnlyOne
  <1>13. Elsewhere(j, k, o, r)
    BY <1>3, <1>5, <1>8, <1>9 DEF Elsewhere
  <1>14. \A u \in Sessions(k) : u.root # o
    BY <1>3, <1>4, <1>5, <1>8, <1>9, SessionsOnes
  <1> QED BY <1>2, <1>7, <1>11, <1>12, <1>13, <1>14 DEF s, x, d

-----------------------------------------------------------------------------
(***************************************************************************)
(* Sessions and files.                                                     *)
(***************************************************************************)

\* The frames of a session, with the one that is about to land in that of r.
\* With r = Nobody no frame is about to land.
Holds(s, r, t) == IF s.root = r THEN s.frames \cup {t} ELSE s.frames

\* No frame is in two sessions, and a session starts and is named by frames
\* of its own.
Apart(L, r, t) ==
    /\ \A s \in L : /\ s \in Thing /\ s.start <= s.last
                    /\ s.start \in Holds(s, r, t)
                    /\ s.name # NoName => s.name[1] \in Holds(s, r, t)
    /\ \A s, u \in L : s # u => /\ s.root # u.root
                                /\ Holds(s, r, t) \cap Holds(u, r, t) = {}

\* No frame is in two files, or in a file and in a session with another.
Filed(L, r, t, fs) ==
    /\ NoName \notin DOMAIN fs /\ DOMAIN fs \subseteq (1..MaxFrames) \X Root
    /\ \A m \in DOMAIN fs :
          /\ m[1] \in fs[m].frames
          /\ fs[m] = [frames |-> fs[m].frames, ended |-> fs[m].ended, ours |-> fs[m].ours]
    /\ \A m, n \in DOMAIN fs : m # n => fs[m].frames \cap fs[n].frames = {}
    /\ \A m \in DOMAIN fs : \A s \in L : s.name = m \/ fs[m].frames \cap Holds(s, r, t) = {}

\* A session with nothing to write is on disk, unless the sweep took it.
Kept(L, r, fs, pr) ==
    \A s \in L : s.root # r /\ ~s.dirty =>
        s.name \in pr \/ (s.name \in DOMAIN fs /\ fs[s.name].frames = s.frames)

\* The frames are of the past.
Past(L, fs, n) ==
    /\ \A s \in L : s.frames \subseteq 1..n
    /\ \A m \in DOMAIN fs : fs[m].frames \subseteq 1..n

\* What is said of the sessions and of the directory together.
InOrder(L, r, t, n, fs, pr) ==
    Apart(L, r, t) /\ Filed(L, r, t, fs) /\ Kept(L, r, fs, pr) /\ Past(L, fs, n)

\* No session is that of a frame without an owner.
LEMMA NobodyHasNone == \A s \in Thing : s.root # Nobody /\ s.root \in Root
  <1>1. Nobody # Bucket /\ Nobody \notin Owner
    BY JournalAssumption DEF Nobody, Bucket
  <1> QED BY <1>1 DEF Thing, Root

\* Forgetting a session breaks none of this.
LEMMA Fewer ==
    ASSUME NEW L, NEW K \in SUBSET L, NEW r, NEW t, NEW n, NEW fs, NEW pr,
           InOrder(L, r, t, n, fs, pr)
    PROVE  InOrder(K, r, t, n, fs, pr)
  BY DEF InOrder, Apart, Filed, Kept, Past

\* Keeping some of the files leaves those as they are.
LEMMA KeepingFiles ==
    ASSUME NEW fs, NEW N
    PROVE  /\ \A m : m \in DOMAIN Keeping(fs, N) <=> m \in DOMAIN fs /\ m \in N
           /\ \A m \in DOMAIN Keeping(fs, N) : Keeping(fs, N)[m] = fs[m]
  BY DEF Keeping

\* The sweep takes files, and says which.
LEMMA Swept ==
    ASSUME NEW L, NEW r, NEW t, NEW n, NEW fs, NEW pr, NEW N,
           InOrder(L, r, t, n, fs, pr)
    PROVE  InOrder(L, r, t, n, Keeping(fs, N), pr \cup (DOMAIN fs \ N))
  <1> DEFINE gs == Keeping(fs, N)
  <1>1. /\ \A m : m \in DOMAIN gs <=> m \in DOMAIN fs /\ m \in N
        /\ \A m \in DOMAIN gs : gs[m] = fs[m]
    BY KeepingFiles
  <1> HIDE DEF gs
  <1>2. Filed(L, r, t, gs)
    BY <1>1 DEF InOrder, Filed
  <1>3. Kept(L, r, gs, pr \cup (DOMAIN fs \ N))
    BY <1>1 DEF InOrder, Kept
  <1>4. Apart(L, r, t) /\ Past(L, gs, n)
    BY <1>1 DEF InOrder, Past
  <1> QED BY <1>2, <1>3, <1>4 DEF InOrder, gs

\* The names of two sessions are not the same.
LEMMA NamesDiffer ==
    ASSUME NEW L, NEW t, Apart(L, Nobody, t)
    PROVE  /\ \A s \in L : NameOf(s)[1] \in s.frames /\ NameOf(s) # NoName
           /\ \A s, u \in L : s # u => /\ NameOf(s) # NameOf(u)
                                       /\ NameOf(s) # u.name
  <1>1. \A s \in L : s.root # Nobody
    BY NobodyHasNone DEF Apart
  <1>2. \A s \in L : Holds(s, Nobody, t) = s.frames
    BY <1>1 DEF Holds
  <1>3. ASSUME NEW s \in L
        PROVE  NameOf(s)[1] \in s.frames /\ NameOf(s) # NoName
    <2>1. CASE s.name # NoName
      BY <1>2, <2>1 DEF Apart, NameOf
    <2>2. CASE s.name = NoName
      <3>1. NameOf(s)[1] = s.start /\ NameOf(s) # NoName
        BY <2>2 DEF NameOf, NoName
      <3> QED BY <1>2, <3>1 DEF Apart
    <2> QED BY <2>1, <2>2
  <1>4. ASSUME NEW s \in L, NEW u \in L, s # u
        PROVE  NameOf(s) # NameOf(u) /\ NameOf(s) # u.name
    <2>1. s.frames \cap u.frames = {}
      BY <1>2, <1>4 DEF Apart
    <2>2. NameOf(s) # NameOf(u)
      BY <1>3, <2>1
    <2>3. u.name = NoName \/ u.name[1] \in u.frames
      BY <1>2 DEF Apart
    <2> QED BY <1>3, <2>1, <2>2, <2>3
  <1> QED BY <1>3, <1>4

\* writeSession of some sessions, one after the other.
LEMMA Writes ==
    ASSUME NEW L, NEW D \in SUBSET L, NEW t, NEW n, NEW fs, NEW pr, NEW e,
           InOrder(L, Nobody, t, n, fs, pr)
    PROVE  InOrder({IF s \in D THEN Saved(s) ELSE s : s \in L}, Nobody, t, n,
                   Written(fs, D, e), pr)
  <1> DEFINE W(s) == IF s \in D THEN Saved(s) ELSE s
             K == {W(s) : s \in L}
             gs == Written(fs, D, e)
  <1>0. \A s \in L : s \in Thing /\ s.root # Nobody
    BY NobodyHasNone DEF InOrder, Apart
  <1>1. CASE ~scope
    <2>1. \A s \in L : W(s) = s
      BY <1>0, <1>1, Saves
    <2>2. K = L
      <3> HIDE DEF W
      <3> QED BY <2>1
    <2>3. gs = fs
      BY <1>1 DEF Written
    <2> QED BY <2>2, <2>3
  <1>2. CASE scope
    <2>1. /\ \A m : m \in DOMAIN gs <=> m \in DOMAIN fs \/ \E s \in D : NameOf(s) = m
          /\ \A m \in DOMAIN gs :
                IF \E s \in D : NameOf(s) = m
                THEN gs[m].frames = (CHOOSE s \in D : NameOf(s) = m).frames
                ELSE gs[m] = fs[m]
      BY <1>2 DEF Written
    <2>13. \A m \in DOMAIN gs :
              (\E s \in D : NameOf(s) = m) =>
                  gs[m] = [frames |-> gs[m].frames, ended |-> gs[m].ended, ours |-> gs[m].ours]
      BY <1>2 DEF Written
    <2>2. /\ \A s \in L : NameOf(s)[1] \in s.frames /\ NameOf(s) # NoName
          /\ \A s, u \in L : s # u => NameOf(s) # NameOf(u) /\ NameOf(s) # u.name
      BY NamesDiffer DEF InOrder
    <2>3. ASSUME NEW s \in D
          PROVE  NameOf(s) \in DOMAIN gs /\ gs[NameOf(s)].frames = s.frames
      <3>1. (CHOOSE x \in D : NameOf(x) = NameOf(s)) = s
        BY <2>2
      <3> QED BY <2>1, <3>1
    <2>4. ASSUME NEW m \in DOMAIN gs, \A s \in D : NameOf(s) # m
          PROVE  m \in DOMAIN fs /\ gs[m] = fs[m]
      BY <2>1, <2>4
    <2>5. \A s \in L : /\ W(s).root = s.root /\ W(s).frames = s.frames
                       /\ W(s).start = s.start /\ W(s).last = s.last /\ W(s) \in Thing
                       /\ W(s).name = IF s \in D THEN NameOf(s) ELSE s.name
      BY <1>0, <1>2, Saves
    <2> HIDE DEF gs
    <2>7. \A s \in L : Holds(W(s), Nobody, t) = s.frames /\ Holds(s, Nobody, t) = s.frames
      BY <1>0, <2>5 DEF Holds
    <2>8. \A s \in L : s \notin D => W(s) = s
      OBVIOUS
    <2> HIDE DEF W
    <2>9. Apart(K, Nobody, t)
      <3>1. ASSUME NEW x \in K
            PROVE  /\ x \in Thing /\ x.start <= x.last /\ x.start \in Holds(x, Nobody, t)
                   /\ x.name # NoName => x.name[1] \in Holds(x, Nobody, t)
        <4>1. PICK s \in L : x = W(s)
          OBVIOUS
        <4> QED BY <2>2, <2>5, <2>7, <4>1 DEF InOrder, Apart
      <3>2. ASSUME NEW x \in K, NEW y \in K, x # y
            PROVE  x.root # y.root /\ Holds(x, Nobody, t) \cap Holds(y, Nobody, t) = {}
        <4>1. PICK s \in L, u \in L : x = W(s) /\ y = W(u)
          OBVIOUS
        <4>2. s # u
          BY <3>2, <4>1
        <4> QED BY <2>5, <2>7, <4>1, <4>2 DEF InOrder, Apart
      <3> QED BY <3>1, <3>2 DEF Apart
    <2>10. Filed(K, Nobody, t, gs)
      <3>1. NoName \notin DOMAIN gs
        BY <2>1, <2>2 DEF InOrder, Filed
      <3>6. DOMAIN gs \subseteq (1..MaxFrames) \X Root
        <4>1. DOMAIN fs \subseteq (1..MaxFrames) \X Root
          BY DEF InOrder, Filed
        <4>2. \A s \in D : NameOf(s) \in (1..MaxFrames) \X Root
          BY <1>0, Saves
        <4> QED BY <2>1, <4>1, <4>2
      <3>2. ASSUME NEW m \in DOMAIN gs
            PROVE  /\ m[1] \in gs[m].frames
                   /\ gs[m] = [frames |-> gs[m].frames, ended |-> gs[m].ended,
                               ours |-> gs[m].ours]
        <4>1. CASE \E s \in D : NameOf(s) = m
          BY <2>2, <2>3, <2>13, <4>1
        <4>2. CASE \A s \in D : NameOf(s) # m
          BY <2>4, <4>2 DEF InOrder, Filed
        <4> QED BY <4>1, <4>2
      <3>3. ASSUME NEW m \in DOMAIN gs, NEW s \in L
            PROVE  (s \in D /\ NameOf(s) = m) \/ (s \notin D /\ s.name = m)
                     \/ gs[m].frames \cap s.frames = {}
        <4>1. CASE \E x \in D : NameOf(x) = m
          <5>1. PICK x \in D : NameOf(x) = m
            BY <4>1
          <5>2. gs[m].frames = x.frames
            BY <2>3, <5>1
          <5>3. x = s \/ x.frames \cap s.frames = {}
            BY <2>7 DEF InOrder, Apart
          <5> QED BY <5>1, <5>2, <5>3
        <4>2. CASE \A x \in D : NameOf(x) # m
          <5>1. m \in DOMAIN fs /\ gs[m] = fs[m]
            BY <2>4, <4>2
          <5>2. s.name = m \/ fs[m].frames \cap s.frames = {}
            BY <2>7, <5>1 DEF InOrder, Filed
          <5>3. m # NoName
            BY <3>1
          <5>4. s \in D => s.name # m
            BY <4>2, <5>3 DEF NameOf
          <5> QED BY <5>1, <5>2, <5>4
        <4> QED BY <4>1, <4>2
      <3>4. ASSUME NEW m \in DOMAIN gs, NEW x \in K
            PROVE  x.name = m \/ gs[m].frames \cap Holds(x, Nobody, t) = {}
        <4>1. PICK s \in L : x = W(s)
          OBVIOUS
        <4> QED BY <2>5, <2>7, <3>3, <4>1
      <3>5. ASSUME NEW m \in DOMAIN gs, NEW l \in DOMAIN gs, m # l
            PROVE  gs[m].frames \cap gs[l].frames = {}
        <4>1. ASSUME NEW s \in D, NEW k \in DOMAIN gs, NameOf(s) # k
              PROVE  gs[k].frames \cap s.frames = {}
          BY <3>3, <4>1
        <4>2. CASE \E s \in D : NameOf(s) = m
          BY <2>3, <3>5, <4>1, <4>2
        <4>3. CASE \E s \in D : NameOf(s) = l
          BY <2>3, <3>5, <4>1, <4>3
        <4>4. CASE \A s \in D : NameOf(s) # m /\ NameOf(s) # l
          BY <2>4, <3>5, <4>4 DEF InOrder, Filed
        <4> QED BY <4>2, <4>3, <4>4
      <3> QED BY <3>1, <3>2, <3>4, <3>5, <3>6 DEF Filed
    <2>11. Kept(K, Nobody, gs, pr)
      <3> SUFFICES ASSUME NEW x \in K, ~x.dirty
                   PROVE  x.name \in pr \/ (x.name \in DOMAIN gs /\ gs[x.name].frames = x.frames)
        BY DEF Kept
      <3>1. PICK s \in L : x = W(s)
        OBVIOUS
      <3>2. CASE s \in D
        BY <2>3, <2>5, <3>1, <3>2
      <3>3. CASE s \notin D
        <4>1. x = s
          BY <2>8, <3>1, <3>3
        <4>2. s.name \in pr \/ (s.name \in DOMAIN fs /\ fs[s.name].frames = s.frames)
          BY <1>0, <4>1 DEF InOrder, Kept
        <4>3. \A u \in D : NameOf(u) # s.name
          BY <2>2, <3>3
        <4>4. s.name \in DOMAIN fs => s.name \in DOMAIN gs /\ gs[s.name] = fs[s.name]
          BY <2>1, <2>4, <4>3
        <4> QED BY <4>1, <4>2, <4>4
      <3> QED BY <3>2, <3>3
    <2>12. Past(K, gs, n)
      <3>1. \A x \in K : x.frames \subseteq 1..n
        BY <2>5 DEF InOrder, Past
      <3>2. ASSUME NEW m \in DOMAIN gs
            PROVE  gs[m].frames \subseteq 1..n
        <4>1. CASE \E s \in D : NameOf(s) = m
          BY <2>3, <4>1 DEF InOrder, Past
        <4>2. CASE \A s \in D : NameOf(s) # m
          BY <2>4, <4>2 DEF InOrder, Past
        <4> QED BY <4>1, <4>2
      <3> QED BY <3>1, <3>2 DEF Past
    <2> QED BY <2>9, <2>10, <2>11, <2>12 DEF InOrder, gs, W
  <1> QED BY <1>1, <1>2

\* A session of a journal is the one of the root, or was there before.
LEMMA WhereFrom ==
    ASSUME NEW j, NEW k, NEW r, NEW o, Sound(k), Has(k.open, r), Elsewhere(j, k, o, r)
    PROVE  /\ Of(k.open, r) \in Sessions(k) /\ Of(k.open, r).root = r
           /\ Of(k.open, r) \in Thing
           /\ \A u \in Sessions(k) : u.root = o \/ u.root = r \/ u \in Sessions(j)
           /\ \A u \in Sessions(k) : u.root = r => u = Of(k.open, r)
           /\ \A u \in Sessions(j) : u.root = o \/ u.root = r \/ u \in Sessions(k)
  <1>1. Of(k.open, r) \in Ones(k.open) /\ Of(k.open, r).root = r
    BY OfRoot
  <1>2. Of(k.open, r) \in Sessions(k) /\ Of(k.open, r) \in Thing
    BY <1>1, SessionsOnes, ThingOf DEF Sound
  <1>3. \A u \in Sessions(k) : u.root = r => u = Of(k.open, r)
    BY <1>1, <1>2, OneOfRoot
  <1>4. \A u \in Sessions(k) : u.root = o \/ u.root = r \/ u \in Sessions(j)
    <2> SUFFICES ASSUME NEW u \in Sessions(k), u.root # o, u.root # r
                 PROVE  u \in Sessions(j)
      OBVIOUS
    <2>1. u \in Ones(k.open) \/ u \in Ones(k.parked)
      BY SessionsOnes
    <2>2. u \in Ones(j.open) \/ u \in Ones(j.parked)
      BY <2>1 DEF Elsewhere
    <2> QED BY <2>2, SessionsOnes
  <1>5. \A u \in Sessions(j) : u.root = o \/ u.root = r \/ u \in Sessions(k)
    <2> SUFFICES ASSUME NEW u \in Sessions(j), u.root # o, u.root # r
                 PROVE  u \in Sessions(k)
      OBVIOUS
    <2>1. u \in Ones(j.open) \/ u \in Ones(j.parked)
      BY SessionsOnes
    <2>2. u \in Ones(k.open) \/ u \in Ones(k.parked)
      BY <2>1 DEF Elsewhere
    <2> QED BY <2>2, SessionsOnes
  <1> QED BY <1>1, <1>2, <1>3, <1>4, <1>5

\* A frame comes in: the session it is for is there.
LEMMA OpensInOrder ==
    ASSUME NEW j, Sound(j), NEW r \in Root, NEW n \in Nat, NEW t \in 1..MaxFrames,
           t = n + 1, NEW fs, NEW pr, InOrder(Sessions(j), Nobody, t, n, fs, pr), NEW k,
           k = SessionFor(j, r, t)
    PROVE  InOrder(Sessions(k), r, t, n, fs, pr)
  <1> DEFINE d == Of(k.open, r)
             L == Sessions(j)
             K == Sessions(k)
  <1>0. InOrder(L, Nobody, t, n, fs, pr)
    OBVIOUS
  <1>1. /\ Sound(k) /\ Has(k.open, r) /\ Elsewhere(j, k, r, r)
        /\ \/ \E s \in L : s.root = r /\ d \in {s, Reopened(s)}
           \/ (\A s \in L : s.root # r) /\ d = NewSession(r, t)
    BY Opens
  <1>2. /\ d \in K /\ d.root = r /\ d \in Thing
        /\ \A u \in K : u = d \/ (u.root # r /\ u \in L)
    BY <1>1, WhereFrom
  <1>3. \A u \in L : u.root # Nobody /\ u \in Thing /\ Holds(u, Nobody, t) = u.frames
    BY <1>0, NobodyHasNone DEF InOrder, Apart, Holds
  <1>4. /\ t \notin 1..n
        /\ \A u \in L : t \notin u.frames
        /\ \A m \in DOMAIN fs : t \notin fs[m].frames
    BY <1>0 DEF InOrder, Past
  <1>5. Holds(d, r, t) = d.frames \cup {t} /\ \A u \in L : u.root # r => Holds(u, r, t) = u.frames
    BY <1>2 DEF Holds
  <1>6. CASE \E s \in L : s.root = r /\ d \in {s, Reopened(s)}
    <2>1. PICK s \in L : s.root = r /\ d \in {s, Reopened(s)}
      BY <1>6
    <2>2. d.start = s.start /\ d.last = s.last /\ d.name = s.name /\ d.frames = s.frames
      BY <1>3, <2>1 DEF Thing, Reopened
    <2> HIDE DEF d, L, K
    <2>3. Apart(K, r, t)
      <3>1. ASSUME NEW x \in K
            PROVE  /\ x \in Thing /\ x.start <= x.last /\ x.start \in Holds(x, r, t)
                   /\ x.name # NoName => x.name[1] \in Holds(x, r, t)
        BY <1>0, <1>2, <1>3, <1>5, <2>1, <2>2 DEF InOrder, Apart
      <3>2. ASSUME NEW x \in K, x # d
            PROVE  x.root # d.root /\ Holds(x, r, t) \cap Holds(d, r, t) = {}
        BY <1>0, <1>2, <1>3, <1>4, <1>5, <2>1, <2>2, <3>2 DEF InOrder, Apart
      <3>3. ASSUME NEW x \in K, NEW y \in K, x # y, x # d, y # d
            PROVE  x.root # y.root /\ Holds(x, r, t) \cap Holds(y, r, t) = {}
        BY <1>0, <1>2, <1>3, <1>5, <3>3 DEF InOrder, Apart
      <3> QED BY <3>1, <3>2, <3>3 DEF Apart
    <2>4. Filed(K, r, t, fs)
      <3>1. ASSUME NEW m \in DOMAIN fs, NEW x \in K
            PROVE  x.name = m \/ fs[m].frames \cap Holds(x, r, t) = {}
        BY <1>0, <1>2, <1>3, <1>4, <1>5, <2>1, <2>2 DEF InOrder, Filed
      <3> QED BY <1>0, <3>1 DEF InOrder, Filed
    <2>5. Kept(K, r, fs, pr)
      BY <1>0, <1>2, <1>3 DEF InOrder, Kept
    <2>6. Past(K, fs, n)
      BY <1>0, <1>2, <2>1, <2>2 DEF InOrder, Past
    <2> QED BY <2>3, <2>4, <2>5, <2>6 DEF InOrder, K
  <1>7. CASE (\A s \in L : s.root # r) /\ d = NewSession(r, t)
    <2>1. d.start = t /\ d.last = t /\ d.name = NoName /\ d.frames = {}
      BY <1>7 DEF NewSession
    <2> HIDE DEF d, L, K
    <2>2. Apart(K, r, t)
      <3>1. ASSUME NEW x \in K
            PROVE  /\ x \in Thing /\ x.start <= x.last /\ x.start \in Holds(x, r, t)
                   /\ x.name # NoName => x.name[1] \in Holds(x, r, t)
        BY <1>0, <1>2, <1>3, <1>5, <2>1 DEF InOrder, Apart
      <3>2. ASSUME NEW x \in K, x # d
            PROVE  x.root # d.root /\ Holds(x, r, t) \cap Holds(d, r, t) = {}
        BY <1>2, <1>4, <1>5, <2>1, <3>2
      <3>3. ASSUME NEW x \in K, NEW y \in K, x # y, x # d, y # d
            PROVE  x.root # y.root /\ Holds(x, r, t) \cap Holds(y, r, t) = {}
        BY <1>0, <1>2, <1>3, <1>5, <3>3 DEF InOrder, Apart
      <3> QED BY <3>1, <3>2, <3>3 DEF Apart
    <2>3. Filed(K, r, t, fs)
      <3>1. ASSUME NEW m \in DOMAIN fs, NEW x \in K
            PROVE  x.name = m \/ fs[m].frames \cap Holds(x, r, t) = {}
        BY <1>0, <1>2, <1>3, <1>4, <1>5, <2>1 DEF InOrder, Filed
      <3> QED BY <1>0, <3>1 DEF InOrder, Filed
    <2>4. Kept(K, r, fs, pr)
      BY <1>0, <1>2, <1>3 DEF InOrder, Kept
    <2>5. Past(K, fs, n)
      BY <1>0, <1>2, <2>1 DEF InOrder, Past
    <2> QED BY <2>2, <2>3, <2>4, <2>5 DEF InOrder, K
  <1> QED BY <1>1, <1>6, <1>7

\* The session a frame is for gets it, or its id.
LEMMA ReplacesInOrder ==
    ASSUME NEW j, Sound(j), NEW k, Sound(k), NEW r, Has(j.open, r), Has(k.open, r),
           Elsewhere(j, k, r, r), NEW t, NEW n \in Nat, NEW l \in Nat, n <= l, NEW fs, NEW pr,
           InOrder(Sessions(j), r, t, n, fs, pr),
           NEW q, q \in {r, Nobody}, q = r \/ Of(k.open, r).dirty,
           Of(k.open, r).start = Of(j.open, r).start,
           Of(k.open, r).start <= Of(k.open, r).last,
           Of(k.open, r).name = Of(j.open, r).name,
           Of(k.open, r).frames \subseteq 1..l,
           Holds(Of(k.open, r), q, t) = Holds(Of(j.open, r), r, t)
    PROVE  InOrder(Sessions(k), q, t, l, fs, pr)
  <1> DEFINE s == Of(j.open, r)
             d == Of(k.open, r)
             L == Sessions(j)
             K == Sessions(k)
  <1>0. InOrder(L, r, t, n, fs, pr)
    OBVIOUS
  <1>1. /\ d \in K /\ d.root = r /\ d \in Thing
        /\ \A u \in K : u = d \/ (u.root # r /\ u \in L)
    BY WhereFrom
  <1>2. s \in L /\ s.root = r
    BY WhereFrom DEF Elsewhere
  <1>3. \A u \in L : u.root # Nobody /\ u \in Thing
    BY <1>0, NobodyHasNone DEF InOrder, Apart
  <1>4. \A u \in L : u.root # r => Holds(u, q, t) = Holds(u, r, t) /\ Holds(u, q, t) = u.frames
    BY <1>3 DEF Holds
  <1>5. d.start = s.start /\ d.name = s.name /\ Holds(d, q, t) = Holds(s, r, t)
    OBVIOUS
  <1>6. (q = r \/ d.dirty) /\ d.start <= d.last /\ d.frames \subseteq 1..l
    OBVIOUS
  <1> HIDE DEF s, d, K, L
  <1>7. Apart(K, q, t)
    <2>1. ASSUME NEW x \in K
          PROVE  /\ x \in Thing /\ x.start <= x.last /\ x.start \in Holds(x, q, t)
                 /\ x.name # NoName => x.name[1] \in Holds(x, q, t)
      BY <1>0, <1>1, <1>2, <1>3, <1>4, <1>5, <1>6 DEF InOrder, Apart
    <2>2. ASSUME NEW x \in K, x # d
          PROVE  x.root # d.root /\ Holds(x, q, t) \cap Holds(d, q, t) = {}
      BY <1>0, <1>1, <1>2, <1>4, <1>5, <2>2 DEF InOrder, Apart
    <2>3. ASSUME NEW x \in K, NEW y \in K, x # y, x # d, y # d
          PROVE  x.root # y.root /\ Holds(x, q, t) \cap Holds(y, q, t) = {}
      BY <1>0, <1>1, <1>4, <2>3 DEF InOrder, Apart
    <2> QED BY <2>1, <2>2, <2>3 DEF Apart
  <1>8. Filed(K, q, t, fs)
    <2>1. ASSUME NEW m \in DOMAIN fs, NEW x \in K
          PROVE  x.name = m \/ fs[m].frames \cap Holds(x, q, t) = {}
      BY <1>0, <1>1, <1>2, <1>4, <1>5 DEF InOrder, Filed
    <2> QED BY <1>0, <2>1 DEF InOrder, Filed
  <1>9. Kept(K, q, fs, pr)
    BY <1>0, <1>1, <1>3, <1>6 DEF InOrder, Kept
  <1>10. Past(K, fs, l)
    <2>1. 1..n \subseteq 1..l
      OBVIOUS
    <2> QED BY <1>0, <1>1, <1>6, <2>1 DEF InOrder, Past
  <1> QED BY <1>7, <1>8, <1>9, <1>10 DEF InOrder, K

\* Adoption takes the orphan's file along with its session.
LEMMA AdoptsInOrder ==
    ASSUME NEW j, Sound(j), NEW r, Has(j.open, r), NEW o, Misrooted(j, o, r), NEW k,
           k = Adopt(j, o, r), NEW t, NEW n \in Nat, NEW fs, NEW pr,
           InOrder(Sessions(j), r, t, n, fs, pr)
    PROVE  InOrder(Sessions(k), r, t, n, Keeping(fs, DOMAIN fs \ {Orphan(j, o).name}), pr)
  <1> DEFINE s == Of(j.open, r)
             x == Orphan(j, o)
             d == Of(k.open, r)
             L == Sessions(j)
             K == Sessions(k)
             gs == Keeping(fs, DOMAIN fs \ {x.name})
  <1>0. InOrder(L, r, t, n, fs, pr)
    OBVIOUS
  <1>1. /\ Sound(k) /\ Has(k.open, r) /\ Elsewhere(j, k, o, r)
        /\ \A u \in K : u.root # o
        /\ d = Merge(s, x) /\ x \in L /\ x.root = o /\ o # r
    <2>1. o # r
      BY DEF Misrooted
    <2> QED BY <2>1, Adopts
  <1>2. /\ d \in K /\ d.root = r /\ d \in Thing
        /\ \A u \in K : u = d \/ (u.root # r /\ u.root # o /\ u \in L)
    BY <1>1, WhereFrom
  <1>3. s \in L /\ s.root = r
    BY WhereFrom DEF Elsewhere
  <1>4. \A u \in L : u \in Thing /\ (u.root # r => Holds(u, r, t) = u.frames)
    BY <1>0 DEF InOrder, Apart, Holds
  <1>5. /\ d.start = s.start \/ d.start = x.start
        /\ d.name = s.name /\ d.frames = s.frames \cup x.frames /\ d.dirty
    BY <1>1, <1>3, <1>4 DEF Merge, Min2, Thing
  <1>51. d.start <= d.last
    <2>1. s \in Thing /\ x \in Thing /\ s.start <= s.last /\ x.start <= x.last
      BY <1>0, <1>1, <1>3 DEF InOrder, Apart
    <2>2. d.start = Min2(s.start, x.start) /\ d.last = Max2(s.last, x.last)
      BY <1>1, <2>1 DEF Merge, Thing
    <2>3. {s.start, s.last, x.start, x.last} \subseteq Int
      BY <2>1, JournalAssumption DEF Thing
    <2> QED BY <2>1, <2>2, <2>3 DEF Min2, Max2
  <1>6. Holds(d, r, t) = Holds(s, r, t) \cup Holds(x, r, t)
    BY <1>1, <1>2, <1>3, <1>5 DEF Holds
  <1>7. /\ \A m : m \in DOMAIN gs <=> m \in DOMAIN fs /\ m # x.name
        /\ \A m \in DOMAIN gs : gs[m] = fs[m]
    BY KeepingFiles
  <1> HIDE DEF s, x, d, K, L, gs
  <1>8. Apart(K, r, t)
    <2>1. ASSUME NEW u \in K
          PROVE  /\ u \in Thing /\ u.start <= u.last /\ u.start \in Holds(u, r, t)
                 /\ u.name # NoName => u.name[1] \in Holds(u, r, t)
      BY <1>0, <1>1, <1>2, <1>3, <1>5, <1>51, <1>6 DEF InOrder, Apart
    <2>2. ASSUME NEW u \in K, u # d
          PROVE  u.root # d.root /\ Holds(u, r, t) \cap Holds(d, r, t) = {}
      <3>1. Holds(u, r, t) \cap Holds(s, r, t) = {} /\ Holds(u, r, t) \cap Holds(x, r, t) = {}
        BY <1>0, <1>1, <1>2, <1>3, <2>2 DEF InOrder, Apart
      <3> QED BY <1>2, <1>6, <2>2, <3>1
    <2>3. ASSUME NEW u \in K, NEW y \in K, u # y, u # d, y # d
          PROVE  u.root # y.root /\ Holds(u, r, t) \cap Holds(y, r, t) = {}
      BY <1>0, <1>2, <2>3 DEF InOrder, Apart
    <2> QED BY <2>1, <2>2, <2>3 DEF Apart
  <1>9. Filed(K, r, t, gs)
    <2>1. ASSUME NEW m \in DOMAIN gs, NEW u \in K
          PROVE  u.name = m \/ gs[m].frames \cap Holds(u, r, t) = {}
      <3>1. \A v \in L : v.name = m \/ fs[m].frames \cap Holds(v, r, t) = {}
        BY <1>0, <1>7 DEF InOrder, Filed
      <3> QED BY <1>1, <1>2, <1>3, <1>5, <1>6, <1>7, <3>1
    <2> QED BY <1>0, <1>7, <2>1 DEF InOrder, Filed
  <1>10. Kept(K, r, gs, pr)
    <2> SUFFICES ASSUME NEW u \in K, u.root # r, ~u.dirty
                 PROVE  u.name \in pr \/ (u.name \in DOMAIN gs /\ gs[u.name].frames = u.frames)
      BY DEF Kept
    <2>1. u \in L /\ u.root # o
      BY <1>2
    <2>2. u.name \in pr \/ (u.name \in DOMAIN fs /\ fs[u.name].frames = u.frames)
      BY <1>0, <2>1 DEF InOrder, Kept
    <2>3. u.name \in DOMAIN fs => u.name # x.name
      <3> SUFFICES ASSUME u.name \in DOMAIN fs, u.name = x.name
                   PROVE  FALSE
        OBVIOUS
      <3>1. u.name # NoName /\ u # x
        BY <1>0, <1>1, <2>1 DEF InOrder, Filed
      <3>2. u.name[1] \in Holds(u, r, t) /\ x.name[1] \in Holds(x, r, t)
        BY <1>0, <1>1, <2>1, <3>1 DEF InOrder, Apart
      <3>3. Holds(u, r, t) \cap Holds(x, r, t) = {}
        BY <1>0, <1>1, <2>1, <3>1 DEF InOrder, Apart
      <3> QED BY <3>2, <3>3
    <2> QED BY <1>7, <2>2, <2>3
  <1>11. Past(K, gs, n)
    BY <1>0, <1>1, <1>2, <1>3, <1>5, <1>7 DEF InOrder, Past
  <1> QED BY <1>8, <1>9, <1>10, <1>11 DEF InOrder, K, gs, x

-----------------------------------------------------------------------------
(***************************************************************************)
(* A frame, from the session it is for to its place in it.                 *)
(***************************************************************************)

\* What a frame for r leaves of a journal: each session goes on, under the
\* name of its file, and r has an open one.
Grows(j, k, r) ==
    /\ \A s \in Sessions(j) : \E u \in Sessions(k) : u.root = s.root /\ s.frames \subseteq u.frames
    /\ \A u \in Sessions(k) : u.root = r \/ \E s \in Sessions(j) : s.root = u.root
    /\ \A s \in Ones(j.open) : \E u \in Ones(k.open) : u.name = s.name
    /\ k.owners = j.owners
    /\ Has(k.open, r)

\* Growing, twice and in place.
LEMMA GrowsOn ==
    ASSUME NEW j, NEW k, NEW l, NEW r, Grows(j, k, r), Grows(k, l, r)
    PROVE  Grows(j, l, r)
  BY DEF Grows

LEMMA GrowsIn ==
    ASSUME NEW j, Sound(j), NEW k, Sound(k), NEW r, Has(k.open, r), Elsewhere(j, k, r, r),
           k.owners = j.owners,
           \A s \in Sessions(j) : s.root = r => /\ s.frames \subseteq Of(k.open, r).frames
                                                /\ s.name = Of(k.open, r).name
    PROVE  Grows(j, k, r)
  <1> DEFINE d == Of(k.open, r)
  <1>1. d \in Sessions(k) /\ d.root = r /\ d \in Ones(k.open)
    BY OfRoot, SessionsOnes
  <1> HIDE DEF d
  <1>2. \A s \in Sessions(j) : s.root # r => s \in Sessions(k)
    BY SessionsOnes DEF Elsewhere
  <1>3. \A u \in Sessions(k) : u.root # r => u \in Sessions(j)
    BY SessionsOnes DEF Elsewhere
  <1>4. \A s \in Ones(j.open) : \E u \in Ones(k.open) : u.name = s.name
    <2> SUFFICES ASSUME NEW s \in Ones(j.open)
                 PROVE  \E u \in Ones(k.open) : u.name = s.name
      OBVIOUS
    <2>1. CASE s.root = r
      BY <1>1, <2>1, SessionsOnes DEF d
    <2>2. CASE s.root # r
      BY <2>2 DEF Elsewhere
    <2> QED BY <2>1, <2>2
  <1>5. \A s \in Sessions(j) : s.root = r => s.frames \subseteq d.frames
    BY DEF d
  <1> QED BY <1>1, <1>2, <1>3, <1>4, <1>5 DEF Grows

\* The three turns of a frame: its session is there, learns its id, gets it.
LEMMA OpenedFor ==
    ASSUME NEW j, Sound(j), NEW r \in Root, NEW n \in Nat, NEW t \in 1..MaxFrames,
           t = n + 1, NEW fs, NEW pr, InOrder(Sessions(j), Nobody, t, n, fs, pr), NEW k,
           k = SessionFor(j, r, t)
    PROVE  Sound(k) /\ Grows(j, k, r) /\ InOrder(Sessions(k), r, t, n, fs, pr)
  <1> DEFINE d == Of(k.open, r)
  <1>1. /\ Sound(k) /\ Has(k.open, r) /\ Elsewhere(j, k, r, r) /\ k.owners = j.owners
        /\ \/ \E s \in Sessions(j) : s.root = r /\ d \in {s, Reopened(s)}
           \/ (\A s \in Sessions(j) : s.root # r) /\ d = NewSession(r, t)
    BY Opens
  <1>2. \A s \in Sessions(j) : s.root = r => s.frames \subseteq d.frames /\ s.name = d.name
    <2> SUFFICES ASSUME NEW s \in Sessions(j), s.root = r
                 PROVE  s.frames \subseteq d.frames /\ s.name = d.name
      OBVIOUS
    <2>1. PICK x \in Sessions(j) : x.root = r /\ d \in {x, Reopened(x)}
      BY <1>1
    <2>2. x = s
      BY <2>1, OneOfRoot
    <2>3. s \in Thing
      BY SessionsOnes, ThingOf DEF Sound
    <2>4. Reopened(s).frames = s.frames /\ Reopened(s).name = s.name
      BY <2>3 DEF Reopened, Thing
    <2> HIDE DEF d
    <2> QED BY <2>1, <2>2, <2>4
  <1>3. Grows(j, k, r)
    BY <1>1, <1>2, GrowsIn
  <1>4. InOrder(Sessions(k), r, t, n, fs, pr)
    BY OpensInOrder
  <1> QED BY <1>1, <1>3, <1>4

LEMMA NamedFor ==
    ASSUME NEW j, Sound(j), NEW r, Has(j.open, r), NEW n \in Nat, NEW t,
           NEW fs, NEW pr, InOrder(Sessions(j), r, t, n, fs, pr), NEW sid \in Main, NEW k,
           k = Named(j, r, sid)
    PROVE  Sound(k) /\ Grows(j, k, r) /\ InOrder(Sessions(k), r, t, n, fs, pr)
  <1> DEFINE s == Of(j.open, r)
             d == Of(k.open, r)
  <1>1. /\ Sound(k) /\ Has(k.open, r) /\ Elsewhere(j, k, r, r) /\ k.owners = j.owners
        /\ d.start = s.start /\ d.last = s.last /\ d.name = s.name /\ d.frames = s.frames
    BY Names
  <1>2. s \in Sessions(j) /\ s.root = r /\ d.root = r
    BY <1>1, OfRoot, SessionsOnes
  <1>3. s.start <= s.last /\ s.frames \subseteq 1..n
    BY <1>2 DEF InOrder, Apart, Past
  <1>4. \A x \in Sessions(j) : x.root = r => x = s
    BY <1>2, OneOfRoot
  <1>5. Grows(j, k, r)
    <2>1. \A x \in Sessions(j) : x.root = r => x.frames \subseteq d.frames /\ x.name = d.name
      BY <1>1, <1>4
    <2> QED BY <1>1, <2>1, GrowsIn
  <1>6. Holds(d, r, t) = Holds(s, r, t)
    BY <1>1, <1>2 DEF Holds
  <1>7. n <= n
    OBVIOUS
  <1>8. d.start <= d.last /\ d.frames \subseteq 1..n
    BY <1>1, <1>3
  <1>9. InOrder(Sessions(k), r, t, n, fs, pr)
    BY <1>1, <1>6, <1>7, <1>8, ReplacesInOrder
  <1> QED BY <1>1, <1>5, <1>9

LEMMA LandedIn ==
    ASSUME NEW j, Sound(j), NEW r, Has(j.open, r), NEW n \in Nat, NEW t \in 1..MaxFrames,
           t = n + 1, NEW fs, NEW pr, InOrder(Sessions(j), r, t, n, fs, pr), NEW k,
           k = Land(j, r, t)
    PROVE  /\ Sound(k) /\ Grows(j, k, r) /\ InOrder(Sessions(k), Nobody, t, t, fs, pr)
           /\ \E s \in Sessions(k) : s.root = r /\ t \in s.frames
  <1> DEFINE s == Of(j.open, r)
             d == Of(k.open, r)
  <1>1. /\ Sound(k) /\ Has(k.open, r) /\ Elsewhere(j, k, r, r) /\ k.owners = j.owners
        /\ d.start = s.start /\ d.last = t /\ d.name = s.name /\ d.dirty
        /\ d.frames = s.frames \cup {t}
        /\ s \in Thing /\ d \in Thing
    BY LandsIn
  <1>2. s \in Sessions(j) /\ s.root = r /\ d.root = r /\ d \in Sessions(k)
    BY <1>1, OfRoot, SessionsOnes
  <1>3. s.start \in Holds(s, r, t) /\ s.frames \subseteq 1..n
    BY <1>2 DEF InOrder, Apart, Past
  <1>4. \A x \in Sessions(j) : x.root = r => x = s
    BY <1>2, OneOfRoot
  <1>5. Grows(j, k, r)
    <2>1. \A x \in Sessions(j) : x.root = r => x.frames \subseteq d.frames /\ x.name = d.name
      BY <1>1, <1>4
    <2> QED BY <1>1, <2>1, GrowsIn
  <1>6. r # Nobody
    BY <1>1, <1>2, NobodyHasNone
  <1>7. Holds(d, Nobody, t) = Holds(s, r, t)
    BY <1>1, <1>2, <1>6 DEF Holds
  <1>8. d.start <= d.last /\ d.frames \subseteq 1..t
    <2>1. Holds(s, r, t) \subseteq 1..t /\ 1..n \subseteq 1..t
      BY <1>2, <1>3 DEF Holds
    <2> HIDE DEF s, d
    <2> QED BY <1>1, <1>3, <2>1
  <1>9. n <= t /\ t \in Nat
    OBVIOUS
  <1>10. InOrder(Sessions(k), Nobody, t, t, fs, pr)
    BY <1>1, <1>7, <1>8, <1>9, ReplacesInOrder
  <1> QED BY <1>1, <1>2, <1>5, <1>10

-----------------------------------------------------------------------------
(***************************************************************************)
(* Sessions that end, and flushes.                                         *)
(***************************************************************************)

\* While no frame is about to land, it does not matter which.
LEMMA AnyFrame ==
    ASSUME NEW L, NEW t, NEW u, NEW n, NEW fs, NEW pr, InOrder(L, Nobody, t, n, fs, pr)
    PROVE  InOrder(L, Nobody, u, n, fs, pr)
  <1>1. \A s \in L : s.root # Nobody
    BY NobodyHasNone DEF InOrder, Apart
  <1>2. \A s \in L : Holds(s, Nobody, u) = Holds(s, Nobody, t)
    BY <1>1 DEF Holds
  <1>3. Apart(L, Nobody, u)
    BY <1>2 DEF InOrder, Apart
  <1>4. Filed(L, Nobody, u, fs)
    BY <1>2 DEF InOrder, Filed
  <1> QED BY <1>3, <1>4 DEF InOrder

\* A file without its end is the file of an open session.
Owed(O, fs) ==
    \A m \in DOMAIN fs : fs[m].ours /\ ~fs[m].ended => \E s \in O : s.name = m

\* A file that goes owes nothing; one that is written owes as long as its
\* session is open.
LEMMA OwedKeeping ==
    ASSUME NEW O, NEW fs, NEW N, Owed(O, fs)
    PROVE  Owed(O, Keeping(fs, N))
  BY KeepingFiles DEF Owed

LEMMA OwedWritten ==
    ASSUME NEW O, NEW K, NEW D \in SUBSET O, NEW fs, NEW e \in BOOLEAN, scope,
           \A s \in D : s \in Thing, NoName \notin DOMAIN fs, Owed(O, fs),
           \A s \in O : s \notin D => s \in K,
           e \/ \A s \in D : Saved(s) \in K
    PROVE  Owed(K, Written(fs, D, e))
  <1> DEFINE gs == Written(fs, D, e)
  <1>1. \A m \in DOMAIN gs :
           \/ gs[m].ended = e /\ \E s \in D : NameOf(s) = m
           \/ m \in DOMAIN fs /\ gs[m] = fs[m] /\ \A s \in D : NameOf(s) # m
    BY DEF Written
  <1> HIDE DEF gs
  <1> SUFFICES ASSUME NEW m \in DOMAIN gs, gs[m].ours, ~gs[m].ended
               PROVE  \E s \in K : s.name = m
    BY DEF Owed, gs
  <1>2. CASE gs[m].ended = e /\ \E s \in D : NameOf(s) = m
    BY <1>2, Saves
  <1>3. CASE m \in DOMAIN fs /\ gs[m] = fs[m] /\ \A s \in D : NameOf(s) # m
    <2>1. PICK s \in O : s.name = m
      BY <1>3 DEF Owed
    <2>2. s \notin D
      BY <1>3, <2>1 DEF NameOf
    <2> QED BY <2>1, <2>2
  <1> QED BY <1>1, <1>2, <1>3

\* finalize: what it does to the journal.
LEMMA FinalizedIs ==
    ASSUME NEW j, Sound(j), NEW r, Has(j.open, r), NEW k, k = Finalized(j, r)
    PROVE  /\ Sound(k)
           /\ \A s : s \in Ones(k.open) <=> s \in Ones(j.open) /\ s.root # r
           /\ \A s \in Sessions(k) :
                 s = Saved(Of(j.open, r)) \/ (s \in Sessions(j) /\ s.root # r)
           /\ \A o \in DOMAIN k.owners : o \in DOMAIN j.owners /\ k.owners[o] = j.owners[o]
           /\ Len(j.parked) # MaxFiles =>
                 /\ k.owners = j.owners
                 /\ Saved(Of(j.open, r)) \in Sessions(k)
                 /\ \A s \in Sessions(j) : s.root # r => s \in Sessions(k)
  <1> DEFINE s0 == Of(j.open, r)
             d  == Saved(s0)
  <1>1. s0 \in Ones(j.open) /\ s0.root = r /\ s0 \in Thing
    BY OfRoot, ThingOf DEF Sound
  <1>2. d \in Thing /\ d.root = r
    BY <1>1, Saves
  <1>3. k = ParkedAs(j, r, d)
    BY DEF Finalized, ParkedAs
  <1> HIDE DEF s0, d
  <1>4. /\ Sound(k)
        /\ \A s : s \in Ones(k.open) <=> s \in Ones(j.open) /\ s.root # r
    BY <1>2, <1>3, Parks
  <1>5. \A s \in Ones(k.parked) : s = d \/ s \in Ones(j.parked)
    BY <1>2, <1>3, Parks
  <1>6. \A o \in DOMAIN k.owners : o \in DOMAIN j.owners /\ k.owners[o] = j.owners[o]
    BY <1>2, <1>3, Parks
  <1>10. Len(j.parked) # MaxFiles =>
            /\ k.owners = j.owners /\ d \in Ones(k.parked)
            /\ \A s \in Ones(j.parked) : s \in Ones(k.parked)
    BY <1>2, <1>3, Parks
  <1>7. \A s \in Ones(j.parked) : s.root # r
    BY <1>1 DEF Sound
  <1>8. \A s \in Sessions(k) : s = d \/ (s \in Sessions(j) /\ s.root # r)
    BY <1>4, <1>5, <1>7, SessionsOnes
  <1>9. ASSUME Len(j.parked) # MaxFiles
        PROVE  /\ k.owners = j.owners /\ d \in Sessions(k)
               /\ \A s \in Sessions(j) : s.root # r => s \in Sessions(k)
    BY <1>4, <1>10, <1>9, SessionsOnes
  <1> QED BY <1>4, <1>6, <1>8, <1>9 DEF d, s0

\* The sessions of j, those of D written.
AfterWriting(L, D) == {IF s \in D THEN Saved(s) ELSE s : s \in L}

LEMMA AfterOne ==
    ASSUME NEW L, NEW D, NEW s
    PROVE  s \in AfterWriting(L, D) <=>
              \/ s \in L /\ s \notin D
              \/ \E x \in L : x \in D /\ s = Saved(x)
  BY DEF AfterWriting

\* Store, whatever it sweeps.
LEMMA Stores ==
    ASSUME NEW L, NEW t, NEW n, NEW fs, NEW sweep \in BOOLEAN, Store(fs, sweep),
           InOrder(L, Nobody, t, n, fs, pruned)
    PROVE  /\ InOrder(L, Nobody, t, n, files', pruned')
           /\ \A O : Owed(O, fs) => Owed(O, files')
  <1>1. CASE sweep
    <2>1. files' = Keeping(fs, Newest(fs)) /\ pruned' = pruned \cup (DOMAIN fs \ Newest(fs))
      BY <1>1 DEF Store
    <2> QED BY <2>1, Swept, OwedKeeping
  <1>2. CASE ~sweep
    BY <1>2 DEF Store
  <1> QED BY <1>1, <1>2

\* A frame that ends a session.
LEMMA EndsInOrder ==
    ASSUME NEW j, Sound(j), NEW r, Has(j.open, r), NEW t, NEW n,
           InOrder(Sessions(j), Nobody, t, n, files, pruned), Ends(j, r)
    PROVE  /\ Sound(journal') /\ InOrder(Sessions(journal'), Nobody, t, n, files', pruned')
           /\ ~failed' => ~failed /\ (Owed(Ones(j.open), files) => Owed(Ones(journal'.open), files'))
  <1> DEFINE s == Of(j.open, r)
             k == Finalized(j, r)
             fs == Written(files, {s}, TRUE)
             K == AfterWriting(Sessions(j), {s})
  <1>1. /\ journal' = k /\ Store(fs, TRUE)
        /\ failed' = (failed \/ ~scope)
    BY DEF Ends
  <1>2. s \in Ones(j.open) /\ s \in Sessions(j) /\ s.root = r /\ s \in Thing
    BY OfRoot, ThingOf, SessionsOnes DEF Sound
  <1>3. /\ Sound(k)
        /\ \A x : x \in Ones(k.open) <=> x \in Ones(j.open) /\ x.root # r
        /\ \A x \in Sessions(k) : x = Saved(s) \/ (x \in Sessions(j) /\ x.root # r)
    BY FinalizedIs
  <1> HIDE DEF s, k, fs
  <1>4. {s} \in SUBSET Sessions(j)
    BY <1>2
  <1>5. InOrder(K, Nobody, t, n, fs, pruned)
    BY <1>4, Writes DEF AfterWriting, fs
  <1>6. Sessions(k) \in SUBSET K
    <2> SUFFICES ASSUME NEW x \in Sessions(k)
                 PROVE  x \in K
      OBVIOUS
    <2>1. CASE x = Saved(s)
      BY <1>2, <2>1, AfterOne
    <2>2. CASE x \in Sessions(j) /\ x.root # r
      BY <1>2, <2>2, AfterOne
    <2> QED BY <1>3, <2>1, <2>2
  <1>7. InOrder(Sessions(k), Nobody, t, n, fs, pruned)
    <2> HIDE DEF K
    <2> QED BY <1>5, <1>6, Fewer
  <1>8. InOrder(Sessions(k), Nobody, t, n, files', pruned')
    BY <1>1, <1>7, Stores
  <1>9. ASSUME ~failed', Owed(Ones(j.open), files)
        PROVE  Owed(Ones(k.open), files')
    <2>1. scope /\ ~failed
      BY <1>1, <1>9
    <2>2. \A x \in Ones(j.open) : x \notin {s} => x \in Ones(k.open)
      BY <1>2, <1>3, OnlyOne DEF Sound
    <2>3. NoName \notin DOMAIN files
      BY DEF InOrder, Filed
    <2>4. {s} \in SUBSET Ones(j.open) /\ \A x \in {s} : x \in Thing
      BY <1>2
    <2>5. Owed(Ones(k.open), fs)
      BY <1>9, <2>1, <2>2, <2>3, <2>4, OwedWritten DEF fs
    <2> QED BY <1>1, <1>7, <2>5, Stores
  <1> QED BY <1>1, <1>3, <1>8, <1>9

\* flushDirty: what it does to the journal.
LEMMA FlushedIs ==
    ASSUME NEW j, Sound(j), NEW k, k = Flushed(j)
    PROVE  /\ Sound(k) /\ k.owners = j.owners
           /\ \A s : s \in Ones(k.open) <=> s \in AfterWriting(Ones(j.open), Dirty(j))
           /\ \A s : s \in Sessions(k) <=> s \in AfterWriting(Sessions(j), Dirty(j))
           /\ Dirty(j) \in SUBSET Ones(j.open)
           /\ \A s \in Sessions(j) : s \in Thing
           /\ j.open = <<>> => k.open = <<>>
  <1> DEFINE n == Len(j.open)
             q == j.open
             w == k.open
             W(s) == IF s.dirty THEN Saved(s) ELSE s
             D == Dirty(j)
  <1>0. /\ q \in Seq(Thing) /\ j.parked \in Seq(Thing)
        /\ OneRoot(q) /\ OneRoot(j.parked)
        /\ \A s \in Ones(q), u \in Ones(j.parked) : s.root # u.root
    BY DEF Sound
  <1>1. DOMAIN q = 1..n /\ n \in Nat /\ \A i \in 1..n : q[i] \in Thing
    BY <1>0
  <1>2. /\ k.open = [i \in DOMAIN q |-> IF q[i].dirty THEN Saved(q[i]) ELSE q[i]]
        /\ k.parked = j.parked /\ k.owners = j.owners
        /\ k = [open |-> k.open, parked |-> k.parked, owners |-> k.owners]
    BY DEF Flushed, Sound
  <1>3. DOMAIN w = 1..n /\ \A i \in 1..n : w[i] = W(q[i])
    BY <1>1, <1>2
  <1>4. \A s \in Thing : W(s) \in Thing /\ W(s).root = s.root
    BY Saves
  <1>5. \A s : s \in D <=> s \in Ones(q) /\ s.dirty
    BY DEF Dirty, Ones
  <1>6. w = [i \in 1..n |-> w[i]]
    BY <1>1, <1>2
  <1> HIDE DEF n, q, w, W, D
  <1>7. w \in Seq(Thing)
    <2>1. w \in [1..n -> Thing]
      BY <1>1, <1>3, <1>4, <1>6
    <2> QED BY <1>1, <2>1
  <1>8. OneRoot(w)
    BY <1>0, <1>1, <1>3, <1>4 DEF OneRoot
  <1>9. \A s : s \in Ones(w) <=> \E x \in Ones(q) : s = W(x)
    BY <1>1, <1>3 DEF Ones
  <1>10. \A x \in Ones(q) : x \in Thing /\ W(x).root = x.root
    BY <1>0, <1>4, ThingOf
  <1>11. Sound(k)
    <2>1. \A s \in Ones(w), u \in Ones(k.parked) : s.root # u.root
      BY <1>0, <1>2, <1>9, <1>10
    <2>2. Len(k.parked) <= MaxFiles
      BY <1>2 DEF Sound
    <2> QED BY <1>0, <1>2, <1>7, <1>8, <2>1, <2>2 DEF Sound, w
  <1>12. \A x \in Ones(q) : W(x) = IF x \in D THEN Saved(x) ELSE x
    BY <1>5 DEF W
  <1>13. \A s : s \in Ones(w) <=> s \in AfterWriting(Ones(q), D)
    BY <1>9, <1>12 DEF AfterWriting
  <1>14. \A x \in Ones(j.parked) : x \notin D
    BY <1>0, <1>5
  <1>15. ASSUME NEW s
         PROVE  s \in Sessions(k) <=> s \in AfterWriting(Sessions(j), D)
    <2>1. s \in Sessions(k) <=> s \in Ones(w) \/ s \in Ones(j.parked)
      BY <1>2, SessionsOnes DEF w
    <2>2. \A x : x \in Sessions(j) <=> x \in Ones(q) \/ x \in Ones(j.parked)
      BY SessionsOnes DEF q
    <2> QED BY <1>5, <1>13, <1>14, <2>1, <2>2, AfterOne
  <1>16. \A s \in Sessions(j) : s \in Thing
    BY <1>0, ThingOf, SessionsOnes DEF q
  <1>17. q = <<>> => w = <<>>
    <2> SUFFICES ASSUME q = <<>>
                 PROVE  w = <<>>
      OBVIOUS
    <2>1. n = 0
      BY <1>1
    <2>2. Len(w) = 0
      BY <1>3, <1>7, <2>1
    <2> QED BY <1>7, <2>2
  <1>18. D \in SUBSET Ones(q)
    BY <1>5
  <1> QED BY <1>2, <1>11, <1>13, <1>15, <1>16, <1>17, <1>18 DEF q, w, D

\* A flush of what is dirty.
LEMMA FlushInOrder ==
    ASSUME Sound(journal), NEW t, NEW n, FlushDirty,
           InOrder(Sessions(journal), Nobody, t, n, files, pruned)
    PROVE  /\ Sound(journal') /\ journal'.owners = journal.owners
           /\ InOrder(Sessions(journal'), Nobody, t, n, files', pruned')
           /\ ~failed' => ~failed /\ (Owed(Ones(journal.open), files) => Owed(Ones(journal'.open), files'))
           /\ journal.open = <<>> => journal'.open = <<>>
  <1> DEFINE D == Dirty(journal)
             fs == Written(files, D, FALSE)
             K == AfterWriting(Sessions(journal), D)
  <1>1. /\ journal' = Flushed(journal) /\ Store(fs, FALSE)
        /\ failed' = (failed \/ (~scope /\ D # {}))
    BY DEF FlushDirty
  <1>2. /\ Sound(journal') /\ journal'.owners = journal.owners
        /\ journal.open = <<>> => journal'.open = <<>>
    BY <1>1, FlushedIs
  <1>3. \A s : s \in Ones(journal'.open) <=> s \in AfterWriting(Ones(journal.open), D)
    BY <1>1, FlushedIs
  <1>4. \A s : s \in Sessions(journal') <=> s \in K
    BY <1>1, FlushedIs
  <1>5. D \in SUBSET Ones(journal.open) /\ \A s \in Sessions(journal) : s \in Thing
    BY <1>1, FlushedIs
  <1>6. D \in SUBSET Sessions(journal) /\ \A s \in D : s \in Thing
    BY <1>5, SessionsOnes
  <1> HIDE DEF D, fs
  <1>7. InOrder(K, Nobody, t, n, fs, pruned)
    BY <1>6, Writes DEF AfterWriting, fs
  <1> HIDE DEF K
  <1>8. Sessions(journal') = K
    BY <1>4
  <1>9. InOrder(Sessions(journal'), Nobody, t, n, files', pruned')
    BY <1>1, <1>7, <1>8, Stores
  <1>10. ASSUME ~failed', Owed(Ones(journal.open), files)
         PROVE  ~failed /\ Owed(Ones(journal'.open), files')
    <2>1. ~failed /\ (scope \/ D = {})
      BY <1>1, <1>10
    <2>2. Owed(Ones(journal'.open), fs)
      <3>1. CASE scope
        <4>1. \A s \in Ones(journal.open) : s \notin D => s \in Ones(journal'.open)
          BY <1>3, AfterOne
        <4>2. \A s \in D : Saved(s) \in Ones(journal'.open)
          BY <1>3, <1>5, AfterOne
        <4>3. NoName \notin DOMAIN files
          BY DEF InOrder, Filed
        <4> QED BY <1>5, <1>6, <1>10, <3>1, <4>1, <4>2, <4>3, OwedWritten DEF fs
      <3>2. CASE ~scope
        <4>1. fs = files
          BY <3>2 DEF fs, Written
        <4>2. \A s \in Ones(journal.open) : s \in Ones(journal'.open)
          BY <1>3, <2>1, <3>2, AfterOne
        <4> QED BY <1>10, <4>1, <4>2 DEF Owed
      <3> QED BY <3>1, <3>2
    <2> QED BY <1>1, <1>7, <2>1, <2>2, Stores
  <1>11. ~failed' => ~failed
    BY <1>1
  <1> QED BY <1>2, <1>9, <1>10, <1>11

\* Every open session gets its end.
LEMMA EndsAll ==
    ASSUME Sound(journal), NEW t, NEW n,
           InOrder(Sessions(journal), Nobody, t, n, files, pruned),
           Store(Written(files, OpenOnes, TRUE), TRUE),
           failed' = (failed \/ (~scope /\ OpenOnes # {}))
    PROVE  /\ InOrder(AfterWriting(Sessions(journal), OpenOnes), Nobody, t, n, files', pruned')
           /\ ~failed' => ~failed /\ (Owed(Ones(journal.open), files) => Owed({}, files'))
  <1> DEFINE D == OpenOnes
             fs == Written(files, D, TRUE)
             K == AfterWriting(Sessions(journal), D)
  <1>1. D = Ones(journal.open)
    BY DEF OpenOnes, Ones
  <1>2. D \in SUBSET Sessions(journal) /\ \A s \in D : s \in Thing
    BY <1>1, SessionsOnes, ThingOf DEF Sound
  <1>0. Store(fs, TRUE) /\ failed' = (failed \/ (~scope /\ D # {}))
    OBVIOUS
  <1> HIDE DEF D, fs
  <1>3. InOrder(K, Nobody, t, n, fs, pruned)
    BY <1>2, Writes DEF AfterWriting, fs
  <1>4. InOrder(K, Nobody, t, n, files', pruned')
    <2> HIDE DEF K
    <2> QED BY <1>0, <1>3, Stores
  <1>5. ASSUME ~failed', Owed(Ones(journal.open), files)
        PROVE  Owed({}, files')
    <2>1. scope \/ D = {}
      BY <1>0, <1>5
    <2>2. Owed({}, fs)
      <3>1. CASE scope
        <4>1. NoName \notin DOMAIN files
          BY DEF InOrder, Filed
        <4>2. Owed(D, files) /\ D \in SUBSET D
          BY <1>1, <1>5
        <4>3. \A s \in D : s \notin D => s \in {}
          OBVIOUS
        <4> QED BY <1>2, <3>1, <4>1, <4>2, <4>3, OwedWritten DEF fs
      <3>2. CASE ~scope
        <4>1. fs = files
          BY <3>2 DEF fs, Written
        <4> QED BY <1>1, <1>5, <2>1, <3>2, <4>1
      <3> QED BY <3>1, <3>2
    <2> QED BY <1>0, <1>3, <2>2, Stores
  <1>6. ~failed' => ~failed
    BY <1>0
  <1> QED BY <1>4, <1>5, <1>6 DEF K, D

\* The turns of the loop of shutdown.
LEMMA ClosingStep ==
    ASSUME NEW j, Len(j.open) \in Nat, NEW c, c = Closing(j)
    PROVE  /\ c[0] = j
           /\ \A i \in 1..Len(j.open) : c[i] = Finalized(c[i - 1], j.open[i].root)
  <1> DEFINE M == Len(j.open)
             Upto(h, m) == h = [i \in 0..m |->
                                 IF i = 0 THEN j ELSE Finalized(h[i - 1], j.open[i].root)]
             S == {m \in Nat : \E h : Upto(h, m)}
  <1>0. ASSUME NEW h, NEW m, Upto(h, m), NEW i \in 0..m
        PROVE  h[i] = IF i = 0 THEN j ELSE Finalized(h[i - 1], j.open[i].root)
    <2> DEFINE F(k) == IF k = 0 THEN j ELSE Finalized(h[k - 1], j.open[k].root)
    <2>1. h = [k \in 0..m |-> F(k)]
      BY <1>0
    <2> HIDE DEF F
    <2>2. h[i] = F(i)
      BY <2>1
    <2> QED BY <2>2 DEF F
  <1>1. M \in Nat
    OBVIOUS
  <1>2. 0 \in S
    <2> DEFINE h == [i \in 0..0 |-> j]
    <2>1. Upto(h, 0)
      OBVIOUS
    <2> QED BY <2>1
  <1>3. ASSUME NEW m \in Nat, m \in S
        PROVE  m + 1 \in S
    <2>1. PICK h : Upto(h, m)
      BY <1>3
    <2> DEFINE g == [i \in 0..(m + 1) |->
                        IF i <= m THEN h[i] ELSE Finalized(h[m], j.open[m + 1].root)]
    <2>2. \A i \in 0..m : g[i] = h[i]
      OBVIOUS
    <2>3. \A i \in 0..(m + 1) :
              g[i] = IF i = 0 THEN j ELSE Finalized(g[i - 1], j.open[i].root)
      <3> TAKE i \in 0..(m + 1)
      <3>1. CASE i <= m
        <4>0. i \in 0..m
          BY <3>1
        <4>1. h[i] = IF i = 0 THEN j ELSE Finalized(h[i - 1], j.open[i].root)
          BY <2>1, <4>0, <1>0
        <4>2. g[i] = h[i]
          BY <3>1
        <4>3. i # 0 => g[i - 1] = h[i - 1]
          BY <3>1
        <4> QED BY <4>1, <4>2, <4>3
      <3>2. CASE i = m + 1
        <4>1. g[i] = Finalized(h[m], j.open[m + 1].root)
          BY <3>2
        <4>2. g[i - 1] = h[m]
          BY <3>2
        <4> QED BY <3>2, <4>1, <4>2
      <3> QED BY <3>1, <3>2
    <2>4. g = [i \in 0..(m + 1) |-> g[i]]
      OBVIOUS
    <2> HIDE DEF g
    <2>5. Upto(g, m + 1)
      BY <2>3, <2>4
    <2> QED BY <2>5
  <1>4. Nat \subseteq S
    <2> HIDE DEF S
    <2> QED BY <1>2, <1>3, SetInduction
  <1>5. \E h : Upto(h, M)
    BY <1>1, <1>4
  <1>6. c = CHOOSE h : Upto(h, M)
    BY DEF Closing
  <1>7. Upto(c, M)
    <2> HIDE DEF Upto
    <2> QED BY <1>5, <1>6, Zenon
  <1>8. \A i \in 0..M : c[i] = IF i = 0 THEN j ELSE Finalized(c[i - 1], j.open[i].root)
    BY <1>0, <1>7
  <1>9. 0 \in 0..M /\ \A i \in 1..M : i \in 0..M /\ i # 0
    BY <1>1
  <1> HIDE DEF Upto, S
  <1> QED BY <1>8, <1>9

\* shutdown parks the open sessions, written, beside the others.
LEMMA ClosingIs ==
    ASSUME NEW j, Sound(j), NEW k, k = Closing(j)[Len(j.open)]
    PROVE  /\ Sound(k)
           /\ \A s \in Sessions(k) : s \in AfterWriting(Sessions(j), Ones(j.open))
           /\ \A o \in DOMAIN k.owners : o \in DOMAIN j.owners /\ k.owners[o] = j.owners[o]
           /\ j.open = <<>> => k = j
  <1> DEFINE n == Len(j.open)
             q == j.open
             c == Closing(j)
             K == AfterWriting(Sessions(j), Ones(q))
             Known(x) == \A o \in DOMAIN x.owners :
                            o \in DOMAIN j.owners /\ x.owners[o] = j.owners[o]
             Fine(i) == /\ Sound(c[i]) /\ Known(c[i])
                        /\ \A m \in 1..n : m > i => q[m] \in Ones(c[i].open)
                        /\ \A s \in Sessions(c[i]) :
                              s \in K \/ \E m \in 1..n : m > i /\ s = q[m]
             S == {i \in Nat : i <= n => Fine(i)}
  <1>1. q \in Seq(Thing) /\ OneRoot(q) /\ DOMAIN q = 1..n /\ n \in Nat
    BY DEF Sound
  <1>2. /\ c[0] = j
        /\ \A i \in 1..n : c[i] = Finalized(c[i - 1], q[i].root)
    BY <1>1, ClosingStep
  <1>3. \A s : s \in Sessions(j) => s \in K \/ s \in Ones(q)
    BY AfterOne
  <1>4. \A s \in Ones(q) : s \in Sessions(j) /\ Saved(s) \in K
    BY AfterOne, SessionsOnes
  <1> HIDE DEF n, q, c, K
  <1>5. \A s : s \in Ones(q) <=> \E m \in 1..n : s = q[m]
    BY <1>1 DEF Ones
  <1>6. 0 \in S
    <2>1. Known(j)
      OBVIOUS
    <2>2. \A m \in 1..n : m > 0 /\ q[m] \in Ones(j.open)
      BY <1>1, <1>5 DEF q
    <2>3. \A s \in Sessions(j) : s \in K \/ \E m \in 1..n : m > 0 /\ s = q[m]
      BY <1>3, <1>5, <2>2
    <2> HIDE DEF Known
    <2> QED BY <1>2, <2>1, <2>2, <2>3
  <1>7. ASSUME NEW i \in Nat, i \in S
        PROVE  i + 1 \in S
    <2> SUFFICES ASSUME i + 1 <= n
                 PROVE  Fine(i + 1)
      OBVIOUS
    <2> DEFINE r == q[i + 1].root
    <2>0. i + 1 \in 1..n /\ i <= n /\ i + 1 > i
      BY <1>1
    <2>1. /\ Sound(c[i]) /\ Known(c[i])
          /\ \A m \in 1..n : m > i => q[m] \in Ones(c[i].open)
          /\ \A s \in Sessions(c[i]) :
                s \in K \/ \E m \in 1..n : m > i /\ s = q[m]
      <3> HIDE DEF Known
      <3> QED BY <1>7, <2>0
    <2>2. c[i + 1] = Finalized(c[i], r)
      BY <1>1, <1>2, <2>0
    <2>3. q[i + 1] \in Ones(c[i].open)
      BY <2>0, <2>1
    <2>4. Has(c[i].open, r) /\ Of(c[i].open, r) = q[i + 1]
      <3>1. Has(c[i].open, r)
        BY <2>3, HasOnes
      <3>2. Of(c[i].open, r) \in Ones(c[i].open) /\ Of(c[i].open, r).root = r
        BY <3>1, OfRoot
      <3>3. OneRoot(c[i].open)
        BY <2>1 DEF Sound
      <3> QED BY <2>3, <3>1, <3>2, <3>3, OnlyOne
    <2>5. \A m \in 1..n : q[m].root = r => m = i + 1
      BY <1>1, <2>0 DEF OneRoot
    <2> HIDE DEF r
    <2>6. /\ Sound(c[i + 1])
          /\ \A s : s \in Ones(c[i + 1].open) <=> s \in Ones(c[i].open) /\ s.root # r
          /\ \A s \in Sessions(c[i + 1]) :
                s = Saved(q[i + 1]) \/ (s \in Sessions(c[i]) /\ s.root # r)
      BY <2>1, <2>2, <2>4, FinalizedIs
    <2>7. Known(c[i + 1])
      <3>1. \A o \in DOMAIN c[i + 1].owners :
                o \in DOMAIN c[i].owners /\ c[i + 1].owners[o] = c[i].owners[o]
        BY <2>1, <2>2, <2>4, FinalizedIs
      <3> QED BY <2>1, <3>1
    <2>8. \A m \in 1..n : m > i + 1 => q[m] \in Ones(c[i + 1].open)
      <3> SUFFICES ASSUME NEW m \in 1..n, m > i + 1
                   PROVE  q[m] \in Ones(c[i + 1].open)
        OBVIOUS
      <3>1. m > i /\ m # i + 1
        BY <1>1
      <3> QED BY <2>1, <2>5, <2>6, <3>1
    <2>9. \A s \in Sessions(c[i + 1]) :
             s \in K \/ \E m \in 1..n : m > i + 1 /\ s = q[m]
      <3> SUFFICES ASSUME NEW s \in Sessions(c[i + 1]), s \notin K
                   PROVE  \E m \in 1..n : m > i + 1 /\ s = q[m]
        OBVIOUS
      <3>1. q[i + 1] \in Ones(q)
        BY <1>5, <2>0
      <3>2. s \in Sessions(c[i]) /\ s.root # r
        BY <1>4, <2>6, <3>1
      <3>3. PICK m \in 1..n : m > i /\ s = q[m]
        BY <2>1, <3>2
      <3>4. m # i + 1
        BY <3>2, <3>3 DEF r
      <3>5. m > i + 1
        BY <1>1, <3>3, <3>4
      <3> QED BY <3>3, <3>5
    <2> HIDE DEF Known
    <2> QED BY <2>6, <2>7, <2>8, <2>9
  <1>8. Nat \subseteq S
    <2> HIDE DEF S
    <2> QED BY <1>6, <1>7, SetInduction
  <1>9. Fine(n)
    <2> HIDE DEF Fine
    <2> QED BY <1>1, <1>8
  <1>10. \A m \in 1..n : ~(m > n)
    BY <1>1
  <1>11. \A s \in Sessions(c[n]) : s \in K
    BY <1>9, <1>10
  <1>12. q = <<>> => c[n] = j
    BY <1>2 DEF n, q
  <1> QED BY <1>9, <1>11, <1>12 DEF n, q, c, K

-----------------------------------------------------------------------------
(***************************************************************************)
(* Owners.                                                                 *)
(***************************************************************************)

\* The owners in whose sessions an owner's frames may be, when the agents of
\* cl are claimed and those of st have strayed since.
Homes(cl, st) ==
    CHOOSE f : f = [o \in Owner |-> (IF o \in cl THEN f[Parent[o]] ELSE {o})
                                      \cup ({o} \cap st)]

\* Nobody spawns an ancestor: what goes from parent to child goes for all.
LEMMA Descends ==
    ASSUME NEW S, \A o \in Main : o \in S, \A a \in Agent : Parent[a] \in S => a \in S
    PROVE  Owner \subseteq S
  <1>1. PICK depth \in [Owner -> 0..Cardinality(Agent)] :
            \A a \in Agent : depth[Parent[a]] < depth[a]
    BY JournalAssumption
  <1>2. Cardinality(Agent) \in Nat
    BY JournalAssumption, FS_CardinalityType
  <1>3. \A o \in Owner : depth[o] \in Nat
    BY <1>1, <1>2
  <1>4. \A a \in Agent : Parent[a] \in Owner /\ a \in Owner
    BY JournalAssumption DEF Owner
  <1> DEFINE T == {n \in Nat : \A o \in Owner : depth[o] < n => o \in S}
  <1>5. 0 \in T
    BY <1>3
  <1>6. ASSUME NEW n \in Nat, n \in T
        PROVE  n + 1 \in T
    <2> SUFFICES ASSUME NEW o \in Owner, depth[o] < n + 1
                 PROVE  o \in S
      OBVIOUS
    <2>1. CASE o \in Main
      BY <2>1
    <2>2. CASE o \in Agent
      <3>1. depth[Parent[o]] < n
        BY <1>1, <1>3, <1>4, <2>2
      <3> QED BY <1>4, <1>6, <2>2, <3>1
    <2> QED BY <2>1, <2>2 DEF Owner
  <1>7. Nat \subseteq T
    <2> HIDE DEF T
    <2> QED BY <1>5, <1>6, SetInduction
  <1>8. \A o \in Owner : depth[o] + 1 \in T /\ depth[o] < depth[o] + 1
    <2> HIDE DEF T
    <2> QED BY <1>3, <1>7
  <1> QED BY <1>8

\* The recursion up the tree defines something.
LEMMA Ascends ==
    ASSUME NEW cl \in SUBSET Agent, NEW st
    PROVE  \E f : f = [o \in Owner |-> (IF o \in cl THEN f[Parent[o]] ELSE {o})
                                         \cup ({o} \cap st)]
  <1>1. PICK depth \in [Owner -> 0..Cardinality(Agent)] :
            \A a \in Agent : depth[Parent[a]] < depth[a]
    BY JournalAssumption
  <1>2. Cardinality(Agent) \in Nat
    BY JournalAssumption, FS_CardinalityType
  <1>3. \A o \in Owner : depth[o] \in Nat /\ depth[o] <= Cardinality(Agent)
    BY <1>1, <1>2
  <1>4. \A a \in cl : Parent[a] \in Owner /\ a \in Owner /\ depth[Parent[a]] < depth[a]
    BY <1>1, JournalAssumption DEF Owner
  <1> DEFINE Up(f, o) == (IF o \in cl THEN f[Parent[o]] ELSE {o}) \cup ({o} \cap st)
             T == {n \in Nat : \E f : /\ f = [o \in Owner |-> f[o]]
                                      /\ \A o \in Owner : depth[o] < n => f[o] = Up(f, o)}
  <1>5. 0 \in T
    <2> DEFINE f == [o \in Owner |-> o]
    <2>1. f = [o \in Owner |-> f[o]]
      OBVIOUS
    <2>2. \A o \in Owner : ~(depth[o] < 0)
      BY <1>3
    <2> HIDE DEF f
    <2> QED BY <2>1, <2>2
  <1>6. ASSUME NEW n \in Nat, n \in T
        PROVE  n + 1 \in T
    <2>1. PICK f : /\ f = [o \in Owner |-> f[o]]
                   /\ \A o \in Owner : depth[o] < n => f[o] = Up(f, o)
      BY <1>6
    <2> DEFINE g == [o \in Owner |-> Up(f, o)]
    <2>2. g = [o \in Owner |-> g[o]]
      OBVIOUS
    <2>3. \A o \in Owner : g[o] = Up(f, o)
      OBVIOUS
    <2> HIDE DEF g, Up
    <2>4. ASSUME NEW o \in Owner, depth[o] < n + 1
          PROVE  g[o] = Up(g, o)
      <3>1. CASE o \in cl
        <4>1. depth[Parent[o]] < n
          BY <1>3, <1>4, <3>1, <2>4
        <4>2. g[Parent[o]] = f[Parent[o]]
          BY <1>4, <2>1, <2>3, <3>1, <4>1
        <4> QED BY <2>3, <3>1, <4>2 DEF Up
      <3>2. CASE o \notin cl
        BY <2>3, <3>2 DEF Up
      <3> QED BY <3>1, <3>2
    <2> QED BY <2>2, <2>4
  <1>7. Nat \subseteq T
    <2> HIDE DEF T
    <2> QED BY <1>5, <1>6, SetInduction
  <1>8. Cardinality(Agent) + 1 \in T
    <2> HIDE DEF T
    <2> QED BY <1>2, <1>7
  <1>9. PICK f : /\ f = [o \in Owner |-> f[o]]
                 /\ \A o \in Owner : depth[o] < Cardinality(Agent) + 1 => f[o] = Up(f, o)
    BY <1>8
  <1>10. \A o \in Owner : f[o] = Up(f, o)
    <2> HIDE DEF Up
    <2> QED BY <1>2, <1>3, <1>9
  <1>11. f = [o \in Owner |-> Up(f, o)]
    <2> HIDE DEF Up
    <2> QED BY <1>9, <1>10
  <1> QED BY <1>11

\* Homes is what its recursive definition says, with the claims going up.
LEMMA HomesIs ==
    ASSUME NEW cl \in SUBSET Agent, NEW st
    PROVE  \A o \in Owner : Homes(cl, st)[o] =
               (IF o \in cl THEN Homes(cl, st)[Parent[o]] ELSE {o}) \cup ({o} \cap st)
  <1> DEFINE Is(f) == f = [o \in Owner |-> (IF o \in cl THEN f[Parent[o]] ELSE {o})
                                             \cup ({o} \cap st)]
  <1>1. \E f : Is(f)
    BY Ascends
  <1>2. Homes(cl, st) = CHOOSE f : Is(f)
    BY DEF Homes
  <1>3. Is(Homes(cl, st))
    <2> HIDE DEF Is
    <2> QED BY <1>1, <1>2, Zenon
  <1> DEFINE F == Homes(cl, st)
             H(x) == (IF x \in cl THEN F[Parent[x]] ELSE {x}) \cup ({x} \cap st)
  <1>4. F = [o \in Owner |-> H(o)]
    BY <1>3
  <1> HIDE DEF F, H
  <1>5. \A o \in Owner : F[o] = H(o)
    BY <1>4
  <1> QED BY <1>5 DEF F, H

\* Up the tree, an owner's home is no owner that is claimed and has not strayed.
LEMMA HomesUnclaimed ==
    ASSUME NEW cl \in SUBSET Agent, NEW st
    PROVE  \A o \in Owner : \A x \in Homes(cl, st)[o] : x \in Owner /\ x \notin cl \ st
  <1> DEFINE F == Homes(cl, st)
             S == {o \in Owner : \A x \in F[o] : x \in Owner /\ x \notin cl \ st}
  <1>1. \A o \in Owner : F[o] = (IF o \in cl THEN F[Parent[o]] ELSE {o}) \cup ({o} \cap st)
    BY HomesIs
  <1> HIDE DEF F
  <1>2. \A o \in Main : o \in S
    BY <1>1, JournalAssumption DEF Owner
  <1>3. \A a \in Agent : Parent[a] \in S => a \in S
    BY <1>1 DEF Owner
  <1>4. Owner \subseteq S
    <2> HIDE DEF S
    <2> QED BY <1>2, <1>3, Descends
  <1> QED BY <1>4 DEF F

\* No agent is at home below itself.
LEMMA HomesAbove ==
    ASSUME NEW cl \in SUBSET Agent, NEW st, NEW a \in Agent
    PROVE  a \notin Homes(cl, st)[Parent[a]]
  <1> DEFINE F == Homes(cl, st)
  <1>1. \A o \in Owner : F[o] = (IF o \in cl THEN F[Parent[o]] ELSE {o}) \cup ({o} \cap st)
    BY HomesIs
  <1> HIDE DEF F
  <1>2. PICK depth \in [Owner -> 0..Cardinality(Agent)] :
            \A x \in Agent : depth[Parent[x]] < depth[x]
    BY JournalAssumption
  <1>3. Cardinality(Agent) \in Nat
    BY JournalAssumption, FS_CardinalityType
  <1>4. \A o \in Owner : depth[o] \in Nat
    BY <1>2, <1>3
  <1>5. \A x \in Agent : Parent[x] \in Owner /\ x \in Owner
    BY JournalAssumption DEF Owner
  <1> DEFINE S == {o \in Owner : \A x \in F[o] : x \in Owner /\ depth[x] <= depth[o]}
  <1>6. \A o \in Main : o \in S
    BY <1>1, <1>4, JournalAssumption DEF Owner
  <1>7. ASSUME NEW o \in Agent, Parent[o] \in S
        PROVE  o \in S
    <2> SUFFICES ASSUME NEW x \in F[o]
                 PROVE  x \in Owner /\ depth[x] <= depth[o]
      BY <1>5
    <2>1. CASE x = o
      BY <1>4, <1>5, <2>1
    <2>2. CASE x # o
      <3>1. x \in F[Parent[o]]
        BY <1>1, <1>5, <2>2
      <3>2. x \in Owner /\ depth[x] <= depth[Parent[o]] /\ depth[Parent[o]] < depth[o]
        BY <1>2, <1>7, <3>1
      <3> QED BY <1>4, <1>5, <3>2
    <2> QED BY <2>1, <2>2
  <1>8. Owner \subseteq S
    <2> HIDE DEF S
    <2> QED BY <1>6, <1>7, Descends
  <1>9. a \in F[Parent[a]] => depth[a] <= depth[Parent[a]] /\ depth[Parent[a]] < depth[a]
    BY <1>2, <1>5, <1>8
  <1> QED BY <1>4, <1>5, <1>9 DEF F

\* A claim, late or repeated: what was at home at the child's is at home
\* wherever the parent is.
LEMMA HomesClaimed ==
    ASSUME NEW cl \in SUBSET Agent, NEW st, NEW a \in Agent,
           NEW o \in Owner, NEW x \in Homes(cl, st)[o]
    PROVE  \/ x \in Homes(cl \cup {a}, st \ {a})[o]
           \/ /\ x = a
              /\ Homes(cl \cup {a}, st \ {a})[Parent[a]] \subseteq Homes(cl \cup {a}, st \ {a})[o]
  <1> DEFINE F == Homes(cl, st)
             G == Homes(cl \cup {a}, st \ {a})
             S == {u \in Owner : \A y \in F[u] : y \in G[u] \/ (y = a /\ G[Parent[a]] \subseteq G[u])}
  <1>1. \A u \in Owner : F[u] = (IF u \in cl THEN F[Parent[u]] ELSE {u}) \cup ({u} \cap st)
    BY HomesIs
  <1>2. \A u \in Owner : G[u] = (IF u \in cl \cup {a} THEN G[Parent[u]] ELSE {u})
                                   \cup ({u} \cap (st \ {a}))
    <2>1. cl \cup {a} \in SUBSET Agent
      OBVIOUS
    <2> QED BY <2>1, HomesIs
  <1>3. \A u \in Agent : u \in Owner
    BY DEF Owner
  <1>4. F[o] = Homes(cl, st)[o]
    OBVIOUS
  <1> HIDE DEF F, G
  <1>5. \A u \in Main : u \in S
    BY <1>1, <1>2, JournalAssumption DEF Owner
  <1>6. ASSUME NEW u \in Agent, Parent[u] \in S
        PROVE  u \in S
    <2> SUFFICES ASSUME NEW y \in F[u]
                 PROVE  y \in G[u] \/ (y = a /\ G[Parent[a]] \subseteq G[u])
      BY <1>3
    <2>1. CASE y = u /\ u = a
      BY <1>2, <1>3, <2>1
    <2>2. CASE y = u /\ u # a /\ (u \in st \/ u \notin cl)
      BY <1>2, <1>3, <2>2
    <2>3. CASE u \in cl /\ y \in F[Parent[u]]
      <3>1. G[Parent[u]] \subseteq G[u]
        BY <1>2, <1>3, <2>3
      <3> QED BY <1>6, <2>3, <3>1
    <2>4. (u \in cl /\ y \in F[Parent[u]]) \/ (y = u /\ (u \in st \/ u \notin cl))
      BY <1>1, <1>3
    <2> QED BY <2>1, <2>2, <2>3, <2>4
  <1>7. Owner \subseteq S
    <2> HIDE DEF S
    <2> QED BY <1>5, <1>6, Descends
  <1>8. x \in G[o] \/ (x = a /\ G[Parent[a]] \subseteq G[o])
    BY <1>4, <1>7
  <1> QED BY <1>8 DEF G

\* An agent that strays: nothing that was at home is not any more.
LEMMA HomesStrayed ==
    ASSUME NEW cl \in SUBSET Agent, NEW st, NEW more, st \subseteq more
    PROVE  \A o \in Owner : Homes(cl, st)[o] \subseteq Homes(cl, more)[o]
  <1> DEFINE F == Homes(cl, st)
             G == Homes(cl, more)
             S == {o \in Owner : F[o] \subseteq G[o]}
  <1>1. \A o \in Owner : F[o] = (IF o \in cl THEN F[Parent[o]] ELSE {o}) \cup ({o} \cap st)
    BY HomesIs
  <1>2. \A o \in Owner : G[o] = (IF o \in cl THEN G[Parent[o]] ELSE {o}) \cup ({o} \cap more)
    BY HomesIs
  <1> HIDE DEF F, G
  <1>3. \A o \in Main : o \in S
    BY <1>1, <1>2, JournalAssumption DEF Owner
  <1>4. \A a \in Agent : Parent[a] \in S => a \in S
    BY <1>1, <1>2 DEF Owner
  <1>5. Owner \subseteq S
    <2> HIDE DEF S
    <2> QED BY <1>3, <1>4, Descends
  <1> QED BY <1>5 DEF F, G

\* Up the tree there is a conversation, and the look back is Homes.
LEMMA TrueRootIs == \A o \in Owner : TrueRoot[o] \in Main
  <1> DEFINE Is(f) == f = [o \in Owner |-> IF o \in Main THEN o ELSE f[Parent[o]]]
             F == TrueRoot
  <1>0. \A o \in Owner : o \in Agent <=> o \notin Main
    BY JournalAssumption DEF Owner
  <1>1. \E f : Is(f)
    <2>1. \A o \in Owner : Homes(Agent, {})[o] =
              (IF o \in Agent THEN Homes(Agent, {})[Parent[o]] ELSE {o}) \cup ({o} \cap {})
      BY HomesIs
    <2> DEFINE top == [o \in Owner |-> CHOOSE x \in Homes(Agent, {})[o] : TRUE]
    <2>2. \A o \in Main : Homes(Agent, {})[o] = {o}
      BY <1>0, <2>1 DEF Owner
    <2>3. \A o \in Agent : Homes(Agent, {})[o] = Homes(Agent, {})[Parent[o]]
      BY <2>1 DEF Owner
    <2>4. \A o \in Main : top[o] = o
      BY <2>2 DEF Owner
    <2>5. \A o \in Agent : top[o] = top[Parent[o]]
      BY <2>3, JournalAssumption DEF Owner
    <2>6. top = [o \in Owner |-> top[o]]
      OBVIOUS
    <2> HIDE DEF top
    <2>7. Is(top)
      BY <1>0, <2>4, <2>5, <2>6
    <2> QED BY <2>7
  <1>2. F = CHOOSE f : Is(f)
    BY DEF TrueRoot
  <1>3. Is(F)
    <2> HIDE DEF Is, F
    <2> QED BY <1>1, <1>2, Zenon
  <1> HIDE DEF F
  <1>4. \A o \in Owner : F[o] = IF o \in Main THEN o ELSE F[Parent[o]]
    <2> TAKE o \in Owner
    <2> DEFINE H(x) == IF x \in Main THEN x ELSE F[Parent[x]]
    <2>1. F = [x \in Owner |-> H(x)]
      BY <1>3
    <2> HIDE DEF H
    <2>2. F[o] = H(o)
      BY <2>1
    <2> QED BY <2>2 DEF H
  <1> DEFINE S == {o \in Owner : F[o] \in Main}
  <1>5. \A o \in Main : o \in S
    BY <1>4 DEF Owner
  <1>6. \A a \in Agent : Parent[a] \in S => a \in S
    BY <1>0, <1>4 DEF Owner
  <1>7. Owner \subseteq S
    <2> HIDE DEF S
    <2> QED BY <1>5, <1>6, Descends
  <1> QED BY <1>7 DEF F

LEMMA LookbackIs == Lookback = Homes(claimed, strayed)
  BY DEF Lookback, Homes

-----------------------------------------------------------------------------
(***************************************************************************)
(* The sessions and the tape.                                              *)
(***************************************************************************)

\* The sessions hold the tape, and what is known of the owners agrees with it.
Grouped(j, tp, cl, st) ==
    /\ \A i \in DOMAIN tp : \E s \in Sessions(j) :
          i \in s.frames /\ (tp[i] # Nobody => s.root \in Homes(cl, st)[tp[i]])
    /\ \A s \in Sessions(j) : s.root \notin cl \ st
    /\ DOMAIN j.owners = cl
    /\ \A o \in cl : /\ j.owners[o] \in Homes(cl, st)[o]
                     /\ \E s \in Sessions(j) : s.root = j.owners[o]

\* What the journal knows of an owner agrees with the tape.
LEMMA RootIs ==
    ASSUME NEW cl \in SUBSET Agent, NEW st, NEW j, NEW tp, Grouped(j, tp, cl, st),
           NEW o \in Owner
    PROVE  RootOf(j, o) \in Homes(cl, st)[o]
  <1>1. CASE o \in cl
    BY <1>1 DEF RootOf, Grouped
  <1>2. CASE o \notin cl
    <2>1. o \in Homes(cl, st)[o]
      BY <1>2, HomesIs
    <2> QED BY <1>2, <2>1 DEF RootOf, Grouped
  <1> QED BY <1>1, <1>2

\* One more agent may have strayed.
LEMMA StraysGrouped ==
    ASSUME NEW cl \in SUBSET Agent, NEW st, NEW j, NEW tp, Grouped(j, tp, cl, st),
           \A i \in DOMAIN tp : tp[i] \in Owner \cup {Nobody}, NEW more, st \subseteq more
    PROVE  Grouped(j, tp, cl, more)
  <1>1. \A o \in Owner : Homes(cl, st)[o] \subseteq Homes(cl, more)[o]
    BY HomesStrayed
  <1>2. \A o \in cl : o \in Owner
    BY DEF Owner
  <1>3. ASSUME NEW i \in DOMAIN tp
        PROVE  \E s \in Sessions(j) :
                  i \in s.frames /\ (tp[i] # Nobody => s.root \in Homes(cl, more)[tp[i]])
    <2>1. PICK s \in Sessions(j) :
              i \in s.frames /\ (tp[i] # Nobody => s.root \in Homes(cl, st)[tp[i]])
      BY DEF Grouped
    <2> QED BY <1>1, <2>1
  <1>4. \A o \in cl : j.owners[o] \in Homes(cl, more)[o]
    BY <1>1, <1>2 DEF Grouped
  <1> QED BY <1>3, <1>4 DEF Grouped

\* No session lost, none of a claimed owner new.
LEMMA StaysGrouped ==
    ASSUME NEW cl, NEW st, NEW j, NEW k, NEW tp, Grouped(j, tp, cl, st), k.owners = j.owners,
           NEW r, r \notin cl \ st,
           \A s \in Sessions(j) : \E u \in Sessions(k) : u.root = s.root /\ s.frames \subseteq u.frames,
           \A u \in Sessions(k) : u.root = r \/ \E s \in Sessions(j) : s.root = u.root
    PROVE  Grouped(k, tp, cl, st)
  BY DEF Grouped

\* A frame for a root nobody claimed, a longer tape, a session that ends.
LEMMA GrowsGrouped ==
    ASSUME NEW cl, NEW st, NEW j, NEW k, NEW tp, Grouped(j, tp, cl, st), NEW r,
           r \notin cl \ st, Grows(j, k, r)
    PROVE  Grouped(k, tp, cl, st)
  BY StaysGrouped DEF Grows

LEMMA TapeGrouped ==
    ASSUME NEW cl, NEW st, NEW j, NEW tp, Grouped(j, tp, cl, st), NEW t, NEW o, NEW tq,
           tq = [i \in DOMAIN tp \cup {t} |-> IF i = t THEN o ELSE tp[i]],
           \E s \in Sessions(j) : t \in s.frames /\ (o # Nobody => s.root \in Homes(cl, st)[o])
    PROVE  Grouped(j, tq, cl, st)
  <1>1. DOMAIN tq = DOMAIN tp \cup {t} /\ \A i \in DOMAIN tq : tq[i] = IF i = t THEN o ELSE tp[i]
    OBVIOUS
  <1>2. \A i \in DOMAIN tq : \E s \in Sessions(j) :
            i \in s.frames /\ (tq[i] # Nobody => s.root \in Homes(cl, st)[tq[i]])
    <2> TAKE i \in DOMAIN tq
    <2>1. CASE i = t
      BY <1>1, <2>1
    <2>2. CASE i # t
      <3>1. i \in DOMAIN tp /\ tq[i] = tp[i]
        BY <1>1, <2>2
      <3> QED BY <3>1 DEF Grouped
    <2> QED BY <2>1, <2>2
  <1> QED BY <1>2 DEF Grouped

LEMMA FinalizedGrouped ==
    ASSUME NEW cl, NEW st, NEW j, Sound(j), NEW tp, Grouped(j, tp, cl, st), NEW r, Has(j.open, r),
           Len(j.parked) # MaxFiles, NEW k, k = Finalized(j, r)
    PROVE  Grouped(k, tp, cl, st)
  <1> DEFINE s == Of(j.open, r)
             d == Saved(s)
  <1>1. s \in Sessions(j) /\ s.root = r /\ s \in Thing
    BY OfRoot, SessionsOnes, ThingOf DEF Sound
  <1>2. d.root = r /\ d.frames = s.frames
    BY <1>1, Saves
  <1>3. \A u \in Sessions(j) : u.root = r => u = s
    BY <1>1, OneOfRoot
  <1>4. k.owners = j.owners /\ d \in Sessions(k) /\ \A u \in Sessions(j) : u.root # r => u \in Sessions(k)
    BY FinalizedIs
  <1>5. \A u \in Sessions(k) : u = d \/ (u \in Sessions(j) /\ u.root # r)
    BY FinalizedIs
  <1> HIDE DEF s, d
  <1>6. \A x \in Sessions(j) : \E u \in Sessions(k) : u.root = x.root /\ x.frames \subseteq u.frames
    BY <1>1, <1>2, <1>3, <1>4
  <1>7. \A u \in Sessions(k) : u.root = r \/ \E x \in Sessions(j) : x.root = u.root
    BY <1>2, <1>5
  <1>8. r \notin cl \ st
    BY <1>1 DEF Grouped
  <1> QED BY <1>4, <1>6, <1>7, <1>8, StaysGrouped

\* The claim of a child, with r the root of its parent.
Claim(j, a, r) ==
    [j EXCEPT !.owners = [o \in DOMAIN @ \cup {a} |-> IF o \in {a} THEN r ELSE @[o]]]

\* A claim changes what is known of the child, and no session.
LEMMA ClaimIs ==
    ASSUME NEW j, Sound(j), NEW a, NEW r, NEW c, c = Claim(j, a, r)
    PROVE  /\ Sound(c) /\ c.open = j.open /\ c.parked = j.parked /\ Sessions(c) = Sessions(j)
           /\ DOMAIN c.owners = DOMAIN j.owners \cup {a}
           /\ \A o \in DOMAIN c.owners : c.owners[o] = IF o = a THEN r ELSE j.owners[o]
  <1> DEFINE own == [o \in DOMAIN j.owners \cup {a} |-> IF o \in {a} THEN r ELSE j.owners[o]]
  <1>1. c = [open |-> j.open, parked |-> j.parked, owners |-> own]
    BY DEF Claim, Sound
  <1>2. /\ DOMAIN own = DOMAIN j.owners \cup {a}
        /\ \A o \in DOMAIN own : own[o] = IF o = a THEN r ELSE j.owners[o]
    OBVIOUS
  <1> HIDE DEF own
  <1>3. c.open = j.open /\ c.parked = j.parked /\ c.owners = own
    BY <1>1
  <1>4. Sound(c)
    BY <1>1, <1>3 DEF Sound
  <1>5. Sessions(c) = Sessions(j)
    BY <1>3 DEF Sessions
  <1> QED BY <1>2, <1>3, <1>4, <1>5

\* A claim and the adoption it brings regroup what the children sent before.
LEMMA ClaimGrouped ==
    ASSUME NEW cl \in SUBSET Agent, NEW st, NEW j, Sound(j), NEW tp,
           \A i \in DOMAIN tp : tp[i] \in Owner \cup {Nobody}, Grouped(j, tp, cl, st),
           NEW a \in Agent, NEW r \in Homes(cl, st)[Parent[a]], Has(j.open, r),
           NEW c, c = Claim(j, a, r), NEW k, k = Adopt(c, a, r)
    PROVE  /\ Grouped(k, tp, cl \cup {a}, st \ {a})
           /\ r \in Homes(cl \cup {a}, st \ {a})[Parent[a]]
           /\ r \notin (cl \cup {a}) \ (st \ {a})
  <1> DEFINE F == Homes(cl, st)
             G == Homes(cl \cup {a}, st \ {a})
             shut == (cl \cup {a}) \ (st \ {a})
  <1>0. /\ Parent[a] \in Owner /\ a \in Owner /\ \A o \in cl : o \in Owner
        /\ \A i \in DOMAIN tp : tp[i] # Nobody => tp[i] \in Owner
    BY JournalAssumption DEF Owner
  <1>1. /\ Sound(c) /\ c.open = j.open /\ c.parked = j.parked /\ Sessions(c) = Sessions(j)
        /\ DOMAIN c.owners = cl \cup {a}
        /\ \A o \in DOMAIN c.owners : c.owners[o] = IF o = a THEN r ELSE j.owners[o]
    BY ClaimIs DEF Grouped
  <1>2. r # a /\ r \notin cl \ st /\ \E s \in Sessions(j) : s.root = r
    <2>1. r # a
      BY HomesAbove
    <2>2. r \notin cl \ st
      BY <1>0, HomesUnclaimed
    <2> QED BY <2>1, <2>2, OfRoot, SessionsOnes
  <1>3. /\ \A i \in DOMAIN tp : \E s \in Sessions(j) :
              i \in s.frames /\ (tp[i] # Nobody => s.root \in F[tp[i]])
        /\ \A s \in Sessions(j) : s.root \notin cl \ st
        /\ \A o \in cl : j.owners[o] \in F[o] /\ \E s \in Sessions(j) : s.root = j.owners[o]
    BY DEF Grouped
  <1>4. \A o \in Owner : \A x \in F[o] : x \in G[o] \/ (x = a /\ G[Parent[a]] \subseteq G[o])
    BY HomesClaimed
  <1>5. r \in G[Parent[a]]
    BY <1>0, <1>2, <1>4
  <1>6. G[Parent[a]] \subseteq G[a]
    <2>1. cl \cup {a} \in SUBSET Agent
      OBVIOUS
    <2> QED BY <1>0, <2>1, HomesIs
  <1>8. r \notin shut /\ a \in shut /\ \A x : x \notin cl \ st /\ x # a => x \notin shut
    BY <1>2
  <1>11. \A o \in Owner : a \notin G[o]
    <2>1. cl \cup {a} \in SUBSET Agent
      OBVIOUS
    <2> QED BY <1>8, <2>1, HomesUnclaimed
  <1>7. \A o \in Owner : \A x \in F[o] : IF x = a THEN r \in G[o] ELSE x \in G[o]
    BY <1>4, <1>5, <1>11
  <1> HIDE DEF F, G, shut
  <1>9. CASE ~\E s \in Sessions(j) : s.root = a
    <2>1. k = c
      <3>1. ~Has(c.open, a) /\ ~Has(c.parked, a)
        BY <1>1, <1>9, HasOnes, SessionsOnes
      <3> QED BY <3>1 DEF Adopt, Misrooted
    <2>2. ASSUME NEW i \in DOMAIN tp
          PROVE  \E s \in Sessions(k) : i \in s.frames /\ (tp[i] # Nobody => s.root \in G[tp[i]])
      <3>1. PICK s \in Sessions(j) : i \in s.frames /\ (tp[i] # Nobody => s.root \in F[tp[i]])
        BY <1>3
      <3> QED BY <1>0, <1>1, <1>7, <1>9, <2>1, <3>1
    <2>3. \A s \in Sessions(k) : s.root \notin shut
      BY <1>1, <1>3, <1>8, <1>9, <2>1
    <2>4. ASSUME NEW o \in cl \cup {a}
          PROVE  k.owners[o] \in G[o] /\ \E s \in Sessions(k) : s.root = k.owners[o]
      <3>1. CASE o = a
        BY <1>1, <1>2, <1>5, <1>6, <2>1, <3>1
      <3>2. CASE o # a
        <4>1. k.owners[o] \in F[o] /\ \E s \in Sessions(j) : s.root = k.owners[o]
          BY <1>1, <1>3, <2>1, <3>2
        <4> QED BY <1>0, <1>1, <1>7, <1>9, <2>1, <3>2, <4>1
      <3> QED BY <3>1, <3>2
    <2> QED BY <1>1, <1>5, <1>8, <2>1, <2>2, <2>3, <2>4 DEF Grouped, G, shut
  <1>10. CASE \E s \in Sessions(j) : s.root = a
    <2> DEFINE s0 == Of(c.open, r)
               x  == Orphan(c, a)
               d  == Of(k.open, r)
    <2>1. Misrooted(c, a, r) /\ Has(c.open, r)
      <3>1. Has(c.open, a) \/ Has(c.parked, a)
        BY <1>1, <1>10, HasOnes, SessionsOnes
      <3> QED BY <1>1, <1>2, <3>1 DEF Misrooted
    <2>2. /\ Sound(k) /\ Has(k.open, r) /\ Elsewhere(c, k, a, r)
          /\ \A s \in Sessions(k) : s.root # a
          /\ d = Merge(s0, x) /\ x \in Sessions(c) /\ x.root = a
      BY <1>1, <2>1, Adopts
    <2>3. /\ DOMAIN k.owners = DOMAIN c.owners
          /\ \A p \in DOMAIN c.owners :
                k.owners[p] = IF c.owners[p] = a THEN r ELSE c.owners[p]
      BY <1>1, <2>1, Adopts
    <2>4. s0 \in Sessions(c) /\ s0.root = r
      BY <2>1, OfRoot, SessionsOnes
    <2>5. /\ d \in Sessions(k) /\ d.root = r
          /\ \A u \in Sessions(k) : u.root = a \/ u.root = r \/ u \in Sessions(c)
          /\ \A u \in Sessions(c) : u.root = a \/ u.root = r \/ u \in Sessions(k)
      BY <2>2, WhereFrom
    <2>6. s0.frames \subseteq d.frames /\ x.frames \subseteq d.frames
      <3>1. s0 \in Thing
        BY <1>1, <2>4, ThingOf, SessionsOnes DEF Sound
      <3>2. Merge(s0, x).frames = s0.frames \cup x.frames
        BY <3>1 DEF Merge, Thing
      <3> QED BY <2>2, <3>2
    <2>7. \A u \in Sessions(c) : (u.root = a => u = x) /\ (u.root = r => u = s0)
      BY <1>1, <2>2, <2>4, OneOfRoot
    <2> HIDE DEF s0, x, d
    <2>8. ASSUME NEW i \in DOMAIN tp
          PROVE  \E s \in Sessions(k) : i \in s.frames /\ (tp[i] # Nobody => s.root \in G[tp[i]])
      <3>1. PICK s \in Sessions(c) : i \in s.frames /\ (tp[i] # Nobody => s.root \in F[tp[i]])
        BY <1>1, <1>3
      <3>2. CASE s.root = a \/ s.root = r
        <4>1. i \in d.frames
          BY <2>6, <2>7, <3>1, <3>2
        <4>2. tp[i] # Nobody => r \in G[tp[i]]
          BY <1>0, <1>2, <1>7, <3>1, <3>2
        <4> QED BY <2>5, <4>1, <4>2
      <3>3. CASE s.root # a /\ s.root # r
        <4>1. s \in Sessions(k)
          BY <2>5, <3>3
        <4>2. tp[i] # Nobody => s.root \in G[tp[i]]
          BY <1>0, <1>7, <3>1, <3>3
        <4> QED BY <3>1, <4>1, <4>2
      <3> QED BY <3>2, <3>3
    <2>9. \A s \in Sessions(k) : s.root \notin shut
      BY <1>1, <1>3, <1>8, <2>2, <2>5
    <2>10. ASSUME NEW o \in cl \cup {a}
           PROVE  k.owners[o] \in G[o] /\ \E s \in Sessions(k) : s.root = k.owners[o]
      <3>1. CASE o = a
        BY <1>1, <1>2, <1>5, <1>6, <2>3, <2>5, <3>1
      <3>2. CASE o # a
        <4>1. c.owners[o] \in F[o] /\ \E s \in Sessions(c) : s.root = c.owners[o]
          BY <1>1, <1>3, <3>2
        <4>2. k.owners[o] = IF c.owners[o] = a THEN r ELSE c.owners[o]
          BY <1>1, <2>3
        <4>3. k.owners[o] \in G[o]
          BY <1>0, <1>7, <3>2, <4>1, <4>2
        <4> QED BY <2>5, <4>1, <4>2, <4>3
      <3> QED BY <3>1, <3>2
    <2>11. DOMAIN k.owners = cl \cup {a}
      BY <1>1, <2>3
    <2> QED BY <1>5, <1>8, <2>8, <2>9, <2>10, <2>11 DEF Grouped, G, shut
  <1> QED BY <1>9, <1>10

-----------------------------------------------------------------------------
(***************************************************************************)
(* The invariant.                                                          *)
(***************************************************************************)
Flags == {recording, closed, timer, scope, stamped, forgot, failed} \subseteq BOOLEAN

\* The values of the variables, but for the sessions and the files.
Shaped ==
    /\ Flags
    /\ Sound(journal)
    /\ DOMAIN journal.owners \subseteq Agent
    /\ \A o \in DOMAIN journal.owners : journal.owners[o] \in Owner
    /\ ~scope => files = <<>>
    /\ frames \in 0..MaxFrames /\ gestures \in 0..MaxGestures
    /\ claimed \in SUBSET Agent /\ strayed \in SUBSET claimed
    /\ DOMAIN tape \subseteq 1..frames
    /\ \A i \in DOMAIN tape : tape[i] \in Owner \cup {Nobody}
    /\ closed => tape = <<>>

\* What the disk has, the sessions have.
Ordered == InOrder(Sessions(journal), Nobody, 0, frames, files, pruned)

\* Once a recording is stopped nothing is open, and files owe no end.
Ending ==
    /\ ~recording => journal.open = <<>>
    /\ ~failed => Owed(Ones(journal.open), files)

\* As long as it goes on and has lost nothing, a recording groups like the
\* tape.
Grouping == ~forgot /\ ~closed => Grouped(journal, tape, claimed, strayed)

JournalInv == Shaped /\ Ordered /\ Ending /\ Grouping

LEMMA KeepingNone == \A N : Keeping(<<>>, N) = <<>>
  BY DEF Keeping

\* A frame has the next number.
LEMMA FrameIs ==
    ASSUME Shaped, NEW o \in Owner \cup {Nobody}, Frame(o)
    PROVE  /\ frames' = frames + 1 /\ frames \in Nat /\ frames' \in 1..MaxFrames
           /\ frames' \in 0..MaxFrames
           /\ DOMAIN tape' \subseteq 1..frames'
           /\ \A i \in DOMAIN tape' : tape'[i] \in Owner \cup {Nobody}
           /\ ~closed
  <1>1. /\ frames < MaxFrames /\ frames' = frames + 1 /\ Capturing
        /\ tape' = [i \in DOMAIN tape \cup {frames'} |-> IF i = frames' THEN o ELSE tape[i]]
        /\ timer' = TRUE
        /\ UNCHANGED <<recording, closed, scope, stamped, gestures>>
    BY DEF Frame
  <1>2. frames \in Nat /\ MaxFrames \in Nat
    BY JournalAssumption DEF Shaped
  <1>3. frames' \in 1..MaxFrames /\ frames' \in 0..MaxFrames
    BY <1>1, <1>2
  <1>4. DOMAIN tape' \subseteq 1..frames'
    BY <1>1, <1>2 DEF Shaped
  <1>5. \A i \in DOMAIN tape' : tape'[i] \in Owner \cup {Nobody}
    BY <1>1 DEF Shaped
  <1> QED BY <1>1, <1>2, <1>3, <1>4, <1>5 DEF Capturing, Shaped, Flags

\* The frame has landed in j; it may end a session.
LEMMA Settles ==
    ASSUME Shaped, NEW j, Sound(j), NEW t,
           InOrder(Sessions(j), Nobody, t, t, files, pruned),
           ~failed => Owed(Ones(j.open), files),
           NEW tp, NEW cl, NEW st, ~forgot => Grouped(j, tp, cl, st),
           Lands(j) \/ \E x : Has(j.open, x) /\ Ends(j, x)
    PROVE  /\ Sound(journal') /\ InOrder(Sessions(journal'), Nobody, t, t, files', pruned')
           /\ ~failed' => Owed(Ones(journal'.open), files')
           /\ ~forgot' => Grouped(journal', tp, cl, st)
           /\ \A o \in DOMAIN journal'.owners :
                 o \in DOMAIN j.owners /\ journal'.owners[o] = j.owners[o]
           /\ ~scope => files' = <<>>
           /\ forgot' \in BOOLEAN /\ failed' \in BOOLEAN
  <1>1. CASE Lands(j)
    BY <1>1 DEF Lands, Shaped, Flags
  <1>2. CASE \E x : Has(j.open, x) /\ Ends(j, x)
    <2>1. PICK x : Has(j.open, x) /\ Ends(j, x)
      BY <1>2
    <2>2. /\ Sound(journal') /\ InOrder(Sessions(journal'), Nobody, t, t, files', pruned')
          /\ ~failed' => ~failed /\ (Owed(Ones(j.open), files) => Owed(Ones(journal'.open), files'))
      BY <2>1, EndsInOrder
    <2>3. /\ journal' = Finalized(j, x)
          /\ forgot' = (forgot \/ Len(j.parked) = MaxFiles)
          /\ failed' = (failed \/ ~scope)
          /\ files' = Keeping(Written(files, {Of(j.open, x)}, TRUE),
                              Newest(Written(files, {Of(j.open, x)}, TRUE)))
      BY <2>1 DEF Ends, Store
    <2>4. ~forgot' => Grouped(journal', tp, cl, st)
      BY <2>1, <2>3, FinalizedGrouped
    <2>5. \A o \in DOMAIN journal'.owners :
             o \in DOMAIN j.owners /\ journal'.owners[o] = j.owners[o]
      BY <2>1, <2>3, FinalizedIs
    <2>6. ~scope => files' = <<>>
      BY <2>3, KeepingNone DEF Written, Shaped
    <2>7. forgot' \in BOOLEAN /\ failed' \in BOOLEAN
      BY <2>3
    <2> QED BY <2>2, <2>4, <2>5, <2>6, <2>7
  <1> QED BY <1>1, <1>2

\* What a frame leaves.
LEMMA AfterFrame ==
    ASSUME Shaped, NEW o \in Owner \cup {Nobody}, Frame(o), claimed' \in SUBSET Agent,
           strayed' \in SUBSET claimed',
           Sound(journal'), InOrder(Sessions(journal'), Nobody, frames', frames', files', pruned'),
           ~failed' => Owed(Ones(journal'.open), files'),
           ~forgot' => Grouped(journal', tape', claimed', strayed'),
           \A p \in DOMAIN journal'.owners : p \in Agent /\ journal'.owners[p] \in Owner,
           ~scope => files' = <<>>, forgot' \in BOOLEAN, failed' \in BOOLEAN
    PROVE  JournalInv'
  <1>0. recording /\ ~closed
    BY DEF Frame, Capturing
  <1>1. /\ closed' = closed /\ recording' = recording
        /\ scope' = scope /\ gestures' = gestures /\ timer' = TRUE /\ stamped' = stamped
    BY DEF Frame
  <1>2. Flags'
    BY <1>1 DEF Shaped, Flags
  <1>3. Shaped'
    <2>1. frames' \in 0..MaxFrames /\ DOMAIN tape' \subseteq 1..frames'
      BY FrameIs
    <2>2. \A i \in DOMAIN tape' : tape'[i] \in Owner \cup {Nobody}
      BY FrameIs
    <2> QED BY <1>0, <1>1, <1>2, <2>1, <2>2 DEF Shaped
  <1>4. Ordered'
    BY AnyFrame DEF Ordered
  <1>5. Ending' /\ Grouping'
    BY <1>0, <1>1 DEF Ending, Grouping
  <1> QED BY <1>3, <1>4, <1>5 DEF JournalInv

LEMMA RootOfOwner ==
    ASSUME Shaped, NEW o \in Owner
    PROVE  RootOf(journal, o) \in Owner
  BY DEF RootOf, Shaped

\* A frame of an owner keeps the invariant.
LEMMA RecordActivityKeeps ==
    ASSUME JournalInv, NEW o \in Owner, NEW terminal \in BOOLEAN, RecordActivity(o, terminal)
    PROVE  JournalInv'
  <1> DEFINE r  == RootOf(journal, o)
             t  == frames'
             k0 == SessionFor(journal, r, t)
             k1 == IF stamped THEN Named(k0, r, TrueRoot[o]) ELSE k0
             k  == Land(k1, r, t)
  <1>1. /\ Frame(o) /\ claimed' = claimed /\ strayed' = strayed
        /\ IF terminal /\ Has(k.open, o) THEN Ends(k, o) ELSE Lands(k)
    BY DEF RecordActivity
  <1>2. Shaped /\ Ordered /\ Ending /\ Grouping /\ o \in Owner \cup {Nobody}
    BY DEF JournalInv
  <1>3. /\ t = frames + 1 /\ frames \in Nat /\ t \in 1..MaxFrames
        /\ ~closed
    BY <1>1, <1>2, FrameIs
  <1>16. tape' = [i \in DOMAIN tape \cup {t} |-> IF i = t THEN o ELSE tape[i]]
    BY <1>1 DEF Frame
  <1>4. r \in Root /\ r \in Owner
    BY <1>2, RootOfOwner DEF Root
  <1>5. Sound(journal) /\ InOrder(Sessions(journal), Nobody, t, frames, files, pruned)
    BY <1>2, AnyFrame DEF Shaped, Ordered
  <1> HIDE DEF r, t
  <1>6. Sound(k0) /\ Grows(journal, k0, r) /\ InOrder(Sessions(k0), r, t, frames, files, pruned)
    BY <1>3, <1>4, <1>5, OpenedFor
  <1>7. Sound(k1) /\ Grows(journal, k1, r) /\ InOrder(Sessions(k1), r, t, frames, files, pruned)
    <2>1. CASE stamped
      <3>1. Has(k0.open, r) /\ TrueRoot[o] \in Main
        BY <1>6, TrueRootIs DEF Grows
      <3>2. k1 = Named(k0, r, TrueRoot[o])
        BY <2>1
      <3> HIDE DEF k0, k1
      <3>3. Sound(k1) /\ Grows(k0, k1, r) /\ InOrder(Sessions(k1), r, t, frames, files, pruned)
        BY <1>3, <1>6, <3>1, <3>2, NamedFor
      <3> QED BY <1>6, <3>3, GrowsOn
    <2>2. CASE ~stamped
      BY <1>6, <2>2
    <2> QED BY <2>1, <2>2
  <1> HIDE DEF k0, k1
  <1>8. /\ Sound(k) /\ Grows(k1, k, r) /\ InOrder(Sessions(k), Nobody, t, t, files, pruned)
        /\ \E s \in Sessions(k) : s.root = r /\ t \in s.frames
    <2>1. Has(k1.open, r)
      BY <1>7 DEF Grows
    <2>2. k = Land(k1, r, t)
      OBVIOUS
    <2> HIDE DEF k
    <2>3. Sound(k) /\ Grows(k1, k, r) /\ InOrder(Sessions(k), Nobody, t, t, files, pruned)
      BY <1>3, <1>7, <2>1, <2>2, LandedIn
    <2>4. \E s \in Sessions(k) : s.root = r /\ t \in s.frames
      BY <1>3, <1>7, <2>1, <2>2, LandedIn
    <2> QED BY <2>3, <2>4
  <1> HIDE DEF k
  <1>9. Grows(journal, k, r)
    BY <1>7, <1>8, GrowsOn
  <1>10. ~failed => Owed(Ones(k.open), files)
    BY <1>2, <1>9 DEF Ending, Owed, Grows
  <1>11. ~forgot => Grouped(k, tape', claimed, strayed)
    <2> SUFFICES ASSUME ~forgot
                 PROVE  Grouped(k, tape', claimed, strayed)
      OBVIOUS
    <2>1. Grouped(journal, tape, claimed, strayed) /\ claimed \in SUBSET Agent
      BY <1>2, <1>3 DEF Grouping, Shaped
    <2>2. r \in Homes(claimed, strayed)[o] /\ r \notin claimed \ strayed
      BY <2>1, RootIs, HomesUnclaimed DEF r
    <2>3. Grouped(k, tape, claimed, strayed)
      BY <1>9, <2>1, <2>2, GrowsGrouped
    <2> QED BY <1>16, <1>8, <2>2, <2>3, TapeGrouped
  <1>12. Lands(k) \/ \E x : Has(k.open, x) /\ Ends(k, x)
    BY <1>1
  <1>13. /\ Sound(journal') /\ InOrder(Sessions(journal'), Nobody, t, t, files', pruned')
         /\ ~failed' => Owed(Ones(journal'.open), files')
         /\ ~forgot' => Grouped(journal', tape', claimed, strayed)
         /\ \A p \in DOMAIN journal'.owners :
               p \in DOMAIN k.owners /\ journal'.owners[p] = k.owners[p]
         /\ ~scope => files' = <<>>
         /\ forgot' \in BOOLEAN /\ failed' \in BOOLEAN
    BY <1>2, <1>8, <1>10, <1>11, <1>12, Settles
  <1>14. \A p \in DOMAIN journal'.owners : p \in Agent /\ journal'.owners[p] \in Owner
    BY <1>2, <1>9, <1>13 DEF Grows, Shaped
  <1>15. claimed' \in SUBSET Agent /\ strayed' \in SUBSET claimed'
    BY <1>1, <1>2 DEF Shaped
  <1> QED BY <1>1, <1>2, <1>13, <1>14, <1>15, AfterFrame DEF t

-----------------------------------------------------------------------------
(***************************************************************************)
(* Frames without an owner.                                                *)
(***************************************************************************)
\* The session an id names, or the most recent one, is a session.
LEMMA LeastOf ==
    ASSUME NEW S \in SUBSET Nat, S # {}
    PROVE  \E i \in S : \A k \in S : i <= k
  <1> DEFINE R == OpToRel(<, Nat)
  <1>1. IsWellFoundedOn(R, Nat)
    BY NatLessThanWellFounded
  <1>2. \A x, y \in Nat : <<y, x>> \in R <=> y < x
    BY DEF OpToRel
  <1> HIDE DEF R
  <1>3. PICK x \in S : \A y \in S : ~(<<y, x>> \in R)
    BY <1>1, WFMin
  <1>4. \A y \in S : ~(y < x)
    BY <1>2, <1>3
  <1> QED BY <1>4

LEMMA FirstNamedIs ==
    ASSUME NEW q \in Seq(Thing), NEW sid, FirstNamed(q, sid) # Nobody
    PROVE  Has(q, FirstNamed(q, sid))
  <1> DEFINE named == {i \in DOMAIN q : q[i].sid = sid}
  <1>1. named # {}
    BY DEF FirstNamed
  <1>2. named \in SUBSET Nat
    OBVIOUS
  <1>3. \E i \in named : \A k \in named : i <= k
    BY <1>1, <1>2, LeastOf
  <1> DEFINE i == CHOOSE i \in named : \A k \in named : i <= k
  <1>4. i \in named
    <2> HIDE DEF named
    <2> QED BY <1>3
  <1>5. FirstNamed(q, sid) = q[i].root
    BY <1>1 DEF FirstNamed
  <1> HIDE DEF i
  <1> QED BY <1>4, <1>5 DEF Has

LEMMA LatestIs ==
    ASSUME NEW q \in Seq(Thing), Latest(q) # Bucket
    PROVE  Has(q, Latest(q))
  <1> DEFINE known == {i \in DOMAIN q : q[i].root # Bucket}
             ages  == {MaxFrames - q[i].last : i \in known}
  <1>1. known # {}
    BY DEF Latest
  <1>2. \A i \in known : q[i].last \in 1..MaxFrames
    <2>1. \A i \in DOMAIN q : q[i] \in Thing
      OBVIOUS
    <2>2. \A s \in Thing : s.last \in 1..MaxFrames
      BY DEF Thing
    <2> QED BY <2>1, <2>2
  <1>3. ages \in SUBSET Nat /\ ages # {}
    BY <1>1, <1>2, JournalAssumption
  <1> HIDE DEF known
  <1>4. PICK x \in ages : \A y \in ages : x <= y
    BY <1>3, LeastOf
  <1>5. PICK i \in known : x = MaxFrames - q[i].last
    BY <1>4
  <1>6. \A k \in known : MaxFrames - q[i].last <= MaxFrames - q[k].last
    BY <1>4, <1>5
  <1>7. \A k \in known : q[k].last <= q[i].last
    BY <1>2, <1>6, JournalAssumption
  <1> DEFINE l == CHOOSE l \in known : \A k \in known : q[k].last <= q[l].last
  <1>8. l \in known
    BY <1>7
  <1>9. Latest(q) = q[l].root
    BY <1>1 DEF Latest, known
  <1> HIDE DEF l
  <1> QED BY <1>8, <1>9 DEF Has, known

LEMMA OwnerlessIs ==
    ASSUME NEW j, Sound(j), NEW sid
    PROVE  /\ Ownerless(j, sid) \in Root
           /\ Ownerless(j, sid) = Bucket \/ \E s \in Sessions(j) : s.root = Ownerless(j, sid)
  <1> DEFINE r == Ownerless(j, sid)
  <1>1. j.open \in Seq(Thing) /\ j.parked \in Seq(Thing)
    BY DEF Sound
  <1>2. r = Bucket \/ Has(j.open, r) \/ Has(j.parked, r)
    BY <1>1, FirstNamedIs, LatestIs DEF Ownerless
  <1> HIDE DEF r
  <1>3. r = Bucket \/ \E s \in Sessions(j) : s.root = r
    BY <1>2, HasOnes, SessionsOnes
  <1>4. \A s \in Sessions(j) : s.root \in Root
    BY <1>1, ThingOf, SessionsOnes, NobodyHasNone
  <1> QED BY <1>3, <1>4 DEF r, Root

\* A frame without an owner keeps the invariant.
LEMMA RecordOwnerlessKeeps ==
    ASSUME JournalInv, NEW sid, RecordOwnerless(sid)
    PROVE  JournalInv'
  <1> DEFINE r  == Ownerless(journal, sid)
             t  == frames'
             k1 == SessionFor(journal, r, t)
             k  == Land(k1, r, t)
  <1>1. /\ Frame(Nobody) /\ claimed' = claimed /\ strayed' = strayed
        /\ IF FirstNamed(k.open, sid) # Nobody THEN Ends(k, FirstNamed(k.open, sid))
                                               ELSE Lands(k)
    BY DEF RecordOwnerless
  <1>2. Shaped /\ Ordered /\ Ending /\ Grouping /\ Nobody \in Owner \cup {Nobody}
    BY DEF JournalInv
  <1>3. t = frames + 1 /\ frames \in Nat /\ t \in 1..MaxFrames /\ ~closed
    BY <1>1, <1>2, FrameIs
  <1>16. tape' = [i \in DOMAIN tape \cup {t} |-> IF i = t THEN Nobody ELSE tape[i]]
    BY <1>1 DEF Frame
  <1>5. Sound(journal) /\ InOrder(Sessions(journal), Nobody, t, frames, files, pruned)
    BY <1>2, AnyFrame DEF Shaped, Ordered
  <1>4. r \in Root /\ (r = Bucket \/ \E s \in Sessions(journal) : s.root = r)
    BY <1>5, OwnerlessIs
  <1> HIDE DEF r, t
  <1>7. Sound(k1) /\ Grows(journal, k1, r) /\ InOrder(Sessions(k1), r, t, frames, files, pruned)
    BY <1>3, <1>4, <1>5, OpenedFor
  <1> HIDE DEF k1
  <1>8. /\ Sound(k) /\ Grows(k1, k, r) /\ InOrder(Sessions(k), Nobody, t, t, files, pruned)
        /\ \E s \in Sessions(k) : s.root = r /\ t \in s.frames
    <2>1. Has(k1.open, r)
      BY <1>7 DEF Grows
    <2>2. k = Land(k1, r, t)
      OBVIOUS
    <2> HIDE DEF k
    <2>3. Sound(k) /\ Grows(k1, k, r) /\ InOrder(Sessions(k), Nobody, t, t, files, pruned)
      BY <1>3, <1>7, <2>1, <2>2, LandedIn
    <2>4. \E s \in Sessions(k) : s.root = r /\ t \in s.frames
      BY <1>3, <1>7, <2>1, <2>2, LandedIn
    <2> QED BY <2>3, <2>4
  <1> HIDE DEF k
  <1>9. Grows(journal, k, r)
    BY <1>7, <1>8, GrowsOn
  <1>10. ~failed => Owed(Ones(k.open), files)
    BY <1>2, <1>9 DEF Ending, Owed, Grows
  <1>11. ~forgot => Grouped(k, tape', claimed, strayed)
    <2> SUFFICES ASSUME ~forgot
                 PROVE  Grouped(k, tape', claimed, strayed)
      OBVIOUS
    <2>1. Grouped(journal, tape, claimed, strayed) /\ claimed \in SUBSET Agent
      BY <1>2, <1>3 DEF Grouping, Shaped
    <2>2. r \notin claimed \ strayed
      BY <1>4, <2>1, JournalAssumption DEF Grouped, Owner
    <2>3. Grouped(k, tape, claimed, strayed)
      BY <1>9, <2>1, <2>2, GrowsGrouped
    <2> QED BY <1>16, <1>8, <2>2, <2>3, TapeGrouped
  <1>12. Lands(k) \/ \E x : Has(k.open, x) /\ Ends(k, x)
    <2>1. k.open \in Seq(Thing)
      BY <1>8 DEF Sound
    <2> QED BY <1>1, <2>1, FirstNamedIs
  <1>13. /\ Sound(journal') /\ InOrder(Sessions(journal'), Nobody, t, t, files', pruned')
         /\ ~failed' => Owed(Ones(journal'.open), files')
         /\ ~forgot' => Grouped(journal', tape', claimed, strayed)
         /\ \A p \in DOMAIN journal'.owners :
               p \in DOMAIN k.owners /\ journal'.owners[p] = k.owners[p]
         /\ ~scope => files' = <<>>
         /\ forgot' \in BOOLEAN /\ failed' \in BOOLEAN
    BY <1>2, <1>8, <1>10, <1>11, <1>12, Settles
  <1>14. \A p \in DOMAIN journal'.owners : p \in Agent /\ journal'.owners[p] \in Owner
    BY <1>2, <1>9, <1>13 DEF Grows, Shaped
  <1>15. claimed' \in SUBSET Agent /\ strayed' \in SUBSET claimed'
    BY <1>1, <1>2 DEF Shaped
  <1> QED BY <1>1, <1>2, <1>13, <1>14, <1>15, AfterFrame DEF t

-----------------------------------------------------------------------------
(***************************************************************************)
(* Spawns and claims.                                                      *)
(***************************************************************************)
LEMMA KeepingAll ==
    ASSUME NEW L, NEW r, NEW t, NEW n, NEW fs, NEW pr, InOrder(L, r, t, n, fs, pr)
    PROVE  InOrder(L, r, t, n, Keeping(fs, DOMAIN fs \ {}), pr)
  <1> DEFINE N == DOMAIN fs \ {}
  <1>1. InOrder(L, r, t, n, Keeping(fs, N), pr \cup (DOMAIN fs \ N))
    <2> HIDE DEF N
    <2> QED BY Swept
  <1>2. pr \cup (DOMAIN fs \ N) = pr
    OBVIOUS
  <1> QED BY <1>1, <1>2

\* The files without that of an adopted orphan.
Adopting(fs, c, a, r) ==
    Keeping(fs, DOMAIN fs \ {Orphan(c, o).name : o \in {x \in {a} : Misrooted(c, x, r)}})

Attributed(j) == \A o \in DOMAIN j.owners : o \in Agent /\ j.owners[o] \in Owner

\* The claim of a child, with the adoption of its session.
LEMMA Claims ==
    ASSUME NEW j, Sound(j), NEW r \in Owner, Has(j.open, r), NEW t, NEW n \in Nat, NEW fs, NEW pr,
           InOrder(Sessions(j), r, t, n, fs, pr), NEW a \in Agent,
           NEW c, c = Claim(j, a, r), NEW k, k = Adopt(c, a, r), NEW gs,
           gs = Adopting(fs, c, a, r)
    PROVE  /\ Sound(k) /\ Has(k.open, r) /\ InOrder(Sessions(k), r, t, n, gs, pr)
           /\ Owed(Ones(j.open), fs) => Owed(Ones(k.open), gs)
           /\ Attributed(j) => Attributed(k)
  <1>1. /\ Sound(c) /\ c.open = j.open /\ c.parked = j.parked /\ Sessions(c) = Sessions(j)
        /\ DOMAIN c.owners = DOMAIN j.owners \cup {a}
        /\ \A o \in DOMAIN c.owners : c.owners[o] = IF o = a THEN r ELSE j.owners[o]
    BY ClaimIs
  <1>2. Has(c.open, r) /\ InOrder(Sessions(c), r, t, n, fs, pr)
    BY <1>1
  <1>3. CASE ~Misrooted(c, a, r)
    <2>1. k = c
      BY <1>3 DEF Adopt
    <2>2. gs = Keeping(fs, DOMAIN fs \ {})
      <3>1. {x \in {a} : Misrooted(c, x, r)} = {}
        BY <1>3
      <3>2. {Orphan(c, o).name : o \in {x \in {a} : Misrooted(c, x, r)}} = {}
        BY <3>1
      <3> QED BY <3>2 DEF Adopting
    <2>3. InOrder(Sessions(k), r, t, n, gs, pr)
      BY <1>2, <2>1, <2>2, KeepingAll
    <2>4. Owed(Ones(j.open), fs) => Owed(Ones(k.open), gs)
      BY <1>1, <2>1, <2>2, OwedKeeping
    <2> QED BY <1>1, <1>2, <2>1, <2>3, <2>4 DEF Attributed
  <1>4. CASE Misrooted(c, a, r)
    <2> DEFINE s == Of(c.open, r)
               x == Orphan(c, a)
               d == Of(k.open, r)
    <2>1. gs = Keeping(fs, DOMAIN fs \ {x.name})
      <3>1. {y \in {a} : Misrooted(c, y, r)} = {a}
        BY <1>4
      <3>2. {Orphan(c, o).name : o \in {y \in {a} : Misrooted(c, y, r)}} = {Orphan(c, a).name}
        BY <3>1
      <3> QED BY <3>2 DEF Adopting
    <2>2. /\ Sound(k) /\ Has(k.open, r) /\ Elsewhere(c, k, a, r)
          /\ d = Merge(s, x) /\ x \in Sessions(c) /\ x.root = a
      BY <1>1, <1>2, <1>4, Adopts
    <2>3. /\ DOMAIN k.owners = DOMAIN c.owners
          /\ \A p \in DOMAIN c.owners :
                k.owners[p] = IF c.owners[p] = a THEN r ELSE c.owners[p]
      BY <1>1, <1>2, <1>4, Adopts
    <2>4. InOrder(Sessions(k), r, t, n, gs, pr)
      BY <1>1, <1>2, <1>4, <2>1, AdoptsInOrder
    <2>5. s \in Ones(c.open) /\ s.root = r /\ d \in Ones(k.open) /\ s \in Thing
      BY <1>1, <1>2, <2>2, OfRoot, ThingOf DEF Sound
    <2>6. d.name = s.name
      <3>1. Merge(s, x).name = s.name
        BY <2>5 DEF Merge, Thing
      <3> QED BY <2>2, <3>1
    <2> HIDE DEF s, x, d
    <2>7. ASSUME Owed(Ones(j.open), fs)
          PROVE  Owed(Ones(k.open), gs)
      <3> SUFFICES ASSUME NEW m \in DOMAIN gs, gs[m].ours /\ ~gs[m].ended
                   PROVE  \E u \in Ones(k.open) : u.name = m
        BY DEF Owed
      <3>1. m \in DOMAIN fs /\ m # x.name /\ gs[m] = fs[m]
        BY <2>1, KeepingFiles
      <3>2. PICK u \in Ones(c.open) : u.name = m
        BY <1>1, <2>7, <3>1 DEF Owed
      <3>3. CASE u.root = a
        <4>1. u = x
          BY <1>1, <2>2, <3>3, OneOfRoot, SessionsOnes
        <4> QED BY <3>1, <3>2, <4>1
      <3>4. CASE u.root = r
        <4>1. u = s
          BY <1>1, <2>5, <3>4, OnlyOne DEF Sound
        <4> QED BY <2>5, <2>6, <3>2, <4>1
      <3>5. CASE u.root # a /\ u.root # r
        BY <2>2, <3>2, <3>5 DEF Elsewhere
      <3> QED BY <3>3, <3>4, <3>5
    <2>8. Attributed(j) => Attributed(k)
      BY <1>1, <2>3 DEF Attributed
    <2> QED BY <2>2, <2>4, <2>7, <2>8
  <1> QED BY <1>3, <1>4

\* A spawn keeps the invariant, with or without the claim of a child.
LEMMA RecordSpawnKeeps ==
    ASSUME JournalInv, NEW p \in Owner, NEW child, NEW anchored \in BOOLEAN,
           child = {} \/ \E a \in Agent : child = {a} /\ p = Parent[a],
           RecordSpawn(p, child, anchored)
    PROVE  JournalInv'
  <1> DEFINE r  == SpawnRoot(journal, p, anchored)
             t  == frames'
             k0 == SessionFor(journal, r, t)
             c  == [k0 EXCEPT !.owners = [o \in DOMAIN @ \cup child |-> IF o \in child THEN r ELSE @[o]]]
             A  == {o \in child : Misrooted(c, o, r)}
             k1 == IF child = {} THEN k0 ELSE Adopt(c, CHOOSE o \in child : TRUE, r)
             k  == Land(k1, r, t)
             st == strayed \cup {o \in claimed : o = p /\ ~anchored}
  <1>1. /\ Frame(p) /\ claimed' = claimed \cup child /\ strayed' = st \ child
        /\ journal' = k
        /\ files' = Keeping(files, DOMAIN files \ {Orphan(c, o).name : o \in A})
        /\ UNCHANGED <<forgot, failed, pruned>>
    BY DEF RecordSpawn
  <1>2. Shaped /\ Ordered /\ Ending /\ Grouping /\ p \in Owner \cup {Nobody}
    BY DEF JournalInv
  <1>3. t = frames + 1 /\ frames \in Nat /\ t \in 1..MaxFrames /\ ~closed
    BY <1>1, <1>2, FrameIs
  <1>4. tape' = [i \in DOMAIN tape \cup {t} |-> IF i = t THEN p ELSE tape[i]]
    BY <1>1 DEF Frame
  <1>5. Sound(journal) /\ InOrder(Sessions(journal), Nobody, t, frames, files, pruned)
    BY <1>2, AnyFrame DEF Shaped, Ordered
  <1>6. r \in Root /\ r \in Owner
    BY <1>2, RootOfOwner DEF Root, SpawnRoot
  <1>7. /\ claimed \in SUBSET Agent /\ st \in SUBSET claimed
        /\ ~forgot => Grouped(journal, tape, claimed, st) /\ r \in Homes(claimed, st)[p]
    <2>1. claimed \in SUBSET Agent /\ st \in SUBSET claimed /\ strayed \subseteq st
      BY <1>2 DEF Shaped
    <2> SUFFICES ASSUME ~forgot
                 PROVE  Grouped(journal, tape, claimed, st) /\ r \in Homes(claimed, st)[p]
      BY <2>1
    <2>2. Grouped(journal, tape, claimed, strayed)
      BY <1>2, <1>3 DEF Grouping
    <2>3. \A i \in DOMAIN tape : tape[i] \in Owner \cup {Nobody}
      BY <1>2 DEF Shaped
    <2>4. ~anchored => (p \in claimed => p \in st) /\ r = p
      BY DEF SpawnRoot
    <2>5. anchored => r = RootOf(journal, p)
      BY DEF SpawnRoot
    <2> HIDE DEF st, r
    <2>6. Grouped(journal, tape, claimed, st)
      BY <2>1, <2>2, <2>3, StraysGrouped
    <2>7. ~anchored => r \in Homes(claimed, st)[p]
      BY <2>1, <2>4, HomesIs
    <2>8. anchored => r \in Homes(claimed, st)[p]
      BY <2>1, <2>5, <2>6, RootIs
    <2> QED BY <2>6, <2>7, <2>8
  <1> HIDE DEF st
  <1>17. ~forgot => r \notin claimed \ st
    BY <1>7, HomesUnclaimed
  <1> HIDE DEF r, t
  <1>8. Sound(k0) /\ Grows(journal, k0, r) /\ InOrder(Sessions(k0), r, t, frames, files, pruned)
    BY <1>3, <1>5, <1>6, OpenedFor
  <1> HIDE DEF k0
  <1>9. /\ Sound(k1) /\ Has(k1.open, r) /\ InOrder(Sessions(k1), r, t, frames, files', pruned)
        /\ ~failed => Owed(Ones(k1.open), files')
        /\ \A o \in DOMAIN k1.owners : o \in Agent /\ k1.owners[o] \in Owner
        /\ ~forgot => /\ Grouped(k1, tape, claimed', strayed') /\ r \notin claimed' \ strayed'
                      /\ r \in Homes(claimed', strayed')[p]
        /\ claimed' \in SUBSET Agent /\ strayed' \in SUBSET claimed'
    <2>1. Has(k0.open, r) /\ k0.owners = journal.owners
      BY <1>8 DEF Grows
    <2>2. ~failed => Owed(Ones(k0.open), files)
      BY <1>2, <1>8 DEF Ending, Owed, Grows
    <2>3. ~forgot => Grouped(k0, tape, claimed, st)
      BY <1>7, <1>8, <1>17, GrowsGrouped
    <2>4. CASE child = {}
      <3>1. k1 = k0 /\ claimed' = claimed /\ strayed' = st
        BY <1>1, <2>4
      <3>2. files' = Keeping(files, DOMAIN files \ {})
        <4>1. A = {}
          BY <2>4
        <4>2. {Orphan(c, o).name : o \in A} = {}
          BY <4>1
        <4> QED BY <1>1, <4>2
      <3> HIDE DEF k1
      <3>3. InOrder(Sessions(k1), r, t, frames, files', pruned)
        BY <1>8, <3>1, <3>2, KeepingAll
      <3>4. ~failed => Owed(Ones(k1.open), files')
        BY <2>2, <3>1, <3>2, OwedKeeping
      <3>5. \A o \in DOMAIN k1.owners : o \in Agent /\ k1.owners[o] \in Owner
        BY <1>2, <2>1, <3>1 DEF Shaped
      <3>6. claimed' \in SUBSET Agent /\ strayed' \in SUBSET claimed'
        BY <1>7, <3>1
      <3>7. ~forgot => /\ Grouped(k1, tape, claimed', strayed') /\ r \notin claimed' \ strayed'
                       /\ r \in Homes(claimed', strayed')[p]
        BY <1>7, <1>17, <2>3, <3>1
      <3> QED BY <1>8, <2>1, <3>1, <3>3, <3>4, <3>5, <3>6, <3>7
    <2>5. CASE \E a \in Agent : child = {a} /\ p = Parent[a]
      <3>1. PICK a \in Agent : child = {a} /\ p = Parent[a]
        BY <2>5
      <3>2. c = Claim(k0, a, r)
        BY <3>1 DEF Claim
      <3>3. k1 = Adopt(c, a, r)
        <4>1. child # {} /\ (CHOOSE o \in child : TRUE) = a
          BY <3>1
        <4> HIDE DEF c
        <4> QED BY <4>1
      <3>4. files' = Adopting(files, c, a, r)
        <4> HIDE DEF c
        <4> QED BY <1>1, <3>1 DEF Adopting
      <3> HIDE DEF c, k1
      <3>5. /\ Sound(k1) /\ Has(k1.open, r) /\ InOrder(Sessions(k1), r, t, frames, files', pruned)
            /\ Owed(Ones(k0.open), files) => Owed(Ones(k1.open), files')
            /\ Attributed(k0) => Attributed(k1)
        <4>0. /\ Sound(k0) /\ r \in Owner /\ Has(k0.open, r) /\ frames \in Nat
              /\ InOrder(Sessions(k0), r, t, frames, files, pruned)
          BY <1>3, <1>6, <1>8, <2>1
        <4>1. Sound(k1)
          BY <4>0, <3>2, <3>3, <3>4, Claims
        <4>2. Has(k1.open, r)
          BY <4>0, <3>2, <3>3, <3>4, Claims
        <4>3. InOrder(Sessions(k1), r, t, frames, files', pruned)
          BY <4>0, <3>2, <3>3, <3>4, Claims
        <4>4. Owed(Ones(k0.open), files) => Owed(Ones(k1.open), files')
          BY <4>0, <3>2, <3>3, <3>4, Claims
        <4>5. Attributed(k0) => Attributed(k1)
          BY <4>0, <3>2, <3>3, <3>4, Claims
        <4> QED BY <4>1, <4>2, <4>3, <4>4, <4>5
      <3>6. \A o \in DOMAIN k1.owners : o \in Agent /\ k1.owners[o] \in Owner
        BY <1>2, <2>1, <3>5 DEF Shaped, Attributed
      <3>7. /\ claimed' = claimed \cup {a} /\ claimed' \in SUBSET Agent
            /\ strayed' = st \ {a} /\ strayed' \in SUBSET claimed'
        BY <1>1, <1>7, <3>1
      <3>8. ASSUME ~forgot
            PROVE  /\ Grouped(k1, tape, claimed', strayed') /\ r \notin claimed' \ strayed'
                   /\ r \in Homes(claimed', strayed')[p]
        <4>1. /\ claimed \in SUBSET Agent /\ r \in Homes(claimed, st)[Parent[a]]
              /\ p = Parent[a] /\ Grouped(k0, tape, claimed, st)
          BY <1>7, <2>3, <3>1, <3>8
        <4>2. \A i \in DOMAIN tape : tape[i] \in Owner \cup {Nobody}
          BY <1>2 DEF Shaped
        <4> DEFINE after == Homes(claimed \cup {a}, st \ {a})
                   shut  == (claimed \cup {a}) \ (st \ {a})
        <4>3. /\ Grouped(k1, tape, claimed \cup {a}, st \ {a})
              /\ r \in after[Parent[a]] /\ r \notin shut
          <5> DEFINE here == Homes(claimed, st)[Parent[a]]
          <5>1. /\ claimed \in SUBSET Agent /\ Sound(k0) /\ r \in here /\ Has(k0.open, r)
                /\ Grouped(k0, tape, claimed, st)
            BY <1>8, <2>1, <4>1
          <5>2. ASSUME NEW R \in here, Has(k0.open, R), NEW C, C = Claim(k0, a, R),
                       NEW K, K = Adopt(C, a, R)
                PROVE  /\ Grouped(K, tape, claimed \cup {a}, st \ {a})
                       /\ R \in after[Parent[a]] /\ R \notin shut
            BY <4>2, <5>1, <5>2, ClaimGrouped
          <5> HIDE DEF here, after, shut
          <5> QED BY <3>2, <3>3, <5>1, <5>2
        <4> QED BY <3>7, <4>1, <4>3
      <3> QED BY <2>2, <3>5, <3>6, <3>7, <3>8
    <2> QED BY <2>4, <2>5
  <1>10. ~scope => files' = <<>>
    <2>1. files = <<>> => files' = <<>>
      <3> DEFINE N == DOMAIN files \ {Orphan(c, o).name : o \in A}
      <3>1. files' = Keeping(files, N)
        BY <1>1
      <3> HIDE DEF N
      <3> QED BY <3>1, KeepingNone
    <2> QED BY <1>2, <2>1 DEF Shaped
  <1> HIDE DEF k1
  <1>11. /\ Sound(k) /\ Grows(k1, k, r) /\ InOrder(Sessions(k), Nobody, t, t, files', pruned)
         /\ \E s \in Sessions(k) : s.root = r /\ t \in s.frames
    <2>1. k = Land(k1, r, t)
      OBVIOUS
    <2> HIDE DEF k
    <2>2. Sound(k) /\ Grows(k1, k, r) /\ InOrder(Sessions(k), Nobody, t, t, files', pruned)
      BY <1>3, <1>9, <2>1, LandedIn
    <2>3. \E s \in Sessions(k) : s.root = r /\ t \in s.frames
      BY <1>3, <1>9, <2>1, LandedIn
    <2> QED BY <2>2, <2>3
  <1> HIDE DEF k
  <1>12. /\ Sound(journal') /\ InOrder(Sessions(journal'), Nobody, t, t, files', pruned')
         /\ pruned' = pruned /\ forgot' = forgot /\ failed' = failed
    <2>1. journal' = k /\ pruned' = pruned /\ forgot' = forgot /\ failed' = failed
      BY <1>1
    <2>2. Sound(journal')
      BY <1>11, <2>1
    <2>3. InOrder(Sessions(journal'), Nobody, t, t, files', pruned')
      BY <1>11, <2>1
    <2> QED BY <2>1, <2>2, <2>3
  <1>13. ~failed' => Owed(Ones(journal'.open), files')
    <2>1. ~failed => Owed(Ones(k.open), files')
      BY <1>9, <1>11 DEF Owed, Grows
    <2>2. journal' = k /\ failed' = failed
      BY <1>1
    <2> QED BY <2>1, <2>2
  <1>14. ~forgot' => Grouped(journal', tape', claimed', strayed')
    <2> SUFFICES ASSUME ~forgot
                 PROVE  Grouped(k, tape', claimed', strayed')
      BY <1>1
    <2>1. Grouped(k, tape, claimed', strayed')
      BY <1>9, <1>11, GrowsGrouped
    <2> QED BY <1>4, <1>9, <1>11, <2>1, TapeGrouped
  <1>15. \A o \in DOMAIN journal'.owners : o \in Agent /\ journal'.owners[o] \in Owner
    BY <1>1, <1>9, <1>11 DEF Grows
  <1>16. forgot' \in BOOLEAN /\ failed' \in BOOLEAN
    BY <1>2, <1>12 DEF Shaped, Flags
  <1> QED BY <1>1, <1>2, <1>9, <1>10, <1>12, <1>13, <1>14, <1>15, <1>16, AfterFrame DEF t

-----------------------------------------------------------------------------
(***************************************************************************)
(* Flushes, gestures and failures.                                         *)
(***************************************************************************)
\* The empty journal, with no sessions and no files.
LEMMA EmptyIs ==
    /\ Sound(EmptyJournal) /\ Sessions(EmptyJournal) = {}
    /\ DOMAIN EmptyJournal.owners = {} /\ EmptyJournal.open = <<>>
    /\ Ones(EmptyJournal.open) = {}
    /\ Grouped(EmptyJournal, <<>>, {}, {})
  <1>1. /\ EmptyJournal.open = <<>> /\ EmptyJournal.parked = <<>> /\ EmptyJournal.owners = <<>>
        /\ EmptyJournal = [open |-> EmptyJournal.open, parked |-> EmptyJournal.parked,
                           owners |-> EmptyJournal.owners]
    BY DEF EmptyJournal
  <1>2. DOMAIN <<>> = {} /\ <<>> \in Seq(Thing) /\ Len(<<>>) = 0
    OBVIOUS
  <1>3. Ones(<<>>) = {} /\ OneRoot(<<>>)
    BY <1>2 DEF Ones, OneRoot
  <1>4. 0 <= MaxFiles
    BY JournalAssumption
  <1>5. Sound(EmptyJournal)
    BY <1>1, <1>2, <1>3, <1>4 DEF Sound
  <1>6. Sessions(EmptyJournal) = {}
    BY <1>1, <1>3, SessionsOnes
  <1>7. Grouped(EmptyJournal, <<>>, {}, {})
    BY <1>1, <1>2, <1>6 DEF Grouped
  <1> QED BY <1>1, <1>2, <1>3, <1>5, <1>6, <1>7

LEMMA EmptyInOrder ==
    ASSUME NEW n, NEW fs, NEW pr, Filed({}, Nobody, 0, fs),
           \A m \in DOMAIN fs : fs[m].frames \subseteq 1..n
    PROVE  InOrder({}, Nobody, 0, n, fs, pr)
  BY DEF InOrder, Apart, Kept, Past

LEMMA NoFiles ==
    ASSUME NEW L, NEW r, NEW t, NEW n, NEW fs, NEW pr, InOrder(L, r, t, n, fs, pr)
    PROVE  InOrder(L, r, t, n, <<>>, pr \cup DOMAIN fs)
  <1>1. DOMAIN <<>> = {}
    OBVIOUS
  <1>2. Filed(L, r, t, <<>>)
    BY <1>1 DEF Filed
  <1>3. Kept(L, r, <<>>, pr \cup DOMAIN fs)
    BY DEF InOrder, Kept
  <1>4. Past(L, <<>>, n)
    BY <1>1 DEF InOrder, Past
  <1> QED BY <1>2, <1>3, <1>4 DEF InOrder

\* The invariant holds at first, and each action keeps it.
LEMMA InitKeeps == Init => JournalInv
  <1> SUFFICES ASSUME Init
               PROVE  JournalInv
    OBVIOUS
  <1>1. /\ journal = EmptyJournal /\ recording = FALSE /\ closed = FALSE /\ timer = FALSE
        /\ files = <<>> /\ scope = TRUE /\ stamped \in BOOLEAN /\ frames = 0 /\ gestures = 0
        /\ tape = <<>> /\ claimed = {} /\ strayed = {} /\ forgot = FALSE /\ failed = FALSE /\ pruned = {}
    BY DEF Init
  <1>2. DOMAIN <<>> = {}
    OBVIOUS
  <1>3. 0 \in 0..MaxFrames /\ 0 \in 0..MaxGestures
    BY JournalAssumption
  <1>4. Shaped
    BY <1>1, <1>2, <1>3, EmptyIs DEF Shaped, Flags
  <1>5. Ordered
    <2>1. Filed({}, Nobody, 0, <<>>)
      BY <1>2 DEF Filed
    <2>2. InOrder({}, Nobody, 0, 0, <<>>, {})
      BY <1>2, <2>1, EmptyInOrder
    <2> QED BY <1>1, <2>2, EmptyIs DEF Ordered
  <1>6. Ending
    BY <1>1, <1>2, EmptyIs DEF Ending, Owed
  <1>7. Grouping
    BY <1>1, EmptyIs DEF Grouping
  <1> QED BY <1>4, <1>5, <1>6, <1>7 DEF JournalInv

LEMMA FlushKeeps ==
    ASSUME JournalInv, FlushDirty, UNCHANGED gestures
    PROVE  JournalInv'
  <1>1. /\ timer' = FALSE /\ journal' = Flushed(journal)
        /\ failed' = (failed \/ (~scope /\ Dirty(journal) # {}))
        /\ files' = Written(files, Dirty(journal), FALSE)
        /\ recording' = recording /\ closed' = closed /\ scope' = scope /\ stamped' = stamped
        /\ frames' = frames /\ tape' = tape /\ claimed' = claimed /\ strayed' = strayed /\ forgot' = forgot
        /\ gestures' = gestures
    BY DEF FlushDirty, Store
  <1>2. Shaped /\ Ordered /\ Ending /\ Grouping
    BY DEF JournalInv
  <1>3. Sound(journal) /\ InOrder(Sessions(journal), Nobody, 0, frames, files, pruned)
    BY <1>2 DEF Shaped, Ordered
  <1>4. Sound(journal') /\ journal'.owners = journal.owners
    BY <1>3, FlushInOrder
  <1>5. InOrder(Sessions(journal'), Nobody, 0, frames, files', pruned')
    BY <1>3, FlushInOrder
  <1>6. ~failed' => ~failed /\ (Owed(Ones(journal.open), files) => Owed(Ones(journal'.open), files'))
    BY <1>3, FlushInOrder
  <1>7. journal.open = <<>> => journal'.open = <<>>
    BY <1>3, FlushInOrder
  <1>8. Flags'
    BY <1>1, <1>2 DEF Shaped, Flags
  <1>9. ~scope => files' = <<>>
    BY <1>1, <1>2 DEF Written, Shaped
  <1>10. Shaped'
    BY <1>1, <1>2, <1>4, <1>8, <1>9 DEF Shaped
  <1>11. Ordered'
    BY <1>1, <1>5 DEF Ordered
  <1>12. Ending'
    BY <1>1, <1>2, <1>6, <1>7 DEF Ending
  <1>13. Grouping'
    <2> SUFFICES ASSUME Grouped(journal, tape, claimed, strayed)
                 PROVE  Grouped(journal', tape, claimed, strayed)
      BY <1>1, <1>2 DEF Grouping
    <2> DEFINE D == Dirty(journal)
               L == Sessions(journal)
    <2>1. \A s : s \in Sessions(journal') <=> s \in AfterWriting(L, D)
      BY <1>1, <1>3, FlushedIs
    <2>2. \A s \in L : s \in Thing
      BY <1>1, <1>3, FlushedIs
    <2> HIDE DEF D, L
    <2>3. \A s \in L : \E u \in Sessions(journal') : u.root = s.root /\ s.frames \subseteq u.frames
      <3> TAKE s \in L
      <3>1. CASE s \in D
        BY <2>1, <2>2, <3>1, Saves, AfterOne
      <3>2. CASE s \notin D
        BY <2>1, <3>2, AfterOne
      <3> QED BY <3>1, <3>2
    <2>4. \A u \in Sessions(journal') : \E s \in L : s.root = u.root
      BY <2>1, <2>2, Saves, AfterOne
    <2>5. Bucket \notin claimed
      BY <1>2, JournalAssumption DEF Shaped, Owner
    <2> QED BY <1>4, <2>3, <2>4, <2>5, StaysGrouped DEF L
  <1> QED BY <1>10, <1>11, <1>12, <1>13 DEF JournalInv

LEMMA StartKeeps ==
    ASSUME JournalInv, StartRecording
    PROVE  JournalInv'
  <1>1. /\ gestures < MaxGestures /\ gestures' = gestures + 1 /\ recording' = TRUE
        /\ journal' = journal /\ closed' = closed /\ timer' = timer /\ files' = files
        /\ scope' = scope /\ stamped' = stamped /\ frames' = frames /\ tape' = tape
        /\ claimed' = claimed /\ strayed' = strayed /\ forgot' = forgot /\ failed' = failed /\ pruned' = pruned
    BY DEF StartRecording, Gesture
  <1>2. gestures' \in 0..MaxGestures
    BY <1>1, JournalAssumption DEF JournalInv, Shaped
  <1>3. Shaped'
    BY <1>1, <1>2 DEF JournalInv, Shaped, Flags
  <1>4. Ordered' /\ Ending' /\ Grouping'
    BY <1>1 DEF JournalInv, Ordered, Ending, Grouping
  <1> QED BY <1>3, <1>4 DEF JournalInv

LEMMA StopKeeps ==
    ASSUME JournalInv, StopRecording
    PROVE  JournalInv'
  <1>1. /\ gestures < MaxGestures /\ gestures' = gestures + 1 /\ recording' = FALSE
        /\ journal' = EmptyJournal
        /\ Store(Written(files, OpenOnes, TRUE), TRUE)
        /\ failed' = (failed \/ (~scope /\ OpenOnes # {}))
        /\ closed' = closed /\ timer' = timer /\ scope' = scope /\ stamped' = stamped
        /\ frames' = frames /\ tape' = <<>> /\ claimed' = {} /\ strayed' = {} /\ forgot' = FALSE
    BY DEF StopRecording, Gesture, Forget
  <1>2. gestures' \in 0..MaxGestures
    BY <1>1, JournalAssumption DEF JournalInv, Shaped
  <1>3. Sound(journal) /\ InOrder(Sessions(journal), Nobody, 0, frames, files, pruned)
    BY DEF JournalInv, Shaped, Ordered
  <1>4. InOrder(AfterWriting(Sessions(journal), OpenOnes), Nobody, 0, frames, files', pruned')
    BY <1>1, <1>3, EndsAll
  <1>5. ~failed' => ~failed /\ (Owed(Ones(journal.open), files) => Owed({}, files'))
    BY <1>1, <1>3, EndsAll
  <1>6. ~scope => files' = <<>>
    <2> DEFINE fs == Written(files, OpenOnes, TRUE)
    <2>1. ~scope => fs = <<>>
      BY DEF Written, JournalInv, Shaped
    <2>2. files' = Keeping(fs, Newest(fs))
      BY <1>1 DEF Store
    <2> HIDE DEF fs
    <2> QED BY <2>1, <2>2, KeepingNone
  <1>7. DOMAIN <<>> = {}
    OBVIOUS
  <1>8. Shaped'
    <2>1. Flags'
      BY <1>1 DEF JournalInv, Shaped, Flags
    <2> QED BY <1>1, <1>2, <1>6, <1>7, <2>1, EmptyIs DEF JournalInv, Shaped
  <1>9. Ordered'
    <2>1. {} \in SUBSET AfterWriting(Sessions(journal), OpenOnes)
      OBVIOUS
    <2>2. InOrder({}, Nobody, 0, frames, files', pruned')
      BY <1>4, <2>1, Fewer
    <2> QED BY <1>1, <2>2, EmptyIs DEF Ordered
  <1>10. Ending' /\ Grouping'
    BY <1>1, <1>5, EmptyIs DEF JournalInv, Ending, Grouping
  <1> QED BY <1>8, <1>9, <1>10 DEF JournalInv

LEMMA ClearKeeps ==
    ASSUME JournalInv, ClearAll
    PROVE  JournalInv'
  <1>1. /\ gestures < MaxGestures /\ gestures' = gestures + 1
        /\ journal' = EmptyJournal /\ files' = <<>>
        /\ recording' = recording /\ closed' = closed /\ timer' = timer /\ scope' = scope
        /\ stamped' = stamped /\ frames' = frames /\ failed' = failed /\ pruned' = pruned
        /\ tape' = <<>> /\ claimed' = {} /\ strayed' = {} /\ forgot' = FALSE
    BY DEF ClearAll, Gesture, Forget
  <1>2. gestures' \in 0..MaxGestures
    BY <1>1, JournalAssumption DEF JournalInv, Shaped
  <1>3. DOMAIN <<>> = {}
    OBVIOUS
  <1>4. Shaped'
    <2>1. Flags'
      BY <1>1 DEF JournalInv, Shaped, Flags
    <2> QED BY <1>1, <1>2, <1>3, <2>1, EmptyIs DEF JournalInv, Shaped
  <1>5. Ordered'
    <2>1. Filed({}, Nobody, 0, <<>>)
      BY <1>3 DEF Filed
    <2>2. InOrder({}, Nobody, 0, frames, <<>>, pruned)
      BY <1>3, <2>1, EmptyInOrder
    <2> QED BY <1>1, <2>2, EmptyIs DEF Ordered
  <1>6. Ending' /\ Grouping'
    BY <1>1, <1>3, EmptyIs DEF Ending, Owed, Grouping
  <1> QED BY <1>4, <1>5, <1>6 DEF JournalInv

LEMMA ShutdownKeeps ==
    ASSUME JournalInv, Shutdown
    PROVE  JournalInv'
  <1> DEFINE k == Closing(journal)[Len(journal.open)]
  <1>1. /\ gestures < MaxGestures /\ gestures' = gestures + 1
        /\ closed' = TRUE /\ timer' = FALSE /\ journal' = k
        /\ Store(Written(files, OpenOnes, TRUE), TRUE)
        /\ failed' = (failed \/ (~scope /\ OpenOnes # {}))
        /\ recording' = recording /\ scope' = scope /\ stamped' = stamped
        /\ frames' = frames /\ tape' = <<>> /\ claimed' = {} /\ strayed' = {} /\ forgot' = FALSE
    BY DEF Shutdown, Gesture, Forget
  <1>2. gestures' \in 0..MaxGestures
    BY <1>1, JournalAssumption DEF JournalInv, Shaped
  <1>3. Sound(journal) /\ InOrder(Sessions(journal), Nobody, 0, frames, files, pruned)
    BY DEF JournalInv, Shaped, Ordered
  <1>4. InOrder(AfterWriting(Sessions(journal), OpenOnes), Nobody, 0, frames, files', pruned')
    BY <1>1, <1>3, EndsAll
  <1>5. ~failed' => ~failed /\ (Owed(Ones(journal.open), files) => Owed({}, files'))
    BY <1>1, <1>3, EndsAll
  <1>6. /\ Sound(k)
        /\ \A s \in Sessions(k) : s \in AfterWriting(Sessions(journal), Ones(journal.open))
        /\ \A o \in DOMAIN k.owners : o \in DOMAIN journal.owners /\ k.owners[o] = journal.owners[o]
        /\ journal.open = <<>> => k = journal
    BY <1>3, ClosingIs
  <1> HIDE DEF k
  <1>7. ~scope => files' = <<>>
    <2> DEFINE fs == Written(files, OpenOnes, TRUE)
    <2>1. ~scope => fs = <<>>
      BY DEF Written, JournalInv, Shaped
    <2>2. files' = Keeping(fs, Newest(fs))
      BY <1>1 DEF Store
    <2> HIDE DEF fs
    <2> QED BY <2>1, <2>2, KeepingNone
  <1>8. DOMAIN <<>> = {}
    OBVIOUS
  <1>9. Shaped'
    <2>1. Flags'
      BY <1>1 DEF JournalInv, Shaped, Flags
    <2> QED BY <1>1, <1>2, <1>6, <1>7, <1>8, <2>1 DEF JournalInv, Shaped
  <1>10. Ordered'
    <2>1. OpenOnes = Ones(journal.open)
      BY DEF OpenOnes, Ones
    <2>2. Sessions(k) \in SUBSET AfterWriting(Sessions(journal), OpenOnes)
      BY <1>6, <2>1
    <2>3. InOrder(Sessions(k), Nobody, 0, frames, files', pruned')
      BY <1>4, <2>2, Fewer
    <2> QED BY <1>1, <2>3 DEF Ordered
  <1>11. Ending'
    <2>1. ~recording' => journal'.open = <<>>
      BY <1>1, <1>6 DEF JournalInv, Ending
    <2>2. ~failed' => Owed(Ones(journal'.open), files')
      <3>1. ~failed' => Owed({}, files')
        BY <1>5 DEF JournalInv, Ending
      <3> QED BY <3>1 DEF Owed
    <2> QED BY <2>1, <2>2 DEF Ending
  <1>12. Grouping'
    BY <1>1 DEF Grouping
  <1> QED BY <1>9, <1>10, <1>11, <1>12 DEF JournalInv

LEMMA RestartKeeps ==
    ASSUME JournalInv, Restart
    PROVE  JournalInv'
  <1> DEFINE fs == [n \in DOMAIN files |-> [files[n] EXCEPT !.ours = FALSE]]
  <1>1. /\ gestures < MaxGestures /\ gestures' = gestures + 1
        /\ journal' = EmptyJournal /\ Store(fs, TRUE)
        /\ recording' = FALSE /\ closed' = FALSE /\ timer' = FALSE
        /\ scope' = scope /\ stamped' = stamped /\ frames' = frames /\ failed' = failed
        /\ tape' = <<>> /\ claimed' = {} /\ strayed' = {} /\ forgot' = FALSE
    BY DEF Restart, Gesture, Forget
  <1>2. gestures' \in 0..MaxGestures
    BY <1>1, JournalAssumption DEF JournalInv, Shaped
  <1>3. InOrder({}, Nobody, 0, frames, files, pruned)
    <2>1. {} \in SUBSET Sessions(journal)
      OBVIOUS
    <2> QED BY <2>1, Fewer DEF JournalInv, Ordered
  <1>4. /\ DOMAIN fs = DOMAIN files
        /\ \A n \in DOMAIN files :
              fs[n] = [frames |-> files[n].frames, ended |-> files[n].ended, ours |-> FALSE]
    <2>1. \A n \in DOMAIN files : files[n] = [frames |-> files[n].frames,
                                               ended |-> files[n].ended, ours |-> files[n].ours]
      BY <1>3 DEF InOrder, Filed
    <2>2. \A n \in DOMAIN files : fs[n] = [files[n] EXCEPT !.ours = FALSE]
      OBVIOUS
    <2> HIDE DEF fs
    <2>3. ASSUME NEW n \in DOMAIN files
          PROVE  fs[n] = [frames |-> files[n].frames, ended |-> files[n].ended, ours |-> FALSE]
      <3>1. files[n] = [frames |-> files[n].frames,
                        ended |-> files[n].ended, ours |-> files[n].ours]
        BY <2>1
      <3>2. fs[n] = [files[n] EXCEPT !.ours = FALSE]
        BY <2>2
      <3> QED BY <3>1, <3>2
    <2> QED BY <2>3 DEF fs
  <1> HIDE DEF fs
  <1>5. InOrder({}, Nobody, 0, frames, fs, pruned)
    <2>1. \A n \in DOMAIN files : fs[n].frames = files[n].frames
      BY <1>4
    <2>2. \A n \in DOMAIN files : fs[n] = [frames |-> fs[n].frames, ended |-> fs[n].ended,
                                            ours |-> fs[n].ours]
      BY <1>4
    <2>3. Filed({}, Nobody, 0, fs)
      BY <1>3, <1>4, <2>1, <2>2 DEF InOrder, Filed
    <2>4. \A m \in DOMAIN fs : fs[m].frames \subseteq 1..frames
      BY <1>3, <1>4, <2>1 DEF InOrder, Past
    <2> QED BY <2>3, <2>4, EmptyInOrder
  <1>6. InOrder({}, Nobody, 0, frames, files', pruned')
    BY <1>1, <1>5, Stores
  <1>7. Owed({}, files')
    <2>1. \A n \in DOMAIN fs : ~fs[n].ours
      BY <1>4
    <2>2. Owed({}, fs)
      BY <2>1 DEF Owed
    <2> QED BY <1>1, <1>5, <2>2, Stores
  <1>8. ~scope => files' = <<>>
    <2>1. ~scope => fs = <<>>
      BY DEF fs, JournalInv, Shaped
    <2>2. files' = Keeping(fs, Newest(fs))
      BY <1>1 DEF Store
    <2> QED BY <2>1, <2>2, KeepingNone
  <1>9. DOMAIN <<>> = {}
    OBVIOUS
  <1>10. Shaped'
    <2>1. Flags'
      BY <1>1 DEF JournalInv, Shaped, Flags
    <2> QED BY <1>1, <1>2, <1>8, <1>9, <2>1, EmptyIs DEF JournalInv, Shaped
  <1>11. Ordered' /\ Ending' /\ Grouping'
    BY <1>1, <1>6, <1>7, EmptyIs DEF Ordered, Ending, Grouping
  <1> QED BY <1>10, <1>11 DEF JournalInv

LEMMA MoveScopeKeeps ==
    ASSUME JournalInv, MoveScope
    PROVE  JournalInv'
  <1>1. /\ gestures < MaxGestures /\ gestures' = gestures + 1
        /\ scope' = ~scope /\ files' = (IF scope THEN <<>> ELSE files)
        /\ pruned' = pruned \cup DOMAIN files
        /\ journal' = journal /\ recording' = recording /\ closed' = closed /\ timer' = timer
        /\ stamped' = stamped /\ frames' = frames /\ tape' = tape /\ claimed' = claimed
        /\ strayed' = strayed /\ forgot' = forgot /\ failed' = failed
    BY DEF MoveScope, Gesture
  <1>2. gestures' \in 0..MaxGestures
    BY <1>1, JournalAssumption DEF JournalInv, Shaped
  <1>3. DOMAIN <<>> = {}
    OBVIOUS
  <1>4. Shaped'
    <2>1. Flags'
      BY <1>1 DEF JournalInv, Shaped, Flags
    <2> QED BY <1>1, <1>2, <2>1 DEF JournalInv, Shaped
  <1>5. files' = <<>>
    BY <1>1 DEF JournalInv, Shaped
  <1>6. Ordered'
    BY <1>1, <1>5, NoFiles DEF JournalInv, Ordered
  <1>7. Ending' /\ Grouping'
    BY <1>1, <1>3, <1>5 DEF JournalInv, Ending, Owed, Grouping
  <1> QED BY <1>4, <1>6, <1>7 DEF JournalInv

LEMMA NextKeeps ==
    ASSUME JournalInv, [Next]_vars
    PROVE  JournalInv'
  <1>1. CASE \E o \in Owner, terminal \in BOOLEAN : RecordActivity(o, terminal)
    BY <1>1, RecordActivityKeeps
  <1>2. CASE \E sid \in Main \cup {Nobody} : RecordOwnerless(sid)
    BY <1>2, RecordOwnerlessKeeps
  <1>3. CASE \E p \in Owner, anchored \in BOOLEAN : RecordSpawn(p, {}, anchored)
    BY <1>3, RecordSpawnKeeps
  <1>4. CASE \E o \in Agent, anchored \in BOOLEAN : RecordSpawn(Parent[o], {o}, anchored)
    <2>1. PICK o \in Agent, anchored \in BOOLEAN : RecordSpawn(Parent[o], {o}, anchored)
      BY <1>4
    <2>2. Parent[o] \in Owner
      BY JournalAssumption
    <2> QED BY <2>1, <2>2, RecordSpawnKeeps
  <1>5. CASE FlushTimer \/ FlushNow
    BY <1>5, FlushKeeps DEF FlushTimer, FlushNow
  <1>6. CASE StartRecording
    BY <1>6, StartKeeps
  <1>7. CASE StopRecording
    BY <1>7, StopKeeps
  <1>8. CASE ClearAll
    BY <1>8, ClearKeeps
  <1>9. CASE Shutdown
    BY <1>9, ShutdownKeeps
  <1>10. CASE Restart
    BY <1>10, RestartKeeps
  <1>11. CASE MoveScope
    BY <1>11, MoveScopeKeeps
  <1>12. CASE UNCHANGED vars
    BY <1>12 DEF vars, JournalInv, Shaped, Flags, Ordered, Ending, Grouping
  <1> QED BY <1>1, <1>2, <1>3, <1>4, <1>5, <1>6, <1>7, <1>8, <1>9, <1>10, <1>11, <1>12 DEF Next

-----------------------------------------------------------------------------
(***************************************************************************)
(* The theorems.                                                           *)
(***************************************************************************)
\* The invariant holds of the specification.
LEMMA JournalInvariant == FairSpec => []JournalInv
  <1>1. Init => JournalInv
    BY InitKeeps
  <1>2. JournalInv /\ [Next]_vars => JournalInv'
    BY NextKeeps
  <1> QED BY <1>1, <1>2, PTL DEF FairSpec

\* What it says of two sessions, with no frame on its way.
LEMMA ApartSessions ==
    ASSUME JournalInv
    PROVE  /\ \A s \in Sessions(journal) : /\ s \in Thing /\ s.start <= s.last
                                           /\ s.start \in s.frames /\ s.root # Nobody
                                           /\ s.name # NoName => s.name[1] \in s.frames
           /\ \A s, u \in Sessions(journal) :
                 s # u => s.root # u.root /\ s.frames \cap u.frames = {}
  <1>1. Apart(Sessions(journal), Nobody, 0)
    BY DEF JournalInv, Ordered, InOrder
  <1>2. \A s \in Sessions(journal) : s \in Thing /\ s.root # Nobody
    BY <1>1, NobodyHasNone DEF Apart
  <1>3. \A s \in Sessions(journal) : Holds(s, Nobody, 0) = s.frames
    BY <1>2 DEF Holds
  <1> QED BY <1>1, <1>2, <1>3 DEF Apart

\* A frame of the tape is in one session: another one would share it.
LEMMA GroupsNow ==
    ASSUME JournalInv
    PROVE  GroupsLikeTheTape
  <1> SUFFICES ASSUME ~forgot, NEW i \in DOMAIN tape
               PROVE  /\ Cardinality({s \in Sessions(journal) : i \in s.frames}) = 1
                      /\ tape[i] # Nobody =>
                            \E s \in Sessions(journal) : i \in s.frames
                                                         /\ s.root \in Lookback[tape[i]]
    BY DEF GroupsLikeTheTape
  <1>1. ~closed
    BY DEF JournalInv, Shaped
  <1>2. Grouped(journal, tape, claimed, strayed)
    BY <1>1 DEF JournalInv, Grouping
  <1>3. PICK s \in Sessions(journal) :
            i \in s.frames /\ (tape[i] # Nobody => s.root \in Homes(claimed, strayed)[tape[i]])
    BY <1>2 DEF Grouped
  <1>4. \A u \in Sessions(journal) : i \in u.frames => u = s
    BY <1>3, ApartSessions
  <1>5. {u \in Sessions(journal) : i \in u.frames} = {s}
    BY <1>3, <1>4
  <1>6. Cardinality({s}) = 1
    BY FS_Singleton
  <1> QED BY <1>3, <1>5, <1>6, LookbackIs

\* Frames of a tree of owners, in whatever order the hooks' processes race
\* and claims come (sessionFor, adoptMisrootedOwner, retainForReopen,
\* finalize): while nothing was forgotten, each frame of the recording is in
\* exactly one session: that of the root the whole tape gives its owner, or
\* of a claimed agent on the way up that spawned without a parent node.
THEOREM JournalGroups == FairSpec => []GroupsLikeTheTape
  <1>1. JournalInv => GroupsLikeTheTape
    BY GroupsNow
  <1> QED BY <1>1, JournalInvariant, PTL

\* After any mix of flushes, ends, adoptions, sweeps, restarts and failed
\* writes (writeSession, prune, mergeOrphanInto): what a clean session holds
\* is in its file, unless the sweep took it, and no frame is in two files.
THEOREM JournalFiles == FairSpec => []FilesAreTheSessions
  <1>1. ASSUME JournalInv
        PROVE  FilesAreTheSessions
    <2>1. InOrder(Sessions(journal), Nobody, 0, frames, files, pruned)
      BY <1>1 DEF JournalInv, Ordered
    <2>2. \A s \in Sessions(journal) : s.root # Nobody
      BY <1>1, ApartSessions
    <2> QED BY <2>1, <2>2 DEF InOrder, Filed, Kept, FilesAreTheSessions
  <1> QED BY <1>1, JournalInvariant, PTL

\* A recording that has stopped, by the operator or with the process, leaves
\* no file of this process without its end (setRecording, shutdown), unless
\* a write failed.
THEOREM JournalEnds == FairSpec => []StoppedIsEnded
  <1>1. ASSUME JournalInv
        PROVE  StoppedIsEnded
    <2> SUFFICES ASSUME ~recording, ~failed
                 PROVE  \A n \in DOMAIN files : files[n].ours => files[n].ended
      BY DEF StoppedIsEnded
    <2>1. journal.open = <<>> /\ Owed(Ones(journal.open), files)
      BY <1>1 DEF JournalInv, Ending
    <2>2. Ones(journal.open) = {}
      BY <2>1 DEF Ones
    <2> QED BY <2>1, <2>2 DEF Owed
  <1> QED BY <1>1, JournalInvariant, PTL

\* A map has as many sessions as it is long.
LEMMA CountOnes ==
    ASSUME NEW q \in Seq(Thing), OneRoot(q)
    PROVE  IsFiniteSet(Ones(q)) /\ Cardinality(Ones(q)) = Len(q)
  <1> DEFINE n == Len(q)
  <1>1. DOMAIN q = 1..n /\ n \in Nat /\ q = [i \in 1..n |-> q[i]]
    OBVIOUS
  <1> HIDE DEF n
  <1>2. q \in [1..n -> Ones(q)]
    BY <1>1 DEF Ones
  <1>3. \A i, k \in 1..n : q[i] = q[k] => i = k
    BY <1>1 DEF OneRoot
  <1>4. \A s \in Ones(q) : \E i \in 1..n : q[i] = s
    BY <1>1 DEF Ones
  <1>5. q \in Bijection(1..n, Ones(q))
    BY <1>2, <1>3, <1>4 DEF Bijection, Injection, Surjection, IsInjective
  <1>6. ExistsBijection(1..n, Ones(q))
    BY <1>5 DEF ExistsBijection
  <1>7. IsFiniteSet(1..n) /\ Cardinality(1..n) = n
    <2>1. 1 \in Int /\ n \in Int
      BY <1>1
    <2>2. IsFiniteSet(1..n) /\ Cardinality(1..n) = IF 1 > n THEN 0 ELSE n - 1 + 1
      BY <2>1, FS_Interval
    <2> QED BY <1>1, <2>2
  <1> QED BY <1>6, <1>7, FS_Bijection DEF n

\* The state keeps its shape; no conversation is open and parked at once, and
\* no file has two sessions writing to it.
THEOREM JournalIsTyped == FairSpec => []JournalTypeOK
  <1>1. ASSUME JournalInv
        PROVE  JournalTypeOK
    <2> DEFINE L == Sessions(journal)
    <2>1. Sound(journal) /\ Flags /\ Shaped
      BY <1>1 DEF JournalInv, Shaped
    <2>2. \A s \in L : s \in Session /\ s.start <= s.last
      <3> TAKE s \in L
      <3>1. s \in Thing /\ s.start <= s.last /\ s.frames # {}
        BY <1>1, ApartSessions
      <3>2. /\ s = [root |-> s.root, sid |-> s.sid, start |-> s.start, last |-> s.last,
                    frames |-> s.frames, name |-> s.name, dirty |-> s.dirty]
            /\ s.root \in Owner \cup {Bucket} /\ s.sid \in Main \cup {NoSession}
            /\ s.start \in 1..MaxFrames /\ s.last \in 1..MaxFrames
            /\ s.frames \in SUBSET (1..MaxFrames)
            /\ s.name \in {NoName} \cup (1..MaxFrames) \X (Owner \cup {Bucket})
            /\ s.dirty \in BOOLEAN
        BY <3>1 DEF Thing
      <3>3. s.frames \in (SUBSET (1..MaxFrames)) \ {{}}
        BY <3>1, <3>2
      <3> QED BY <3>1, <3>2, <3>3 DEF Session
    <2>3. \A s, u \in L : s.root = u.root => s = u
      BY <1>1, ApartSessions
    <2>4. \A s, u \in L : s.name = u.name /\ s.name # NoName => s = u
      BY <1>1, ApartSessions
    <2>5. Cardinality(L) = Len(journal.open) + Len(journal.parked)
      <3> DEFINE A == Ones(journal.open)
                 B == Ones(journal.parked)
      <3>1. /\ IsFiniteSet(A) /\ Cardinality(A) = Len(journal.open)
            /\ IsFiniteSet(B) /\ Cardinality(B) = Len(journal.parked)
        BY <2>1, CountOnes DEF Sound
      <3>2. L = A \cup B
        BY SessionsOnes
      <3>3. A \cap B = {}
        BY <2>1 DEF Sound
      <3> HIDE DEF A, B, L
      <3>4. Cardinality(A \cup B) = Cardinality(A) + Cardinality(B) - Cardinality(A \cap B)
        BY <3>1, FS_Union
      <3>5. Cardinality(A \cap B) = 0
        BY <3>3, FS_EmptySet
      <3>6. Len(journal.open) \in Nat /\ Len(journal.parked) \in Nat
        BY <2>1 DEF Sound
      <3> QED BY <3>1, <3>2, <3>4, <3>5, <3>6
    <2>6. DOMAIN files \subseteq (1..MaxFrames) \X (Owner \cup {Bucket})
      BY <1>1 DEF JournalInv, Ordered, InOrder, Filed, Root
    <2>7. Len(journal.parked) <= MaxFiles /\ DOMAIN journal.owners \subseteq Agent
      BY <2>1 DEF Sound, Shaped
    <2>8. /\ ~scope => files = <<>>
          /\ frames \in 0..MaxFrames /\ gestures \in 0..MaxGestures
          /\ strayed \subseteq claimed /\ claimed \subseteq Agent
          /\ DOMAIN tape \subseteq 1..frames
      BY <2>1 DEF Shaped
    <2> QED BY <2>1, <2>2, <2>3, <2>4, <2>5, <2>6, <2>7, <2>8 DEF JournalTypeOK, Flags
  <1> QED BY <1>1, JournalInvariant, PTL
=============================================================================
