----------------------- MODULE IncrementalScanProofs -----------------------
(***************************************************************************)
(* What the cache of the scan guarantees, for every set of files and       *)
(* extractors, every emission and any number of changes.                   *)
(*                                                                         *)
(* A batch of the watcher stores what a walk of the tree would.  The rows  *)
(* of a scan depend on what it looks at through four things only (Same,    *)
(* SameZone); the scan of a batch and the walk agree in them as long as    *)
(* the database knows each file as it is but for those the pending events  *)
(* tell of (Tracked), and an event that says a file is gone, when it is    *)
(* not, has one behind it that says it was written (GoneThenWritten).      *)
(*                                                                         *)
(* And the rows tell the truth (Story): what is stored of a file is what   *)
(* its extractors find in any content the stored hashes may be of, under   *)
(* the sidecar and settings their rows name.  A row that is reused is one  *)
(* whose key did not change, so it stays true; that no phantom link is     *)
(* stored, that nothing is lost of a file of one extraction, that virtual  *)
(* nodes are named and that a rescan changes nothing follow from it.       *)
(***************************************************************************)
EXTENDS IncrementalScan, TLAPS

\* Two scans that look at the same.
Same(s, t) ==
    /\ s.prior = t.prior
    /\ CacheOn(s) = CacheOn(t)
    /\ Walked(s) = Walked(t)
    /\ \A f \in Walked(s) : Hashes(s, f) = Hashes(t, f)

\* The decisions of the cache about a file.
LEMMA SameDecisions ==
    ASSUME NEW s, NEW t, Same(s, t), NEW f \in Walked(s)
    PROVE  /\ Cached(s, f) = Cached(t, f)
           /\ Missing(s, f) = Missing(t, f)
           /\ FullHit(s, f) = FullHit(t, f)
           /\ Kept(s, f) = Kept(t, f)
           /\ Found(s, f) = Found(t, f)
  <1>1. Eligible(s, f) = Eligible(t, f)
    BY DEF Same, Eligible, PriorFiles
  <1>2. \A e : Key(s, f, e) = Key(t, f, e)
    BY DEF Same, Key
  <1>3. Cached(s, f) = Cached(t, f)
    BY <1>1, <1>2 DEF Cached, Same
  <1>4. Missing(s, f) = Missing(t, f)
    BY <1>3 DEF Missing
  <1>5. FullHit(s, f) = FullHit(t, f)
    BY <1>1, <1>4 DEF FullHit
  <1>6. Kept(s, f) = Kept(t, f)
    BY <1>3, <1>4 DEF Kept, Same
  <1>7. Found(s, f) = Found(t, f)
    BY <1>4 DEF Found
  <1> QED BY <1>3, <1>4, <1>5, <1>6, <1>7

LEMMA SameZone ==
    ASSUME NEW s, NEW t, Same(s, t), DOMAIN s.prior.from \subseteq Server
    PROVE  /\ Winners(s) = Winners(t)
           /\ \A w : Zone(s, w) = Zone(t, w)
  <1>1. Walked(s) = Walked(t) /\ s.prior = t.prior
    BY DEF Same
  <1>2. \A f \in Walked(s) : /\ Missing(s, f) = Missing(t, f)
                             /\ FullHit(s, f) = FullHit(t, f)
                             /\ Kept(s, f) = Kept(t, f)
                             /\ Found(s, f) = Found(t, f)
    BY SameDecisions
  <1>3. \A v : Emitters(s, v) = Emitters(t, v)
    BY <1>1, <1>2 DEF Emitters
  <1>4. FreshNodes(s) = FreshNodes(t)
    BY <1>3 DEF FreshNodes
  <1>5. Winners(s) = Winners(t)
    BY <1>3, <1>4 DEF Winners
  <1>6. Carried(s) = Carried(t)
    BY <1>1, <1>2, <1>4 DEF Carried
  <1>7. Paths(s) = Paths(t)
    BY <1>1, <1>4, <1>6 DEF Paths
  <1>8. AllLinks(s) = AllLinks(t)
    BY <1>1, <1>2 DEF AllLinks
  <1>9. Links(s) = Links(t)
    BY <1>7, <1>8 DEF Links
  <1>10. Refs(s) = Refs(t)
    BY <1>1, <1>2 DEF Refs
  <1>11. Runs(s) = Runs(t)
    BY <1>1 DEF Runs, Same, Key
  <1>12. Chips(s) = Chips(t)
    BY <1>1, <1>2 DEF Chips
  <1>13. [n \in Paths(s) |-> IF n \in File THEN Hashes(s, n) ELSE VirtualHash]
            = [n \in Paths(t) |-> IF n \in File THEN Hashes(t, n) ELSE VirtualHash]
    <2>1. \A n \in Paths(s) : n \in File => n \in Walked(s)
      BY ScanAssumption DEF Paths, FreshNodes, Carried
    <2>2. \A n \in Paths(s) : n \in File => Hashes(s, n) = Hashes(t, n)
      BY <2>1 DEF Same
    <2> QED BY <1>7, <2>2
  <1> QED
    BY <1>1, <1>4, <1>5, <1>6, <1>7, <1>9, <1>10, <1>11, <1>12, <1>13 DEF Zone

-----------------------------------------------------------------------------
(***************************************************************************)
(* What the database knows of the files.                                   *)
(***************************************************************************)
OnDisk(f) == [body |-> Body[disk[f]], front |-> Front[disk[f]]]

\* A pending event, not of a sidecar, from the i-th on, is about f.
ToldFrom(i, f) ==
    \E j \in i..Len(pending) : pending[j].file = f /\ ~pending[j].side

Shape ==
    /\ pending \in Seq(Event)
    /\ DOMAIN disk \subseteq File
    /\ lens \in Lens
    /\ DOMAIN db.from \subseteq Server

\* A file no pending event is about is in the database as it is.
Tracked ==
    db.lens # NoLens =>
        \A f \in File : ~ToldFrom(1, f) =>
            /\ f \in DOMAIN db.nodes <=> f \in DOMAIN disk
            /\ f \in DOMAIN disk => db.nodes[f] = OnDisk(f)

\* A file that is there and was told gone was told written later.
GoneThenWritten ==
    \A i \in 1..Len(pending) :
        pending[i].gone /\ ~pending[i].side /\ pending[i].file \in DOMAIN disk =>
            \E j \in (i + 1)..Len(pending) :
                /\ pending[j].file = pending[i].file
                /\ ~pending[j].side /\ ~pending[j].gone

Knowledge == Shape /\ Tracked /\ GoneThenWritten

\* A scan of the first n pending events reads, or takes over as it is, every
\* file none of the other events is about.
LEMMA BatchReads ==
    ASSUME Knowledge, NEW n \in 1..Len(pending), NEW f \in File,
           ~ToldFrom(n + 1, f)
    PROVE  LET s == ScopedScan(db, {pending[i] : i \in 1..n})
           IN /\ f \in Walked(s) <=> f \in DOMAIN disk
              /\ f \in DOMAIN disk => Hashes(s, f) = OnDisk(f)
  <1> DEFINE events == {pending[i] : i \in 1..n}
             s == ScopedScan(db, events)
  <1>1. s.prior = db /\ s.events = events /\ s.scoped /\ s.cache
    BY DEF ScopedScan
  <1>2. CASE ~Incremental(s)
    BY <1>2 DEF Walked, Hashes, Injected, OnDisk
  <1>3. CASE Incremental(s)
    <2>1. db.lens # NoLens
      BY <1>1, <1>3, ScanAssumption DEF Incremental, CacheOn, Knowledge, Shape
    <2>2. f \in Changed(s) <=> \E i \in 1..n :
              /\ pending[i].file = f
              /\ \/ ~pending[i].side /\ ~pending[i].gone
                 \/ pending[i].side /\ f \in PriorFiles(s)
      BY <1>1 DEF Changed
    <2>3. f \in Removed(s) <=> \E i \in 1..n :
              pending[i].file = f /\ ~pending[i].side /\ pending[i].gone
      BY <1>1 DEF Removed
    <2>4. f \in PriorFiles(s) <=> f \in DOMAIN db.nodes
      BY <1>1 DEF PriorFiles
    <2>5. f \in Injected(s) <=>
             f \in PriorFiles(s) /\ f \notin Changed(s) /\ f \notin Removed(s)
      BY <1>3 DEF Injected
    <2>6. f \in Walked(s) <=> (f \in Changed(s) /\ f \in DOMAIN disk) \/ f \in Injected(s)
      BY <1>3 DEF Walked
    <2>7. n \in Nat /\ Len(pending) \in Nat
      BY DEF Knowledge, Shape
    <2>8. CASE ToldFrom(1, f)
      <3>1. PICK i \in 1..n : pending[i].file = f /\ ~pending[i].side
        BY <2>7, <2>8 DEF ToldFrom
      <3>2. f \notin Injected(s)
        BY <2>2, <2>3, <2>5, <3>1
      <3>3. f \in DOMAIN disk => f \in Changed(s)
        <4>1. CASE ~pending[i].gone
          BY <2>2, <3>1, <4>1
        <4>2. CASE pending[i].gone /\ f \in DOMAIN disk
          <5>1. PICK j \in (i + 1)..Len(pending) :
                    pending[j].file = f /\ ~pending[j].side /\ ~pending[j].gone
            BY <2>7, <3>1, <4>2 DEF Knowledge, GoneThenWritten
          <5>2. j \in 1..n
            BY <2>7, <5>1 DEF ToldFrom
          <5> QED BY <2>2, <5>1, <5>2
        <4> QED BY <4>1, <4>2
      <3> QED BY <2>6, <3>2, <3>3 DEF Hashes, OnDisk
    <2>9. CASE ~ToldFrom(1, f)
      <3>1. f \in DOMAIN db.nodes <=> f \in DOMAIN disk
        BY <2>1, <2>9 DEF Knowledge, Tracked
      <3>2. f \in DOMAIN disk => db.nodes[f] = OnDisk(f)
        BY <2>1, <2>9 DEF Knowledge, Tracked
      <3>3. \A i \in 1..n : pending[i].file = f => pending[i].side
        BY <2>7, <2>9 DEF ToldFrom
      <3>4. f \in Walked(s) <=> f \in DOMAIN disk
        BY <2>2, <2>3, <2>4, <2>5, <2>6, <3>1, <3>3
      <3>5. f \in DOMAIN disk => Hashes(s, f) = OnDisk(f)
        BY <1>1, <3>2 DEF Hashes, OnDisk
      <3> QED BY <3>4, <3>5
    <2> QED BY <2>8, <2>9
  <1> QED BY <1>2, <1>3

\* No scan makes a node of a path that is no file, or a server of one.
LEMMA WalkedFiles ==
    ASSUME Knowledge, NEW s
    PROVE  Walked(s) \subseteq File
  BY DEF Knowledge, Shape, Walked, Injected, PriorFiles

\* What a scan stores of a file is what it walked.
LEMMA ZoneRows ==
    ASSUME Knowledge, NEW s, s.prior = db, NEW w
    PROVE  /\ Zone(s, w).lens = lens
           /\ DOMAIN Zone(s, w).from \subseteq Server
           /\ \A f \in File : f \in DOMAIN Zone(s, w).nodes <=> f \in Walked(s)
           /\ \A f \in Walked(s) : Zone(s, w).nodes[f] = Hashes(s, f)
  <1>1. FreshNodes(s) \subseteq Server /\ Carried(s) \subseteq Server
    BY DEF FreshNodes, Carried, Knowledge, Shape
  <1>2. Walked(s) \subseteq File
    BY WalkedFiles
  <1>3. Zone(s, w).nodes = [n \in Paths(s) |-> IF n \in File THEN Hashes(s, n) ELSE VirtualHash]
    BY DEF Zone
  <1>4. \A f \in File : f \in Paths(s) <=> f \in Walked(s)
    BY <1>1, ScanAssumption DEF Paths
  <1>5. Zone(s, w).lens = lens
    BY DEF Zone
  <1>6. DOMAIN Zone(s, w).from \subseteq Server
    BY <1>1 DEF Zone
  <1> QED BY <1>2, <1>3, <1>4, <1>5, <1>6

\* A scan whose walk takes the files it is not told of later as they are
\* leaves the database knowing them.
LEMMA ScanTracks ==
    ASSUME Knowledge, NEW s, s.prior = db, Scan(s),
           \A f \in File : ~ToldFrom(1, f)' =>
               /\ f \in Walked(s) <=> f \in DOMAIN disk
               /\ f \in DOMAIN disk => Hashes(s, f) = OnDisk(f)
    PROVE  Tracked' /\ DOMAIN db'.from \subseteq Server
  <1>1. PICK w \in Winners(s) : db' = Zone(s, w)
    BY DEF Scan
  <1>2. disk' = disk
    BY DEF Scan, world
  <1>3. \A f : OnDisk(f)' = OnDisk(f)
    BY <1>2 DEF OnDisk
  <1>4. /\ DOMAIN db'.from \subseteq Server
        /\ \A f \in File : f \in DOMAIN db'.nodes <=> f \in Walked(s)
        /\ \A f \in Walked(s) : db'.nodes[f] = Hashes(s, f)
    BY <1>1, ZoneRows
  <1>5. ASSUME NEW f \in File, ~ToldFrom(1, f)'
        PROVE  /\ f \in DOMAIN db'.nodes <=> f \in DOMAIN disk'
               /\ f \in DOMAIN disk' => db'.nodes[f] = OnDisk(f)'
    BY <1>2, <1>3, <1>4, <1>5
  <1> QED BY <1>4, <1>5 DEF Tracked

LEMMA WholeScanKnows ==
    ASSUME Knowledge, NEW s, s.prior = db, ~s.scoped, Scan(s), UNCHANGED pending
    PROVE  Knowledge'
  <1>1. disk' = disk /\ lens' = lens
    BY DEF Scan, world
  <1>2. \A f : /\ f \in Walked(s) <=> f \in DOMAIN disk
               /\ Hashes(s, f) = OnDisk(f)
    BY DEF Walked, Hashes, Injected, Incremental, OnDisk
  <1>3. Tracked' /\ DOMAIN db'.from \subseteq Server
    BY <1>2, ScanTracks
  <1>4. Shape'
    BY <1>1, <1>3 DEF Knowledge, Shape
  <1>5. GoneThenWritten'
    BY <1>1 DEF Knowledge, GoneThenWritten
  <1> QED BY <1>3, <1>4, <1>5 DEF Knowledge

\* What is left of the events once a batch has taken the first n.
LEMMA Remaining ==
    ASSUME NEW T, NEW q \in Seq(T), NEW n \in 1..Len(q)
    PROVE  /\ SubSeq(q, n + 1, Len(q)) \in Seq(T)
           /\ Len(SubSeq(q, n + 1, Len(q))) = Len(q) - n
           /\ \A i \in 1..(Len(q) - n) : SubSeq(q, n + 1, Len(q))[i] = q[n + i]
  OBVIOUS

LEMMA BatchKnows ==
    ASSUME Knowledge, ScanBatch
    PROVE  Knowledge'
  <1>1. PICK n \in 1..Len(pending) :
            /\ pending' = SubSeq(pending, n + 1, Len(pending))
            /\ Scan(ScopedScan(db, {pending[i] : i \in 1..n}))
    BY DEF ScanBatch
  <1> DEFINE s == ScopedScan(db, {pending[i] : i \in 1..n})
  <1>2. disk' = disk /\ lens' = lens
    BY <1>1 DEF Scan, world
  <1>3. n \in Nat /\ Len(pending) \in Nat /\ n <= Len(pending)
    BY DEF Knowledge, Shape
  <1>4. /\ pending' \in Seq(Event)
        /\ Len(pending') = Len(pending) - n
        /\ \A i \in 1..(Len(pending) - n) : pending'[i] = pending[n + i]
    BY <1>1, Remaining DEF Knowledge, Shape
  <1>5. ASSUME NEW f \in File, ToldFrom(n + 1, f)
        PROVE  ToldFrom(1, f)'
    <2>1. PICK j \in (n + 1)..Len(pending) : pending[j].file = f /\ ~pending[j].side
      BY <1>5 DEF ToldFrom
    <2>2. j - n \in 1..Len(pending') /\ pending'[j - n] = pending[j]
      BY <1>3, <1>4
    <2> QED BY <2>1, <2>2 DEF ToldFrom
  <1>6. s.prior = db
    BY DEF ScopedScan
  <1>7. \A f \in File : ~ToldFrom(1, f)' =>
            /\ f \in Walked(s) <=> f \in DOMAIN disk
            /\ f \in DOMAIN disk => Hashes(s, f) = OnDisk(f)
    BY <1>5, BatchReads
  <1>8. Tracked' /\ DOMAIN db'.from \subseteq Server
    BY <1>1, <1>6, <1>7, ScanTracks
  <1>9. GoneThenWritten'
    <2> SUFFICES ASSUME NEW i \in 1..Len(pending'),
                        pending'[i].gone, ~pending'[i].side, pending'[i].file \in DOMAIN disk
                 PROVE  \E j \in (i + 1)..Len(pending') :
                            /\ pending'[j].file = pending'[i].file
                            /\ ~pending'[j].side /\ ~pending'[j].gone
      BY <1>2 DEF GoneThenWritten
    <2>1. n + i \in 1..Len(pending) /\ pending'[i] = pending[n + i]
      BY <1>3, <1>4
    <2>2. PICK j \in (n + i + 1)..Len(pending) :
              /\ pending[j].file = pending[n + i].file
              /\ ~pending[j].side /\ ~pending[j].gone
      BY <2>1 DEF Knowledge, GoneThenWritten
    <2>3. j - n \in (i + 1)..Len(pending') /\ pending'[j - n] = pending[j]
      BY <1>3, <1>4, <2>2
    <2> QED BY <2>1, <2>2, <2>3
  <1> QED BY <1>2, <1>4, <1>8, <1>9 DEF Knowledge, Shape

\* A change of one file, or of its sidecar, that the watcher hears of.
LEMMA HeardKnows ==
    ASSUME Knowledge, NEW e \in Event, pending' = Append(pending, e),
           db' = db, lens' = lens, DOMAIN disk' \subseteq File,
           \A g \in File : g # e.file \/ e.side =>
               /\ g \in DOMAIN disk' <=> g \in DOMAIN disk
               /\ g \in DOMAIN disk => disk'[g] = disk[g],
           e.gone /\ ~e.side => e.file \notin DOMAIN disk'
    PROVE  Knowledge'
  <1>1. /\ pending' \in Seq(Event)
        /\ Len(pending') = Len(pending) + 1 /\ Len(pending) \in Nat
        /\ pending'[Len(pending) + 1] = e
        /\ \A i \in 1..Len(pending) : pending'[i] = pending[i]
    BY DEF Knowledge, Shape
  <1>2. Shape'
    BY <1>1 DEF Knowledge, Shape
  <1>3. Tracked'
    <2> SUFFICES ASSUME db.lens # NoLens, NEW f \in File, ~ToldFrom(1, f)'
                 PROVE  /\ f \in DOMAIN db.nodes <=> f \in DOMAIN disk'
                        /\ f \in DOMAIN disk' => db.nodes[f] = OnDisk(f)'
      BY DEF Tracked
    <2>1. ~ToldFrom(1, f)
      BY <1>1 DEF ToldFrom
    <2>2. f # e.file \/ e.side
      BY <1>1 DEF ToldFrom
    <2>3. f \in DOMAIN disk' <=> f \in DOMAIN disk
      BY <2>2
    <2>4. f \in DOMAIN disk => disk'[f] = disk[f]
      BY <2>2
    <2>5. /\ f \in DOMAIN db.nodes <=> f \in DOMAIN disk
          /\ f \in DOMAIN disk => db.nodes[f] = OnDisk(f)
      BY <2>1 DEF Knowledge, Tracked
    <2> QED BY <2>3, <2>4, <2>5 DEF OnDisk
  <1>4. GoneThenWritten'
    <2> SUFFICES ASSUME NEW i \in 1..Len(pending'),
                        pending'[i].gone, ~pending'[i].side, pending'[i].file \in DOMAIN disk'
                 PROVE  \E j \in (i + 1)..Len(pending') :
                            /\ pending'[j].file = pending'[i].file
                            /\ ~pending'[j].side /\ ~pending'[j].gone
      BY DEF GoneThenWritten
    <2>1. i \in 1..Len(pending) /\ pending'[i] = pending[i]
      BY <1>1
    <2>2. pending[i].file \in File
      BY <2>1 DEF Knowledge, Shape, Event
    <2>3. CASE pending[i].file \in DOMAIN disk
      <3>1. PICK j \in (i + 1)..Len(pending) :
                /\ pending[j].file = pending[i].file
                /\ ~pending[j].side /\ ~pending[j].gone
        BY <2>1, <2>3 DEF Knowledge, GoneThenWritten
      <3>2. j \in (i + 1)..Len(pending') /\ pending'[j] = pending[j]
        BY <1>1, <2>1, <3>1
      <3> QED BY <2>1, <3>1, <3>2
    <2>4. CASE pending[i].file \notin DOMAIN disk
      <3>1. e.file = pending[i].file /\ ~e.side /\ ~e.gone
        BY <2>1, <2>2, <2>4
      <3>2. Len(pending) + 1 \in (i + 1)..Len(pending')
        BY <1>1, <2>1
      <3> QED BY <1>1, <2>1, <3>1, <3>2
    <2> QED BY <2>3, <2>4
  <1> QED BY <1>2, <1>3, <1>4 DEF Knowledge

LEMMA HappeningKnows ==
    ASSUME Knowledge, Happening
    PROVE  Knowledge'
  <1>1. ASSUME NEW f \in File, NEW c \in Content, WriteFile(f, c)
        PROVE  Knowledge'
    <2> DEFINE e == [file |-> f, side |-> FALSE, gone |-> FALSE]
    <2>1. e \in Event
      BY DEF Event
    <2>2. /\ disk' = [g \in DOMAIN disk \cup {f} |-> IF g = f THEN c ELSE disk[g]]
          /\ pending' = Append(pending, e)
          /\ lens' = lens /\ db' = db
      BY <1>1 DEF WriteFile, Hear
    <2>3. DOMAIN disk' \subseteq File
      BY <2>2 DEF Knowledge, Shape
    <2>4. \A g \in File : g # f =>
              /\ g \in DOMAIN disk' <=> g \in DOMAIN disk
              /\ g \in DOMAIN disk => disk'[g] = disk[g]
      BY <2>2
    <2> QED BY <2>1, <2>2, <2>3, <2>4, HeardKnows
  <1>2. ASSUME NEW f \in File, RemoveFile(f)
        PROVE  Knowledge'
    <2> DEFINE e == [file |-> f, side |-> FALSE, gone |-> TRUE]
    <2>1. e \in Event
      BY DEF Event
    <2>2. /\ disk' = [g \in DOMAIN disk \ {f} |-> disk[g]]
          /\ pending' = Append(pending, e)
          /\ lens' = lens /\ db' = db
      BY <1>2 DEF RemoveFile, Hear
    <2>3. DOMAIN disk' \subseteq File /\ f \notin DOMAIN disk'
      BY <2>2 DEF Knowledge, Shape
    <2>4. \A g \in File : g # f =>
              /\ g \in DOMAIN disk' <=> g \in DOMAIN disk
              /\ g \in DOMAIN disk => disk'[g] = disk[g]
      BY <2>2
    <2> QED BY <2>1, <2>2, <2>3, <2>4, HeardKnows
  <1>3. ASSUME NEW f \in File, NEW a \in Sidecar, WriteSidecar(f, a)
        PROVE  Knowledge'
    <2> DEFINE e == [file |-> f, side |-> TRUE, gone |-> a = NoSidecar]
    <2>1. e \in Event
      BY DEF Event
    <2>2. /\ disk' = disk /\ pending' = Append(pending, e)
          /\ lens' = lens /\ db' = db
      BY <1>3 DEF WriteSidecar, Hear
    <2>3. DOMAIN disk' \subseteq File
      BY <2>2 DEF Knowledge, Shape
    <2> QED BY <2>1, <2>2, <2>3, HeardKnows
  <1>4. ASSUME UNCHANGED <<disk, lens, pending, db>>
        PROVE  Knowledge'
    BY <1>4 DEF Knowledge, Shape, Tracked, GoneThenWritten, ToldFrom, OnDisk
  <1>5. ASSUME NEW l \in Lens, NEW drop \in BOOLEAN, SwitchLens(l, drop)
        PROVE  Knowledge'
    <2>1. /\ lens' = l /\ UNCHANGED <<disk, pending>>
          /\ db' = IF drop THEN EmptyZone ELSE db
      BY <1>5 DEF SwitchLens
    <2>2. CASE drop
      <3>1. db'.lens = NoLens /\ DOMAIN db'.from \subseteq Server
        BY <2>1, <2>2 DEF EmptyZone
      <3> QED BY <2>1, <3>1 DEF Knowledge, Shape, Tracked, GoneThenWritten
    <2>3. CASE ~drop
      BY <2>1, <2>3 DEF Knowledge, Shape, Tracked, GoneThenWritten, ToldFrom, OnDisk
    <2> QED BY <2>2, <2>3
  <1> QED
    BY <1>1, <1>2, <1>3, <1>4, <1>5 DEF Happening, Configure, Install, Uninstall

LEMMA NextKnows ==
    ASSUME Knowledge, [Next]_vars
    PROVE  Knowledge'
  <1>1. CASE ScanFull
    BY <1>1, WholeScanKnows DEF ScanFull, FullScan
  <1>2. CASE ScanCached
    BY <1>2, WholeScanKnows DEF ScanCached, CachedScan
  <1>3. CASE ScanBatch
    BY <1>3, BatchKnows
  <1>4. CASE Happening
    BY <1>4, HappeningKnows
  <1>5. CASE UNCHANGED vars
    BY <1>5 DEF vars, world, Knowledge, Shape, Tracked, GoneThenWritten, ToldFrom, OnDisk
  <1> QED BY <1>1, <1>2, <1>3, <1>4, <1>5 DEF Next

LEMMA InitKnows ==
    ASSUME Init
    PROVE  Knowledge
  <1>1. pending = <<>> /\ db.lens = NoLens /\ DOMAIN db.from = {}
    BY DEF Init, EmptyZone
  <1>2. DOMAIN disk \subseteq File /\ lens \in Lens
    BY ScanAssumption DEF Init
  <1> QED BY <1>1, <1>2 DEF Knowledge, Shape, Tracked, GoneThenWritten

\* The database knows the files no pending event is about.
THEOREM FilesAreTracked == Spec => []Knowledge
  BY InitKnows, NextKnows, PTL DEF Spec

\* Nothing but the scan of a batch takes events.
LEMMA OnlyBatches ==
    ASSUME pending \in Seq(Event), [Next]_vars, pending # <<>>, pending' = <<>>
    PROVE  ScanBatch
  <1>1. pending' # pending
    OBVIOUS
  <1>2. \A f, side, gone : ~Hear(f, side, gone)
    BY DEF Hear
  <1>3. ~Happening
    <2>1. \A f, c : ~WriteFile(f, c)
      BY <1>2 DEF WriteFile
    <2>2. \A f : ~RemoveFile(f)
      BY <1>2 DEF RemoveFile
    <2>3. \A f, a : ~WriteSidecar(f, a)
      BY <1>2 DEF WriteSidecar
    <2>4. \A e, v : ~Configure(e, v) /\ ~Install(e) /\ ~Uninstall(e)
      BY <1>1 DEF Configure, Install, Uninstall
    <2>5. \A l, drop : ~SwitchLens(l, drop)
      BY <1>1 DEF SwitchLens
    <2> QED BY <2>1, <2>2, <2>3, <2>4, <2>5 DEF Happening
  <1> QED BY <1>1, <1>3 DEF Next, ScanFull, ScanCached, vars

\* The scan of a batch that holds every pending event stores what a walk of
\* the whole tree would have stored.
THEOREM BatchIsWalk == Spec => BatchEqualsWalk
  <1>1. ASSUME Knowledge, [Next]_vars, pending # <<>>, pending' = <<>>
        PROVE  \E w \in Winners(CachedScan(db)) : db' = Zone(CachedScan(db), w)
    <2>1. PICK n \in 1..Len(pending) :
              /\ pending' = SubSeq(pending, n + 1, Len(pending))
              /\ Scan(ScopedScan(db, {pending[i] : i \in 1..n}))
      BY <1>1, OnlyBatches DEF ScanBatch, Knowledge, Shape
    <2> DEFINE s == ScopedScan(db, {pending[i] : i \in 1..n})
               t == CachedScan(db)
    <2>2. n = Len(pending) /\ n \in Nat
      <3>1. pending \in Seq(Event)
        BY <1>1 DEF Knowledge, Shape
      <3>2. Len(pending') = Len(pending) - n
        BY <2>1, <3>1, Remaining
      <3> QED BY <1>1, <3>1, <3>2
    <2>3. \A f : ~ToldFrom(n + 1, f)
      BY <2>2 DEF ToldFrom
    <2>4. /\ s.prior = db /\ t.prior = db /\ CacheOn(s) = CacheOn(t)
          /\ ~Incremental(t)
      BY DEF ScopedScan, CachedScan, CacheOn, Incremental
    <2>5. Walked(t) = DOMAIN disk /\ \A f : Hashes(t, f) = OnDisk(f)
      BY <2>4 DEF Walked, Hashes, Injected, OnDisk
    <2>6. \A f \in File : /\ f \in Walked(s) <=> f \in DOMAIN disk
                          /\ f \in DOMAIN disk => Hashes(s, f) = OnDisk(f)
      BY <1>1, <2>3, BatchReads
    <2>7. Walked(s) \subseteq File /\ DOMAIN disk \subseteq File
      BY <1>1, WalkedFiles DEF Knowledge, Shape
    <2>8. Same(s, t)
      BY <2>4, <2>5, <2>6, <2>7 DEF Same
    <2>9. DOMAIN s.prior.from \subseteq Server
      BY <1>1, <2>4 DEF Knowledge, Shape
    <2>10. Winners(s) = Winners(t) /\ \A w : Zone(s, w) = Zone(t, w)
      BY <2>8, <2>9, SameZone
    <2> QED BY <2>1, <2>10 DEF Scan
  <1> QED
    BY <1>1, FilesAreTracked, PTL DEF Spec, BatchEqualsWalk

-----------------------------------------------------------------------------
(***************************************************************************)
(* What the rows of a file say of it.                                      *)
(***************************************************************************)
KnownFiles == DOMAIN db.nodes \cap File

\* The extractors that have read f, as its rows go.
Readers(f) == {e \in Extractor : <<f, e>> \in DOMAIN db.runs}

\* A content the stored hashes of f may be of, and what e then found in it.
MayHold(f, c) == db.nodes[f] = [body |-> Body[c], front |-> Front[c]]
Emitted(f, c, e) ==
    Emits[e][<<c, db.runs[<<f, e>>].side, db.runs[<<f, e>>].setting>>]

FindsLink(f, c, e, t) == \E m \in Emitted(f, c, e).links : m.target = t

Typing ==
    /\ \A f \in DOMAIN disk : disk[f] \in Content
    /\ sidecar \in [File -> Sidecar] /\ setting \in [Extractor -> Setting]
    /\ installed \subseteq Extractor

\* The rows hang together.
Rows ==
    /\ \A k \in DOMAIN db.runs : k \in KnownFiles \X Extractor
    /\ \A l \in db.links :
          /\ l = [source |-> l.source, target |-> l.target, sources |-> l.sources,
                  prose |-> l.prose, resolved |-> l.resolved]
          /\ l.source \in KnownFiles
          /\ l.sources # {} /\ l.sources \subseteq Readers(l.source)
    /\ \A v \in DOMAIN db.from : db.from[v] \in KnownFiles

\* A stored link was found by each of its sources.
Faithful ==
    \A l \in db.links : l.source \notin blind =>
        \A c \in Content : MayHold(l.source, c) =>
            \A e \in l.sources : FindsLink(l.source, c, e, l.target)

\* Of a file whose rows are of one extraction, all that prose carries is there.
ChipsOf(f, e) == {r.chip : r \in {x \in db.chips : x.file = f /\ x.by = e}}

Whole ==
    \A f \in KnownFiles \ (mixed \cup blind), c \in Content : MayHold(f, c) =>
        \A e \in Readers(f) :
            /\ \A m \in Emitted(f, c, e).links : m.prose =>
                  \E l \in db.links :
                      /\ l.source = f /\ l.target = m.target /\ l.prose
                      /\ \A d \in Readers(f) :
                            FindsLink(f, c, d, m.target) => d \in l.sources
            /\ ChipsOf(f, e) = Emitted(f, c, e).chips

\* Some extractor read v in f if f held c; under what, its row says if it has one.
NamedIn(v, f, c) ==
    \E e \in Extractor, a \in Sidecar, x \in Setting :
        /\ v \in Emits[e][<<c, a, x>>].nodes
        /\ <<f, e>> \in DOMAIN db.runs =>
              a = db.runs[<<f, e>>].side /\ x = db.runs[<<f, e>>].setting

\* A virtual node was read in its source.
Named ==
    \A v \in DOMAIN db.from :
        LET f == db.from[v] IN f \notin blind =>
            \A c \in Content : MayHold(f, c) => NamedIn(v, f, c)

\* The rows of a project that was seen as it is.
Current ==
    quiet =>
        /\ db.lens = lens /\ KnownFiles = DOMAIN disk
        /\ \A f \in DOMAIN disk : db.nodes[f] = OnDisk(f)
        /\ DOMAIN db.runs = (DOMAIN disk) \X Applicable
        /\ \A k \in DOMAIN db.runs :
              db.runs[k] = [body |-> Body[disk[k[1]]], side |-> sidecar[k[1]],
                            setting |-> setting[k[2]]]

Story == Typing /\ Rows /\ Faithful /\ Whole /\ Named /\ Current

\* What a scan that finds everything as it was has to find again.
Kin(l, k) == l.source = k.source /\ l.target = k.target

Stored ==
    quiet =>
        /\ db = [lens |-> db.lens, nodes |-> db.nodes, from |-> db.from,
                 links |-> db.links, refs |-> db.refs, runs |-> db.runs,
                 chips |-> db.chips]
        /\ db.nodes = [n \in DOMAIN db.nodes |-> db.nodes[n]]
        /\ db.from = [v \in DOMAIN db.from |-> db.from[v]]
        /\ db.refs = [f \in DOMAIN disk |-> db.refs[f]]
        /\ db.runs = [k \in DOMAIN db.runs |-> db.runs[k]]
        /\ DOMAIN db.nodes = DOMAIN disk \cup DOMAIN db.from
        /\ \A v \in DOMAIN db.from : db.nodes[v] = VirtualHash
        /\ \A l \in db.links :
              /\ l.prose \in BOOLEAN /\ l.resolved \in BOOLEAN
              /\ l.resolved \/ l.prose
              /\ l.target \in DOMAIN db.nodes => l.resolved
              /\ \A k \in db.links : Kin(l, k) => l = k
        /\ \A c \in db.chips : c.file \in DOMAIN disk /\ c.by \in installed

-----------------------------------------------------------------------------
(***************************************************************************)
(* What a scan finds in a file, read or taken over.                        *)
(***************************************************************************)
Holds(s, f, c) == Hashes(s, f) = [body |-> Body[c], front |-> Front[c]]

\* What e finds in f as f is annotated and e is configured, were f to hold c.
Finding(f, c, e) == Emits[e][<<c, sidecar[f], setting[e]>>]

\* A file of which something is read is read as it is, or is blind from now on.
LEMMA ReadAsItIs ==
    ASSUME Knowledge, NEW s, s.prior = db, Scan(s), NEW f \in Walked(s),
           f \notin blind', NEW e \in Missing(s, f)
    PROVE  f \in DOMAIN disk /\ Hashes(s, f) = OnDisk(f)
  <1>1. CASE f \in Injected(s)
    <2>1. Unmoved(s, f)
      BY <1>1 DEF Scan
    <2> QED BY <1>1, <2>1 DEF Unmoved, Hashes, OnDisk
  <1>2. CASE f \notin Injected(s)
    BY <1>2 DEF Walked, Hashes, OnDisk
  <1> QED BY <1>1, <1>2

LEMMA FoundAfresh ==
    ASSUME Knowledge, Typing, NEW s, s.prior = db, Scan(s), NEW f \in Walked(s),
           f \notin blind', NEW e \in Missing(s, f), NEW c \in Content, Holds(s, f, c)
    PROVE  Extracted(f, e) = Finding(f, c, e)
  <1>1. f \in DOMAIN disk /\ Hashes(s, f) = OnDisk(f)
    BY ReadAsItIs
  <1>2. f \in File
    BY <1>1 DEF Knowledge, Shape
  <1>3. disk[f] \in Content /\ sidecar[f] \in Sidecar
    BY <1>1, <1>2 DEF Typing
  <1>4. e \in Extractor /\ setting[e] \in Setting
    BY DEF Typing, Missing, Applicable
  <1>5. Body[disk[f]] = Body[c] /\ Front[disk[f]] = Front[c]
    BY <1>1 DEF Holds, OnDisk
  <1>6. Emits[e][<<disk[f], sidecar[f], setting[e]>>] = Finding(f, c, e)
    BY <1>3, <1>4, <1>5, HashAssumption DEF Finding
  <1> QED BY <1>1, <1>6 DEF Extracted

\* What is cached of a file is what was found in it under the same key.
LEMMA FoundBefore ==
    ASSUME Typing, NEW s, s.prior = db, NEW f, NEW e \in Cached(s, f)
    PROVE  /\ f \in KnownFiles /\ e \in Readers(f) /\ e \in Applicable
           /\ \A c : Holds(s, f, c) <=> MayHold(f, c)
           /\ \A c : Emitted(f, c, e) = Finding(f, c, e)
  <1>1. e \in Applicable /\ e \in Extractor
    BY DEF Cached, Applicable, Typing
  <1>2. /\ Eligible(s, f) /\ <<f, e>> \in DOMAIN db.runs
        /\ db.runs[<<f, e>>] = Key(s, f, e)
    BY DEF Cached
  <1>3. db.runs[<<f, e>>].side = sidecar[f] /\ db.runs[<<f, e>>].setting = setting[e]
    BY <1>2 DEF Key
  <1>4. f \in KnownFiles /\ db.nodes[f] = Hashes(s, f)
    BY <1>2 DEF Eligible, PriorFiles, KnownFiles
  <1> QED BY <1>1, <1>2, <1>3, <1>4 DEF Readers, Holds, MayHold, Emitted, Finding

\* The rows of a file after the scan.
LEMMA RowsAfter ==
    ASSUME Knowledge, Typing, NEW s, s.prior = db, Scan(s)
    PROVE  /\ KnownFiles' = Walked(s)
           /\ DOMAIN db'.runs = Walked(s) \X Applicable
           /\ \A f \in Walked(s), e \in Applicable : db'.runs[<<f, e>>] = Key(s, f, e)
           /\ \A f \in Walked(s) : Readers(f)' = Applicable
           /\ \A f \in Walked(s) : \A c : MayHold(f, c)' <=> Holds(s, f, c)
           /\ \A f \in Walked(s), e \in Applicable :
                 \A c : Emitted(f, c, e)' = Finding(f, c, e)
           /\ db'.links = Links(s) /\ db'.chips = Chips(s)
  <1>1. PICK w \in Winners(s) : db' = Zone(s, w)
    BY DEF Scan
  <1>2. db'.runs = [p \in Walked(s) \X Applicable |-> Key(s, p[1], p[2])]
    BY <1>1 DEF Zone, Runs
  <1>3. Walked(s) \subseteq File
    BY WalkedFiles
  <1>4. Applicable \subseteq Extractor
    BY DEF Applicable, Typing
  <1>5. DOMAIN db'.runs = Walked(s) \X Applicable
    BY <1>2
  <1>6. \A f \in Walked(s), e \in Applicable : db'.runs[<<f, e>>] = Key(s, f, e)
    BY <1>2
  <1>7. /\ \A f \in File : f \in DOMAIN db'.nodes <=> f \in Walked(s)
        /\ \A f \in Walked(s) : db'.nodes[f] = Hashes(s, f)
    BY <1>1, ZoneRows
  <1>8. KnownFiles' = Walked(s)
    BY <1>3, <1>7 DEF KnownFiles
  <1>9. \A f \in Walked(s) : Readers(f)' = Applicable
    BY <1>4, <1>5 DEF Readers
  <1>10. \A f \in Walked(s) : \A c : MayHold(f, c)' <=> Holds(s, f, c)
    BY <1>7 DEF MayHold, Holds
  <1>11. ASSUME NEW f \in Walked(s), NEW c, NEW e \in Applicable
         PROVE  Emitted(f, c, e)' = Finding(f, c, e)
    <2>1. db'.runs[<<f, e>>] = Key(s, f, e)
      BY <1>6
    <2>2. Key(s, f, e).side = sidecar[f] /\ Key(s, f, e).setting = setting[e]
      BY DEF Key
    <2>3. /\ db'.runs[<<f, e>>].side = sidecar[f]
          /\ db'.runs[<<f, e>>].setting = setting[e]
      BY <2>1, <2>2
    <2> QED BY <2>3 DEF Emitted, Finding
  <1>12. db'.links = Links(s) /\ db'.chips = Chips(s)
    BY <1>1 DEF Zone
  <1> QED BY <1>5, <1>6, <1>8, <1>9, <1>10, <1>11, <1>12

-----------------------------------------------------------------------------
(***************************************************************************)
(* Where the links of a scan come from, and what becomes of one.           *)
(***************************************************************************)
Row(l) == [source |-> l.source, target |-> l.target, sources |-> l.sources,
           prose |-> l.prose, resolved |-> l.resolved]

\* The links that are merged with k.
Twins(all, k) == {m \in all : Kin(m, k)}

\* e stands behind a link of f to t: cached and so stored, or found anew.
Stands(s, f, t, e) ==
    \/ e \in Cached(s, f) /\ \E k \in db.links :
           k.source = f /\ k.target = t /\ e \in k.sources
    \/ e \in Missing(s, f) /\ \E m \in Extracted(f, e).links : m.target = t

LEMMA KeptIs ==
    ASSUME Rows, NEW s, s.prior = db, NEW f, NEW l \in db.links
    PROVE  [l EXCEPT !.sources = @ \cap Cached(s, f)]
              = [source |-> l.source, target |-> l.target,
                 sources |-> l.sources \cap Cached(s, f),
                 prose |-> l.prose, resolved |-> l.resolved]
  <1>1. l = Row(l)
    BY DEF Rows, Row
  <1>2. Row(l).sources = l.sources
    BY DEF Row
  <1>3. [Row(l) EXCEPT !.sources = @ \cap Cached(s, f)]
              = [source |-> l.source, target |-> l.target,
                 sources |-> l.sources \cap Cached(s, f),
                 prose |-> l.prose, resolved |-> l.resolved]
    BY DEF Row
  <1> QED BY <1>1, <1>3

LEMMA OfferOrigin ==
    ASSUME Rows, NEW s, s.prior = db, NEW k \in AllLinks(s)
    PROVE  /\ k = Row(k)
           /\ k.source \in Walked(s) /\ k.sources # {}
           /\ \A e \in k.sources : Stands(s, k.source, k.target, e)
  <1>1. PICK f \in Walked(s) : k \in Kept(s, f) \/ k \in Found(s, f)
    BY DEF AllLinks
  <1>2. CASE k \in Kept(s, f)
    <2>1. PICK l \in db.links :
              /\ l.source = f /\ l.sources \cap Cached(s, f) # {}
              /\ k = [l EXCEPT !.sources = @ \cap Cached(s, f)]
      BY <1>2 DEF Kept
    <2>2. k = [source |-> l.source, target |-> l.target,
               sources |-> l.sources \cap Cached(s, f),
               prose |-> l.prose, resolved |-> l.resolved]
      BY <2>1, KeptIs
    <2>3. k = Row(k)
      BY <2>2 DEF Row
    <2>4. k.source = f /\ k.target = l.target /\ k.sources = l.sources \cap Cached(s, f)
      BY <2>1, <2>2
    <2> QED BY <1>1, <2>1, <2>3, <2>4 DEF Stands
  <1>3. CASE k \in Found(s, f)
    <2>1. PICK e \in Missing(s, f) : \E m \in Extracted(f, e).links :
              k = [source |-> f, target |-> m.target, sources |-> {e},
                   prose |-> m.prose, resolved |-> FALSE]
      BY <1>3 DEF Found
    <2>2. PICK m \in Extracted(f, e).links :
              k = [source |-> f, target |-> m.target, sources |-> {e},
                   prose |-> m.prose, resolved |-> FALSE]
      BY <2>1
    <2>3. k = Row(k)
      BY <2>2 DEF Row
    <2>4. k.source = f /\ k.target = m.target /\ k.sources = {e}
      BY <2>2
    <2> QED BY <1>1, <2>3, <2>4 DEF Stands
  <1> QED BY <1>1, <1>2, <1>3

\* The fields of a link after the merge and the lift.
LEMMA MergedIs ==
    ASSUME NEW all, NEW k \in all, NEW paths, NEW l, l = Lifted(Merged(all, k), paths)
    PROVE  /\ l = Row(l)
           /\ l.source = k.source /\ l.target = k.target
           /\ \A e : e \in l.sources <=> \E m \in Twins(all, k) : e \in m.sources
           /\ l.prose \in BOOLEAN /\ l.resolved \in BOOLEAN
           /\ l.prose <=> \E m \in Twins(all, k) : m.prose
           /\ l.resolved <=> (\E m \in Twins(all, k) : m.resolved) \/ k.target \in paths
  <1> DEFINE srcs == UNION {m.sources : m \in Twins(all, k)}
             prs == \E m \in Twins(all, k) : m.prose
             res == \E m \in Twins(all, k) : m.resolved
  <1>1. Merged(all, k) = [source |-> k.source, target |-> k.target, sources |-> srcs,
                          prose |-> prs, resolved |-> res]
    BY DEF Merged, Twins, Kin
  <1>2. \A e : e \in srcs <=> \E m \in Twins(all, k) : e \in m.sources
    OBVIOUS
  <1>3. prs \in BOOLEAN /\ res \in BOOLEAN
    OBVIOUS
  <1> HIDE DEF srcs, prs, res
  <1>4. l = [source |-> k.source, target |-> k.target, sources |-> srcs,
             prose |-> prs, resolved |-> res \/ k.target \in paths]
    BY <1>1 DEF Lifted
  <1>5. l = Row(l)
    BY <1>4 DEF Row
  <1>6. /\ l.source = k.source /\ l.target = k.target /\ l.sources = srcs
        /\ l.prose = prs /\ l.resolved = (res \/ k.target \in paths)
    BY <1>4
  <1>7. l.prose \in BOOLEAN /\ l.resolved \in BOOLEAN
    BY <1>3, <1>6
  <1>8. l.prose <=> prs
    BY <1>6
  <1>9. l.resolved <=> res \/ k.target \in paths
    BY <1>6
  <1> QED BY <1>2, <1>5, <1>6, <1>7, <1>8, <1>9 DEF prs, res

LEMMA LinkOrigin ==
    ASSUME Rows, NEW s, s.prior = db, NEW l \in Links(s)
    PROVE  /\ l = Row(l)
           /\ l.source \in Walked(s) /\ l.sources # {}
           /\ \A e \in l.sources : Stands(s, l.source, l.target, e)
           /\ l.prose \in BOOLEAN /\ l.resolved \in BOOLEAN
           /\ l.resolved \/ l.prose
           /\ l.target \in Paths(s) => l.resolved
  <1> DEFINE all == AllLinks(s)
  <1>1. PICK k \in all : l = Lifted(Merged(all, k), Paths(s))
    BY DEF Links, Pruned
  <1>2. l.resolved \/ l.prose
    BY DEF Links, Pruned
  <1>3. /\ l = Row(l)
        /\ l.source = k.source /\ l.target = k.target
        /\ \A e : e \in l.sources <=> \E m \in Twins(all, k) : e \in m.sources
        /\ l.prose \in BOOLEAN /\ l.resolved \in BOOLEAN
        /\ l.target \in Paths(s) => l.resolved
    BY <1>1, MergedIs
  <1>4. \A m \in all : /\ m.source \in Walked(s) /\ m.sources # {}
                       /\ \A e \in m.sources : Stands(s, m.source, m.target, e)
    BY OfferOrigin
  <1>5. k \in Twins(all, k)
    BY DEF Twins, Kin
  <1>6. l.sources # {}
    BY <1>3, <1>4, <1>5
  <1>7. ASSUME NEW e \in l.sources PROVE Stands(s, l.source, l.target, e)
    <2>1. PICK m \in Twins(all, k) : e \in m.sources
      BY <1>3
    <2>2. m \in all /\ m.source = k.source /\ m.target = k.target
      BY DEF Twins, Kin
    <2>3. Stands(s, m.source, m.target, e)
      BY <1>4, <2>1, <2>2
    <2> QED BY <1>3, <2>2, <2>3
  <1> HIDE DEF all
  <1>8. l.source \in Walked(s)
    BY <1>3, <1>4
  <1> QED BY <1>2, <1>3, <1>6, <1>7, <1>8

\* A link that prose carries is not pruned, and has the sources of its twins.
LEMMA LinkKept ==
    ASSUME NEW s, NEW k \in AllLinks(s), k.prose
    PROVE  \E l \in Links(s) :
              /\ l.source = k.source /\ l.target = k.target /\ l.prose
              /\ \A m \in AllLinks(s) : Kin(m, k) => m.sources \subseteq l.sources
  <1> DEFINE all == AllLinks(s)
             l == Lifted(Merged(all, k), Paths(s))
  <1>1. /\ l.source = k.source /\ l.target = k.target
        /\ \A e : e \in l.sources <=> \E m \in Twins(all, k) : e \in m.sources
        /\ l.prose <=> \E m \in Twins(all, k) : m.prose
    BY MergedIs
  <1>2. k \in Twins(all, k)
    BY DEF Twins, Kin
  <1>3. l.prose
    BY <1>1, <1>2
  <1>4. l \in Links(s)
    BY <1>3 DEF Links, Pruned
  <1>5. ASSUME NEW m \in all, Kin(m, k) PROVE m.sources \subseteq l.sources
    <2>1. m \in Twins(all, k)
      BY <1>5 DEF Twins
    <2> QED BY <1>1, <2>1
  <1> QED BY <1>1, <1>3, <1>4, <1>5

-----------------------------------------------------------------------------
(***************************************************************************)
(* A scan leaves the story true.                                           *)
(***************************************************************************)

\* A file that is not blind after a scan that reused something was not before.
LEMMA SightKept ==
    ASSUME NEW s, Scan(s), NEW f \in Walked(s), f \notin blind',
           Cached(s, f) # {} \/ FullHit(s, f)
    PROVE  f \notin blind
  BY DEF Scan

LEMMA VirtualRows ==
    ASSUME Story, NEW s, s.prior = db, Scan(s), NEW v \in DOMAIN db'.from
    PROVE  LET f == db'.from[v]
           IN \/ f \in Walked(s) /\ \E e \in Missing(s, f) : v \in Extracted(f, e).nodes
              \/ /\ v \in DOMAIN db.from /\ f = db.from[v]
                 /\ f \in Walked(s) /\ FullHit(s, f)
  <1>1. PICK w \in Winners(s) : db' = Zone(s, w)
    BY DEF Scan
  <1>2. db'.from = [u \in FreshNodes(s) \cup Carried(s) |->
                       IF u \in FreshNodes(s) THEN w[u] ELSE s.prior.from[u]]
    BY <1>1 DEF Zone
  <1>3. CASE v \in FreshNodes(s)
    <2>1. db'.from[v] \in Emitters(s, v)
      BY <1>2, <1>3 DEF Winners
    <2> QED BY <2>1 DEF Emitters
  <1>4. CASE v \notin FreshNodes(s)
    <2>1. v \in Carried(s) /\ db'.from[v] = db.from[v]
      BY <1>2, <1>4
    <2> QED BY <2>1 DEF Carried
  <1> QED BY <1>3, <1>4

LEMMA RowsAgain ==
    ASSUME Knowledge, Story, NEW s, s.prior = db, Scan(s)
    PROVE  Rows'
  <1>1. Typing /\ Rows
    BY DEF Story
  <1>2. /\ KnownFiles' = Walked(s)
        /\ DOMAIN db'.runs = Walked(s) \X Applicable
        /\ \A f \in Walked(s) : Readers(f)' = Applicable
        /\ db'.links = Links(s)
    BY <1>1, RowsAfter
  <1>3. \A k \in DOMAIN db'.runs : k \in KnownFiles' \X Extractor
    BY <1>1, <1>2 DEF Typing, Applicable
  <1>4. ASSUME NEW l \in db'.links
        PROVE  /\ l = Row(l) /\ l.source \in KnownFiles'
               /\ l.sources # {} /\ l.sources \subseteq Readers(l.source)'
    <2>1. /\ l = Row(l) /\ l.source \in Walked(s) /\ l.sources # {}
          /\ \A e \in l.sources : Stands(s, l.source, l.target, e)
      BY <1>1, <1>2, LinkOrigin
    <2>2. l.sources \subseteq Applicable
      BY <2>1 DEF Stands, Cached, Missing
    <2> QED BY <1>2, <2>1, <2>2
  <1>5. \A v \in DOMAIN db'.from : db'.from[v] \in KnownFiles'
    BY <1>2, VirtualRows
  <1> QED BY <1>3, <1>4, <1>5 DEF Rows, Row

LEMMA FaithfulAgain ==
    ASSUME Knowledge, Story, NEW s, s.prior = db, Scan(s)
    PROVE  Faithful'
  <1>1. Typing /\ Rows /\ Faithful
    BY DEF Story
  <1> SUFFICES ASSUME NEW l \in db'.links, NEW f, f = l.source, f \notin blind',
                      NEW c \in Content, MayHold(f, c)', NEW e \in l.sources,
                      NEW t, t = l.target
               PROVE  FindsLink(f, c, e, t)'
    BY DEF Faithful, MayHold, FindsLink, Emitted
  <1>2. l \in Links(s)
    BY <1>1, RowsAfter
  <1>3. f \in Walked(s) /\ Stands(s, f, t, e)
    BY <1>1, <1>2, LinkOrigin
  <1>4. e \in Applicable
    BY <1>3 DEF Stands, Cached, Missing
  <1>5. Holds(s, f, c) /\ Emitted(f, c, e)' = Finding(f, c, e)
    <2>1. Holds(s, f, c)
      BY <1>1, <1>3, RowsAfter
    <2>2. Emitted(f, c, e)' = Finding(f, c, e)
      BY <1>1, <1>3, <1>4, RowsAfter
    <2> QED BY <2>1, <2>2
  <1>6. \E m \in Finding(f, c, e).links : m.target = t
    <2>1. CASE e \in Missing(s, f)
      <3>1. Extracted(f, e) = Finding(f, c, e)
        BY <1>1, <1>3, <1>5, <2>1, FoundAfresh
      <3>2. e \notin Cached(s, f)
        BY <2>1 DEF Missing
      <3> QED BY <1>3, <3>1, <3>2 DEF Stands
    <2>2. CASE e \in Cached(s, f)
      <3>1. f \notin blind
        BY <1>3, <2>2, SightKept
      <3>2. PICK k \in db.links : k.source = f /\ k.target = t /\ e \in k.sources
        BY <1>3, <2>2 DEF Stands, Missing
      <3>3. MayHold(f, c) /\ Emitted(f, c, e) = Finding(f, c, e)
        BY <1>1, <1>5, <2>2, FoundBefore
      <3>4. FindsLink(f, c, e, t)
        BY <1>1, <3>1, <3>2, <3>3 DEF Faithful
      <3> QED BY <3>3, <3>4 DEF FindsLink
    <2> QED BY <1>3, <2>1, <2>2 DEF Stands
  <1> QED BY <1>5, <1>6 DEF FindsLink

LEMMA NamedAgain ==
    ASSUME Knowledge, Story, NEW s, s.prior = db, Scan(s)
    PROVE  Named'
  <1>1. Typing /\ Rows /\ Named
    BY DEF Story
  <1> SUFFICES ASSUME NEW v \in DOMAIN db'.from, NEW f, f = db'.from[v], f \notin blind',
                      NEW c \in Content, MayHold(f, c)'
               PROVE  \E e \in Extractor, a \in Sidecar, x \in Setting :
                         /\ v \in Emits[e][<<c, a, x>>].nodes
                         /\ <<f, e>> \in DOMAIN db'.runs =>
                               /\ a = db'.runs[<<f, e>>].side
                               /\ x = db'.runs[<<f, e>>].setting
    BY DEF Named, NamedIn, MayHold
  <1>2. f \in Walked(s)
    BY VirtualRows
  <1>3. Holds(s, f, c)
    BY <1>1, <1>2, RowsAfter
  <1>4. /\ DOMAIN db'.runs = Walked(s) \X Applicable
        /\ \A e \in Applicable : db'.runs[<<f, e>>] = Key(s, f, e)
    BY <1>1, <1>2, RowsAfter
  <1>5. \A e : Key(s, f, e).side = sidecar[f] /\ Key(s, f, e).setting = setting[e]
    BY DEF Key
  <1>6. f \in File
    BY <1>2, WalkedFiles
  <1>7. CASE \E e \in Missing(s, f) : v \in Extracted(f, e).nodes
    <2>1. PICK e \in Missing(s, f) : v \in Extracted(f, e).nodes
      BY <1>7
    <2>2. Extracted(f, e) = Finding(f, c, e)
      BY <1>1, <1>2, <1>3, FoundAfresh
    <2>3. e \in Applicable /\ e \in Extractor
      BY <1>1 DEF Missing, Applicable, Typing
    <2>4. sidecar[f] \in Sidecar /\ setting[e] \in Setting
      BY <1>1, <1>6, <2>3 DEF Typing
    <2>5. v \in Emits[e][<<c, sidecar[f], setting[e]>>].nodes
      BY <2>1, <2>2 DEF Finding
    <2>6. db'.runs[<<f, e>>].side = sidecar[f] /\ db'.runs[<<f, e>>].setting = setting[e]
      BY <1>4, <1>5, <2>3
    <2> QED BY <2>3, <2>4, <2>5, <2>6
  <1>8. CASE v \in DOMAIN db.from /\ f = db.from[v] /\ FullHit(s, f)
    <2>1. f \notin blind
      BY <1>2, <1>8, SightKept
    <2>2. MayHold(f, c)
      BY <1>3, <1>8 DEF FullHit, Eligible, Holds, MayHold
    <2>3. PICK e \in Extractor, a \in Sidecar, x \in Setting :
              /\ v \in Emits[e][<<c, a, x>>].nodes
              /\ <<f, e>> \in DOMAIN db.runs =>
                    a = db.runs[<<f, e>>].side /\ x = db.runs[<<f, e>>].setting
      BY <1>1, <1>8, <2>1, <2>2 DEF Named, NamedIn, MayHold
    <2>4. CASE e \in Applicable
      <3>1. e \in Cached(s, f)
        BY <1>8, <2>4 DEF FullHit, Missing
      <3>2. <<f, e>> \in DOMAIN db.runs /\ db.runs[<<f, e>>] = Key(s, f, e)
        BY <3>1 DEF Cached
      <3> QED BY <1>4, <2>3, <2>4, <3>2
    <2>5. CASE e \notin Applicable
      BY <1>4, <2>3, <2>5
    <2> QED BY <2>4, <2>5
  <1> QED BY <1>7, <1>8, VirtualRows

\* The rows of a file that are not mixed are all of before, or all new.
LEMMA OneExtraction ==
    ASSUME NEW s, Scan(s), NEW f \in Walked(s), f \notin mixed', f \notin blind'
    PROVE  \/ /\ FullHit(s, f) /\ f \notin mixed /\ f \notin blind
              /\ Cached(s, f) = Applicable /\ Missing(s, f) = {}
           \/ Cached(s, f) = {} /\ Missing(s, f) = Applicable
  <1>1. ~PartialHit(s, f) /\ (FullHit(s, f) => f \notin mixed)
    BY DEF Scan
  <1>2. CASE FullHit(s, f)
    <2>1. Missing(s, f) = {} /\ f \notin blind
      BY <1>2, SightKept DEF FullHit
    <2>2. Cached(s, f) = Applicable
      BY <2>1 DEF Missing, Cached
    <2> QED BY <1>1, <1>2, <2>1, <2>2
  <1>3. CASE ~FullHit(s, f)
    <2>1. Cached(s, f) = {}
      BY <1>1, <1>3 DEF FullHit, PartialHit, Cached
    <2> QED BY <2>1 DEF Missing
  <1> QED BY <1>2, <1>3

LEMMA FoundOffered ==
    ASSUME NEW s, NEW f \in Walked(s), NEW e \in Missing(s, f),
           NEW m \in Extracted(f, e).links
    PROVE  [source |-> f, target |-> m.target, sources |-> {e},
            prose |-> m.prose, resolved |-> FALSE] \in AllLinks(s)
  <1> DEFINE offer(d, l) == [source |-> f, target |-> l.target, sources |-> {d},
                             prose |-> l.prose, resolved |-> FALSE]
             offers(d) == {offer(d, l) : l \in Extracted(f, d).links}
  <1>1. offer(e, m) \in offers(e)
    OBVIOUS
  <1>2. Found(s, f) = UNION {offers(d) : d \in Missing(s, f)}
    BY DEF Found
  <1> HIDE DEF offers
  <1>3. offer(e, m) \in Found(s, f)
    BY <1>1, <1>2
  <1> QED BY <1>3 DEF AllLinks

LEMMA KeptOffered ==
    ASSUME Rows, NEW s, s.prior = db, NEW f \in Walked(s), NEW l \in db.links,
           l.source = f, l.sources \cap Missing(s, f) = {},
           l.sources \cap Cached(s, f) # {}
    PROVE  [source |-> l.source, target |-> l.target,
            sources |-> l.sources \cap Cached(s, f),
            prose |-> l.prose, resolved |-> l.resolved] \in AllLinks(s)
  <1>1. [l EXCEPT !.sources = @ \cap Cached(s, f)] \in Kept(s, f)
    BY DEF Kept
  <1> QED BY <1>1, KeptIs DEF AllLinks

\* What prose carries in a file is offered with everybody who finds it.
LEMMA WholeOffer ==
    ASSUME Knowledge, Story, NEW s, s.prior = db, Scan(s), NEW f \in Walked(s),
           f \notin mixed', f \notin blind', NEW c \in Content, Holds(s, f, c),
           NEW e \in Applicable, NEW m \in Finding(f, c, e).links, m.prose
    PROVE  \E k \in AllLinks(s) :
              /\ k.source = f /\ k.target = m.target /\ k.prose
              /\ \A d \in Applicable :
                    (\E n \in Finding(f, c, d).links : n.target = m.target) =>
                        \E x \in AllLinks(s) : Kin(x, k) /\ d \in x.sources
  <1>1. Typing /\ Rows /\ Whole
    BY DEF Story
  <1>2. CASE Cached(s, f) = {} /\ Missing(s, f) = Applicable
    <2>1. \A d \in Applicable : Extracted(f, d) = Finding(f, c, d)
      BY <1>1, <1>2, FoundAfresh
    <2> DEFINE Offer(d, n) == [source |-> f, target |-> n.target, sources |-> {d},
                               prose |-> n.prose, resolved |-> FALSE]
    <2>2. \A d \in Applicable : \A n \in Finding(f, c, d).links : Offer(d, n) \in AllLinks(s)
      BY <1>2, <2>1, FoundOffered
    <2>3. ASSUME NEW d \in Applicable, NEW n \in Finding(f, c, d).links,
                 n.target = m.target
          PROVE  \E x \in AllLinks(s) : Kin(x, Offer(e, m)) /\ d \in x.sources
      <3>1. Offer(d, n) \in AllLinks(s)
        BY <2>2
      <3>2. Kin(Offer(d, n), Offer(e, m)) /\ d \in Offer(d, n).sources
        BY <2>3 DEF Kin
      <3> QED BY <3>1, <3>2
    <2>4. /\ Offer(e, m) \in AllLinks(s)
          /\ Offer(e, m).source = f /\ Offer(e, m).target = m.target /\ Offer(e, m).prose
      BY <2>2
    <2> HIDE DEF Offer
    <2> QED BY <2>3, <2>4
  <1>3. CASE /\ FullHit(s, f) /\ f \notin mixed /\ f \notin blind
             /\ Cached(s, f) = Applicable /\ Missing(s, f) = {}
    <2>1. /\ f \in KnownFiles /\ MayHold(f, c)
          /\ \A d \in Applicable : d \in Readers(f) /\ Emitted(f, c, d) = Finding(f, c, d)
      BY <1>1, <1>3, FoundBefore
    <2>2. PICK l \in db.links :
              /\ l.source = f /\ l.target = m.target /\ l.prose
              /\ \A d \in Readers(f) : FindsLink(f, c, d, m.target) => d \in l.sources
      BY <1>1, <1>3, <2>1 DEF Whole
    <2>3. \A d \in Applicable :
              (\E n \in Finding(f, c, d).links : n.target = m.target) => d \in l.sources
      BY <2>1, <2>2 DEF FindsLink
    <2> DEFINE k == [source |-> l.source, target |-> l.target,
                     sources |-> l.sources \cap Cached(s, f),
                     prose |-> l.prose, resolved |-> l.resolved]
    <2>4. e \in l.sources
      BY <2>3
    <2>5. k \in AllLinks(s)
      BY <1>1, <1>3, <2>2, <2>4, KeptOffered
    <2>6. /\ k.source = f /\ k.target = m.target /\ k.prose
          /\ k.sources = l.sources \cap Applicable
      BY <1>3, <2>2
    <2> HIDE DEF k
    <2> QED BY <2>3, <2>5, <2>6 DEF Kin
  <1> QED BY <1>2, <1>3, OneExtraction

LEMMA ChipsAfresh ==
    ASSUME NEW s, NEW f \in Walked(s), NEW e \in Missing(s, f)
    PROVE  {r.chip : r \in {x \in Chips(s) : x.file = f /\ x.by = e}}
              = Extracted(f, e).chips
  <1>1. e \in Applicable
    BY DEF Missing
  <1>2. ASSUME NEW x \in Chips(s), x.file = f, x.by = e
        PROVE  x.chip \in Extracted(f, e).chips
    <2>1. PICK q \in Walked(s) \X Applicable : \E y \in Extracted(q[1], q[2]).chips :
              x = [file |-> q[1], by |-> q[2], chip |-> y]
      BY <1>2 DEF Chips
    <2> QED BY <1>2, <2>1
  <1>3. ASSUME NEW y \in Extracted(f, e).chips
        PROVE  \E x \in Chips(s) : x.file = f /\ x.by = e /\ x.chip = y
    <2> DEFINE q == <<f, e>>
               x == [file |-> q[1], by |-> q[2], chip |-> y]
    <2>1. q \in Walked(s) \X Applicable /\ q[2] \in Missing(s, q[1])
      BY <1>1
    <2>2. x \in Chips(s)
      BY <2>1 DEF Chips
    <2> QED BY <2>2
  <1> QED BY <1>2, <1>3

LEMMA ChipsKept ==
    ASSUME NEW s, s.prior = db, NEW f \in Walked(s), NEW e \in Cached(s, f)
    PROVE  {r.chip : r \in {x \in Chips(s) : x.file = f /\ x.by = e}} = ChipsOf(f, e)
  <1>1. e \in installed /\ e \notin Missing(s, f)
    BY DEF Cached, Missing, Applicable
  <1>2. ASSUME NEW x, x.file = f, x.by = e
        PROVE  x \in Chips(s) <=> x \in db.chips
    <2>1. ASSUME NEW q \in Walked(s) \X Applicable, q[2] \in Missing(s, q[1]), NEW y
          PROVE  x # [file |-> q[1], by |-> q[2], chip |-> y]
      BY <1>1, <1>2, <2>1
    <2> QED BY <1>1, <1>2, <2>1 DEF Chips
  <1> QED BY <1>2 DEF ChipsOf

LEMMA WholeAgain ==
    ASSUME Knowledge, Story, NEW s, s.prior = db, Scan(s)
    PROVE  Whole'
  <1>1. Typing /\ Rows /\ Whole
    BY DEF Story
  <1>2. /\ KnownFiles' = Walked(s)
        /\ \A f \in Walked(s) : Readers(f)' = Applicable
        /\ \A f \in Walked(s), c \in Content : MayHold(f, c)' <=> Holds(s, f, c)
        /\ \A f \in Walked(s), c \in Content, e \in Applicable :
              Emitted(f, c, e)' = Finding(f, c, e)
        /\ db'.links = Links(s) /\ db'.chips = Chips(s)
    BY <1>1, RowsAfter
  <1> SUFFICES ASSUME NEW f \in Walked(s), f \notin mixed', f \notin blind',
                      NEW c \in Content, Holds(s, f, c), NEW e \in Applicable
               PROVE  /\ \A m \in Finding(f, c, e).links : m.prose =>
                            \E l \in Links(s) :
                                /\ l.source = f /\ l.target = m.target /\ l.prose
                                /\ \A d \in Applicable :
                                      FindsLink(f, c, d, m.target)' => d \in l.sources
                      /\ ChipsOf(f, e)' = Finding(f, c, e).chips
    BY <1>2 DEF Whole
  <1>3. ASSUME NEW m \in Finding(f, c, e).links, m.prose
        PROVE  \E l \in Links(s) :
                  /\ l.source = f /\ l.target = m.target /\ l.prose
                  /\ \A d \in Applicable : FindsLink(f, c, d, m.target)' => d \in l.sources
    <2>1. PICK k \in AllLinks(s) :
              /\ k.source = f /\ k.target = m.target /\ k.prose
              /\ \A d \in Applicable :
                    (\E n \in Finding(f, c, d).links : n.target = m.target) =>
                        \E x \in AllLinks(s) : Kin(x, k) /\ d \in x.sources
      BY <1>3, WholeOffer
    <2>2. PICK l \in Links(s) :
              /\ l.source = k.source /\ l.target = k.target /\ l.prose
              /\ \A x \in AllLinks(s) : Kin(x, k) => x.sources \subseteq l.sources
      BY <2>1, LinkKept
    <2>3. ASSUME NEW d \in Applicable, FindsLink(f, c, d, m.target)'
          PROVE  d \in l.sources
      <3>1. \E n \in Finding(f, c, d).links : n.target = m.target
        BY <1>2, <2>3 DEF FindsLink
      <3> QED BY <2>1, <2>2, <3>1
    <2> QED BY <2>1, <2>2, <2>3
  <1>4. ChipsOf(f, e)' = Finding(f, c, e).chips
    <2>1. ChipsOf(f, e)' = {r.chip : r \in {x \in Chips(s) : x.file = f /\ x.by = e}}
      BY <1>2 DEF ChipsOf
    <2>2. CASE Cached(s, f) = {} /\ Missing(s, f) = Applicable
      BY <1>1, <2>1, <2>2, ChipsAfresh, FoundAfresh
    <2>3. CASE /\ FullHit(s, f) /\ f \notin mixed /\ f \notin blind
               /\ Cached(s, f) = Applicable
      <3>1. ChipsOf(f, e)' = ChipsOf(f, e)
        BY <2>1, <2>3, ChipsKept
      <3>2. /\ f \in KnownFiles /\ MayHold(f, c) /\ e \in Readers(f)
            /\ Emitted(f, c, e) = Finding(f, c, e)
        BY <1>1, <2>3, FoundBefore
      <3>3. ChipsOf(f, e) = Emitted(f, c, e).chips
        BY <1>1, <2>3, <3>2 DEF Whole
      <3> QED BY <3>1, <3>2, <3>3
    <2> QED BY <2>2, <2>3, OneExtraction
  <1> QED BY <1>3, <1>4

\* A scan that saw everything as it is.
SeesAll(s) == Walked(s) = DOMAIN disk /\ \A f \in DOMAIN disk : Hashes(s, f) = OnDisk(f)

LEMMA CurrentAgain ==
    ASSUME Knowledge, Typing, NEW s, s.prior = db, Scan(s), quiet' => SeesAll(s)
    PROVE  Current'
  <1> SUFFICES ASSUME quiet' PROVE
          /\ db'.lens = lens /\ KnownFiles' = DOMAIN disk
          /\ \A f \in DOMAIN disk : db'.nodes[f] = OnDisk(f)
          /\ DOMAIN db'.runs = (DOMAIN disk) \X Applicable
          /\ \A k \in DOMAIN db'.runs :
                db'.runs[k] = [body |-> Body[disk[k[1]]], side |-> sidecar[k[1]],
                               setting |-> setting[k[2]]]
    BY DEF Current, OnDisk, Scan, world, Applicable
  <1>1. SeesAll(s)
    OBVIOUS
  <1>2. PICK w \in Winners(s) : db' = Zone(s, w)
    BY DEF Scan
  <1>3. db'.lens = lens /\ \A f \in Walked(s) : db'.nodes[f] = Hashes(s, f)
    BY <1>2, ZoneRows
  <1>4. /\ KnownFiles' = Walked(s) /\ DOMAIN db'.runs = Walked(s) \X Applicable
        /\ \A f \in Walked(s), e \in Applicable : db'.runs[<<f, e>>] = Key(s, f, e)
    BY RowsAfter
  <1>5. \A f \in DOMAIN disk, e \in Applicable :
            Key(s, f, e) = [body |-> Body[disk[f]], side |-> sidecar[f],
                            setting |-> setting[e]]
    BY <1>1 DEF Key, SeesAll, OnDisk
  <1>6. ASSUME NEW k \in DOMAIN db'.runs
        PROVE  db'.runs[k] = [body |-> Body[disk[k[1]]], side |-> sidecar[k[1]],
                              setting |-> setting[k[2]]]
    <2>1. k[1] \in DOMAIN disk /\ k[2] \in Applicable /\ k = <<k[1], k[2]>>
      BY <1>1, <1>4, <1>6 DEF SeesAll
    <2>2. db'.runs[<<k[1], k[2]>>] = Key(s, k[1], k[2])
      BY <1>1, <1>4, <2>1 DEF SeesAll
    <2> QED BY <1>5, <2>1, <2>2
  <1> QED BY <1>1, <1>3, <1>4, <1>6 DEF SeesAll

LEMMA LinksDiffer ==
    ASSUME NEW s, NEW l \in Links(s), NEW k \in Links(s), Kin(l, k)
    PROVE  l = k
  <1> DEFINE all == AllLinks(s)
  <1>1. PICK i \in all : l = Lifted(Merged(all, i), Paths(s))
    BY DEF Links, Pruned
  <1>2. PICK j \in all : k = Lifted(Merged(all, j), Paths(s))
    BY DEF Links, Pruned
  <1>3. /\ l.source = i.source /\ l.target = i.target
        /\ k.source = j.source /\ k.target = j.target
    BY <1>1, <1>2, MergedIs
  <1> HIDE DEF all
  <1>4. i.source = j.source /\ i.target = j.target
    BY <1>3 DEF Kin
  <1>5. Merged(all, i) = Merged(all, j)
    BY <1>4 DEF Merged
  <1> QED BY <1>1, <1>2, <1>5

LEMMA StoredAgain ==
    ASSUME Knowledge, Story, NEW s, s.prior = db, Scan(s), quiet' => SeesAll(s)
    PROVE  Stored'
  <1>1. Typing /\ Rows
    BY DEF Story
  <1>2. PICK w \in Winners(s) : db' = Zone(s, w)
    BY DEF Scan
  <1>3. disk' = disk /\ installed' = installed
    BY DEF Scan, world
  <1>4. /\ db' = [lens |-> lens, nodes |-> db'.nodes, from |-> db'.from,
                  links |-> Links(s), refs |-> Refs(s), runs |-> Runs(s),
                  chips |-> Chips(s)]
        /\ db'.nodes = [n \in Paths(s) |-> IF n \in File THEN Hashes(s, n) ELSE VirtualHash]
        /\ db'.from = [v \in FreshNodes(s) \cup Carried(s) |->
                          IF v \in FreshNodes(s) THEN w[v] ELSE s.prior.from[v]]
    BY <1>2 DEF Zone
  <1>5. /\ db'.lens = lens /\ db'.links = Links(s) /\ db'.refs = Refs(s)
        /\ db'.runs = Runs(s) /\ db'.chips = Chips(s)
    BY <1>2 DEF Zone
  <1>6. /\ DOMAIN db'.nodes = Paths(s)
        /\ DOMAIN db'.from = FreshNodes(s) \cup Carried(s)
    BY <1>4
  <1>7. DOMAIN db'.nodes = Walked(s) \cup DOMAIN db'.from
    BY <1>6 DEF Paths
  <1>8. DOMAIN db'.from \subseteq Server
    BY <1>2, ZoneRows
  <1>9. \A v \in DOMAIN db'.from : db'.nodes[v] = VirtualHash
    BY <1>4, <1>6, <1>7, <1>8, ScanAssumption
  <1>10. ASSUME NEW l \in db'.links
         PROVE  /\ l.prose \in BOOLEAN /\ l.resolved \in BOOLEAN
                /\ l.resolved \/ l.prose
                /\ l.target \in DOMAIN db'.nodes => l.resolved
                /\ \A k \in db'.links : Kin(l, k) => l = k
    BY <1>1, <1>5, <1>6, LinkOrigin, LinksDiffer
  <1>11. ASSUME NEW c \in db'.chips
         PROVE  c.file \in Walked(s) /\ c.by \in installed
    BY <1>5 DEF Chips, Applicable
  <1>12. db'.runs = [k \in DOMAIN db'.runs |-> db'.runs[k]]
    BY <1>5 DEF Runs
  <1>13. db'.refs = [f \in Walked(s) |-> db'.refs[f]]
    BY <1>5 DEF Refs
  <1>14. /\ db'.nodes = [n \in DOMAIN db'.nodes |-> db'.nodes[n]]
         /\ db'.from = [v \in DOMAIN db'.from |-> db'.from[v]]
    BY <1>4
  <1>15. db' = [lens |-> db'.lens, nodes |-> db'.nodes, from |-> db'.from,
                links |-> db'.links, refs |-> db'.refs, runs |-> db'.runs,
                chips |-> db'.chips]
    BY <1>4, <1>5
  <1> QED
    BY <1>3, <1>7, <1>9, <1>10, <1>11, <1>12, <1>13, <1>14, <1>15 DEF Stored, SeesAll

\* Each of the scans is of the rows before it, and sees all if it ends quiet.
LEMMA EachScan ==
    ASSUME Knowledge, ScanFull \/ ScanCached \/ ScanBatch
    PROVE  \E s : s.prior = db /\ Scan(s) /\ (quiet' => SeesAll(s))
  <1>1. ASSUME NEW s, Scan(s), ~s.scoped
        PROVE  SeesAll(s)
    BY <1>1 DEF SeesAll, Walked, Hashes, Injected, Incremental, OnDisk
  <1>2. CASE ScanFull
    <2>1. FullScan(db).prior = db /\ ~FullScan(db).scoped
      BY DEF FullScan
    <2> QED BY <1>1, <1>2, <2>1 DEF ScanFull
  <1>3. CASE ScanCached
    <2>1. CachedScan(db).prior = db /\ ~CachedScan(db).scoped
      BY DEF CachedScan
    <2> QED BY <1>1, <1>3, <2>1 DEF ScanCached
  <1>4. CASE ScanBatch
    <2>1. PICK n \in 1..Len(pending) :
              /\ pending' = SubSeq(pending, n + 1, Len(pending))
              /\ Scan(ScopedScan(db, {pending[i] : i \in 1..n}))
      BY <1>4 DEF ScanBatch
    <2> DEFINE s == ScopedScan(db, {pending[i] : i \in 1..n})
    <2>2. s.prior = db
      BY DEF ScopedScan
    <2>3. CASE ~Incremental(s)
      <3>1. SeesAll(s)
        BY <2>3 DEF SeesAll, Walked, Hashes, Injected, OnDisk
      <3> QED BY <2>1, <2>2, <3>1
    <2>4. CASE Incremental(s) /\ quiet'
      <3>1. pending' = <<>>
        BY <2>1, <2>4 DEF Scan
      <3>2. pending \in Seq(Event)
        BY DEF Knowledge, Shape
      <3>3. Len(pending') = Len(pending) - n
        BY <2>1, <3>2, Remaining
      <3>4. n = Len(pending) /\ n \in Nat
        BY <3>1, <3>2, <3>3
      <3>5. \A f : ~ToldFrom(n + 1, f)
        BY <3>4 DEF ToldFrom
      <3>6. \A f \in File : /\ f \in Walked(s) <=> f \in DOMAIN disk
                            /\ f \in DOMAIN disk => Hashes(s, f) = OnDisk(f)
        BY <3>5, BatchReads
      <3>7. Walked(s) \subseteq File /\ DOMAIN disk \subseteq File
        BY WalkedFiles DEF Knowledge, Shape
      <3>8. SeesAll(s)
        BY <3>6, <3>7 DEF SeesAll
      <3> QED BY <2>1, <2>2, <3>8
    <2>5. CASE ~quiet'
      BY <2>1, <2>2, <2>5
    <2> QED BY <2>3, <2>4, <2>5
  <1> QED BY <1>2, <1>3, <1>4

LEMMA ScanTells ==
    ASSUME Knowledge, Story, ScanFull \/ ScanCached \/ ScanBatch
    PROVE  Story' /\ Stored'
  <1>1. PICK s : s.prior = db /\ Scan(s) /\ (quiet' => SeesAll(s))
    BY EachScan
  <1>2. Typing
    BY DEF Story
  <1>3. Typing'
    BY <1>1, <1>2 DEF Typing, Scan, world
  <1> QED
    BY <1>1, <1>2, <1>3, RowsAgain, FaithfulAgain, WholeAgain, NamedAgain,
       CurrentAgain, StoredAgain DEF Story

-----------------------------------------------------------------------------
(***************************************************************************)
(* What happens between scans changes no row, or drops them all.           *)
(***************************************************************************)
RowStory == Rows /\ Faithful /\ Whole /\ Named

LEMMA RowsAlone ==
    ASSUME RowStory, db' = db, mixed' = mixed, blind' = blind
    PROVE  RowStory'
  <1>1. Rows'
    BY DEF RowStory, Rows, KnownFiles, Readers
  <1>2. Faithful'
    BY DEF RowStory, Faithful, MayHold, FindsLink, Emitted
  <1>3. Whole'
    BY DEF RowStory, Whole, KnownFiles, Readers, MayHold, Emitted, FindsLink, ChipsOf
  <1>4. Named'
    <2> SUFFICES ASSUME NEW v \in DOMAIN db.from, NEW f, f = db.from[v], f \notin blind,
                        NEW c \in Content, MayHold(f, c)
                 PROVE  NamedIn(v, f, c)'
      BY DEF Named, MayHold
    <2>1. NamedIn(v, f, c)
      BY DEF RowStory, Named, MayHold
    <2> QED BY <2>1 DEF NamedIn
  <1> QED BY <1>1, <1>2, <1>3, <1>4 DEF RowStory

LEMMA NoRows ==
    ASSUME db' = EmptyZone
    PROVE  RowStory'
  <1>1. /\ DOMAIN db'.runs = {} /\ db'.links = {} /\ DOMAIN db'.from = {}
        /\ DOMAIN db'.nodes = {}
    BY DEF EmptyZone
  <1> QED BY <1>1 DEF RowStory, Rows, Faithful, Whole, Named, KnownFiles

LEMMA HappeningTells ==
    ASSUME Story, Happening
    PROVE  Story' /\ Stored'
  <1>1. Typing /\ RowStory
    BY DEF Story, RowStory
  <1>2. ASSUME NEW kind, Happens(kind)
        PROVE  quiet' = FALSE /\ mixed' = mixed /\ blind' = blind
    BY <1>2 DEF Happens
  <1>3. ASSUME NEW f \in File, NEW c \in Content, WriteFile(f, c)
        PROVE  Typing' /\ RowStory' /\ ~quiet'
    <2>1. Typing'
      BY <1>1, <1>3 DEF WriteFile, Typing
    <2> QED BY <1>1, <1>2, <1>3, <2>1, RowsAlone DEF WriteFile
  <1>4. ASSUME NEW f \in File, RemoveFile(f)
        PROVE  Typing' /\ RowStory' /\ ~quiet'
    <2>1. Typing'
      BY <1>1, <1>4 DEF RemoveFile, Typing
    <2> QED BY <1>1, <1>2, <1>4, <2>1, RowsAlone DEF RemoveFile
  <1>5. ASSUME NEW f \in File, NEW a \in Sidecar, WriteSidecar(f, a)
        PROVE  Typing' /\ RowStory' /\ ~quiet'
    <2>1. Typing'
      BY <1>1, <1>5 DEF WriteSidecar, Typing
    <2> QED BY <1>1, <1>2, <1>5, <2>1, RowsAlone DEF WriteSidecar
  <1>6. ASSUME NEW e \in Extractor, NEW v \in Setting, Configure(e, v)
        PROVE  Typing' /\ RowStory' /\ ~quiet'
    <2>1. Typing'
      BY <1>1, <1>6 DEF Configure, Typing
    <2> QED BY <1>1, <1>2, <1>6, <2>1, RowsAlone DEF Configure
  <1>7. ASSUME NEW e \in Extractor, Install(e) \/ Uninstall(e)
        PROVE  Typing' /\ RowStory' /\ ~quiet'
    <2>1. Typing'
      BY <1>1, <1>7 DEF Install, Uninstall, Typing
    <2> QED BY <1>1, <1>2, <1>7, <2>1, RowsAlone DEF Install, Uninstall
  <1>8. ASSUME NEW l \in Lens, NEW drop \in BOOLEAN, SwitchLens(l, drop)
        PROVE  Typing' /\ RowStory' /\ ~quiet'
    <2>1. Typing'
      BY <1>1, <1>8 DEF SwitchLens, Typing
    <2>2. quiet' = FALSE /\ mixed' = mixed /\ blind' = blind
      BY <1>2, <1>8 DEF SwitchLens
    <2>3. CASE drop
      BY <1>8, <2>1, <2>2, <2>3, NoRows DEF SwitchLens
    <2>4. CASE ~drop
      BY <1>1, <1>8, <2>1, <2>2, <2>4, RowsAlone DEF SwitchLens
    <2> QED BY <2>3, <2>4
  <1>9. Typing' /\ RowStory' /\ ~quiet'
    BY <1>3, <1>4, <1>5, <1>6, <1>7, <1>8 DEF Happening
  <1> QED BY <1>9 DEF Story, RowStory, Current, Stored

LEMMA NextTells ==
    ASSUME Knowledge, Story, Stored, [Next]_vars
    PROVE  Story' /\ Stored'
  <1>1. CASE ScanFull \/ ScanCached \/ ScanBatch
    BY <1>1, ScanTells
  <1>2. CASE Happening
    BY <1>2, HappeningTells
  <1>3. CASE UNCHANGED vars
    <2>1. /\ disk' = disk /\ sidecar' = sidecar /\ installed' = installed
          /\ setting' = setting /\ lens' = lens /\ db' = db /\ quiet' = quiet
          /\ mixed' = mixed /\ blind' = blind
      BY <1>3 DEF vars, world
    <2>2. RowStory'
      BY <2>1, RowsAlone DEF Story, RowStory
    <2>3. Typing'
      BY <2>1 DEF Story, Typing
    <2>4. Current'
      BY <2>1 DEF Story, Current, KnownFiles, OnDisk, Applicable
    <2>5. Stored'
      BY <2>1 DEF Stored
    <2> QED BY <2>2, <2>3, <2>4, <2>5 DEF Story, RowStory
  <1> QED BY <1>1, <1>2, <1>3 DEF Next

LEMMA InitTells ==
    ASSUME Init
    PROVE  Story /\ Stored
  <1>1. Typing
    BY ScanAssumption DEF Init, Typing
  <1>2. /\ DOMAIN db.runs = {} /\ db.links = {} /\ DOMAIN db.from = {}
        /\ DOMAIN db.nodes = {} /\ ~quiet
    BY DEF Init, EmptyZone
  <1> QED
    BY <1>1, <1>2 DEF Story, Rows, Faithful, Whole, Named, Current, KnownFiles, Stored

\* The rows of the scan zone tell the truth about the files they are of.
THEOREM RowsTellTheTruth == Spec => [](Story /\ Stored)
  BY InitKnows, InitTells, NextKnows, NextTells, PTL DEF Spec

-----------------------------------------------------------------------------
(***************************************************************************)
(* The rows against the files.                                             *)
(***************************************************************************)

\* What a scan of the files alone offers.
LEMMA ScratchOffers ==
    /\ \A f \in DOMAIN disk, e \in Applicable : \A m \in Extracted(f, e).links :
          [source |-> f, target |-> m.target, sources |-> {e},
           prose |-> m.prose, resolved |-> FALSE] \in AllLinks(Scratch)
    /\ \A k \in AllLinks(Scratch) : \E f \in DOMAIN disk, e \in Applicable :
          \E m \in Extracted(f, e).links :
              k = [source |-> f, target |-> m.target, sources |-> {e},
                   prose |-> m.prose, resolved |-> FALSE]
  <1>1. ~CacheOn(Scratch) /\ Scratch.prior.links = {}
    BY DEF Scratch, FullScan, CacheOn, EmptyZone
  <1>2. Walked(Scratch) = DOMAIN disk
    BY <1>1 DEF Walked, Incremental
  <1>3. \A f : Cached(Scratch, f) = {} /\ Missing(Scratch, f) = Applicable
    BY <1>1 DEF Cached, Missing, Eligible
  <1>4. \A f : Kept(Scratch, f) = {}
    BY <1>1 DEF Kept
  <1>5. ASSUME NEW k \in AllLinks(Scratch)
        PROVE  \E f \in DOMAIN disk, e \in Applicable : \E m \in Extracted(f, e).links :
                  k = [source |-> f, target |-> m.target, sources |-> {e},
                       prose |-> m.prose, resolved |-> FALSE]
    <2>1. PICK f \in DOMAIN disk : k \in Found(Scratch, f)
      BY <1>2, <1>4 DEF AllLinks
    <2>2. PICK e \in Applicable : \E m \in Extracted(f, e).links :
              k = [source |-> f, target |-> m.target, sources |-> {e},
                   prose |-> m.prose, resolved |-> FALSE]
      BY <1>3, <2>1 DEF Found
    <2> QED BY <2>2
  <1> QED BY <1>2, <1>3, <1>5, FoundOffered

\* What the rows of a quiet database say of a file is what is there to find.
LEMMA QuietFile ==
    ASSUME Story, quiet, NEW f \in KnownFiles
    PROVE  /\ f \in DOMAIN disk /\ MayHold(f, disk[f]) /\ disk[f] \in Content
           /\ Readers(f) = Applicable
           /\ \A e \in Applicable : Emitted(f, disk[f], e) = Extracted(f, e)
  <1>1. Typing /\ Current
    BY DEF Story
  <1>2. f \in DOMAIN disk /\ db.nodes[f] = OnDisk(f) /\ disk[f] \in Content
    BY <1>1 DEF Current, Typing
  <1>3. /\ DOMAIN db.runs = (DOMAIN disk) \X Applicable
        /\ \A k \in DOMAIN db.runs :
              db.runs[k] = [body |-> Body[disk[k[1]]], side |-> sidecar[k[1]],
                            setting |-> setting[k[2]]]
    BY <1>1 DEF Current
  <1>4. Applicable \subseteq Extractor
    BY <1>1 DEF Typing, Applicable
  <1>5. Readers(f) = Applicable
    BY <1>2, <1>3, <1>4 DEF Readers
  <1>6. ASSUME NEW e \in Applicable
        PROVE  Emitted(f, disk[f], e) = Extracted(f, e)
    <2>1. <<f, e>> \in DOMAIN db.runs
      BY <1>2, <1>3
    <2>2. db.runs[<<f, e>>] = [body |-> Body[disk[f]], side |-> sidecar[f],
                               setting |-> setting[e]]
      BY <1>3, <2>1
    <2> QED BY <1>2, <2>2 DEF Emitted, Extracted
  <1> QED BY <1>2, <1>5, <1>6 DEF MayHold, OnDisk

LEMMA QuietLink ==
    ASSUME Story, quiet, NEW l \in db.links, l.source \notin blind, NEW e \in l.sources
    PROVE  e \in Applicable /\ \E m \in Extracted(l.source, e).links : m.target = l.target
  <1>1. Rows /\ Faithful
    BY DEF Story
  <1>2. l.source \in KnownFiles /\ e \in Readers(l.source)
    BY <1>1 DEF Rows
  <1>3. /\ MayHold(l.source, disk[l.source]) /\ disk[l.source] \in Content
        /\ e \in Applicable
        /\ Emitted(l.source, disk[l.source], e) = Extracted(l.source, e)
    BY <1>2, QuietFile
  <1>4. FindsLink(l.source, disk[l.source], e, l.target)
    BY <1>1, <1>3 DEF Faithful
  <1> QED BY <1>3, <1>4 DEF FindsLink

\* The edge a scan of the files alone would merge out of one extractor's link.
LEMMA EdgeOf ==
    ASSUME NEW f \in DOMAIN disk, NEW e \in Applicable, NEW m \in Extracted(f, e).links
    PROVE  \E k \in Edges :
              /\ k.source = f /\ k.target = m.target
              /\ \A d \in Applicable : \A n \in Extracted(f, d).links :
                    n.target = m.target => d \in k.sources
  <1> DEFINE all == AllLinks(Scratch)
             offer(d, n) == [source |-> f, target |-> n.target, sources |-> {d},
                             prose |-> n.prose, resolved |-> FALSE]
             k == Merged(all, offer(e, m))
  <1>1. \A d \in Applicable : \A n \in Extracted(f, d).links : offer(d, n) \in all
    BY ScratchOffers
  <1>2. k \in Edges
    BY <1>1 DEF Edges
  <1>3. k.source = f /\ k.target = m.target
    BY DEF Merged
  <1>4. ASSUME NEW d \in Applicable, NEW n \in Extracted(f, d).links, n.target = m.target
        PROVE  d \in k.sources
    <2>1. offer(d, n) \in {x \in all : x.source = f /\ x.target = m.target}
      BY <1>1, <1>4
    <2>2. k.sources = UNION {x.sources : x \in {y \in all : y.source = f /\ y.target = m.target}}
      BY DEF Merged
    <2>3. d \in offer(d, n).sources
      OBVIOUS
    <2> HIDE DEF offer, k, all
    <2> QED BY <2>1, <2>2, <2>3
  <1> QED BY <1>2, <1>3, <1>4

\* Once a scan saw the project as it is, every stored link is there to see.
THEOREM NothingIsImagined == Spec => []NoPhantomLinks
  <1>1. ASSUME Story PROVE NoPhantomLinks
    <2> SUFFICES ASSUME quiet, NEW l \in db.links, l.source \notin blind
                 PROVE  \E k \in Edges : /\ k.source = l.source /\ k.target = l.target
                                         /\ l.sources \subseteq k.sources
      BY DEF NoPhantomLinks
    <2>1. l.source \in DOMAIN disk /\ l.sources # {}
      BY <1>1, QuietFile DEF Story, Rows
    <2>2. \A e \in l.sources : e \in Applicable /\
              \E m \in Extracted(l.source, e).links : m.target = l.target
      BY <1>1, QuietLink
    <2>3. PICK e \in l.sources : TRUE
      BY <2>1
    <2>4. PICK m \in Extracted(l.source, e).links : m.target = l.target
      BY <2>2
    <2>5. PICK k \in Edges :
              /\ k.source = l.source /\ k.target = m.target
              /\ \A d \in Applicable : \A n \in Extracted(l.source, d).links :
                    n.target = m.target => d \in k.sources
      BY <2>1, <2>2, EdgeOf
    <2> QED BY <2>2, <2>4, <2>5
  <1> QED BY <1>1, RowsTellTheTruth, PTL

\* An edge of a scan of the files alone, and who finds it.
LEMMA EdgeOrigin ==
    ASSUME NEW k \in Edges
    PROVE  /\ k.source \in DOMAIN disk
           /\ \A d \in k.sources : d \in Applicable /\
                 \E n \in Extracted(k.source, d).links : n.target = k.target
           /\ \A d \in Applicable : \A n \in Extracted(k.source, d).links :
                 n.target = k.target => d \in k.sources
           /\ k.prose => \E d \in Applicable : \E n \in Extracted(k.source, d).links :
                 n.target = k.target /\ n.prose
  <1> DEFINE all == AllLinks(Scratch)
             twins == {x \in all : x.source = k.source /\ x.target = k.target}
  <1>1. PICK j \in all : k = Merged(all, j)
    BY DEF Edges
  <1>2. k.source = j.source /\ k.target = j.target
    BY <1>1 DEF Merged
  <1>3. /\ k.sources = UNION {x.sources : x \in twins}
        /\ k.prose => \E x \in twins : x.prose
    BY <1>1, <1>2 DEF Merged
  <1>4. \A x \in all : \E f \in DOMAIN disk, e \in Applicable :
            \E m \in Extracted(f, e).links :
                x = [source |-> f, target |-> m.target, sources |-> {e},
                     prose |-> m.prose, resolved |-> FALSE]
    BY ScratchOffers
  <1>5. k.source \in DOMAIN disk
    BY <1>2, <1>4
  <1>6. ASSUME NEW x \in twins
        PROVE  \E e \in Applicable : \E m \in Extracted(k.source, e).links :
                   m.target = k.target /\ x.sources = {e} /\ (x.prose => m.prose)
    <2>1. x \in all /\ x.source = k.source /\ x.target = k.target
      OBVIOUS
    <2>2. PICK f \in DOMAIN disk, e \in Applicable : \E m \in Extracted(f, e).links :
              x = [source |-> f, target |-> m.target, sources |-> {e},
                   prose |-> m.prose, resolved |-> FALSE]
      BY <1>4, <2>1
    <2>3. PICK m \in Extracted(f, e).links :
              x = [source |-> f, target |-> m.target, sources |-> {e},
                   prose |-> m.prose, resolved |-> FALSE]
      BY <2>2
    <2>4. x.source = f /\ x.target = m.target /\ x.sources = {e} /\ x.prose = m.prose
      BY <2>3
    <2> QED BY <2>1, <2>4
  <1>7. ASSUME NEW d \in Applicable, NEW n \in Extracted(k.source, d).links,
               n.target = k.target
        PROVE  d \in k.sources
    <2> DEFINE x == [source |-> k.source, target |-> n.target, sources |-> {d},
                     prose |-> n.prose, resolved |-> FALSE]
    <2>1. x \in all
      BY <1>5, ScratchOffers
    <2>2. x \in twins /\ d \in x.sources
      BY <1>7, <2>1
    <2> HIDE DEF x, twins
    <2> QED BY <1>3, <2>2
  <1> HIDE DEF all, twins
  <1> QED BY <1>3, <1>5, <1>6, <1>7

\* Nor does the cache lose anything of a file whose rows are of one extraction.
THEOREM NothingIsLost == Spec => []UnmixedIsComplete
  <1>1. ASSUME Story PROVE UnmixedIsComplete
    <2>1. Whole /\ Rows
      BY <1>1 DEF Story
    <2> SUFFICES ASSUME quiet, NEW f \in DOMAIN disk, f \notin mixed, f \notin blind
                 PROVE  /\ \A k \in Edges : k.source = f /\ k.prose =>
                              \E l \in db.links : /\ l.source = f /\ l.target = k.target
                                                  /\ l.sources = k.sources
                        /\ \A e \in Applicable : ChipsOf(f, e) = Extracted(f, e).chips
      BY DEF UnmixedIsComplete, ChipsOf
    <2>2. f \in KnownFiles
      BY <1>1 DEF Story, Current
    <2>3. /\ MayHold(f, disk[f]) /\ disk[f] \in Content /\ Readers(f) = Applicable
          /\ \A e \in Applicable : Emitted(f, disk[f], e) = Extracted(f, e)
      BY <1>1, <2>2, QuietFile
    <2>4. ASSUME NEW k \in Edges, k.source = f, k.prose
          PROVE  \E l \in db.links : /\ l.source = f /\ l.target = k.target
                                     /\ l.sources = k.sources
      <3>1. PICK d \in Applicable : \E n \in Extracted(f, d).links :
                n.target = k.target /\ n.prose
        BY <2>4, EdgeOrigin
      <3>2. PICK n \in Extracted(f, d).links : n.target = k.target /\ n.prose
        BY <3>1
      <3>3. PICK l \in db.links :
                /\ l.source = f /\ l.target = n.target
                /\ \A e \in Applicable : FindsLink(f, disk[f], e, n.target) => e \in l.sources
        BY <2>1, <2>2, <2>3, <3>2 DEF Whole
      <3>4. \A e \in k.sources : e \in l.sources
        BY <2>3, <2>4, <3>2, <3>3, EdgeOrigin DEF FindsLink
      <3>5. \A e \in l.sources : e \in k.sources
        BY <1>1, <2>4, <3>2, <3>3, QuietLink, EdgeOrigin
      <3>6. l.sources = k.sources
        BY <3>4, <3>5
      <3> QED BY <3>2, <3>3, <3>6
    <2>5. \A e \in Applicable : ChipsOf(f, e) = Extracted(f, e).chips
      BY <2>1, <2>2, <2>3 DEF Whole
    <2> QED BY <2>4, <2>5
  <1> QED BY <1>1, RowsTellTheTruth, PTL

\* A virtual node is named in a file that is there.
THEOREM NoServerIsOrphaned == Spec => []ServersAreNamed
  <1>1. ASSUME Story PROVE ServersAreNamed
    <2>1. Named /\ Rows /\ Current
      BY <1>1 DEF Story
    <2> SUFFICES ASSUME quiet, NEW v \in DOMAIN db.from, NEW f, f = db.from[v]
                 PROVE  /\ f \in DOMAIN disk
                        /\ f \notin blind => \E e \in Extractor : Reads(f, e, v)
      BY DEF ServersAreNamed
    <2>2. f \in KnownFiles
      BY <2>1 DEF Rows
    <2>3. f \in DOMAIN disk /\ MayHold(f, disk[f]) /\ disk[f] \in Content
      BY <1>1, <2>2, QuietFile
    <2>4. CASE f \notin blind
      <3>1. NamedIn(v, f, disk[f])
        BY <2>1, <2>3, <2>4 DEF Named, MayHold
      <3> PICK e \in Extractor, a \in Sidecar, x \in Setting :
                /\ v \in Emits[e][<<disk[f], a, x>>].nodes
                /\ <<f, e>> \in DOMAIN db.runs =>
                      a = db.runs[<<f, e>>].side /\ x = db.runs[<<f, e>>].setting
        BY <3>1 DEF NamedIn
      <3>2. CASE e \in Applicable
        <4>1. Emitted(f, disk[f], e) = Extracted(f, e) /\ <<f, e>> \in DOMAIN db.runs
          BY <1>1, <2>2, <3>2, QuietFile DEF Readers
        <4>2. v \in Emitted(f, disk[f], e).nodes
          BY <4>1 DEF Emitted
        <4> QED BY <2>3, <3>2, <4>1, <4>2 DEF Reads
      <3>3. CASE e \notin Applicable
        BY <2>3, <3>3 DEF Reads
      <3> QED BY <3>2, <3>3
    <2> QED BY <2>3, <2>4
  <1> QED BY <1>1, RowsTellTheTruth, PTL

-----------------------------------------------------------------------------
(***************************************************************************)
(* A rescan of what nobody touched.                                        *)
(***************************************************************************)

\* It takes every file from the rows, and reads none.
LEMMA SettledFile ==
    ASSUME Story, quiet, NEW s, s = CachedScan(db), NEW f \in DOMAIN disk
    PROVE  /\ f \in Walked(s) /\ Hashes(s, f) = db.nodes[f]
           /\ Eligible(s, f) /\ Cached(s, f) = Applicable
           /\ Missing(s, f) = {} /\ FullHit(s, f)
           /\ \A e \in Applicable : Key(s, f, e) = db.runs[<<f, e>>]
  <1>1. Typing /\ Current
    BY DEF Story
  <1>2. s.prior = db /\ s.cache /\ ~s.scoped
    BY DEF CachedScan
  <1>3. CacheOn(s) /\ ~Incremental(s) /\ Injected(s) = {}
    BY <1>1, <1>2 DEF CacheOn, Incremental, Injected, Current
  <1>4. f \in Walked(s) /\ Hashes(s, f) = OnDisk(f) /\ Hashes(s, f) = db.nodes[f]
    BY <1>1, <1>3 DEF Walked, Hashes, OnDisk, Current
  <1>5. Eligible(s, f)
    BY <1>1, <1>2, <1>3, <1>4 DEF Eligible, PriorFiles, Current, KnownFiles
  <1>6. ASSUME NEW e \in Applicable
        PROVE  <<f, e>> \in DOMAIN db.runs /\ Key(s, f, e) = db.runs[<<f, e>>]
    <2>1. <<f, e>> \in DOMAIN db.runs
      BY <1>1 DEF Current
    <2>2. db.runs[<<f, e>>] = [body |-> Body[disk[f]], side |-> sidecar[f],
                               setting |-> setting[e]]
      BY <1>1, <2>1 DEF Current
    <2> QED BY <1>4, <2>1, <2>2 DEF Key, OnDisk
  <1>7. Cached(s, f) = Applicable
    BY <1>2, <1>5, <1>6 DEF Cached
  <1> QED BY <1>4, <1>5, <1>6, <1>7 DEF Missing, FullHit

\* It offers the links that are there, each of which has no twin.
LEMMA SettledOffers ==
    ASSUME Story, quiet, NEW s, s = CachedScan(db)
    PROVE  AllLinks(s) = db.links
  <1>1. Rows /\ Current
    BY DEF Story
  <1>2. s.prior = db
    BY DEF CachedScan
  <1>3. Walked(s) = DOMAIN disk
    BY DEF CachedScan, Walked, Incremental
  <1>4. \A f \in DOMAIN disk : /\ Cached(s, f) = Applicable /\ Missing(s, f) = {}
                               /\ Found(s, f) = {}
    BY SettledFile DEF Found
  <1>5. ASSUME NEW l \in db.links
        PROVE  /\ l.source \in DOMAIN disk /\ l.sources \cap Applicable = l.sources
               /\ l.sources # {}
               /\ [l EXCEPT !.sources = @ \cap Cached(s, l.source)] = l
    <2>1. l.source \in KnownFiles /\ l.sources # {} /\ l.sources \subseteq Readers(l.source)
      BY <1>1 DEF Rows
    <2>2. Readers(l.source) = Applicable /\ l.source \in DOMAIN disk
      BY <2>1, QuietFile
    <2>3. l.sources \cap Cached(s, l.source) = l.sources
      BY <1>4, <2>1, <2>2
    <2>4. l = Row(l)
      BY <1>1 DEF Rows, Row
    <2>5. [l EXCEPT !.sources = @ \cap Cached(s, l.source)]
             = [source |-> l.source, target |-> l.target,
                sources |-> l.sources \cap Cached(s, l.source),
                prose |-> l.prose, resolved |-> l.resolved]
      BY <1>1, <1>2, KeptIs
    <2> QED BY <1>4, <2>1, <2>2, <2>3, <2>4, <2>5 DEF Row
  <1>6. ASSUME NEW f \in DOMAIN disk
        PROVE  Kept(s, f) = {l \in db.links : l.source = f}
    <2> DEFINE mine == {k \in s.prior.links : /\ k.source = f
                                              /\ k.sources \cap Missing(s, f) = {}
                                              /\ k.sources \cap Cached(s, f) # {}}
    <2>1. mine = {l \in db.links : l.source = f}
      BY <1>2, <1>4, <1>5
    <2>2. \A l \in mine : [l EXCEPT !.sources = @ \cap Cached(s, f)] = l
      BY <1>5, <2>1
    <2>3. Kept(s, f) = {[l EXCEPT !.sources = @ \cap Cached(s, f)] : l \in mine}
      BY DEF Kept
    <2> HIDE DEF mine
    <2>4. Kept(s, f) = mine
      BY <2>2, <2>3
    <2> QED BY <2>1, <2>4
  <1>7. AllLinks(s) = UNION {Kept(s, f) : f \in DOMAIN disk}
    BY <1>3, <1>4 DEF AllLinks
  <1> QED BY <1>5, <1>6, <1>7

LEMMA SettledLinks ==
    ASSUME Story, Stored, quiet, NEW s, s = CachedScan(db), Paths(s) = DOMAIN db.nodes
    PROVE  Links(s) = db.links
  <1>1. AllLinks(s) = db.links
    BY SettledOffers
  <1>2. ASSUME NEW k \in db.links
        PROVE  Lifted(Merged(db.links, k), Paths(s)) = k
    <2> DEFINE l == Lifted(Merged(db.links, k), Paths(s))
    <2>1. Twins(db.links, k) = {k}
      BY DEF Twins, Kin, Stored
    <2>2. /\ l = Row(l)
          /\ l.source = k.source /\ l.target = k.target
          /\ \A e : e \in l.sources <=> e \in k.sources
          /\ l.prose \in BOOLEAN /\ l.resolved \in BOOLEAN
          /\ l.prose <=> k.prose
          /\ l.resolved <=> k.resolved \/ k.target \in Paths(s)
      BY <2>1, MergedIs
    <2>3. /\ k.prose \in BOOLEAN /\ k.resolved \in BOOLEAN
          /\ k.target \in Paths(s) => k.resolved
      BY DEF Stored
    <2>4. k = Row(k)
      BY DEF Story, Rows, Row
    <2> HIDE DEF l
    <2>5. l.sources = k.sources
      BY <2>2
    <2>6. l.prose = k.prose /\ l.resolved = k.resolved
      BY <2>2, <2>3
    <2>7. Row(l) = Row(k)
      BY <2>2, <2>5, <2>6 DEF Row
    <2>8. l = k
      BY <2>2, <2>4, <2>7
    <2> QED BY <2>8 DEF l
  <1>3. \A k \in db.links : k.resolved \/ k.prose
    BY DEF Stored
  <1> DEFINE lifted == {Lifted(Merged(db.links, k), Paths(s)) : k \in db.links}
  <1>4. lifted = db.links
    BY <1>2
  <1>5. Links(s) = Pruned(lifted)
    BY <1>1 DEF Links
  <1> HIDE DEF lifted
  <1> QED BY <1>3, <1>4, <1>5 DEF Pruned

LEMMA SettledZone ==
    ASSUME Knowledge, Story, Stored, quiet, NEW s, s = CachedScan(db), NEW w
    PROVE  Zone(s, w) = db
  <1>1. Rows /\ Current
    BY DEF Story
  <1>2. s.prior = db
    BY DEF CachedScan
  <1>3. Walked(s) = DOMAIN disk
    BY DEF CachedScan, Walked, Incremental
  <1>4. \A f \in DOMAIN disk :
            /\ Hashes(s, f) = db.nodes[f] /\ Missing(s, f) = {} /\ FullHit(s, f)
            /\ \A e \in Applicable : Key(s, f, e) = db.runs[<<f, e>>]
    BY SettledFile
  <1>5. FreshNodes(s) = {}
    BY <1>3, <1>4 DEF FreshNodes, Emitters
  <1>6. Carried(s) = DOMAIN db.from
    <2>1. \A v \in DOMAIN db.from : db.from[v] \in DOMAIN disk
      BY <1>1 DEF Rows, Current
    <2> QED BY <1>2, <1>3, <1>4, <1>5, <2>1 DEF Carried
  <1>7. Paths(s) = DOMAIN db.nodes
    BY <1>3, <1>5, <1>6 DEF Paths, Stored
  <1>8. Links(s) = db.links
    BY <1>7, SettledLinks
  <1>9. [n \in Paths(s) |-> IF n \in File THEN Hashes(s, n) ELSE VirtualHash] = db.nodes
    <2>1. \A n \in DOMAIN db.nodes : n \in File => n \in DOMAIN disk
      BY <1>1 DEF Current, KnownFiles
    <2>2. \A n \in DOMAIN db.nodes : n \notin File => n \in DOMAIN db.from
      BY DEF Stored, Knowledge, Shape
    <2>3. \A n \in DOMAIN db.nodes :
              (IF n \in File THEN Hashes(s, n) ELSE VirtualHash) = db.nodes[n]
      BY <1>4, <2>1, <2>2 DEF Stored
    <2>4. db.nodes = [n \in DOMAIN db.nodes |-> db.nodes[n]]
      BY DEF Stored
    <2> QED BY <1>7, <2>3, <2>4
  <1>10. [v \in FreshNodes(s) \cup Carried(s) |->
             IF v \in FreshNodes(s) THEN w[v] ELSE s.prior.from[v]] = db.from
    <2>1. db.from = [v \in DOMAIN db.from |-> db.from[v]]
      BY DEF Stored
    <2> QED BY <1>2, <1>5, <1>6, <2>1
  <1>11. Refs(s) = db.refs
    <2>1. db.refs = [f \in DOMAIN disk |-> db.refs[f]]
      BY DEF Stored
    <2> QED BY <1>2, <1>3, <1>4, <2>1 DEF Refs
  <1>12. Runs(s) = db.runs
    <2>1. db.runs = [k \in DOMAIN db.runs |-> db.runs[k]]
      BY DEF Stored
    <2>2. DOMAIN db.runs = (DOMAIN disk) \X Applicable
      BY <1>1 DEF Current
    <2>3. \A k \in (DOMAIN disk) \X Applicable : Key(s, k[1], k[2]) = db.runs[k]
      BY <1>4
    <2> QED BY <1>3, <2>1, <2>2, <2>3 DEF Runs
  <1>13. Chips(s) = db.chips
    <2>1. \A c \in db.chips : c.file \in DOMAIN disk /\ c.by \in installed
      BY DEF Stored
    <2>2. {q \in Walked(s) \X Applicable : q[2] \in Missing(s, q[1])} = {}
      BY <1>3, <1>4
    <2> QED BY <1>2, <1>3, <1>4, <2>1, <2>2 DEF Chips
  <1>14. Zone(s, w) = [lens |-> db.lens, nodes |-> db.nodes, from |-> db.from,
                       links |-> db.links, refs |-> db.refs, runs |-> db.runs,
                       chips |-> db.chips]
    BY <1>1, <1>8, <1>9, <1>10, <1>11, <1>12, <1>13 DEF Zone, Current
  <1>15. db = [lens |-> db.lens, nodes |-> db.nodes, from |-> db.from,
               links |-> db.links, refs |-> db.refs, runs |-> db.runs,
               chips |-> db.chips]
    BY DEF Stored
  <1> QED BY <1>14, <1>15

\* A rescan of a project nobody touched stores what is stored already.
THEOREM RescanChangesNothing == Spec => SettledIsFixpoint
  <1>1. ASSUME Knowledge, Story, Stored, quiet, ScanCached
        PROVE  db' = db
    <2>1. PICK w \in Winners(CachedScan(db)) : db' = Zone(CachedScan(db), w)
      BY <1>1 DEF ScanCached, Scan
    <2> QED BY <1>1, <2>1, SettledZone
  <1> QED
    BY <1>1, FilesAreTracked, RowsTellTheTruth, PTL DEF SettledIsFixpoint

=============================================================================
